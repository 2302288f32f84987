SPECIFICATION Spec
CONSTANTS
  Clerk = {c1, c2}
  Key = {x}
  Type = {"Get", "Put", "Append"}
  N = 2
  NoOp = NoOp
  MaxCalls = 2
  MaxTries = 2
  MaxIndex = 3
  MaxRestarts = 1
CONSTRAINT Bounded
INVARIANTS TypeOK ExactlyOnce AnswersAgree
PROPERTIES Linearizable
SYMMETRY Symmetry
CHECK_DEADLOCK FALSE
