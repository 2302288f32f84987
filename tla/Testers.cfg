SPECIFICATION Spec
CONSTANTS
  N = 3
  NKV = 5
  Command = {a, b}
  Clerk = {ck}
  None = None
  MaxInstances = 2
  MaxIndex = 2
  MaxTerm = 2
  MaxOps = 1
CONSTRAINT Bounded
SYMMETRY Symmetry
INVARIANTS EndsFollowConnected ReadersNotice AgreementIsReal NoFalseAlarm LinksFollowPartition MajorityWithoutLeader
CHECK_DEADLOCK FALSE
