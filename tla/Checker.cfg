SPECIFICATION Spec
CONSTANTS
  Operation <- MCOperation
  MaxOps = 3
  WordSize = 2
  This = this
  Others = {p1, p2}
INVARIANTS VerdictIsRight ListIsRight PartialsAreRight ResultIsRight NoRaceOnLongest
PROPERTIES Returns
CHECK_DEADLOCK FALSE
