SPECIFICATION Spec
CONSTANTS
  N = 3
  MaxChanges = 1
  MaxLost = 1
PROPERTIES CallReturns
CHECK_DEADLOCK FALSE
