SPECIFICATION Spec
CONSTANTS
  Peer = {p1}
  Me = me
  MaxElections = 1
  MaxRounds = 1
  MaxRequests = 1
  MaxCommands = 1
  MaxIndex = 2
INVARIANTS NoDeadlock
PROPERTIES CommandsReturn
CHECK_DEADLOCK FALSE
