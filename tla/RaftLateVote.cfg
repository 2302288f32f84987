SPECIFICATION Spec
CONSTANTS
  Server = {s1, s2, s3}
  Command = {}
  NoVote = NoVote
  LateVoteRequests = TRUE
  MaxTerm = 3
  MaxElections = 4
  MaxLog = 0
  MaxRounds = 0
  MaxFails = 0
  MaxRestarts = 0
SYMMETRY Symmetry
CHECK_DEADLOCK FALSE
CONSTRAINT OneVoteRequest
INVARIANTS ElectionSafety
