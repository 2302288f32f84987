SPECIFICATION Spec
CONSTANTS
  Server = {s1, s2, s3}
  Command = {}
  NoVote = NoVote
  LateVoteRequests = FALSE
  MaxTerm = 3
  MaxElections = 3
  MaxLog = 0
  MaxRounds = 0
  MaxFails = 0
  MaxRestarts = 1
SYMMETRY Symmetry
CHECK_DEADLOCK FALSE
INVARIANTS ElectionSafety
PROPERTIES VoteIsFinal
