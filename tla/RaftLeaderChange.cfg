SPECIFICATION DivergedSpec
CONSTANTS
  s1 = s1
  s2 = s2
  s3 = s3
  a = a
  b = b
  Server = {s1, s2, s3}
  Command = {a, b}
  NoVote = NoVote
  LateVoteRequests = FALSE
  MaxTerm = 4
  MaxElections = 4
  MaxLog = 2
  MaxRounds = 1
  MaxFails = 1
  MaxRestarts = 1
CHECK_DEADLOCK FALSE
CONSTRAINT Bounded
INVARIANTS LogMatching StateMachineSafety LeaderCompleteness CommitWithinLog
PROPERTIES ImplementsReplicatedLog
