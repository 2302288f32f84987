SPECIFICATION FairDivergedSpec
CONSTANTS
  s1 = s1
  s2 = s2
  s3 = s3
  a = a
  b = a
  Server = {s1, s2, s3}
  Command = {a}
  NoVote = NoVote
  LateVoteRequests = FALSE
  MaxTerm = 3
  MaxElections = 3
  MaxLog = 2
  MaxRounds = 2
  MaxFails = 0
  MaxRestarts = 0
CHECK_DEADLOCK FALSE
INVARIANTS IndexInvariant IndexesInRange LeaderCommitIsCovered MatchIndexIsSound
PROPERTIES EntriesGetApplied
