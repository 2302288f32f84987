SPECIFICATION FairSpec
CONSTANTS
  w1 = w1
  w2 = w2
  w3 = w3
  Worker = {w1, w2, w3}
  NMap = 2
  NReduce = 2
  Partition <- MCPartition
  Env <- MCEnv
INVARIANTS TypeOK OneWorkerPerTask ReduceAfterMap ExitOnlyWhenDone OutputWhenExited
PROPERTIES FinishedIsFinal JobEnds
