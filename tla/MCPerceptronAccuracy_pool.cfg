\* One pool thread and the caller; chunks of 2 over up to 4 examples.
CONSTANTS
  w1 = w1  w2 = w2  c = c  none = none
  Workers <- MCWorkers
  Caller = c
  NoThread = none
  MaxJobs = 2
  MaxNX = 4
  ChunkSize = 2
  Scores <- MCScores
SPECIFICATION Spec
INVARIANTS NoLostUpdate
PROPERTIES AccuracyImplementsSum AccuracyReturns
\* accuracy has returned.
CHECK_DEADLOCK FALSE
