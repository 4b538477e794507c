\* worker.add may throw.
CONSTANTS
  w1 = w1  w2 = w2  c = c
  Workers <- MCTwoWorkers
  Caller = c
  MaxJobs = 2
  NumBags = 2
  AddMayFail = TRUE
SPECIFICATION Spec
INVARIANT NoJobOutlivesFrame
CHECK_DEADLOCK FALSE
