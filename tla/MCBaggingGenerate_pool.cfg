\* Two pool threads and the caller, three bags; worker.add may throw.
CONSTANTS
  w1 = w1  w2 = w2  c = c
  Workers <- MCTwoWorkers
  Caller = c
  MaxJobs = 3
  NumBags = 3
  AddMayFail = TRUE
SPECIFICATION Spec
INVARIANTS CommitteeComplete
PROPERTY GenerateEnds
\* generate has returned or thrown.
CHECK_DEADLOCK FALSE
