\* Two variables, up to three examples in chunks of two.
CONSTANTS
  NV = 2
  MaxNX = 3
  ChunkSize = 2
  Values = {1, 2}
SPECIFICATION Spec
INVARIANTS NormalEquations
\* Both products have been returned.
CHECK_DEADLOCK FALSE
