\* Signed char (x86), either outcome of the oversized int shift.
CONSTANTS
  CharSigned = TRUE
  IntShiftResults = {"masked", "zero"}
  Values <- MCValues
  MaxValues = 3
SPECIFICATION Spec
INVARIANTS ReaderInSync
\* The caller stops after its last read.
CHECK_DEADLOCK FALSE
