\* Two labels, two encodings; either outcome of the oversized int shift.
CONSTANTS
  CharSigned = TRUE
  IntShiftResults = {"masked", "zero"}
  Weights <- MCWeights
  Encodings = {"OE_PROB", "OE_PM_INF"}
  LabelCounts = {2}
  FsLabels = 2
SPECIFICATION Spec
INVARIANTS PredictIsPathSum
