\* Two layers of up to three units, added, cleared, saved and read back.
CONSTANTS
  CharSigned = TRUE
  IntShiftResults = {"masked", "zero"}
  MaxLayers = 2
  MaxUnits = 3
  Activations = {"LOGSIG"}
  LabelCounts = {2}
SPECIFICATION Spec
INVARIANTS NoScratchOverflow
