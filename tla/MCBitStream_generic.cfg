\* A 32/64-bit Data type on a build without the shrd instruction (non-Intel):
\* shrd_emulated shifts high by W when a field starts at bit 0.
CONSTANTS
  W = 4
  NativeShrd = FALSE
  OversizeResults = {"zero", "masked"}
  N = 4
  Padding = 2
  MaxFields = 3
  Strategy = "simple"
  ReadWhileWriting = FALSE
  SignedDests = {FALSE}
  InitWords <- MCInitWords
SPECIFICATION Spec
\* the caller stops once its schema is written and read; nothing waits
CHECK_DEADLOCK FALSE
INVARIANTS
  ReadBackCorrect
