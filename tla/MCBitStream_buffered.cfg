\* Buffered_Mem_Buffer reader over a 8/16-bit Data type (promoted shifts,
\* emulated shrd); the reader is constructed after the writer is done.
CONSTANTS
  W = 4
  NativeShrd = FALSE
  OversizeResults = {"zero"}
  N = 4
  Padding = 2
  MaxFields = 3
  Strategy = "buffered"
  ReadWhileWriting = FALSE
  SignedDests = {FALSE}
  InitWords <- MCInitWords
SPECIFICATION Spec
\* the caller stops once its schema is written and read; nothing waits
CHECK_DEADLOCK FALSE
INVARIANTS
  TypeOK
  NoOutOfBoundsRead
  ReadBackCorrect
  MemoryHoldsStream
