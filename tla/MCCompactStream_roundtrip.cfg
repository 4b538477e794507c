\* Unsigned char, x86 shifts: the round trip of compact_size_t.
CONSTANTS
  CharSigned = FALSE
  IntShiftResults = {"masked"}
  Values <- MCValues
  MaxValues = 1
SPECIFICATION Spec
INVARIANT RoundTrip
CHECK_DEADLOCK FALSE
