CONSTANTS
  MaxThrows = 4
SPECIFICATION Spec
PROPERTIES NoTraceAfterDestruction
