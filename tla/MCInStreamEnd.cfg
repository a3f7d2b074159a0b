CONSTANTS
  BYTE = 3
  INT = 6
  LONG = 12
  SIZE = 12
  MaxBytes = 2
  Beyond = 1
  Readers <- CReaders
  Inputs <- MCInputs
SPECIFICATION Spec
INVARIANT StaysInStream
