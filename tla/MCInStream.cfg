CONSTANTS
  BYTE = 3
  INT = 6
  LONG = 12
  SIZE = 12
  MaxBytes = 2
  Beyond = 1
  Readers <- MCReaders
  Inputs <- MCInputs
SPECIFICATION Spec
INVARIANTS ReadsField StaysInMemStream MovesByWidth BacktracksToMark
