CONSTANTS
  SIZE = 3
  GROW = 2
  STREAM = 8
  MaxCells = 22
  MaxOpen = 2
SPECIFICATION Spec
CHECK_DEADLOCK FALSE
INVARIANTS TypeOK CellsInBlock ReservedApart
