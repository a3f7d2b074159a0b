CONSTANTS
  BYTE = 3
  GROW = 2
  InitSize = 2
  Widths = {2, 3, 5}
  Values <- MCValues
  Fragments = {1, 3}
  GrowsByBytes = FALSE
  MaxBits = 9
SPECIFICATION Spec
CHECK_DEADLOCK FALSE
INVARIANTS StaysInBlock RoundTrip EndIsKept
