SPECIFICATION FairSpec
CONSTANTS
  Pool = {p1, p2, p3}
  NoPool = NoPool
  Header = 1
  InitSize <- MCInitSize
  Size <- MCSize
  MaxMarks = 2
  MaxIter = 4
INVARIANTS
  TypeOK
  LiveApart
  HeaderIntact
  OverrunIsFirst
  LiveReclaimable
  ChainAllocated
PROPERTIES
  ImplementsRegions
  ReleaseEnds
\* A crashed process stops.
CHECK_DEADLOCK FALSE
