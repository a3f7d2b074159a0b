CONSTANTS
  Radix = 4
  MaxSize = 16
  MaxData = 4
  MaxHash = 3
  Name <- MCName
  RRType <- MCRRType
  Hash <- MCHash
  Zones <- MCZones
  Packets <- MCPackets
  QType <- MCQType
SPECIFICATION Spec
INVARIANT TableTypeOK
INVARIANT ProbeReaches
INVARIANT EachPlacedOnce
INVARIANT CopyStaysInside
INVARIANT DecompressesName
INVARIANT AnswersAllOrNone
PROPERTY ServesNames
PROPERTY EveryPacketEnds
