CONSTANTS
  Radix = 8
  MaxSize = 24
  MaxData = 1
  MaxHash = 3
  Name <- MCName
  RRType <- MCRRType
  Hash <- MCHash
  Zones <- MCZones
  Packets <- MCFarPackets
  QType <- MCQType
SPECIFICATION Spec
INVARIANT DecompressesName
