CONSTANTS
  Host = {1, 2}
  Mac <- MCMac
  Ip <- MCIp
  NetBroadcast = "ip255"
  Word = 16
  Strange <- MCStrange
  MaxStrange = 2
  MaxWire = 2
SPECIFICATION Spec
INVARIANT SentParses
PROPERTY WireFallsSilent
CHECK_DEADLOCK FALSE
