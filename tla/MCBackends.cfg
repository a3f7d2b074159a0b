CONSTANTS
  Turns = 10
  PerByte = 2
  MinLen = 0
  MaxLen = 10
  StartsC = {"labels", "packet", "ipaddr", "payload", "flagged", "expr", "items", "entry", "directory", "arrayvalue", "emptyentry", "frame", "filename", "fileentry", "ipfour", "tagged", "bits", "unaligned"}
  StartsCpp = {"labels", "packet", "ipaddr", "zone", "payload", "expr", "selected", "framed", "pointed", "emptyentry", "udp", "datagram", "frame", "filename", "fileentry", "ipfour", "tagged"}
  Generated = {"labels", "packet", "ipaddr", "zone", "payload", "flagged", "items", "selected", "arrayvalue", "udp", "datagram", "frame", "filename", "ipfour", "tagged"}
  Defs <- MCDefs
  Parsers <- MCParsers
  Constants <- MCConstants
  Models <- MCModels
  Radix <- MCRadix
  Inputs <- MCInputs
SPECIFICATION Spec
CHECK_DEADLOCK FALSE
INVARIANT AcceptsLanguage
INVARIANT TraceIsFollowed
INVARIANT BuildsReference
INVARIANT ResultOwnsItsBlocks
INVARIANT NeverOverreads
 
