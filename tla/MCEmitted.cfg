CONSTANTS
  Turns = 20
  PerByte = 1
  Texts <- MCTexts
SPECIFICATION Spec
CHECK_DEADLOCK FALSE
INVARIANT TreeIsDerived
INVARIANT WrittenReadsBack
INVARIANT StillReads
INVARIANT TreeFitsHeader
