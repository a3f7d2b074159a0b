CONSTANTS
  Turns = 20
  PerByte = 1
  Texts <- MCTexts
SPECIFICATION Spec
CHECK_DEADLOCK FALSE
INVARIANT RejectsOnlyForeign
