CONSTANTS
  Texts <- MCTexts
  YYSTACKDEPTH = 8
SPECIFICATION Spec
CHECK_DEADLOCK FALSE
INVARIANT ConvertsLanguage
