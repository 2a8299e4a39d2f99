SPECIFICATION Spec
CONSTANTS
  Texts <- MCTexts
  Base = 2
  IntMax = 1
  RealMax = 1
  RealScale = 1
  RealGrain = 2
  MaxLength = 4
INVARIANTS
  TypeOK
  TokensCoverTheText
  LexemesAreLongest
  SpansPointAtTheText
CHECK_DEADLOCK FALSE
