SPECIFICATION Spec
CONSTANTS
  Token <- MCToken
  Files <- MCFiles
  MaxFree = 4
INVARIANTS
  TypeOK
  NeverPastEnd
  ParsesExactlyTheGrammar
  TreeIsTheProgram
PROPERTY Terminates
CHECK_DEADLOCK FALSE
