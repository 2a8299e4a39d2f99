SPECIFICATION Spec
CONSTANTS
  MaxStatements = 5
  MaxDepth = 3
INVARIANTS
  TypeOK
  BlocksWellFormed
  DropsOnlyDeadCode
  GraphHasSourcePaths
  AcceptedReturnsIfLoopsRun
  RejectedCanFallOff
