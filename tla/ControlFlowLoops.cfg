SPECIFICATION Spec
CONSTANTS
  MaxStatements = 3
  MaxDepth = 2
INVARIANTS
  AcceptedReturnsOnAllPaths
