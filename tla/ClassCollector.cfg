SPECIFICATION Spec
CONSTANTS
  Identifier = {"A", "B", "C"}
  NoBase = NoBase
  MaxClasses = 3
  Programs <- MCPrograms
INVARIANTS
  TypeOK
  HierarchyWellFounded
  TablesAgree
  OneVerdictPerDeclaration
  AcceptsExactlyWellFormed
PROPERTY RefinesForest
CHECK_DEADLOCK FALSE
