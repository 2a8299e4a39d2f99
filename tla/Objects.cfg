SPECIFICATION Spec
CONSTANTS
  Programs <- MCPrograms
  MaxObjects = 6
  MaxFrames = 4
  MaxSteps = 5
INVARIANTS
  InsideTheObject
  InitializedWhenRead
  TableOfItsClass
  ValuesNotShared
CHECK_DEADLOCK FALSE
