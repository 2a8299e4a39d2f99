SPECIFICATION TablesSpec
CONSTANTS
  Signature = {f, g, k}
  NumClasses = 3
  Hierarchies <- MCHierarchies
INVARIANTS
  SlotsAreInherited
  OneSlotPerSignature
  DispatchReachesNearestOverride
CHECK_DEADLOCK FALSE
