SPECIFICATION Spec
CONSTANTS
  x = x
  y = y
  Name = {x, y}
  Programs <- MCPrograms
  MaxEvents = 1
INVARIANT ForwardReferencesResolve
CHECK_DEADLOCK FALSE
