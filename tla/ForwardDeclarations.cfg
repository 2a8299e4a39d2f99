SPECIFICATION Spec
CONSTANTS
  x = x
  y = y
  m = m
  new = new
  Key = {x, y, m, new}
  Programs <- MCPrograms
INVARIANT ForwardDeclarationsAccepted
CHECK_DEADLOCK FALSE
