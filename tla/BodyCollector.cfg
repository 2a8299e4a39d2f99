SPECIFICATION Spec
CONSTANTS
  x = x
  y = y
  m = m
  new = new
  Key = {x, y, m, new}
  Programs <- MCPrograms
INVARIANTS
  TypeOK
  PositionsAgree
  OwnedUnlessConstructor
  AcceptsExactlyWellFormed
CHECK_DEADLOCK FALSE
