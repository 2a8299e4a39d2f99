SPECIFICATION Spec
CONSTANTS
  x = x
  y = y
  Name = {x, y}
  Programs <- MCPrograms
  MaxEvents = 2
INVARIANTS
  TypeOK
  OwnVariablesBind
  FieldsMisbindOnlyToLaterNames
  UniqueFieldsBind
  EarlierFunctionsResolve
CHECK_DEADLOCK FALSE
