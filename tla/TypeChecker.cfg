SPECIFICATION Spec
CONSTANTS
  Inputs <- MCInputs
  SymbolTables <- MCTables
  LocalName = {"x", "A"}
INVARIANTS
  InferredAgain
  CallsBindAsChecked
  AssignmentsFitTheirTarget
CHECK_DEADLOCK FALSE
