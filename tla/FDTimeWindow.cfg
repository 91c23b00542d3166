SPECIFICATION Spec
CONSTANTS
  d1 = d1
  d2 = d2
  d3 = d3
  d4 = d4
  r1 = r1
  r2 = r2
  Request <- MCRequest
  Decl <- BulkDecl
  Items <- BulkItems
  WindowStart <- BulkStart
  WindowEnd <- BulkEnd
  ProvidedStates = {}
  OperatorStates = {1, 5}
  OperatorMayEdit = TRUE
  UsspEnabled = FALSE
  AutoSubmit = TRUE
  Engine = "time_window"
INVARIANTS
  TypeOK
  SettledConflicts
PROPERTIES
  AdmitsNoSettledConflict
  RegistrySpec
CHECK_DEADLOCK FALSE
