SPECIFICATION FairSpec
CONSTANTS
  d1 = d1
  d2 = d2
  d3 = d3
  d4 = d4
  r1 = r1
  r2 = r2
  Request <- MCRequest
  Decl <- PairDecl
  Items <- PairItems
  WindowStart <- PairStart
  WindowEnd <- PairEnd
  ProvidedStates = {1}
  OperatorStates = {}
  OperatorMayEdit = TRUE
  UsspEnabled = TRUE
  AutoSubmit = TRUE
  Engine = "default"
INVARIANTS
  OnlyCommittedSubmitted
PROPERTIES
  RequestsSettle
CHECK_DEADLOCK FALSE
