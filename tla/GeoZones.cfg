SPECIFICATION Spec
CONSTANTS
  a = a
  b = b
  c1 = c1
  c2 = c2
  c3 = c3
  o1 = o1
  Source <- MCSource
  Harness <- MCHarness
  Operator <- MCOperator
  Outcome <- MCOutcome
  Past <- MCPast
  Shape <- MCShape1
  Document <- MCDocument1
  Place <- MCPlace
INVARIANTS
  TypeOK
  DeletedZonesAreGone
  OutcomeIsTold
CHECK_DEADLOCK FALSE
