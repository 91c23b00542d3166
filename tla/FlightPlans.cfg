SPECIFICATION Spec
CONSTANTS
  Plan = {p1}
  Peer = {q1}
  Request = {"edit", "delete"}
  Asks <- MCAsks
  Deleters = {"delete"}
  Area <- MCArea
  Near <- MCNear
  Meets <- MCMeets
  MaxOvn = 2
  MaxZone = 1
INVARIANTS
  TypeOK
  NoIntentWithoutRow
PROPERTIES
  DecidedOnCurrentPeers
  AirspaceSpec
CHECK_DEADLOCK FALSE
