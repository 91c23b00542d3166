SPECIFICATION Spec
CONSTANTS
  Plan = {p1, p2}
  Peer = {}
  Request = {"edit", "delete"}
  Asks <- MCAsks
  Deleters = {}
  Area <- MCArea
  Near <- MCNear
  Meets <- MCMeets
  MaxOvn = 2
  MaxZone = 1
PROPERTIES
  ActivatesClear
CHECK_DEADLOCK FALSE
