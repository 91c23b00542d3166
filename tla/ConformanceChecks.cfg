CONSTANTS
    d1 = d1
    Gone = Gone  None = None
    Operations = {d1}
    Requests = {r1}
    Payloads <- MCPayloads
    Pollers = {}
    Session = d1
    Narrow = {}
    Lookback = 2
    Ussp = TRUE
    StartStates = {1, 2}
    Moves = {2, 5}
    MaxChanges = 3
    Checks = {c1}
    Aircraft <- MCAircraft
    Volumes <- MCVolumes
    Fences = {"hill"}
    Referred = {d1}
    Wired = {TRUE, FALSE}
    Forms = {"volumes", "flat", "list"}
SPECIFICATION ConformanceSpec
INVARIANTS
    ConformanceTypeOK
    StateAlarmNeedsMeddling
PROPERTIES
    
    DeviationIsTold
CHECK_DEADLOCK FALSE
