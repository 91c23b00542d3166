CONSTANTS
    d1 = d1  d2 = d2
    Gone = Gone  None = None
    Operations = {d1, d2}
    Requests = {r1}
    Payloads <- MCPayloads
    Pollers = {p1, p2}
    Session = d1
    Narrow = {p2}
    Lookback = 2
    Ussp = FALSE
    StartStates = {1}
    Moves = {5}
    MaxChanges = 1
SPECIFICATION Spec
INVARIANTS
    RefusedFlightsStayOut
    StampedBeforeStored
    

    
CHECK_DEADLOCK FALSE
