CONSTANTS
    t1 = t1  t2 = t2
    None = None
    Tests = {t1, t2}
    Streams = {1, 2}
    Telemetry <- MCTelemetry
    Ttl = 2
    Rest = 1
    Linger = 2
    MaxTime = 4
SPECIFICATION Spec
INVARIANTS
    TypeOK
    OneLookAfterStop
    
PROPERTIES
    StreamsEnd
CHECK_DEADLOCK FALSE
