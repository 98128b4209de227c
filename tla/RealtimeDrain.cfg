SPECIFICATION MCSpec
CONSTANTS
    Scenarios = {"recipients", "expiry", "barrier"}
    Sockets = {c1, c2}
    Failing = {c2}
    Streams = {"odd", "even"}
    StreamOf <- Alternating
    Batch = 2
    MaxSeq = 3
    MaxBurns = 1
    MaxExpiries = 1
    MaxFaults = 1
    MaxLost = 1
    MaxConnects = 1
CHECK_DEADLOCK FALSE
 
INVARIANT NoDuplicateEmission
 
