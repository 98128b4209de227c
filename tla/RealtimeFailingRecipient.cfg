SPECIFICATION MCSpec
CONSTANTS
    Scenarios = {"recipients"}
    Sockets = {c1, c2}
    Failing = {c1}
    Streams = {"odd", "even"}
    StreamOf <- Alternating
    Batch = 2
    MaxSeq = 2
    MaxBurns = 0
    MaxExpiries = 0
    MaxFaults = 0
    MaxLost = 0
    MaxConnects = 1
CHECK_DEADLOCK FALSE
PROPERTY EveryEventIsSent
