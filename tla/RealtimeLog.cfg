SPECIFICATION Spec
CONSTANTS
    k1 = k1
    k2 = k2
    k3 = k3
    k4 = k4
    a = a
    b = b
    OutboxKeys = {k1, k2, k3, k4}
    DirectKeys = {}
    Poisoned = {k3}
    Streams = {a, b}
    StreamOf <- TwoStreams
    Txs = {t1, t2}
    Flushers = {f1, f2}
    None = None
    MaxSeq = 4
    PruneBatch = 1
    MaxTries = 2
    MaxFaults = 1
    MaxCorruptions = 0
SYMMETRY Symmetry
CHECK_DEADLOCK FALSE
INVARIANT NoLockCycle
INVARIANT OrdinalsAreDense
INVARIANT StreamOrder
INVARIANT PublishedIsLogged
