SPECIFICATION FairSpec
CONSTANTS
    k1 = k1
    k2 = k2
    k3 = k3
    k4 = k4
    a = a
    b = b
    OutboxKeys = {k1, k2}
    DirectKeys = {d1}
    Poisoned = {k2}
    Streams = {a}
    StreamOf <- OneStream
    Txs = {t1}
    Flushers = {f1, f2}
    None = None
    MaxSeq = 5
    PruneBatch = 1
    MaxTries = 2
    MaxFaults = 2
    MaxCorruptions = 1
CHECK_DEADLOCK FALSE
PROPERTY ImplementsEventLog
PROPERTY EveryEventIsPublished
