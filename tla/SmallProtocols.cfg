SPECIFICATION MCSpec
CONSTANTS
    Entities = {e1}
    Holders = {h1, h2}
    LockTxs = {x1, x2}
    Sweepers = {p1}
    Absent = Absent
    Ttl = 2
    SweepBatch = 1
    MaxClock = 3
    MaxIds = 2
    MaxLockFaults = 1
    Users = {1}
    Conns = {c1, c2}
    UserOf <- Of
    Sweep = Sweep
    NoCall = NoCall
    MaxPresenceFaults = 1
    CompCalls = {r1, r2}
    CompKeys = {i1}
    Bodies = {b1, b2}
    NoCompCall = NoCompCall
    MaxBuilt = 3
    MaxCompFaults = 1
CHECK_DEADLOCK FALSE
INVARIANT GrantsAreExclusive
INVARIANT EventsMatchRows
INVARIANT AnnouncedIsTrue
INVARIANT OneDraftPerKey
PROPERTY ExpiredLocksEnd
PROPERTY PresenceConverges
