SPECIFICATION MCSpec
CONSTANTS
    Subs = {s1}
    Deliveries = {d1, d2}
    Original = d1
    Helper = w2
    Tokens = {t1, t2, t3}
    NoToken = NoToken
    NoSub = NoSub
    NoDelivery = NoDelivery
    Workers = {w1, w2}
    MaxAttempts = 3
    CycleBatch = 1
    LeaseTicks = 1
    BaseDelay = 1
    MaxDelay = 2
    AgeCap = 1
    MaxCrashes = 1
    MaxOverruns = 1
INVARIANT TypeOK
INVARIANT ConstraintsHold
INVARIANT AttemptTrail
INVARIANT OneLeaseHolder
INVARIANT NoUnprovokedDuplicate
PROPERTY ImplementsContract
PROPERTY EveryDeliveryEnds
