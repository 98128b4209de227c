SPECIFICATION FairSpec
CONSTANTS
    Rows = {1, 2, 3}
    PublicRows = {1, 3}
    Writers = {w1, w2}
    Projectors = {p1, p2}
    Subs = {s1, s2}
    None = None
    TicksPerMs = 2
    Limit = 2
    TxRows = 2
    MaxTime = 3
    MaxAborts = 1
    AlwaysActive = {s1}
INVARIANT OneDeliveryPerEvent
INVARIANT OnlyLateEventsAreSkipped
PROPERTY CursorNeverRewinds
PROPERTY OldEventsAreNotDelivered
PROPERTY EveryEventIsDelivered
