SPECIFICATION Spec
CONSTANTS
    Rows = {1, 2}
    PublicRows = {1, 2}
    Writers = {w1, w2}
    Projectors = {p1}
    Subs = {s1}
    None = None
    TicksPerMs = 1
    Limit = 2
    TxRows = 1
    MaxTime = 4
    MaxAborts = 0
    AlwaysActive = {s1}
INVARIANT NoEventSkipped
