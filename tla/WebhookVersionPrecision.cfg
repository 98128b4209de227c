SPECIFICATION Spec
CONSTANTS
    r1 = r1
    r2 = r2
    r3 = r3
    r4 = r4
    k1 = k1
    k2 = k2
    Requests = {r1}
    Keys = {k1, k2}
    KeyOf <- PatchKeys
    KindOf <- PatchKinds
    Calls = {c1, c2}
    None = None
    TicksPerMs = 2
    MaxTime = 6
    MaxChanges = 2
SYMMETRY Symmetry
CHECK_DEADLOCK FALSE
INVARIANT ConflictMeansChange
