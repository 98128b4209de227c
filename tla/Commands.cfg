SPECIFICATION MCSpec
CONSTANTS
    r1 = r1
    r2 = r2
    r3 = r3
    r4 = r4
    k1 = k1
    k2 = k2
    Requests = {r1, r2, r3, r4}
    Keys = {k1, k2}
    KeyOf <- MixedKeys
    KindOf <- MixedKinds
    Calls = {c1, c2, c3}
    None = None
    TicksPerMs = 2
    MaxTime = 8
    MaxChanges = 2
    b1 = b1
    b2 = b2
    i1 = i1
    i2 = i2
    i3 = i3
    legacy1 = legacy1
    legacy2 = legacy2
    Batches = {b1, b2}
    Lines = {i1, i2, i3}
    BatchOf <- InTwoBatches
    LegacyKeyOf <- SharedKey
    LegacyKeys = {legacy1, legacy2}
    Elders = {}
    NoTarget = NoTarget
    Workers = {w1, w2}
    ClaimLimit = 1
    MaxPreviews = 2
    MaxConfirms = 2
    MaxImportFaults = 1
    Txs = {t1, t2}
    EventKeys = {k1, k2}
    NoTx = NoTx
    MaxFaults = 3
SYMMETRY Symmetry
CHECK_DEADLOCK FALSE
INVARIANT AtMostOneEffect
INVARIANT OneSecretPerRotation
INVARIANT LostOnlyAfterRewind
INVARIANT OneClientPerKey
INVARIANT CompletedIsComplete
INVARIANT DoneIsInEffect
INVARIANT FailedMissesOnlyLateCommits
