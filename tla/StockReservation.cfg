SPECIFICATION Spec
CONSTANTS
    l1 = l1
    l2 = l2
    b3 = b3
    b1 = b1
    b2 = b2
    out = out
    in = in
    line = line
    bl = bl
    Levels = {l1, l2}
    Batches = {b1, b2, b3}
    LevelOf <- TwoLevels
    Initial <- Quantities
    IdOrder <- Order
    LotTracked = TRUE
    Moves = {out, in}
    MoveFrom <- From
    MoveTo <- To
    MoveQty <- Moved
    Lines = {line}
    NeedOf <- Ordered
    Deliveries = {bl}
    LineOf <- ForLine
    Keys = {k1, k2}
    Txs = {t1, t2}
    None = None
    MaxQty = 1
    MaxResvs = 3
SYMMETRY Symmetry
CHECK_DEADLOCK FALSE
INVARIANT ReservedIsCovered
INVARIANT NoOvercommit
INVARIANT LedgerMatches
INVARIANT OneEffectPerKey
INVARIANT ShippedFromReservation
