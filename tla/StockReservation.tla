-------------------------- MODULE StockReservation --------------------------
(* Stock levels, batches, reservations, movements and deliveries of one     *)
(* article.                                                                 *)
(*                                                                          *)
(* Every command is a PostgreSQL transaction that locks the rows it needs,  *)
(* checks, writes and commits.  Its writes are invisible before the COMMIT   *)
(* and its rows locked until then, so the writes are one step; taking each   *)
(* lock is a step of its own.  What a transaction reads without a lock, it   *)
(* reads when it begins.  Shipping runs SERIALIZABLE: its snapshot is taken  *)
(* before it waits for anything, and a row changed since fails it.  A        *)
(* refusal, an error and a deadlock's victim all end in ROLLBACK.            *)
EXTENDS Integers, Sequences, FiniteSets, SequencesExt

CONSTANTS
    Levels,      \* stock_levels: one article at its locations
    Batches,     \* stock_batches: the lots of a level
    LevelOf,     \* the level of each batch
    Initial,     \* what every level and batch holds at first
    IdOrder,     \* levels, then batches, each by identifier
    LotTracked,  \* articles.lot_tracking: every position names a lot
    Moves,       \* stock_movements, drafted before the model starts
    MoveFrom, MoveTo, MoveQty,
    Lines,       \* order lines
    NeedOf,      \* the quantity of each order line
    Deliveries,  \* bon_livraison, of one line and one allocation each
    LineOf,      \* the order line of each delivery
    Keys,        \* idempotency keys
    Txs,         \* database connections
    None,
    MaxQty,      \* bound: quantity of a reservation created by hand
    MaxResvs     \* bound: reservations

Stock == Levels \union Batches
Positions == IF LotTracked THEN Batches ELSE Stock
Rows == Stock \union Moves \union Deliveries \union Keys \union 1 .. MaxResvs

\* The sum of qty[x] over the elements x of S, as the number of their units.
SumOver(S, qty) == Cardinality(UNION {{x} \X (1 .. qty[x]) : x \in S})

BatchesOf(l) == {b \in Batches : LevelOf[b] = l}

ASSUME PlaceAssumption ==
    /\ LevelOf \in [Batches -> Levels]
    /\ Levels \intersect Batches = {}
    /\ Initial \in [Stock -> Nat]
    /\ \A l \in Levels : SumOver(BatchesOf(l), Initial) <= Initial[l]
    /\ IdOrder \in Seq(Stock)
    /\ Range(IdOrder) = Stock
    /\ LotTracked \in BOOLEAN
ASSUME MoveAssumption ==
    /\ MoveFrom \in [Moves -> Positions \union {None}]
    /\ MoveTo \in [Moves -> Positions \union {None}]
    /\ MoveQty \in [Moves -> Nat \ {0}]
ASSUME OrderAssumption ==
    /\ NeedOf \in [Lines -> Nat \ {0}]
    /\ LineOf \in [Deliveries -> Lines]
    /\ Lines \intersect Deliveries = {}
ASSUME NoneAssumption ==
    None \notin Stock \union Moves \union Lines \union Deliveries \union Keys \union Txs
\* Rows of different tables are different rows.
ASSUME RowAssumption ==
    /\ (Deliveries \union 1 .. MaxResvs) \intersect (Stock \union Moves \union Keys) = {}
    /\ Deliveries \intersect 1 .. MaxResvs = {}
ASSUME BoundAssumption == {MaxQty, MaxResvs} \subseteq Nat \ {0}

VARIABLES
    total, reserved,   \* qty_total and qty_reserved of levels and batches
    resv,              \* stock_reservations
    posted,            \* movements with status POSTED
    delivery,          \* bon_livraison and its allocation
    request,           \* what the client sends under each key
    receipts,          \* stock_command_receipts, bon_livraison_command_receipts
    effects,           \* how often each key took effect
    rowLock,           \* the transaction that holds each row
    run,               \* the transaction of each connection
    stale              \* rows committed by others since a snapshot was taken

stockVars == <<total, reserved>>
commandVars == <<request, receipts, effects>>
vars == <<stockVars, resv, posted, delivery, commandVars, rowLock, run, stale>>

NoDelivery == [status |-> "NONE", pos |-> None, qty |-> 0, resv |-> 0]

Init ==
    /\ total = Initial
    /\ reserved = [r \in Stock |-> 0]
    /\ resv = <<>>
    /\ posted = {}
    /\ delivery = [d \in Deliveries |-> NoDelivery]
    /\ request = [k \in Keys |-> None]
    /\ receipts = {}
    /\ effects = [k \in Keys |-> 0]
    /\ rowLock = [r \in Rows |-> None]
    /\ run = [t \in Txs |-> None]
    /\ stale = [t \in Txs |-> {}]

------------------------------------------------------------------------------
(* Positions and quantities.                                                *)

Level(p) == IF p \in Batches THEN LevelOf[p] ELSE p
Touched(p) == {p, Level(p)}
Available(r) == total[r] - reserved[r]

\* f with n added at position p and at its level.
Add(f, p, n) == [r \in Stock |-> IF r \in Touched(p) THEN f[r] + n ELSE f[r]]

\* lockStockStates: levels by identifier, then batches by identifier.
InIdOrder(S) == SelectSeq(IdOrder, LAMBDA r : r \in S)
StockPath(p) == IF p \in Batches THEN <<LevelOf[p], p>> ELSE <<p>>

Active(i) == i \in DOMAIN resv /\ resv[i].status = "ACTIVE"

NewReservation(p, n, source) ==
    [pos |-> p, qty |-> n, source |-> source, status |-> "ACTIVE", version |-> 1, usedBy |-> None]

\* The ACTIVE reservation that the partial unique index lets a source have per lot.
Twins(rs, source, p) ==
    {i \in DOMAIN rs : p \in Batches /\ rs[i].status = "ACTIVE"
                       /\ rs[i].source = source /\ rs[i].pos = p}

\* fn_prepare_stock_reservation: every change of a reservation counts its version up.
End(rs, i, status, user) ==
    [rs EXCEPT ![i].status = status, ![i].usedBy = user, ![i].version = @ + 1]

------------------------------------------------------------------------------
(* Transactions.                                                            *)

Idle(t) == run[t] = None

\* BEGIN, with the rows still to be locked; the first lock is had at once,
\* since a transaction that waits for it has read nothing.
Start(t, first, req, key, path, own) ==
    /\ Idle(t)
    /\ rowLock[first] = None
    /\ rowLock' = [rowLock EXCEPT ![first] = t]
    /\ run' = [run EXCEPT ![t] = [req |-> req, key |-> key, todo |-> path, own |-> own]]
    /\ stale' = [stale EXCEPT ![t] = {}]
    /\ UNCHANGED <<stockVars, resv, posted, delivery, commandVars>>

\* Defect: rows changed since the snapshot are taken as they are.
SnapshotIgnored(t, r) == TRUE

\* Locking a row that has changed since the snapshot fails with 40001.
SnapshotHolds(t, r) == run[t].req.kind = "ship" => r \notin stale[t]

Lock(t) ==
    /\ ~Idle(t)
    /\ run[t].todo # <<>>
    /\ LET r == Head(run[t].todo)
       IN  /\ rowLock[r] \in {None, t}
           /\ SnapshotHolds(t, r)
           /\ rowLock' = [rowLock EXCEPT ![r] = t]
    /\ run' = [run EXCEPT ![t].todo = Tail(@)]
    /\ UNCHANGED <<stockVars, resv, posted, delivery, commandVars, stale>>

Ready(t, kind) == ~Idle(t) /\ run[t].todo = <<>> /\ run[t].req.kind = kind

\* The transaction is over, after writing the rows W.
Leave(t, W) ==
    /\ run' = [run EXCEPT ![t] = None]
    /\ rowLock' = [r \in Rows |-> IF rowLock[r] = t THEN None ELSE rowLock[r]]
    /\ stale' = [u \in Txs |-> IF u = t \/ Idle(u) THEN {} ELSE stale[u] \union W]

\* completeStockCommand.
Receipt(k) ==
    /\ receipts' = receipts \union {k}
    /\ effects' = [effects EXCEPT ![k] = @ + 1]
    /\ UNCHANGED request

RollBack(t) ==
    /\ ~Idle(t)
    /\ Leave(t, {})
    /\ UNCHANGED <<stockVars, resv, posted, delivery, commandVars>>

------------------------------------------------------------------------------
(* Commands under an idempotency key.                                       *)

Requests ==
    [kind : {"create"}, pos : Positions, qty : 1 .. MaxQty]
    \union {[kind |-> "release", resv |-> i, version |-> resv[i].version] : i \in DOMAIN resv}
    \union {[kind |-> "consume", resv |-> i, version |-> resv[i].version, move |-> m]
                : i \in DOMAIN resv, m \in Moves}
    \union [kind : {"post"}, move : Moves]
    \union [kind : {"ship"}, delivery : Deliveries]

\* The client decides what to send; it may send it again at any time.
Send(k) ==
    /\ request[k] = None
    /\ \E q \in Requests : request' = [request EXCEPT ![k] = q]
    /\ UNCHANGED <<stockVars, resv, posted, delivery, receipts, effects, rowLock, run, stale>>

\* Where a movement takes from and where it puts.
Legs(m) == {MoveFrom[m], MoveTo[m]} \ {None}

\* The rows that a stock command locks after its key.
Path(q) ==
    CASE q.kind = "create" -> StockPath(q.pos)
      [] q.kind \in {"release", "consume"} -> <<q.resv>> \o StockPath(resv[q.resv].pos)
      [] q.kind = "post" -> <<q.move>> \o InIdOrder(UNION {Touched(p) : p \in Legs(q.move)})

\* Defect: the receipt is not looked up.
FreshAlways(k) == TRUE

\* beginStockCommand: a key with a receipt is answered from it.
Fresh(k) == k \notin receipts

BeginCommand(t, k) ==
    /\ request[k] # None
    /\ request[k].kind # "ship"
    /\ Fresh(k)
    /\ Start(t, k, request[k], k, Path(request[k]), 0)

\* repoCreateStockReservation: only the row of the position itself is checked.
Create(t) ==
    LET q == run[t].req
    IN  /\ Ready(t, "create")
        /\ q.qty <= Available(q.pos)
        /\ Len(resv) < MaxResvs
        /\ reserved' = Add(reserved, q.pos, q.qty)
        /\ resv' = Append(resv, NewReservation(q.pos, q.qty, None))
        /\ Receipt(run[t].key)
        /\ Leave(t, Touched(q.pos))
        /\ UNCHANGED <<total, posted, delivery>>

\* Defect: a reservation that has moved on is ended by the version it had.
MayEndByVersion(q) == resv[q.resv].version >= q.version

\* Under the lock: still ACTIVE, and of the version that the client has seen.
MayEnd(q) ==
    /\ resv[q.resv].status = "ACTIVE"
    /\ resv[q.resv].version = q.version

\* The movement that a reservation is consumed by; what else it served is not asked.
Serves(m, r) ==
    /\ m \in posted
    /\ MoveFrom[m] = r.pos
    /\ MoveTo[m] = None
    /\ MoveQty[m] >= r.qty

\* transitionReservation.
EndReservation(t, kind) ==
    LET q == run[t].req
        r == resv[q.resv]
    IN  /\ Ready(t, kind)
        /\ MayEnd(q)
        /\ reserved[r.pos] >= r.qty
        /\ kind = "consume" => Serves(q.move, r)
        /\ reserved' = Add(reserved, r.pos, -r.qty)
        /\ resv' = IF kind = "release"
                   THEN End(resv, q.resv, "RELEASED", None)
                   ELSE End(resv, q.resv, "CONSUMED", q.move)
        /\ Receipt(run[t].key)
        /\ Leave(t, Touched(r.pos) \union {q.resv})
        /\ UNCHANGED <<total, posted, delivery>>

\* Defect: a movement is posted whatever its status is.
MayPostAlways(m) == TRUE

MayPost(m) == m \notin posted

\* repoPostMovement; the trigger books the movement on level and batch.
PostMovement(t) ==
    LET m == run[t].req.move
        Taken == IF MoveFrom[m] = None THEN total ELSE Add(total, MoveFrom[m], -MoveQty[m])
    IN  /\ Ready(t, "post")
        /\ MayPost(m)
        /\ MoveFrom[m] # None => MoveQty[m] <= Available(MoveFrom[m])
        /\ total' = IF MoveTo[m] = None THEN Taken ELSE Add(Taken, MoveTo[m], MoveQty[m])
        /\ posted' = posted \union {m}
        /\ Receipt(run[t].key)
        /\ Leave(t, {m} \union UNION {Touched(p) : p \in Legs(m)})
        /\ UNCHANGED <<reserved, resv, delivery>>

------------------------------------------------------------------------------
(* Orders.                                                                  *)

\* A level is a candidate of its own only if it has no batch.
Candidate(p) == Available(p) > 0 /\ (p \in Batches \/ BatchesOf(p) = {})

Worth(n) == n > 0

Rank(p) == CHOOSE i \in DOMAIN IdOrder : IdOrder[i] = p

\* planDeliveryAllocations: position by position, as much as is free, until
\* nothing is wanted any more.
Plan(need) ==
    LET free == {p \in Stock : Candidate(p)}
        Offer == [p \in Stock |-> Available(p)]
        Wanted(p) == need - SumOver({x \in free : Rank(x) < Rank(p)}, Offer)
    IN  [p \in {x \in free : Worth(Wanted(x))} |->
            IF Wanted(p) < Offer[p] THEN Wanted(p) ELSE Offer[p]]

\* The order's stock is analysed and its plan made without any lock; level and
\* batch of each allocation are then locked in the order of the plan.
BeginOrder(t, l) ==
    LET items == Plan(NeedOf[l])
        order == InIdOrder(DOMAIN items)
    IN  /\ Idle(t)
        /\ SumOver(DOMAIN items, items) = NeedOf[l]
        /\ run' = [run EXCEPT ![t] =
               [req |-> [kind |-> "order", line |-> l, items |-> items], key |-> None, own |-> 0,
                todo |-> FlattenSeq([i \in DOMAIN order |-> StockPath(order[i])])]]
        /\ stale' = [stale EXCEPT ![t] = {}]
        /\ UNCHANGED <<stockVars, resv, posted, delivery, commandVars, rowLock>>

\* What the plan takes from row r.
Planned(items, r) == SumOver({p \in DOMAIN items : r \in Touched(p)}, items)

\* Defect: the plan is not checked against the locked rows.
PlanTrusted(items) == TRUE

\* Level and batch are checked under their locks, allocation by allocation.
PlanHolds(items) == \A r \in Stock : Planned(items, r) > 0 => Planned(items, r) <= Available(r)

\* The reservations that the line already has in the lots of the plan.
Hit(rs, line, items) == UNION {Twins(rs, line, p) : p \in DOMAIN items}

\* INSERT ... ON CONFLICT DO UPDATE: a second allocation of a line and a lot is
\* added to the first.
Upsert(rs, line, items) ==
    LET new == SetToSeq({p \in DOMAIN items : Twins(rs, line, p) = {}})
    IN  [i \in DOMAIN rs |->
            IF i \in Hit(rs, line, items)
            THEN [rs[i] EXCEPT !.qty = @ + items[rs[i].pos], !.version = @ + 1]
            ELSE rs[i]]
        \o [j \in DOMAIN new |-> NewReservation(new[j], items[new[j]], line)]

\* reserveCommandeStockForLaterDelivery.
OrderReserve(t) ==
    LET q == run[t].req
        hit == Hit(resv, q.line, q.items)
    IN  /\ Ready(t, "order")
        /\ PlanHolds(q.items)
        /\ \A i \in hit : rowLock[i] = None
        /\ Len(Upsert(resv, q.line, q.items)) <= MaxResvs
        /\ reserved' = [r \in Stock |-> reserved[r] + Planned(q.items, r)]
        /\ resv' = Upsert(resv, q.line, q.items)
        /\ Leave(t, hit \union {r \in Stock : Planned(q.items, r) > 0})
        /\ UNCHANGED <<total, posted, delivery, commandVars>>

------------------------------------------------------------------------------
(* Deliveries.                                                              *)

\* A delivery is created from what its order line has reserved.
BeginAttach(t, d) ==
    \E i \in DOMAIN resv :
        /\ delivery[d].status = "NONE"
        /\ Active(i) /\ resv[i].source = LineOf[d]
        /\ rowLock[d] = None
        /\ Start(t, i, [kind |-> "attach", delivery |-> d, resv |-> i], None,
                 <<Level(resv[i].pos), d>>, 0)

\* The reservation goes over to the delivery, or is split.
Attach(t) ==
    LET q == run[t].req
        d == q.delivery
        r == resv[q.resv]
        n == IF r.qty < NeedOf[LineOf[d]] THEN r.qty ELSE NeedOf[LineOf[d]]
        whole == n = r.qty
    IN  /\ Ready(t, "attach")
        /\ Active(q.resv) /\ r.source = LineOf[d]
        /\ delivery[d].status = "NONE"
        /\ whole \/ Len(resv) < MaxResvs
        /\ resv' = IF whole
                   THEN [resv EXCEPT ![q.resv].source = d, ![q.resv].version = @ + 1]
                   ELSE Append([resv EXCEPT ![q.resv].qty = @ - n, ![q.resv].version = @ + 1],
                               NewReservation(r.pos, n, d))
        /\ delivery' = [delivery EXCEPT ![d] =
               [status |-> "DRAFT", pos |-> r.pos, qty |-> n,
                resv |-> IF whole THEN q.resv ELSE Len(resv) + 1]]
        /\ Leave(t, {d, q.resv})
        /\ UNCHANGED <<stockVars, posted, commandVars>>

\* The quantity that the delivery's own ACTIVE reservation holds.
Own(d) == IF Active(delivery[d].resv) THEN resv[delivery[d].resv].qty ELSE 0

\* A launched order creates its delivery and prepares it in one transaction; a
\* draft is prepared by a user.
BeginPrepare(t, d) ==
    \E a \in IF delivery[d].status = "NONE"
             THEN {[status |-> "DRAFT", pos |-> p, qty |-> NeedOf[LineOf[d]], resv |-> 0]
                       : p \in {x \in Stock : Candidate(x)}}
             ELSE {delivery[d]} :
        /\ a.status = "DRAFT"
        /\ a.qty <= Available(Level(a.pos)) + Own(d)
        /\ Start(t, d, [kind |-> "prepare", delivery |-> d, alloc |-> a], None,
                 IF Own(d) = 0 THEN StockPath(a.pos) ELSE <<a.resv>>, Own(d))

\* prepareLivraisonInTransaction: what is not covered gets reserved, what was
\* covered is renamed if it still is.
Prepare(t) ==
    LET q == run[t].req
        d == q.delivery
        a == q.alloc
    IN  /\ Ready(t, "prepare")
        /\ \/ /\ run[t].own = 0
              /\ a.qty <= Available(a.pos)
              /\ Len(resv) < MaxResvs
              /\ reserved' = Add(reserved, a.pos, a.qty)
              /\ resv' = Append(resv, NewReservation(a.pos, a.qty, d))
              /\ delivery' = [delivery EXCEPT ![d] =
                     [a EXCEPT !.status = "READY", !.resv = Len(resv) + 1]]
              /\ Leave(t, {d} \union Touched(a.pos))
           \/ /\ run[t].own > 0
              /\ resv' = IF Active(a.resv)
                         THEN [resv EXCEPT ![a.resv].source = d, ![a.resv].version = @ + 1]
                         ELSE resv
              /\ delivery' = [delivery EXCEPT ![d].status = "READY"]
              /\ UNCHANGED reserved
              /\ Leave(t, {d, a.resv})
        /\ UNCHANGED <<total, posted, commandVars>>

\* The snapshot of a shipment, and what buildPreview requires of it.
BeginShip(t, k) ==
    LET d == request[k].delivery
        a == delivery[d]
    IN  /\ Idle(t)
        /\ request[k] # None /\ request[k].kind = "ship"
        /\ Fresh(k)
        /\ a.status = "READY"
        /\ Own(d) = a.qty
        /\ a.qty <= Available(Level(a.pos)) + Own(d)
        /\ run' = [run EXCEPT ![t] = [req |-> request[k], key |-> k, own |-> Own(d),
                                      todo |-> <<k, d>> \o StockPath(a.pos) \o <<a.resv>>]]
        /\ stale' = [stale EXCEPT ![t] = {}]
        /\ UNCHANGED <<stockVars, resv, posted, delivery, commandVars, rowLock>>

\* repoShipLivraison: an OUT movement, and the end of the own reservation.
Ship(t) ==
    LET q == run[t].req
        d == q.delivery
        a == delivery[d]
    IN  /\ Ready(t, "ship")
        /\ Fresh(run[t].key)
        /\ a.status = "READY"
        /\ a.qty <= total[a.pos] - (reserved[a.pos] - run[t].own)
        /\ total' = Add(total, a.pos, -a.qty)
        /\ reserved' = Add(reserved, a.pos, -run[t].own)
        /\ resv' = IF Active(a.resv) THEN End(resv, a.resv, "CONSUMED", d) ELSE resv
        /\ delivery' = [delivery EXCEPT ![d].status = "SHIPPED"]
        /\ Receipt(run[t].key)
        /\ Leave(t, {d, a.resv} \union Touched(a.pos))
        /\ UNCHANGED posted

BeginCancel(t, d) ==
    LET a == delivery[d]
    IN  /\ a.status \in {"DRAFT", "READY"}
        /\ Start(t, d, [kind |-> "cancel", delivery |-> d], None,
                 IF Own(d) = 0 THEN <<>> ELSE <<a.resv>> \o StockPath(a.pos), Own(d))

\* repoUpdateLivraisonStatus to CANCELLED, releasing what the delivery holds.
Cancel(t) ==
    LET d == run[t].req.delivery
        a == delivery[d]
    IN  /\ Ready(t, "cancel")
        /\ IF run[t].own > 0 /\ Active(a.resv)
           THEN /\ reserved[a.pos] >= a.qty
                /\ reserved' = Add(reserved, a.pos, -a.qty)
                /\ resv' = End(resv, a.resv, "RELEASED", None)
                /\ Leave(t, {d, a.resv} \union Touched(a.pos))
           ELSE /\ UNCHANGED <<reserved, resv>>
                /\ Leave(t, {d})
        /\ delivery' = [delivery EXCEPT ![d].status = "CANCELLED"]
        /\ UNCHANGED <<total, posted, commandVars>>

------------------------------------------------------------------------------
Begin(t) ==
    \/ \E k \in Keys : BeginCommand(t, k) \/ BeginShip(t, k)
    \/ \E l \in Lines : BeginOrder(t, l)
    \/ \E d \in Deliveries : BeginAttach(t, d) \/ BeginPrepare(t, d) \/ BeginCancel(t, d)

Effect(t) ==
    \/ Create(t)
    \/ \E kind \in {"release", "consume"} : EndReservation(t, kind)
    \/ PostMovement(t)
    \/ OrderReserve(t)
    \/ Attach(t)
    \/ Prepare(t)
    \/ Ship(t)
    \/ Cancel(t)

Next ==
    \/ \E k \in Keys : Send(k)
    \/ \E t \in Txs : Begin(t) \/ Lock(t) \/ Effect(t) \/ RollBack(t)

Spec == Init /\ [][Next]_vars

------------------------------------------------------------------------------
(* Properties                                                               *)

Statuses == {"ACTIVE", "RELEASED", "CONSUMED"}

\* Every variable has its type.
TypeOK ==
    /\ total \in [Stock -> Int]
    /\ reserved \in [Stock -> Int]
    /\ Len(resv) <= MaxResvs
    /\ \A i \in DOMAIN resv :
           /\ resv[i].pos \in Stock
           /\ resv[i].qty \in Nat \ {0}
           /\ resv[i].source \in Lines \union Deliveries \union {None}
           /\ resv[i].status \in Statuses
           /\ resv[i].version \in Nat \ {0}
           /\ resv[i].usedBy \in Moves \union Deliveries \union {None}
    /\ posted \subseteq Moves
    /\ \A d \in Deliveries :
           /\ delivery[d].status \in {"NONE", "DRAFT", "READY", "SHIPPED", "CANCELLED"}
           /\ delivery[d].status # "NONE" =>
                  delivery[d].pos \in Stock /\ delivery[d].qty \in Nat \ {0}
           /\ delivery[d].resv \in {0} \union DOMAIN resv
    /\ receipts \subseteq Keys
    /\ effects \in [Keys -> Nat]
    /\ rowLock \in [Rows -> Txs \union {None}]
    /\ stale \in [Txs -> SUBSET Rows]

\* The reserved quantity of every level and batch is what its ACTIVE
\* reservations hold: none is released, consumed, split or merged twice.
ReservedIsCovered ==
    \A r \in Stock :
        reserved[r] = SumOver({i \in DOMAIN resv : Active(i) /\ r \in Touched(resv[i].pos)},
                              [i \in DOMAIN resv |-> resv[i].qty])

\* Nothing is promised that is not there, whatever runs at the same time.
NoOvercommit == \A r \in Stock : 0 <= reserved[r] /\ reserved[r] <= total[r]

\* What is in stock is what was there, plus the posted movements, minus the
\* shipped deliveries, each counted once.
LedgerMatches ==
    \A r \in Stock :
        LET At(p) == p # None /\ r \in Touched(p)
            Sent == {d \in Deliveries : delivery[d].status = "SHIPPED" /\ At(delivery[d].pos)}
        IN  total[r] = Initial[r]
              + SumOver({m \in posted : At(MoveTo[m])}, MoveQty)
              - SumOver({m \in posted : At(MoveFrom[m])}, MoveQty)
              - SumOver(Sent, [d \in Deliveries |-> delivery[d].qty])

\* A command that is sent again under its key, even while the first is still
\* running, takes effect once.
OneEffectPerKey == \A k \in Keys : effects[k] <= 1

\* A delivery leaves from the reservation that it holds, and from no other
\* one's: the reservation was still ACTIVE, of the right quantity, and ends with it.
ShippedFromReservation ==
    \A d \in Deliveries :
        delivery[d].status = "SHIPPED" =>
            LET r == resv[delivery[d].resv]
            IN  r.status = "CONSUMED" /\ r.usedBy = d /\ r.qty = delivery[d].qty
=============================================================================
