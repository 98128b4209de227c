----------------------------- MODULE StockProofs -----------------------------
(* Proofs about the stock: the commands of StockReservation and the          *)
(* compensations of StockCompensation, for any stock, movements, orders,     *)
(* deliveries, keys, bodies, transactions, calls and faults.                 *)
EXTENDS StockReservation, StockCompensation, SequenceTheorems, FiniteSetTheorems, TLAPS

------------------------------------------------------------------------------
(* StockReservation.                                                         *)

StockKinds == {"create", "release", "consume", "post"}

\* A transaction is a record with the fields that Start and its likes give it.
Shape ==
    /\ DOMAIN run = Txs
    /\ \A t \in Txs : run[t] # None =>
           run[t] = [req |-> run[t].req, key |-> run[t].key,
                     todo |-> run[t].todo, own |-> run[t].own]
    /\ DOMAIN rowLock = Rows
    /\ DOMAIN request = Keys
    /\ effects \in [Keys -> Nat]

\* A command without a receipt has had no effect, one with it at most one.
EffectsHaveReceipts ==
    \A k \in Keys : effects[k] <= 1 /\ (k \notin receipts => effects[k] = 0)

\* A stock command has the row of its key locked, and no other has put a
\* receipt there since it looked; a shipment looks when it commits.
KeysAreHeld ==
    \A t \in Txs :
        run[t] # None =>
            /\ run[t].req.kind \in StockKinds \union {"ship"} =>
                   /\ run[t].key \in Keys
                   /\ request[run[t].key] = run[t].req
                   /\ run[t].req # None
            /\ run[t].req.kind \in StockKinds =>
                   rowLock[run[t].key] = t /\ run[t].key \notin receipts

IInv == Shape /\ EffectsHaveReceipts /\ KeysAreHeld

LEMMA InitIInv == Init => IInv
  BY DEF Init, IInv, Shape, EffectsHaveReceipts, KeysAreHeld

\* A command decided by its client, or nothing.
LEMMA SendKeeps ==
  ASSUME NEW k \in Keys, IInv, Send(k)
  PROVE  IInv'
  <1>1. PICK q : request' = [request EXCEPT ![k] = q]
    BY DEF Send
  <1>2. request[k] = None /\ UNCHANGED <<receipts, effects, rowLock, run>>
    BY DEF Send
  <1>3. Shape'
    BY <1>1, <1>2 DEF IInv, Shape
  <1>4. EffectsHaveReceipts'
    BY <1>2 DEF IInv, EffectsHaveReceipts
  <1>5. KeysAreHeld'
    BY <1>1, <1>2 DEF IInv, Shape, KeysAreHeld
  <1>6. QED
    BY <1>3, <1>4, <1>5 DEF IInv

\* A transaction begins, or goes on to its next row.
LEMMA OneTransaction ==
  ASSUME NEW t \in Txs, IInv,
         NEW x, run' = [run EXCEPT ![t] = x],
         x = [req |-> x.req, key |-> x.key, todo |-> x.todo, own |-> x.own],
         DOMAIN rowLock' = Rows,
         \A r \in Rows : rowLock[r] # None => rowLock'[r] = rowLock[r],
         UNCHANGED commandVars,
         x.req.kind \in StockKinds \union {"ship"} =>
             x.key \in Keys /\ request[x.key] = x.req /\ x.req # None,
         x.req.kind \in StockKinds => rowLock'[x.key] = t /\ x.key \notin receipts
  PROVE  IInv'
  <1>1. \A u \in Txs : run'[u] = IF u = t THEN x ELSE run[u]
    BY DEF IInv, Shape
  <1>2. Shape'
    BY <1>1 DEF IInv, Shape, commandVars
  <1>3. EffectsHaveReceipts'
    BY DEF IInv, EffectsHaveReceipts, commandVars
  <1>4. KeysAreHeld'
    <2> SUFFICES ASSUME NEW u \in Txs, run'[u] # None
                 PROVE  /\ run'[u].req.kind \in StockKinds \union {"ship"} =>
                               /\ run'[u].key \in Keys
                               /\ request'[run'[u].key] = run'[u].req
                               /\ run'[u].req # None
                        /\ run'[u].req.kind \in StockKinds =>
                               rowLock'[run'[u].key] = u /\ run'[u].key \notin receipts'
      BY DEF KeysAreHeld
    <2>1. CASE u = t
      BY <1>1, <2>1 DEF commandVars
    <2>2. CASE u # t
      <3>1. run'[u] = run[u]
        BY <1>1, <2>2
      <3>2. Keys \subseteq Rows
        BY DEF Rows
      <3>3. QED
        BY <3>1, <3>2, NoneAssumption DEF IInv, KeysAreHeld, commandVars
    <2>3. QED
      BY <2>1, <2>2
  <1>5. QED
    BY <1>2, <1>3, <1>4 DEF IInv

\* A transaction ends without a receipt.
LEMMA Leaving ==
  ASSUME NEW t \in Txs, IInv, NEW W, Leave(t, W), UNCHANGED commandVars
  PROVE  IInv'
  <1>1. /\ run' = [run EXCEPT ![t] = None]
        /\ rowLock' = [r \in Rows |-> IF rowLock[r] = t THEN None ELSE rowLock[r]]
    BY DEF Leave
  <1>2. \A u \in Txs : run'[u] = IF u = t THEN None ELSE run[u]
    BY <1>1 DEF IInv, Shape
  <1>3. Shape'
    BY <1>1, <1>2 DEF IInv, Shape, commandVars
  <1>4. EffectsHaveReceipts'
    BY DEF IInv, EffectsHaveReceipts, commandVars
  <1>5. KeysAreHeld'
    BY <1>1, <1>2 DEF IInv, KeysAreHeld, commandVars, Rows
  <1>6. QED
    BY <1>3, <1>4, <1>5 DEF IInv

\* A command takes effect, and ends with its receipt.
LEMMA Receipting ==
  ASSUME NEW t \in Txs, IInv, NEW W, Leave(t, W), Receipt(run[t].key),
         run[t] # None,
         \/ run[t].req.kind \in StockKinds
         \/ run[t].req.kind = "ship" /\ run[t].key \notin receipts
  PROVE  IInv'
  <1> DEFINE k == run[t].key
  <1>1. /\ run' = [run EXCEPT ![t] = None]
        /\ rowLock' = [r \in Rows |-> IF rowLock[r] = t THEN None ELSE rowLock[r]]
    BY DEF Leave
  <1>2. /\ receipts' = receipts \union {k}
        /\ effects' = [effects EXCEPT ![k] = @ + 1]
        /\ request' = request
    BY DEF Receipt
  <1>3. \A u \in Txs : run'[u] = IF u = t THEN None ELSE run[u]
    BY <1>1 DEF IInv, Shape
  <1>4. k \in Keys /\ request[k] = run[t].req /\ k \notin receipts
    BY DEF IInv, KeysAreHeld
  <1>5. Shape'
    BY <1>1, <1>2, <1>3, <1>4 DEF IInv, Shape
  <1>6. EffectsHaveReceipts'
    BY <1>2, <1>4 DEF IInv, Shape, EffectsHaveReceipts
  <1>7. KeysAreHeld'
    <2> SUFFICES ASSUME NEW u \in Txs, u # t, run[u] # None
                 PROVE  /\ run[u].req.kind \in StockKinds \union {"ship"} =>
                               /\ run[u].key \in Keys
                               /\ request[run[u].key] = run[u].req
                               /\ run[u].req # None
                        /\ run[u].req.kind \in StockKinds =>
                               rowLock'[run[u].key] = u /\ run[u].key \notin receipts'
      BY <1>2, <1>3 DEF KeysAreHeld
    <2>1. CASE run[u].req.kind \in StockKinds
      <3>1. /\ run[u].key \in Keys /\ request[run[u].key] = run[u].req /\ run[u].req # None
            /\ rowLock[run[u].key] = u /\ run[u].key \notin receipts
        BY <2>1 DEF IInv, KeysAreHeld
      <3>2. run[u].key # k
        BY <1>4, <2>1, <3>1 DEF IInv, KeysAreHeld, StockKinds
      <3>3. QED
        BY <1>1, <1>2, <3>1, <3>2 DEF Rows
    <2>2. CASE run[u].req.kind \notin StockKinds
      BY <2>2 DEF IInv, KeysAreHeld
    <2>3. QED
      BY <2>1, <2>2
  <1>8. QED
    BY <1>5, <1>6, <1>7 DEF IInv

------------------------------------------------------------------------------
(* The actions                                                              *)

LEMMA StartKeeps ==
  ASSUME NEW t \in Txs, IInv, NEW first, NEW req, NEW key, NEW path, NEW own,
         Start(t, first, req, key, path, own),
         \/ req.kind \notin StockKinds \union {"ship"}
         \/ key \in Keys /\ request[key] = req /\ req # None
                /\ first = key /\ key \notin receipts
  PROVE  IInv'
  <1> DEFINE x == [req |-> req, key |-> key, todo |-> path, own |-> own]
  <1>1. /\ run' = [run EXCEPT ![t] = x]
        /\ rowLock' = [rowLock EXCEPT ![first] = t]
        /\ rowLock[first] = None
        /\ UNCHANGED commandVars
    BY DEF Start
  <1>2. /\ DOMAIN rowLock' = Rows
        /\ first \in Rows => rowLock'[first] = t
        /\ \A r \in Rows : rowLock[r] # None => rowLock'[r] = rowLock[r]
    BY <1>1 DEF IInv, Shape
  <1>3. x.req = req /\ x.key = key /\ x.todo = path /\ x.own = own
    OBVIOUS
  <1> HIDE DEF x
  <1>4. x = [req |-> x.req, key |-> x.key, todo |-> x.todo, own |-> x.own]
    BY DEF x
  <1>5. QED
    BY <1>1, <1>2, <1>3, <1>4, OneTransaction DEF Rows

\* Without a lock.
LEMMA SnapshotKeeps ==
  ASSUME NEW t \in Txs, IInv, NEW req, NEW key, NEW path, NEW own,
         run' = [run EXCEPT ![t] = [req |-> req, key |-> key, own |-> own, todo |-> path]],
         UNCHANGED <<commandVars, rowLock>>,
         req.kind \notin StockKinds,
         req.kind = "ship" => key \in Keys /\ request[key] = req /\ req # None
  PROVE  IInv'
  <1> DEFINE x == [req |-> req, key |-> key, own |-> own, todo |-> path]
  <1>1. x.req = req /\ x.key = key /\ x.todo = path /\ x.own = own
    OBVIOUS
  <1>2. run' = [run EXCEPT ![t] = x]
    OBVIOUS
  <1> HIDE DEF x
  <1>3. x = [req |-> x.req, key |-> x.key, todo |-> x.todo, own |-> x.own]
    BY DEF x
  <1>4. QED
    BY <1>1, <1>2, <1>3, OneTransaction DEF IInv, Shape

LEMMA BeginKeeps ==
  ASSUME NEW t \in Txs, IInv, Begin(t)
  PROVE  IInv'
  <1>1. ASSUME NEW k \in Keys, BeginCommand(t, k)
        PROVE  IInv'
    BY <1>1, StartKeeps DEF BeginCommand, Fresh, Rows
  <1>2. ASSUME NEW k \in Keys, BeginShip(t, k)
        PROVE  IInv'
    <2>1. /\ request[k] # None /\ request[k].kind = "ship"
          /\ UNCHANGED <<commandVars, rowLock>>
      BY <1>2 DEF BeginShip
    <2>2. PICK path, own : run' = [run EXCEPT ![t] =
              [req |-> request[k], key |-> k, own |-> own, todo |-> path]]
      BY <1>2 DEF BeginShip
    <2>3. QED
      BY <2>1, <2>2, SnapshotKeeps DEF StockKinds
  <1>3. ASSUME NEW l \in Lines, BeginOrder(t, l)
        PROVE  IInv'
    <2>1. UNCHANGED <<commandVars, rowLock>>
      BY <1>3 DEF BeginOrder
    <2>2. PICK items, path : run' = [run EXCEPT ![t] =
              [req |-> [kind |-> "order", line |-> l, items |-> items],
               key |-> None, own |-> 0, todo |-> path]]
      BY <1>3 DEF BeginOrder
    <2> DEFINE req == [kind |-> "order", line |-> l, items |-> items]
    <2>3. req.kind \notin StockKinds /\ req.kind # "ship"
      BY DEF StockKinds
    <2>4. run' = [run EXCEPT ![t] = [req |-> req, key |-> None, own |-> 0, todo |-> path]]
      BY <2>2
    <2> HIDE DEF req
    <2>5. QED
      BY <2>1, <2>3, <2>4, SnapshotKeeps
  <1>4. ASSUME NEW d \in Deliveries, BeginAttach(t, d)
        PROVE  IInv'
    <2>1. PICK i, path :
              Start(t, i, [kind |-> "attach", delivery |-> d, resv |-> i], None, path, 0)
      BY <1>4 DEF BeginAttach
    <2>2. QED
      BY <2>1, StartKeeps DEF StockKinds
  <1>5. ASSUME NEW d \in Deliveries, BeginPrepare(t, d)
        PROVE  IInv'
    <2>1. PICK a, path, own :
              Start(t, d, [kind |-> "prepare", delivery |-> d, alloc |-> a], None, path, own)
      BY <1>5 DEF BeginPrepare
    <2>2. QED
      BY <2>1, StartKeeps DEF StockKinds, Rows
  <1>6. ASSUME NEW d \in Deliveries, BeginCancel(t, d)
        PROVE  IInv'
    <2>1. PICK path, own :
              Start(t, d, [kind |-> "cancel", delivery |-> d], None, path, own)
      BY <1>6 DEF BeginCancel
    <2>2. QED
      BY <2>1, StartKeeps DEF StockKinds, Rows
  <1>7. QED
    BY <1>1, <1>2, <1>3, <1>4, <1>5, <1>6 DEF Begin

LEMMA NextRow ==
  ASSUME NEW x, x = [req |-> x.req, key |-> x.key, todo |-> x.todo, own |-> x.own], NEW rest
  PROVE  [x EXCEPT !.todo = rest]
             = [req |-> x.req, key |-> x.key, todo |-> rest, own |-> x.own]
  <1>1. x \in [req : {x.req}, key : {x.key}, todo : {x.todo}, own : {x.own}]
    OBVIOUS
  <1>2. QED
    BY <1>1

LEMMA LockKeeps ==
  ASSUME NEW t \in Txs, IInv, Lock(t)
  PROVE  IInv'
  <1> DEFINE r == Head(run[t].todo)
             x == [req |-> run[t].req, key |-> run[t].key,
                   todo |-> Tail(run[t].todo), own |-> run[t].own]
  <1>1. /\ run[t] # None
        /\ rowLock[r] \in {None, t}
        /\ rowLock' = [rowLock EXCEPT ![r] = t]
        /\ run' = [run EXCEPT ![t].todo = Tail(@)]
        /\ UNCHANGED commandVars
    BY DEF Lock, Idle
  <1>2. run[t] = [req |-> run[t].req, key |-> run[t].key,
                  todo |-> run[t].todo, own |-> run[t].own]
    BY <1>1 DEF IInv, Shape
  <1>3. [run[t] EXCEPT !.todo = Tail(run[t].todo)] = x
    BY <1>2, NextRow
  <1>4. run' = [run EXCEPT ![t] = x]
    BY <1>1, <1>3
  <1>5. x.req = run[t].req /\ x.key = run[t].key
        /\ x = [req |-> x.req, key |-> x.key, todo |-> x.todo, own |-> x.own]
    OBVIOUS
  <1> HIDE DEF x
  <1>6. /\ DOMAIN rowLock' = Rows
        /\ \A row \in Rows : rowLock[row] # None => rowLock'[row] = rowLock[row]
    BY <1>1 DEF IInv, Shape
  <1>7. /\ x.req.kind \in StockKinds \union {"ship"} =>
               x.key \in Keys /\ request[x.key] = x.req /\ x.req # None
        /\ x.req.kind \in StockKinds => rowLock[x.key] = t /\ x.key \notin receipts
    BY <1>1, <1>5 DEF IInv, KeysAreHeld
  <1>8. x.req.kind \in StockKinds => rowLock'[x.key] = t
    BY <1>6, <1>7, NoneAssumption DEF Rows
  <1>9. QED
    BY <1>1, <1>4, <1>5, <1>6, <1>7, <1>8, OneTransaction

LEMMA EffectKeeps ==
  ASSUME NEW t \in Txs, IInv, Effect(t)
  PROVE  IInv'
  <1>1. CASE Create(t)
    <2>1. Ready(t, "create") /\ Receipt(run[t].key) /\ Leave(t, Touched(run[t].req.pos))
      BY <1>1 DEF Create
    <2>2. QED
      BY <2>1, Receipting DEF Ready, Idle, StockKinds
  <1>2. ASSUME NEW kind \in {"release", "consume"}, EndReservation(t, kind)
        PROVE  IInv'
    <2>1. Ready(t, kind) /\ Receipt(run[t].key)
      BY <1>2 DEF EndReservation
    <2>2. PICK W : Leave(t, W)
      BY <1>2 DEF EndReservation
    <2>3. QED
      BY <2>1, <2>2, Receipting DEF Ready, Idle, StockKinds
  <1>3. CASE PostMovement(t)
    <2>1. Ready(t, "post") /\ Receipt(run[t].key)
      BY <1>3 DEF PostMovement
    <2>2. PICK W : Leave(t, W)
      BY <1>3 DEF PostMovement
    <2>3. QED
      BY <2>1, <2>2, Receipting DEF Ready, Idle, StockKinds
  <1>4. CASE Ship(t)
    <2>1. Ready(t, "ship") /\ Receipt(run[t].key) /\ Fresh(run[t].key)
      BY <1>4 DEF Ship
    <2>2. PICK W : Leave(t, W)
      BY <1>4 DEF Ship
    <2>3. QED
      BY <2>1, <2>2, Receipting DEF Ready, Idle, Fresh
  <1>5. CASE OrderReserve(t)
    <2>1. \E W : Leave(t, W)
      BY <1>5 DEF OrderReserve
    <2>2. QED
      BY <1>5, <2>1, Leaving DEF OrderReserve
  <1>6. CASE Attach(t)
    <2>1. \E W : Leave(t, W)
      BY <1>6 DEF Attach
    <2>2. QED
      BY <1>6, <2>1, Leaving DEF Attach
  <1>7. CASE Prepare(t)
    <2>1. \E W : Leave(t, W)
      BY <1>7 DEF Prepare
    <2>2. QED
      BY <1>7, <2>1, Leaving DEF Prepare
  <1>8. CASE Cancel(t)
    <2>1. \E W : Leave(t, W)
      BY <1>8 DEF Cancel
    <2>2. QED
      BY <1>8, <2>1, Leaving DEF Cancel
  <1>9. QED
    BY <1>1, <1>2, <1>3, <1>4, <1>5, <1>6, <1>7, <1>8 DEF Effect

LEMMA NextIInv == IInv /\ [Next]_vars => IInv'
  <1> SUFFICES ASSUME IInv, [Next]_vars PROVE IInv'
    OBVIOUS
  <1>1. CASE \E k \in Keys : Send(k)
    BY <1>1, SendKeeps
  <1>2. ASSUME NEW t \in Txs, Begin(t) \/ Lock(t) \/ Effect(t) \/ RollBack(t)
        PROVE  IInv'
    <2>1. CASE RollBack(t)
      BY <2>1, Leaving DEF RollBack
    <2>2. QED
      BY <1>2, <2>1, BeginKeeps, LockKeeps, EffectKeeps
  <1>3. CASE UNCHANGED vars
    BY <1>3 DEF vars, commandVars, IInv, Shape, EffectsHaveReceipts, KeysAreHeld
  <1>4. QED
    BY <1>1, <1>2, <1>3 DEF Next

\* A command sent again under its key takes effect once, however many sends of
\* it run at the same time: a stock command waits for the row of its key and
\* then finds the receipt (stock.repository.ts:221), a shipment looks for it
\* again before it commits (livraisons-shipment.repository.ts).
THEOREM CommandsTakeEffectOnce == Spec => []OneEffectPerKey
  <1>1. IInv => OneEffectPerKey
    BY DEF IInv, EffectsHaveReceipts, OneEffectPerKey
  <1>2. QED
    BY InitIInv, NextIInv, <1>1, PTL DEF Spec

------------------------------------------------------------------------------
(* Sums over sets, and the lots of a level.                                 *)

\* The units that SumOver counts.
Units(S, qty) == UNION {{x} \X (1 .. qty[x]) : x \in S}

LEMMA UnitsAre ==
  ASSUME NEW S, NEW qty, NEW u
  PROVE  u \in Units(S, qty) <=> \E x \in S, n \in Int : n \in 1 .. qty[x] /\ u = <<x, n>>
  <1>1. u \in Units(S, qty) <=> \E x \in S : u \in {x} \X (1 .. qty[x])
    BY DEF Units
  <1>2. QED
    BY <1>1

LEMMA UnitsFinite ==
  ASSUME NEW S, IsFiniteSet(S), NEW qty, \A x \in S : qty[x] \in Int
  PROVE  IsFiniteSet(Units(S, qty))
  <1> DEFINE Column(x) == {x} \X (1 .. qty[x])
             T == {Column(x) : x \in S}
             f == [x \in S |-> Column(x)]
  <1>1. f \in Surjection(S, T)
    BY DEF Surjection
  <1>2. IsFiniteSet(T)
    <2> HIDE DEF f, T
    <2>1. QED
      BY <1>1, FS_Surjection
  <1>3. \A U \in T : IsFiniteSet(U)
    <2> SUFFICES ASSUME NEW x \in S PROVE IsFiniteSet(Column(x))
      OBVIOUS
    <2>1. IsFiniteSet({x})
      BY FS_Singleton
    <2>2. IsFiniteSet(1 .. qty[x])
      <3>1. qty[x] \in Int
        OBVIOUS
      <3> HIDE DEF f, T
      <3>2. QED
        BY <3>1, FS_Interval
    <2>3. QED
      BY <2>1, <2>2, FS_Product
  <1>4. Units(S, qty) = UNION T
    BY DEF Units
  <1> HIDE DEF T
  <1>5. QED
    BY <1>2, <1>3, <1>4, FS_UNION

\* A sum of quantities is a number.
LEMMA SumIsNat ==
  ASSUME NEW S, IsFiniteSet(S), NEW qty, \A x \in S : qty[x] \in Int
  PROVE  SumOver(S, qty) \in Nat
  <1>1. IsFiniteSet(Units(S, qty))
    BY UnitsFinite
  <1>2. QED
    BY <1>1, FS_CardinalityType DEF SumOver, Units

LEMMA SumEmpty == \A qty : SumOver({}, qty) = 0
  <1> TAKE qty
  <1>1. Units({}, qty) = {}
    BY DEF Units
  <1>2. QED
    BY <1>1, FS_EmptySet DEF SumOver, Units

\* Only the quantities of the elements themselves count.
LEMMA SumSame ==
  ASSUME NEW S, NEW p, NEW q, \A x \in S : p[x] = q[x]
  PROVE  SumOver(S, p) = SumOver(S, q)
  <1>1. \A u : u \in Units(S, p) <=> u \in Units(S, q)
    BY UnitsAre
  <1>2. Units(S, p) = Units(S, q)
    BY <1>1
  <1>3. QED
    BY <1>2 DEF SumOver, Units

LEMMA SumOne ==
  ASSUME NEW x, NEW qty, qty[x] \in Nat
  PROVE  SumOver({x}, qty) = qty[x]
  <1>1. Units({x}, qty) = {x} \X (1 .. qty[x])
    BY DEF Units
  <1>2. IsFiniteSet({x}) /\ Cardinality({x}) = 1
    BY FS_Singleton
  <1>3. IsFiniteSet(1 .. qty[x]) /\ Cardinality(1 .. qty[x]) = qty[x]
    BY FS_Interval
  <1>4. Cardinality({x} \X (1 .. qty[x])) = Cardinality({x}) * Cardinality(1 .. qty[x])
    BY <1>2, <1>3, FS_Product
  <1>5. Cardinality({x} \X (1 .. qty[x])) = qty[x]
    BY <1>2, <1>3, <1>4
  <1>6. QED
    BY <1>1, <1>5 DEF SumOver, Units

\* The sum over two sets without a common element.
LEMMA SumSplit ==
  ASSUME NEW S, IsFiniteSet(S), NEW T, IsFiniteSet(T), S \intersect T = {},
         NEW qty, \A x \in S \union T : qty[x] \in Int
  PROVE  SumOver(S \union T, qty) = SumOver(S, qty) + SumOver(T, qty)
  <1>1. \A u : u \in Units(S \union T, qty) <=> u \in Units(S, qty) \union Units(T, qty)
    BY UnitsAre
  <1>2. Units(S \union T, qty) = Units(S, qty) \union Units(T, qty)
    BY <1>1
  <1>3. \A u : ~(u \in Units(S, qty) /\ u \in Units(T, qty))
    BY UnitsAre
  <1>4. Units(S, qty) \intersect Units(T, qty) = {}
    BY <1>3
  <1>5. IsFiniteSet(Units(S, qty)) /\ IsFiniteSet(Units(T, qty))
    BY UnitsFinite
  <1>6. /\ Cardinality(Units(S, qty) \union Units(T, qty))
               = Cardinality(Units(S, qty)) + Cardinality(Units(T, qty)) - Cardinality({})
        /\ Cardinality(Units(S, qty)) \in Nat
        /\ Cardinality(Units(T, qty)) \in Nat
    BY <1>4, <1>5, FS_Union, FS_CardinalityType
  <1>7. QED
    BY <1>2, <1>6, FS_EmptySet DEF SumOver, Units

\* One element more, one less, or one with another quantity.
LEMMA SumAdd ==
  ASSUME NEW S, IsFiniteSet(S), NEW x, x \notin S,
         NEW qty, \A y \in S : qty[y] \in Int, qty[x] \in Nat
  PROVE  SumOver(S \union {x}, qty) = SumOver(S, qty) + qty[x]
  <1>1. IsFiniteSet({x}) /\ S \intersect {x} = {}
    BY FS_Singleton
  <1>2. SumOver(S \union {x}, qty) = SumOver(S, qty) + SumOver({x}, qty)
    BY <1>1, SumSplit
  <1>3. QED
    BY <1>2, SumOne

LEMMA SumRemove ==
  ASSUME NEW S, IsFiniteSet(S), NEW x \in S,
         NEW qty, \A y \in S : qty[y] \in Int, qty[x] \in Nat
  PROVE  SumOver(S \ {x}, qty) = SumOver(S, qty) - qty[x]
  <1>1. IsFiniteSet(S \ {x}) /\ x \notin S \ {x} /\ (S \ {x}) \union {x} = S
    BY FS_RemoveElement
  <1>2. SumOver(S, qty) = SumOver(S \ {x}, qty) + qty[x]
    BY <1>1, SumAdd
  <1>3. SumOver(S \ {x}, qty) \in Nat
    BY <1>1, SumIsNat
  <1>4. QED
    BY <1>2, <1>3

LEMMA SumChange ==
  ASSUME NEW S, IsFiniteSet(S), NEW x \in S, NEW p, NEW q,
         \A y \in S : p[y] \in Int /\ q[y] \in Int, p[x] \in Nat, q[x] \in Nat,
         \A y \in S \ {x} : p[y] = q[y]
  PROVE  SumOver(S, q) = SumOver(S, p) + (q[x] - p[x])
  <1>1. SumOver(S \ {x}, p) = SumOver(S, p) - p[x] /\ SumOver(S \ {x}, q) = SumOver(S, q) - q[x]
    BY SumRemove
  <1>2. SumOver(S \ {x}, p) = SumOver(S \ {x}, q)
    BY SumSame
  <1>3. SumOver(S, p) \in Nat /\ SumOver(S, q) \in Nat
    BY SumIsNat
  <1>4. QED
    BY <1>1, <1>2, <1>3

\* Elements without a quantity do not count.
LEMMA SumPositive ==
  ASSUME NEW S, NEW T \in SUBSET S, NEW qty, \A x \in S \ T : qty[x] = 0
  PROVE  SumOver(S, qty) = SumOver(T, qty)
  <1>1. \A u : u \in Units(S, qty) <=> u \in Units(T, qty)
    <2> TAKE u
    <2>1. \A x \in S \ T : 1 .. qty[x] = {}
      OBVIOUS
    <2>2. QED
      BY <2>1, UnitsAre
  <1>2. Units(S, qty) = Units(T, qty)
    BY <1>1
  <1>3. QED
    BY <1>2 DEF SumOver, Units

\* The same quantities under other names.
LEMMA SumRenamed ==
  ASSUME NEW S, IsFiniteSet(S), NEW T, NEW f \in Bijection(S, T),
         NEW p, NEW q, \A x \in S : p[x] \in Int /\ q[f[x]] = p[x]
  PROVE  SumOver(T, q) = SumOver(S, p)
  <1> DEFINE U == Units(S, p)
             V == Units(T, q)
             g == [u \in U |-> <<f[u[1]], u[2]>>]
  <1>1. f \in [S -> T] /\ \A x, y \in S : f[x] = f[y] => x = y
    BY DEF Bijection, Injection, IsInjective
  <1>2. \A y \in T : \E x \in S : f[x] = y
    BY DEF Bijection, Surjection
  <1>3. \A u \in U : \E x \in S, n \in Int : n \in 1 .. p[x] /\ u = <<x, n>>
    BY UnitsAre
  <1>4. \A u \in U : g[u] \in V
    <2> SUFFICES ASSUME NEW u \in U PROVE <<f[u[1]], u[2]>> \in V
      OBVIOUS
    <2>1. PICK x \in S, n \in Int : n \in 1 .. p[x] /\ u = <<x, n>>
      BY <1>3
    <2>2. f[x] \in T /\ n \in 1 .. q[f[x]]
      BY <1>1, <2>1
    <2>3. QED
      BY <2>1, <2>2, UnitsAre
  <1>5. \A u, v \in U : g[u] = g[v] => u = v
    <2> SUFFICES ASSUME NEW u \in U, NEW v \in U, <<f[u[1]], u[2]>> = <<f[v[1]], v[2]>>
                 PROVE  u = v
      OBVIOUS
    <2>1. PICK x \in S, n \in Int : n \in 1 .. p[x] /\ u = <<x, n>>
      BY <1>3
    <2>2. PICK y \in S, m \in Int : m \in 1 .. p[y] /\ v = <<y, m>>
      BY <1>3
    <2>3. f[x] = f[y] /\ n = m
      BY <2>1, <2>2
    <2>4. QED
      BY <1>1, <2>1, <2>2, <2>3
  <1>6. \A v \in V : \E u \in U : g[u] = v
    <2> SUFFICES ASSUME NEW v \in V PROVE \E u \in U : <<f[u[1]], u[2]>> = v
      OBVIOUS
    <2>1. PICK y \in T, n \in Int : n \in 1 .. q[y] /\ v = <<y, n>>
      BY UnitsAre
    <2>2. PICK x \in S : f[x] = y
      BY <1>2
    <2>3. <<x, n>> \in U
      BY <2>1, <2>2, UnitsAre
    <2>4. QED
      BY <2>1, <2>2, <2>3
  <1>7. g \in Bijection(U, V)
    <2> HIDE DEF U, V
    <2>1. g \in [U -> V]
      BY <1>4
    <2> HIDE DEF g
    <2>2. DOMAIN g = U
      BY <2>1
    <2>3. g \in Injection(U, V)
      BY <1>5, <2>1, <2>2 DEF Injection, IsInjective
    <2>4. g \in Surjection(U, V)
      BY <1>6, <2>1 DEF Surjection
    <2>5. QED
      BY <2>3, <2>4 DEF Bijection
  <1>8. IsFiniteSet(U)
    BY UnitsFinite
  <1>9. Cardinality(V) = Cardinality(U)
    <2> HIDE DEF U, V, g
    <2>1. ExistsBijection(U, V)
      BY <1>7 DEF ExistsBijection
    <2>2. QED
      BY <1>8, <2>1, FS_Bijection
  <1>10. QED
    BY <1>9 DEF SumOver, Units

\* Quantities added element by element.
LEMMA SumPlus ==
  ASSUME NEW S, IsFiniteSet(S), NEW p, NEW q, NEW e,
         \A x \in S : p[x] \in Nat /\ e[x] \in Nat /\ q[x] = p[x] + e[x]
  PROVE  SumOver(S, q) = SumOver(S, p) + SumOver(S, e)
  <1> DEFINE U == Units(S, p)
             E == Units(S, e)
             g == [u \in E |-> <<u[1], u[2] + p[u[1]]>>]
             F == {<<u[1], u[2] + p[u[1]]>> : u \in E}
  <1>1. \A u \in E : \E x \in S, n \in Int : n \in 1 .. e[x] /\ u = <<x, n>>
    BY UnitsAre
  <1>2. \A u, v \in E : g[u] = g[v] => u = v
    <2> SUFFICES ASSUME NEW u \in E, NEW v \in E,
                        <<u[1], u[2] + p[u[1]]>> = <<v[1], v[2] + p[v[1]]>>
                 PROVE  u = v
      OBVIOUS
    <2>1. PICK x \in S, n \in Int : n \in 1 .. e[x] /\ u = <<x, n>>
      BY <1>1
    <2>2. PICK y \in S, m \in Int : m \in 1 .. e[y] /\ v = <<y, m>>
      BY <1>1
    <2>3. x = y /\ n + p[x] = m + p[y]
      BY <2>1, <2>2
    <2>4. n = m
      BY <2>3
    <2>5. QED
      BY <2>1, <2>2, <2>3, <2>4
  <1>3. g \in Bijection(E, F)
    <2>1. \A u \in E : g[u] \in F
      OBVIOUS
    <2>2. \A v \in F : \E u \in E : g[u] = v
      OBVIOUS
    <2> HIDE DEF E, F
    <2>3. g \in [E -> F] /\ DOMAIN g = E
      BY <2>1
    <2> HIDE DEF g
    <2>4. QED
      BY <1>2, <2>2, <2>3 DEF Bijection, Injection, Surjection, IsInjective
  <1>4. IsFiniteSet(U) /\ IsFiniteSet(E)
    BY UnitsFinite
  <1>5. IsFiniteSet(F) /\ Cardinality(F) = Cardinality(E)
    <2> HIDE DEF E, F, g
    <2>1. ExistsBijection(E, F)
      BY <1>3 DEF ExistsBijection
    <2>2. QED
      BY <1>4, <2>1, FS_Bijection
  <1>6. \A u : u \in F <=> \E x \in S, n \in Int : n \in 1 .. e[x] /\ u = <<x, n + p[x]>>
    <2> TAKE u
    <2>1. ASSUME NEW x \in S, NEW n \in 1 .. e[x], u = <<x, n + p[x]>>
          PROVE  u \in F
      <3>1. <<x, n>> \in E
        BY <2>1, UnitsAre
      <3>2. <<<<x, n>>[1], <<x, n>>[2] + p[<<x, n>>[1]]>> \in F
        BY <3>1
      <3>3. QED
        BY <2>1, <3>2
    <2>2. ASSUME u \in F
          PROVE  \E x \in S, n \in Int : n \in 1 .. e[x] /\ u = <<x, n + p[x]>>
      <3>1. PICK v \in E : u = <<v[1], v[2] + p[v[1]]>>
        BY <2>2
      <3>2. PICK x \in S, n \in Int : n \in 1 .. e[x] /\ v = <<x, n>>
        BY <1>1
      <3>3. QED
        BY <3>1, <3>2
    <2>3. QED
      BY <2>1, <2>2
  <1>7. U \intersect F = {}
    <2> SUFFICES ASSUME NEW u, u \in U, u \in F PROVE FALSE
      OBVIOUS
    <2>1. PICK x \in S, n \in Int : n \in 1 .. p[x] /\ u = <<x, n>>
      BY UnitsAre
    <2> HIDE DEF F
    <2>2. PICK y \in S, m \in Int : m \in 1 .. e[y] /\ u = <<y, m + p[y]>>
      BY <1>6
    <2>3. x = y /\ n = m + p[y]
      BY <2>1, <2>2
    <2>4. QED
      BY <2>1, <2>2, <2>3
  <1>8. \A u : u \in Units(S, q) <=> u \in U \union F
    <2> HIDE DEF F
    <2> TAKE u
    <2>1. ASSUME NEW x \in S, NEW n \in 1 .. q[x], u = <<x, n>>
          PROVE  u \in U \union F
      <3>1. CASE n <= p[x]
        <4>1. n \in 1 .. p[x]
          BY <3>1
        <4>2. QED
          BY <2>1, <4>1, UnitsAre
      <3>2. CASE n > p[x]
        <4>1. n - p[x] \in 1 .. e[x] /\ n = (n - p[x]) + p[x]
          BY <3>2
        <4>2. \E m \in Int : m \in 1 .. e[x] /\ u = <<x, m + p[x]>>
          BY <2>1, <4>1
        <4>3. QED
          BY <1>6, <4>2
      <3>3. QED
        BY <3>1, <3>2
    <2>2. ASSUME u \in U
          PROVE  u \in Units(S, q)
      <3>1. PICK x \in S, n \in Int : n \in 1 .. p[x] /\ u = <<x, n>>
        BY <2>2, UnitsAre
      <3>2. n \in 1 .. q[x]
        BY <3>1
      <3>3. QED
        BY <3>1, <3>2, UnitsAre
    <2>3. ASSUME u \in F
          PROVE  u \in Units(S, q)
      <3>1. PICK x \in S, n \in Int : n \in 1 .. e[x] /\ u = <<x, n + p[x]>>
        BY <1>6, <2>3
      <3>2. n + p[x] \in 1 .. q[x]
        BY <3>1
      <3>3. QED
        BY <3>1, <3>2, UnitsAre
    <2>4. QED
      BY <2>1, <2>2, <2>3, UnitsAre
  <1>9. Units(S, q) = U \union F
    BY <1>8
  <1>10. Cardinality(U \union F) = Cardinality(U) + Cardinality(E)
    <2> HIDE DEF U, E, F
    <2>1. Cardinality(U \union F) = Cardinality(U) + Cardinality(F) - Cardinality(U \intersect F)
      BY <1>4, <1>5, FS_Union
    <2>2. Cardinality(U) \in Nat /\ Cardinality(F) \in Nat
      BY <1>4, <1>5, FS_CardinalityType
    <2>3. Cardinality(U \intersect F) = 0
      BY <1>7, FS_EmptySet
    <2>4. QED
      BY <1>5, <2>1, <2>2, <2>3
  <1>11. QED
    BY <1>9, <1>10 DEF SumOver, Units

------------------------------------------------------------------------------
(* The invariant of reservations, deliveries and running transactions.      *)

\* Levels without a lot, and lots: the rows that a position is checked by.
Leaves == {p \in Stock : p \in Batches \/ BatchesOf(p) = {}}

\* Where something may be reserved: a lot-tracked article has no position at a
\* level that has lots.
Sites == {p \in Stock : LotTracked => p \in Leaves}

Reservations ==
    [pos : Sites, qty : Nat \ {0}, source : Lines \union Deliveries \union {None},
     status : Statuses, version : Nat \ {0}, usedBy : Moves \union Deliveries \union {None}]
Allocations ==
    [status : {"NONE", "DRAFT", "READY", "SHIPPED", "CANCELLED"},
     pos : Stock \union {None}, qty : Nat, resv : Nat]

\* The variables that the argument needs have their types.
Types ==
    /\ total \in [Stock -> Int]
    /\ reserved \in [Stock -> Int]
    /\ resv \in Seq(Reservations)
    /\ Len(resv) <= MaxResvs
    /\ posted \subseteq Moves
    /\ IsFiniteSet(posted)
    /\ delivery \in [Deliveries -> Allocations]
    /\ receipts \subseteq Keys
    /\ rowLock \in [Rows -> Txs \union {None}]
    /\ stale \in [Txs -> SUBSET Rows]

\* What a client asks for exists.
Meaningful(q) ==
    /\ q.kind \in StockKinds \union {"ship"}
    /\ q.kind = "create" => q.pos \in Positions /\ q.qty \in Nat \ {0}
    /\ q.kind \in {"release", "consume"} => q.resv \in DOMAIN resv
    /\ q.kind \in {"consume", "post"} => q.move \in Moves
    /\ q.kind = "ship" => q.delivery \in Deliveries

Requested == \A k \in Keys : request[k] # None => Meaningful(request[k])

\* A line has one ACTIVE reservation per lot.
OneTwin ==
    \A i, j \in DOMAIN resv :
        /\ resv[i].status = "ACTIVE" /\ resv[j].status = "ACTIVE"
        /\ resv[i].source \in Lines /\ resv[i].source = resv[j].source
        /\ resv[i].pos \in Batches /\ resv[i].pos = resv[j].pos
        => i = j

\* A delivery's reservation is its own, of its position and quantity.
Holds(d) ==
    LET a == delivery[d]
    IN  /\ a.status = "NONE" => a = NoDelivery
        /\ a.status # "NONE" => a.pos \in Sites /\ a.qty \in Nat \ {0}
        /\ a.resv # 0 => /\ a.resv \in DOMAIN resv
                         /\ resv[a.resv].source = d
                         /\ resv[a.resv].pos = a.pos
                         /\ resv[a.resv].qty = a.qty
        /\ a.status = "SHIPPED" => /\ a.resv # 0
                                   /\ resv[a.resv].status = "CONSUMED"
                                   /\ resv[a.resv].usedBy = d

DeliveriesHold == \A d \in Deliveries : Holds(d)

\* A transaction has a row locked, or is going to.
Takes(t, r) == rowLock[r] = t \/ \E i \in 1 .. Len(run[t].todo) : run[t].todo[i] = r

\* What each kind of transaction has made sure of when it commits.
Attaches(t) ==
    LET q == run[t].req
    IN  /\ q.delivery \in Deliveries
        /\ q.resv \in DOMAIN resv
        /\ rowLock[q.resv] = t
        /\ Takes(t, q.delivery)

Prepares(t) ==
    LET q == run[t].req
        a == q.alloc
        d == q.delivery
    IN  /\ d \in Deliveries
        /\ rowLock[d] = t
        /\ a \in Allocations /\ a.pos \in Sites /\ a.qty \in Nat \ {0}
        /\ delivery[d].status \in {"NONE", "DRAFT"}
        /\ run[t].own \in Nat
        /\ run[t].own > 0 => /\ a = delivery[d] /\ a.status = "DRAFT"
                             /\ a.resv \in DOMAIN resv
                             /\ Takes(t, a.resv)

Cancels(t) ==
    LET d == run[t].req.delivery
    IN  /\ d \in Deliveries
        /\ rowLock[d] = t
        /\ delivery[d].status \in {"DRAFT", "READY"}
        /\ run[t].own \in Nat
        /\ run[t].own > 0 => delivery[d].resv \in DOMAIN resv /\ Takes(t, delivery[d].resv)

Ships(t) ==
    LET d == run[t].req.delivery
        a == delivery[d]
    IN  /\ Takes(t, d)
        /\ run[t].own \in Nat \ {0}
        /\ \A r \in Deliveries \union 1 .. MaxResvs : rowLock[r] = t => r \notin stale[t]
        /\ d \notin stale[t] =>
               /\ a.status = "READY"
               /\ a.qty = run[t].own
               /\ a.resv \in DOMAIN resv
               /\ Takes(t, a.resv)
               /\ a.resv \notin stale[t] => resv[a.resv].status = "ACTIVE"

Orders(t) ==
    LET q == run[t].req
    IN  /\ q.line \in Lines
        /\ DOMAIN q.items \subseteq Leaves
        /\ q.items \in [DOMAIN q.items -> Nat \ {0}]

Kinds == StockKinds \union {"ship", "order", "attach", "prepare", "cancel"}

\* What every transaction under way relies on.
RunOK(t) ==
    /\ run[t].req.kind \in Kinds
    /\ run[t].req.kind \notin {"post", "order"} => run[t].todo \in Seq(Rows)
    /\ run[t].req.kind \in {"release", "consume"} => Takes(t, run[t].req.resv)
    /\ run[t].req.kind = "order" => Orders(t)
    /\ run[t].req.kind = "attach" => Attaches(t)
    /\ run[t].req.kind = "prepare" => Prepares(t)
    /\ run[t].req.kind = "cancel" => Cancels(t)
    /\ run[t].req.kind = "ship" => Ships(t)

RunsHold == \A t \in Txs : run[t] # None => RunOK(t)

\* Inductive together with IInv.
StockInv == Types /\ Requested /\ OneTwin /\ DeliveriesHold /\ RunsHold

\* Nothing that is not there is reserved in a lot, or in a level without lots.
LeavesHold == \A r \in Leaves : 0 <= reserved[r] /\ reserved[r] <= total[r]
\* What may still be reserved.
Free == [r \in Stock |-> Available(r)]

------------------------------------------------------------------------------
(* Changes to the reservations.                                             *)

LEMMA Edit ==
  ASSUME NEW rs \in Seq(Reservations), NEW i \in DOMAIN rs, NEW x \in Reservations,
         NEW new, new = [rs EXCEPT ![i] = x]
  PROVE  /\ new \in Seq(Reservations)
         /\ Len(new) = Len(rs)
         /\ DOMAIN new = DOMAIN rs
         /\ new[i] = x
         /\ \A j \in DOMAIN rs : j # i => new[j] = rs[j]
  <1>1. DOMAIN rs = 1 .. Len(rs) /\ Len(rs) \in Nat /\ rs \in [1 .. Len(rs) -> Reservations]
    OBVIOUS
  <1>2. new \in [1 .. Len(rs) -> Reservations]
    BY <1>1
  <1>3. new \in Seq(Reservations) /\ Len(new) = Len(rs)
    BY <1>1, <1>2
  <1>4. QED
    BY <1>1, <1>3

LEMMA SitesAre ==
  /\ Sites \subseteq Stock /\ Leaves \subseteq Sites /\ Positions \subseteq Sites
  /\ LotTracked => Sites = Leaves
  BY DEF Sites, Leaves, Positions, Stock

LEMMA Typed ==
  ASSUME NEW rs \in Seq(Reservations), NEW i \in DOMAIN rs
  PROVE  rs[i] \in Reservations
  OBVIOUS

LEMMA FieldsOf ==
  ASSUME NEW r \in Reservations
  PROVE  /\ r.version \in Nat \ {0} /\ r.version + 1 \in Nat \ {0}
         /\ r.qty \in Nat \ {0} /\ r.pos \in Stock /\ r.pos \in Sites
         /\ r.status \in Statuses /\ r.source \in Lines \union Deliveries \union {None}
  BY DEF Reservations, Sites

\* A reservation with another source, or with a quantity less.
Rename(rs, i, s) == [rs EXCEPT ![i].source = s, ![i].version = @ + 1]
Reduce(rs, i, m) == [rs EXCEPT ![i].qty = @ - m, ![i].version = @ + 1]

LEMMA WrittenTwice ==
  ASSUME NEW rs \in Seq(Reservations), NEW i \in DOMAIN rs, NEW y, NEW n
  PROVE  [[rs EXCEPT ![i] = y] EXCEPT ![i].version = n] = [rs EXCEPT ![i] = [y EXCEPT !.version = n]]
  OBVIOUS

LEMMA WrittenThrice ==
  ASSUME NEW rs \in Seq(Reservations), NEW i \in DOMAIN rs, NEW y, NEW user, NEW n
  PROVE  [[[rs EXCEPT ![i] = y] EXCEPT ![i].usedBy = user] EXCEPT ![i].version = n]
             = [rs EXCEPT ![i] = [y EXCEPT !.usedBy = user, !.version = n]]
  OBVIOUS

\* The reservation goes over to another source.
LEMMA Renamed ==
  ASSUME NEW rs \in Seq(Reservations), NEW i \in DOMAIN rs, NEW s \in Lines \union Deliveries \union {None},
         NEW new, new = Rename(rs, i, s)
  PROVE  /\ new \in Seq(Reservations)
         /\ Len(new) = Len(rs)
         /\ DOMAIN new = DOMAIN rs
         /\ \A j \in DOMAIN rs : j # i => new[j] = rs[j]
         /\ new[i].source = s
         /\ new[i].pos = rs[i].pos /\ new[i].qty = rs[i].qty
         /\ new[i].status = rs[i].status /\ new[i].usedBy = rs[i].usedBy
  <1> DEFINE n == rs[i].version + 1
             y == [rs[i] EXCEPT !.source = s]
             x == [y EXCEPT !.version = n]
  <1>1. rs[i] \in Reservations
    BY Typed
  <1>2. n \in Nat \ {0} /\ rs[i].qty \in Nat \ {0}
    BY <1>1, FieldsOf
  <1>3. new = [[rs EXCEPT ![i] = y] EXCEPT ![i].version = n]
    BY Zenon DEF Rename
  <1> HIDE DEF n
  <1>6. new = [rs EXCEPT ![i] = x]
    <2> HIDE DEF y
    <2>1. QED
      BY <1>3, WrittenTwice
  <1>4. /\ y \in Reservations
        /\ y.pos = rs[i].pos /\ y.qty = rs[i].qty /\ y.source = s
        /\ y.status = rs[i].status /\ y.usedBy = rs[i].usedBy
    BY <1>1, <1>2 DEF Reservations
  <1> HIDE DEF y
  <1>5. /\ x \in Reservations
        /\ x.pos = rs[i].pos /\ x.qty = rs[i].qty /\ x.source = s
        /\ x.status = rs[i].status /\ x.usedBy = rs[i].usedBy
    BY <1>2, <1>4 DEF Reservations
  <1> HIDE DEF x
  <1>7. QED
    BY <1>5, <1>6, Edit

\* A part of the reservation is split off.
LEMMA Reduced ==
  ASSUME NEW rs \in Seq(Reservations), NEW i \in DOMAIN rs, NEW m \in Nat, m < rs[i].qty,
         NEW new, new = Reduce(rs, i, m)
  PROVE  /\ new \in Seq(Reservations)
         /\ Len(new) = Len(rs)
         /\ DOMAIN new = DOMAIN rs
         /\ \A j \in DOMAIN rs : j # i => new[j] = rs[j]
         /\ new[i].qty = rs[i].qty - m
         /\ new[i].pos = rs[i].pos /\ new[i].source = rs[i].source
         /\ new[i].status = rs[i].status
  <1> DEFINE n == rs[i].version + 1
             y == [rs[i] EXCEPT !.qty = rs[i].qty - m]
             x == [y EXCEPT !.version = n]
  <1>1. rs[i] \in Reservations
    BY Typed
  <1>2. n \in Nat \ {0} /\ rs[i].qty \in Nat \ {0}
    BY <1>1, FieldsOf
  <1>3. new = [[rs EXCEPT ![i] = y] EXCEPT ![i].version = n]
    BY Zenon DEF Reduce
  <1> HIDE DEF n
  <1>8. rs[i].qty - m \in Nat \ {0}
    BY <1>2
  <1>6. new = [rs EXCEPT ![i] = x]
    <2> HIDE DEF y
    <2>1. QED
      BY <1>3, WrittenTwice
  <1>4. /\ y \in Reservations
        /\ y.pos = rs[i].pos /\ y.qty = rs[i].qty - m /\ y.source = rs[i].source
        /\ y.status = rs[i].status /\ y.usedBy = rs[i].usedBy
    BY <1>1, <1>2, <1>8 DEF Reservations
  <1> HIDE DEF y
  <1>5. /\ x \in Reservations
        /\ x.pos = rs[i].pos /\ x.qty = rs[i].qty - m /\ x.source = rs[i].source
        /\ x.status = rs[i].status /\ x.usedBy = rs[i].usedBy
    BY <1>2, <1>4 DEF Reservations
  <1> HIDE DEF x
  <1>7. QED
    BY <1>5, <1>6, Edit

\* The reservation is released or consumed.
LEMMA Finished ==
  ASSUME NEW rs \in Seq(Reservations), NEW i \in DOMAIN rs, NEW status \in Statuses,
         NEW user \in Moves \union Deliveries \union {None},
         NEW new, new = End(rs, i, status, user)
  PROVE  /\ new \in Seq(Reservations)
         /\ Len(new) = Len(rs)
         /\ DOMAIN new = DOMAIN rs
         /\ \A j \in DOMAIN rs : j # i => new[j] = rs[j]
         /\ new[i].status = status /\ new[i].usedBy = user
         /\ new[i].pos = rs[i].pos /\ new[i].source = rs[i].source
         /\ new[i].qty = rs[i].qty
  <1> DEFINE n == rs[i].version + 1
             y == [rs[i] EXCEPT !.status = status]
             x == [y EXCEPT !.usedBy = user, !.version = n]
  <1>1. rs[i] \in Reservations
    BY Typed
  <1>2. n \in Nat \ {0} /\ rs[i].qty \in Nat \ {0}
    BY <1>1, FieldsOf
  <1>3. new = [[[rs EXCEPT ![i] = y] EXCEPT ![i].usedBy = user] EXCEPT ![i].version = n]
    BY Zenon DEF End
  <1> HIDE DEF n
  <1>6. new = [rs EXCEPT ![i] = x]
    <2> HIDE DEF y
    <2>1. QED
      BY <1>3, WrittenThrice
  <1>4. /\ y \in Reservations
        /\ y.pos = rs[i].pos /\ y.qty = rs[i].qty /\ y.source = rs[i].source
        /\ y.status = status /\ y.usedBy = rs[i].usedBy
    BY <1>1 DEF Reservations
  <1> HIDE DEF y
  <1> DEFINE z == [y EXCEPT !.usedBy = user]
  <1>5. /\ z \in Reservations
        /\ z.pos = rs[i].pos /\ z.qty = rs[i].qty /\ z.source = rs[i].source
        /\ z.status = status /\ z.usedBy = user
    BY <1>4 DEF Reservations
  <1>8. x = [z EXCEPT !.version = n]
    BY Zenon
  <1> HIDE DEF x, z
  <1>9. /\ x \in Reservations
        /\ x.pos = rs[i].pos /\ x.qty = rs[i].qty /\ x.source = rs[i].source
        /\ x.status = status /\ x.usedBy = user
    BY <1>2, <1>5, <1>8 DEF Reservations
  <1>7. QED
    BY <1>9, <1>6, Edit

\* One reservation more.
Book(rs, p, n, source) == Append(rs, NewReservation(p, n, source))

\* A new reservation.
LEMMA Appended ==
  ASSUME NEW rs \in Seq(Reservations), NEW p \in Sites, NEW n \in Nat \ {0},
         NEW source \in Lines \union Deliveries \union {None},
         NEW new, new = Book(rs, p, n, source)
  PROVE  /\ new \in Seq(Reservations)
         /\ Len(new) = Len(rs) + 1
         /\ \A j : j \in DOMAIN new <=> j \in DOMAIN rs \/ j = Len(rs) + 1
         /\ Len(rs) + 1 \notin DOMAIN rs
         /\ \A j \in DOMAIN rs : new[j] = rs[j]
         /\ new[Len(rs) + 1] = NewReservation(p, n, source)
         /\ new[Len(rs) + 1].pos = p /\ new[Len(rs) + 1].qty = n
         /\ new[Len(rs) + 1].source = source /\ new[Len(rs) + 1].status = "ACTIVE"
  <1> DEFINE x == NewReservation(p, n, source)
  <1>1. x \in Reservations /\ x.pos = p /\ x.qty = n /\ x.source = source /\ x.status = "ACTIVE"
    BY DEF NewReservation, Reservations, Statuses
  <1>2. new = Append(rs, x)
    BY DEF Book
  <1> HIDE DEF x
  <1>3. /\ new \in Seq(Reservations) /\ Len(new) = Len(rs) + 1
        /\ \A j \in 1 .. Len(rs) : new[j] = rs[j]
        /\ new[Len(rs) + 1] = x
    BY <1>1, <1>2, AppendProperties
  <1>4. DOMAIN rs = 1 .. Len(rs) /\ DOMAIN new = 1 .. (Len(rs) + 1) /\ Len(rs) \in Nat
    BY <1>3
  <1>5. QED
    BY <1>1, <1>3, <1>4 DEF x

------------------------------------------------------------------------------
(* What others may do while a transaction runs.                             *)

\* The rows of reservations and deliveries.
OwnRows == Deliveries \union 1 .. MaxResvs

\* Before a transaction does anything, the variables are of their types and what
\* it works with exists.
LEMMA Reserved == ASSUME Types
  PROVE /\ DOMAIN resv = 1 .. Len(resv) /\ Len(resv) \in Nat
        /\ DOMAIN resv \subseteq 1 .. MaxResvs
        /\ DOMAIN resv \subseteq Rows
        /\ 0 \notin DOMAIN resv
        /\ \A i \in DOMAIN resv : resv[i] \in Reservations
  BY BoundAssumption DEF Types, Rows

\* What a command was asked to do exists.
LEMMA Asked ==
  ASSUME IInv, StockInv, NEW u \in Txs, run[u] # None,
         run[u].req.kind \in StockKinds \union {"ship"}
  PROVE  Meaningful(run[u].req)
  BY DEF IInv, KeysAreHeld, StockInv, Requested

\* A transaction goes on while others begin, go on or end: the rows that it has
\* locked are not written, and those that it has yet to lock become stale when
\* they are.
LEMMA OthersRun ==
  ASSUME IInv, StockInv, NEW u \in Txs, run[u] # None, run'[u] = run[u],
         \A r \in Rows : rowLock'[r] = u <=> rowLock[r] = u,
         NEW W, stale'[u] = stale[u] \union W,
         \A r \in OwnRows : r \in W => rowLock[r] # u,
         DOMAIN resv \subseteq DOMAIN resv',
         \A i \in DOMAIN resv : i \notin W => resv'[i] = resv[i],
         \A d \in Deliveries : d \notin W => delivery'[d] = delivery[d]
  PROVE  RunOK(u)'
  <1>1. RunOK(u)
    BY DEF StockInv, RunsHold
  <1>2. OwnRows \subseteq Rows /\ DOMAIN resv \subseteq OwnRows /\ Deliveries \subseteq OwnRows
    BY Reserved DEF StockInv, OwnRows, Rows
  <1>3. \A r \in Rows : Takes(u, r) => Takes(u, r)'
    BY DEF Takes
  <1>4. run[u].req.kind = "attach" => Attaches(u)'
    BY <1>1, <1>2, <1>3 DEF RunOK, Attaches
  <1>5. run[u].req.kind = "prepare" => Prepares(u)'
    BY <1>1, <1>2, <1>3 DEF RunOK, Prepares
  <1>6. run[u].req.kind = "cancel" => Cancels(u)'
    BY <1>1, <1>2, <1>3 DEF RunOK, Cancels
  <1>7. run[u].req.kind = "ship" => Ships(u)'
    <2> SUFFICES ASSUME run[u].req.kind = "ship" PROVE Ships(u)'
      OBVIOUS
    <2> DEFINE d == run[u].req.delivery
    <2>1. Ships(u)
      BY <1>1 DEF RunOK
    <2>2. d \in Deliveries
      BY Asked DEF Meaningful
    <2>3. QED
      BY <1>2, <1>3, <2>1, <2>2 DEF Ships, OwnRows
  <1>8. run[u].req.kind \in {"release", "consume"} => Takes(u, run[u].req.resv)'
    <2> SUFFICES ASSUME run[u].req.kind \in {"release", "consume"}
                 PROVE  Takes(u, run[u].req.resv)'
      OBVIOUS
    <2>1. Takes(u, run[u].req.resv)
      BY <1>1 DEF RunOK
    <2>2. run[u].req.resv \in Rows
      BY <1>2, Asked DEF Meaningful, StockKinds
    <2>3. QED
      BY <1>3, <2>1, <2>2 DEF Takes
  <1>9. run[u].req.kind = "order" => Orders(u)'
    BY <1>1 DEF RunOK, Orders
  <1>10. QED
    BY <1>1, <1>4, <1>5, <1>6, <1>7, <1>8, <1>9 DEF RunOK

\* What a transaction writes when it commits: rows that no other has locked; of
\* the reservations, ACTIVE ones, whose position stays and whose quantity and
\* source stay when a delivery has it.
Written(t, W) ==
    /\ Leave(t, W)
    /\ W \subseteq Rows
    /\ \A r \in OwnRows : r \in W => rowLock[r] \in {t, None}
    /\ UNCHANGED request
    /\ DOMAIN resv \subseteq DOMAIN resv'
    /\ \A i \in DOMAIN resv :
           /\ resv'[i].pos = resv[i].pos
           /\ i \notin W \/ resv[i].status # "ACTIVE" => resv'[i] = resv[i]
           /\ resv[i].source \in Deliveries =>
                  resv'[i].source = resv[i].source /\ resv'[i].qty = resv[i].qty
    /\ \A d \in Deliveries : d \notin W => delivery'[d] = delivery[d]

\* Its commit leaves the requests, the other transactions and the deliveries that
\* it does not write in order.
LEMMA Sequel ==
  ASSUME IInv, StockInv, NEW t \in Txs, NEW W, Written(t, W)
  PROVE  /\ Requested' /\ RunsHold'
         /\ \A d \in Deliveries : d \notin W => Holds(d)'
         /\ rowLock' \in [Rows -> Txs \union {None}]
         /\ stale' \in [Txs -> SUBSET Rows]
  <1>1. /\ run' = [run EXCEPT ![t] = None]
        /\ rowLock' = [r \in Rows |-> IF rowLock[r] = t THEN None ELSE rowLock[r]]
        /\ stale' = [u \in Txs |-> IF u = t \/ Idle(u) THEN {} ELSE stale[u] \union W]
    BY DEF Written, Leave
  <1>2. Requested'
    BY DEF Written, StockInv, Requested, Meaningful
  <1>3. ASSUME NEW u \in Txs, run'[u] # None
        PROVE  RunOK(u)'
    <2>1. u # t /\ run'[u] = run[u]
      BY <1>1, <1>3 DEF IInv, Shape
    <2>2. stale'[u] = stale[u] \union W
      BY <1>1, <1>3, <2>1 DEF Idle
    <2>3. \A r \in Rows : rowLock'[r] = u <=> rowLock[r] = u
      BY <1>1, <2>1, NoneAssumption
    <2>4. \A r \in OwnRows : r \in W => rowLock[r] # u
      BY <2>1, NoneAssumption DEF Written
    <2>5. /\ DOMAIN resv \subseteq DOMAIN resv'
          /\ \A i \in DOMAIN resv : i \notin W => resv'[i] = resv[i]
          /\ \A d \in Deliveries : d \notin W => delivery'[d] = delivery[d]
      BY DEF Written
    <2>6. QED
      BY <1>3, <2>1, <2>2, <2>3, <2>4, <2>5, OthersRun
  <1>4. ASSUME NEW d \in Deliveries, d \notin W
        PROVE  Holds(d)'
    <2>1. Holds(d) /\ delivery'[d] = delivery[d]
      BY <1>4 DEF StockInv, DeliveriesHold, Written
    <2>2. QED
      BY <2>1 DEF Written, Holds
  <1>5. rowLock' \in [Rows -> Txs \union {None}]
    BY <1>1 DEF StockInv, Types
  <1>6. stale' \in [Txs -> SUBSET Rows]
    BY <1>1 DEF Written, StockInv, Types
  <1>7. QED
    BY <1>2, <1>3, <1>4, <1>5, <1>6 DEF RunsHold

\* A line's ACTIVE reservation is one that it had.
LEMMA OneTwinKeeps ==
  ASSUME StockInv,
         \A i \in DOMAIN resv' :
             resv'[i].status = "ACTIVE" /\ resv'[i].source \in Lines =>
                 /\ i \in DOMAIN resv
                 /\ resv[i].status = "ACTIVE"
                 /\ resv[i].source = resv'[i].source /\ resv[i].pos = resv'[i].pos
  PROVE  OneTwin'
  BY DEF StockInv, OneTwin

\* A transaction begins, or goes on to its next row.
LEMMA Progress ==
  ASSUME IInv, StockInv, NEW t \in Txs, NEW x, run' = [run EXCEPT ![t] = x],
         UNCHANGED <<stockVars, resv, posted, delivery, commandVars>>,
         rowLock' \in [Rows -> Txs \union {None}],
         stale' \in [Txs -> SUBSET Rows],
         \A u \in Txs : u # t =>
             stale'[u] = stale[u] /\ \A r \in Rows : rowLock'[r] = u <=> rowLock[r] = u,
         RunOK(t)'
  PROVE  StockInv'
  <1>1. Types'
    BY DEF StockInv, Types, stockVars, commandVars
  <1>2. Requested'
    BY DEF StockInv, Requested, Meaningful, commandVars
  <1>3. OneTwin'
    BY DEF StockInv, OneTwin
  <1>4. DeliveriesHold'
    BY DEF StockInv, DeliveriesHold, Holds
  <1>5. ASSUME NEW u \in Txs, u # t, run'[u] # None
        PROVE  RunOK(u)'
    <2>1. run'[u] = run[u] /\ stale'[u] = stale[u] \union {}
      BY <1>5 DEF IInv, Shape
    <2>2. /\ DOMAIN resv \subseteq DOMAIN resv'
          /\ \A i \in DOMAIN resv : i \notin {} => resv'[i] = resv[i]
          /\ \A d \in Deliveries : d \notin {} => delivery'[d] = delivery[d]
          /\ \A r \in OwnRows : r \in {} => rowLock[r] # u
      OBVIOUS
    <2>3. \A r \in Rows : rowLock'[r] = u <=> rowLock[r] = u
      BY <1>5
    <2> DEFINE W == {}
    <2> HIDE DEF W
    <2>4. /\ DOMAIN resv \subseteq DOMAIN resv'
          /\ \A i \in DOMAIN resv : i \notin W => resv'[i] = resv[i]
          /\ \A d \in Deliveries : d \notin W => delivery'[d] = delivery[d]
          /\ \A r \in OwnRows : r \in W => rowLock[r] # u
          /\ stale'[u] = stale[u] \union W
      BY <2>1, <2>2 DEF W
    <2>5. run[u] # None /\ run'[u] = run[u]
      BY <1>5, <2>1
    <2>6. QED
      BY <2>3, <2>4, <2>5, OthersRun
  <1>6. RunsHold'
    BY <1>5 DEF RunsHold
  <1>7. QED
    BY <1>1, <1>2, <1>3, <1>4, <1>6 DEF StockInv

------------------------------------------------------------------------------
(* Beginning.                                                               *)

LEMMA Places ==
  ASSUME NEW p \in Stock
  PROVE  /\ Level(p) \in Levels /\ Level(p) \in Stock
         /\ Touched(p) \subseteq Stock /\ p \in Touched(p)
         /\ p \in Batches => StockPath(p) = <<LevelOf[p], p>>
         /\ p \notin Batches => StockPath(p) = <<p>>
         /\ StockPath(p) \in Seq(Rows)
  <1>1. p \in Batches => LevelOf[p] \in Levels /\ LevelOf[p] \in Rows /\ p \in Rows
    BY PlaceAssumption DEF Stock, Rows
  <1>2. p \notin Batches => p \in Levels /\ p \in Rows
    BY DEF Stock, Rows
  <1>3. StockPath(p) \in Seq(Rows)
    BY <1>1, <1>2 DEF StockPath
  <1>4. QED
    BY <1>1, <1>2, <1>3 DEF Level, Stock, Touched, StockPath

LEMMA Begun ==
  ASSUME IInv, StockInv, NEW t \in Txs, NEW first, NEW req, NEW key, NEW path, NEW own,
         Start(t, first, req, key, path, own)
  PROVE  /\ run'[t].req = req /\ run'[t].todo = path /\ run'[t].own = own
         /\ first \in Rows => rowLock'[first] = t
         /\ UNCHANGED <<resv, delivery>>
         /\ RunOK(t)' => StockInv'
  <1> DEFINE x == [req |-> req, key |-> key, todo |-> path, own |-> own]
  <1>1. /\ run' = [run EXCEPT ![t] = x]
        /\ rowLock' = [rowLock EXCEPT ![first] = t]
        /\ rowLock[first] = None
        /\ stale' = [stale EXCEPT ![t] = {}]
        /\ UNCHANGED <<stockVars, resv, posted, delivery, commandVars>>
    BY DEF Start
  <1>2. run'[t] = x
    BY <1>1 DEF IInv, Shape
  <1>3. rowLock' \in [Rows -> Txs \union {None}] /\ stale' \in [Txs -> SUBSET Rows]
    BY <1>1 DEF StockInv, Types
  <1>4. \A u \in Txs : u # t =>
            stale'[u] = stale[u] /\ \A r \in Rows : rowLock'[r] = u <=> rowLock[r] = u
    BY <1>1, NoneAssumption DEF StockInv, Types
  <1>5. first \in Rows => rowLock'[first] = t
    BY <1>1 DEF StockInv, Types
  <1>6. run'[t].req = req /\ run'[t].todo = path /\ run'[t].own = own
    BY <1>2
  <1> HIDE DEF x
  <1>7. QED
    BY <1>1, <1>3, <1>4, <1>5, <1>6, Progress

LEMMA Listed ==
  ASSUME NEW t, NEW r, NEW path, run'[t].todo = path,
         Len(path) \in Nat, NEW i \in 1 .. Len(path), path[i] = r
  PROVE  Takes(t, r)'
  BY DEF Takes

LEMMA BeginCommandHolds ==
  ASSUME IInv, StockInv, NEW t \in Txs, NEW k \in Keys, BeginCommand(t, k)
  PROVE  StockInv'
  <1>0. PICK q : q = request[k]
    OBVIOUS
  <1>1. Meaningful(q) /\ q.kind \in StockKinds
    BY <1>0 DEF BeginCommand, StockInv, Requested, Meaningful
  <1>2. Start(t, k, q, k, Path(q), 0)
    BY <1>0 DEF BeginCommand
  <1>3. /\ run'[t].req = q /\ run'[t].todo = Path(q)
        /\ UNCHANGED <<resv, delivery>>
        /\ RunOK(t)' => StockInv'
    BY <1>2, Begun
  <1>4. CASE q.kind = "create"
    <2>1. Path(q) = StockPath(q.pos) /\ q.pos \in Stock
      BY <1>1, <1>4, PlaceAssumption DEF Path, Meaningful, Positions, Stock
    <2>2. Path(q) \in Seq(Rows)
      BY <2>1, Places
    <2>3. QED
      BY <1>3, <1>4, <2>2 DEF RunOK, Kinds, StockKinds
  <1>5. CASE q.kind \in {"release", "consume"}
    <2>1. q.resv \in DOMAIN resv /\ q.resv \in Rows /\ resv[q.resv].pos \in Stock
      BY <1>1, <1>5, Reserved, FieldsOf DEF Meaningful, StockInv
    <2>2. Path(q) = <<q.resv>> \o StockPath(resv[q.resv].pos)
      BY <1>5 DEF Path
    <2>3. StockPath(resv[q.resv].pos) \in Seq(Rows)
      BY <2>1, Places
    <2> DEFINE rest == StockPath(resv[q.resv].pos)
    <2> HIDE DEF rest
    <2>4. /\ Path(q) \in Seq(Rows) /\ Len(Path(q)) \in Nat /\ Len(Path(q)) >= 1
          /\ Path(q)[1] = q.resv
      BY <2>1, <2>2, <2>3 DEF rest
    <2>5. Takes(t, q.resv)'
      <3>1. PICK path : path = Path(q)
        OBVIOUS
      <3>2. PICK r : r = q.resv
        OBVIOUS
      <3>3. 1 \in 1 .. Len(path) /\ path[1] = r /\ run'[t].todo = path /\ Len(path) \in Nat
        BY <1>3, <2>4, <3>1, <3>2
      <3>4. Takes(t, r)'
        BY <3>3, Listed
      <3>5. QED
        BY <3>2, <3>4
    <2>6. QED
      BY <1>3, <1>5, <2>4, <2>5 DEF RunOK, Kinds, StockKinds
  <1>6. CASE q.kind = "post"
    BY <1>3, <1>6 DEF RunOK, Kinds, StockKinds
  <1>7. QED
    BY <1>1, <1>4, <1>5, <1>6 DEF StockKinds

LEMMA BeginAttachHolds ==
  ASSUME IInv, StockInv, NEW t \in Txs, NEW d \in Deliveries, BeginAttach(t, d)
  PROVE  StockInv'
  <1>1. PICK i \in DOMAIN resv :
            Start(t, i, [kind |-> "attach", delivery |-> d, resv |-> i], None,
                  <<Level(resv[i].pos), d>>, 0)
    BY DEF BeginAttach
  <1> DEFINE q == [kind |-> "attach", delivery |-> d, resv |-> i]
             path == <<Level(resv[i].pos), d>>
  <1>2. q.kind = "attach" /\ q.delivery = d /\ q.resv = i
    OBVIOUS
  <1>3. i \in Rows /\ resv[i].pos \in Stock /\ d \in Rows
    BY Reserved, FieldsOf DEF StockInv, Rows
  <1>4. path \in Seq(Rows) /\ Len(path) = 2 /\ path[2] = d
    BY <1>3, Places DEF Rows
  <1> HIDE DEF q, path
  <1>5. /\ run'[t].req = q /\ run'[t].todo = path /\ rowLock'[i] = t
        /\ UNCHANGED <<resv, delivery>>
        /\ RunOK(t)' => StockInv'
    BY <1>1, <1>3, Begun DEF q, path
  <1>6. Takes(t, d)'
    <2>1. PICK todo : todo = run'[t].todo
      OBVIOUS
    <2>2. Len(todo) = 2 /\ todo[2] = d
      BY <1>4, <1>5, <2>1
    <2>3. 2 \in 1 .. Len(todo)
      BY <2>2
    <2>4. QED
      BY <2>1, <2>2, <2>3 DEF Takes
  <1>7. i \in DOMAIN resv' /\ d \in Deliveries /\ rowLock'[i] = t
    BY <1>5
  <1>8. Attaches(t)'
    BY <1>2, <1>5, <1>6, <1>7 DEF Attaches
  <1>9. RunOK(t)'
    BY <1>2, <1>4, <1>5, <1>8 DEF RunOK, Kinds, StockKinds
  <1>10. QED
    BY <1>5, <1>9

LEMMA BeginPrepareHolds ==
  ASSUME IInv, StockInv, NEW t \in Txs, NEW d \in Deliveries, BeginPrepare(t, d)
  PROVE  StockInv'
  <1> DEFINE path(a) == IF Own(d) = 0 THEN StockPath(a.pos) ELSE <<a.resv>>
  <1>1. PICK a \in IF delivery[d].status = "NONE"
                   THEN {[status |-> "DRAFT", pos |-> p, qty |-> NeedOf[LineOf[d]], resv |-> 0]
                             : p \in {x \in Stock : Candidate(x)}}
                   ELSE {delivery[d]} :
            /\ a.status = "DRAFT"
            /\ Start(t, d, [kind |-> "prepare", delivery |-> d, alloc |-> a], None, path(a), Own(d))
    BY DEF BeginPrepare
  <1> DEFINE q == [kind |-> "prepare", delivery |-> d, alloc |-> a]
  <1>2. q.kind = "prepare" /\ q.delivery = d /\ q.alloc = a
    OBVIOUS
  <1>3. Holds(d) /\ delivery[d] \in Allocations /\ DOMAIN resv = 1 .. Len(resv)
    BY DEF StockInv, DeliveriesHold, Types
  <1>4. Own(d) \in Nat /\ (Own(d) > 0 => delivery[d].resv \in DOMAIN resv)
    BY Reserved, FieldsOf DEF Own, Active, StockInv
  <1>5. CASE delivery[d].status = "NONE"
    <2>1. PICK p \in Leaves :
              a = [status |-> "DRAFT", pos |-> p, qty |-> NeedOf[LineOf[d]], resv |-> 0]
      BY <1>1, <1>5 DEF Candidate, Leaves
    <2>2. a \in Allocations /\ a.pos \in Stock /\ a.pos \in Sites /\ a.qty \in Nat \ {0}
      BY <2>1, OrderAssumption, SitesAre DEF Allocations
    <2>3. delivery[d].resv = 0
      BY <1>3, <1>5 DEF Holds, NoDelivery
    <2>4. Own(d) = 0
      BY <2>3, Reserved DEF Own, Active, StockInv
    <2>5. path(a) \in Seq(Rows)
      BY <2>2, <2>4, Places
    <2> HIDE DEF q, path
    <2>6. /\ run'[t].req = q /\ run'[t].todo = path(a) /\ run'[t].own = Own(d)
          /\ rowLock'[d] = t /\ UNCHANGED <<resv, delivery>>
          /\ RunOK(t)' => StockInv'
      BY <1>1, Begun DEF q, path, Rows
    <2>7. Prepares(t)'
      BY <1>2, <1>5, <2>2, <2>4, <2>6 DEF Prepares
    <2>8. QED
      BY <1>2, <2>5, <2>6, <2>7 DEF RunOK, Kinds, StockKinds
  <1>6. CASE delivery[d].status # "NONE"
    <2>1. a = delivery[d]
      BY <1>1, <1>6
    <2>2. /\ a \in Allocations /\ a.pos \in Stock /\ a.pos \in Sites /\ a.qty \in Nat \ {0}
          /\ a.status = "DRAFT"
      BY <1>1, <1>3, <1>6, <2>1, SitesAre DEF Holds
    <2>3. Own(d) > 0 => a.resv \in DOMAIN resv /\ a.resv \in Rows
      BY <1>4, <2>1, Reserved DEF StockInv
    <2>4. path(a) \in Seq(Rows)
      BY <1>4, <2>2, <2>3, Places
    <2>5. Own(d) > 0 => Len(path(a)) = 1 /\ path(a)[1] = a.resv
      OBVIOUS
    <2> HIDE DEF q, path
    <2>6. /\ run'[t].req = q /\ run'[t].todo = path(a) /\ run'[t].own = Own(d)
          /\ rowLock'[d] = t /\ UNCHANGED <<resv, delivery>>
          /\ RunOK(t)' => StockInv'
      BY <1>1, Begun DEF q, path, Rows
    <2>7. Own(d) > 0 => Takes(t, a.resv)'
      <3> SUFFICES ASSUME Own(d) > 0 PROVE Takes(t, a.resv)'
        OBVIOUS
      <3>1. PICK p : p = path(a)
        OBVIOUS
      <3>2. Len(p) = 1 /\ p[1] = a.resv /\ run'[t].todo = p
        BY <2>5, <2>6, <3>1
      <3>3. 1 \in 1 .. Len(p) /\ Len(p) \in Nat
        BY <3>2
      <3>4. QED
        BY <3>2, <3>3, Listed
    <2>8. Prepares(t)'
      BY <1>2, <1>4, <2>1, <2>2, <2>3, <2>6, <2>7 DEF Prepares
    <2>9. QED
      BY <1>2, <2>4, <2>6, <2>8 DEF RunOK, Kinds, StockKinds
  <1>7. QED
    BY <1>5, <1>6

LEMMA BeginCancelHolds ==
  ASSUME IInv, StockInv, NEW t \in Txs, NEW d \in Deliveries, BeginCancel(t, d)
  PROVE  StockInv'
  <1> DEFINE a == delivery[d]
             q == [kind |-> "cancel", delivery |-> d]
             path == IF Own(d) = 0 THEN <<>> ELSE <<a.resv>> \o StockPath(a.pos)
  <1>1. a.status \in {"DRAFT", "READY"} /\ Start(t, d, q, None, path, Own(d))
    BY DEF BeginCancel
  <1>2. q.kind = "cancel" /\ q.delivery = d
    OBVIOUS
  <1>3. Own(d) \in Nat /\ (Own(d) > 0 => a.resv \in DOMAIN resv /\ a.resv \in Rows)
    BY Reserved, FieldsOf DEF Own, Active, StockInv
  <1>4. a.pos \in Stock
    BY <1>1, SitesAre DEF StockInv, DeliveriesHold, Holds
  <1>5. StockPath(a.pos) \in Seq(Rows)
    BY <1>4, Places
  <1> HIDE DEF a
  <1>6. path \in Seq(Rows) /\ (Own(d) > 0 => Len(path) >= 1 /\ Len(path) \in Nat /\ path[1] = a.resv)
    <2>1. CASE Own(d) = 0
      BY <2>1
    <2>2. CASE Own(d) # 0
      <3> DEFINE rest == StockPath(a.pos)
      <3> HIDE DEF rest
      <3>1. path = <<a.resv>> \o rest /\ rest \in Seq(Rows) /\ a.resv \in Rows
        BY <1>3, <1>5, <2>2 DEF rest
      <3> HIDE DEF path
      <3>2. QED
        BY <3>1
    <2>3. QED
      BY <2>1, <2>2
  <1> HIDE DEF q, path
  <1>7. /\ run'[t].req = q /\ run'[t].todo = path /\ run'[t].own = Own(d)
        /\ rowLock'[d] = t /\ UNCHANGED <<resv, delivery>>
        /\ RunOK(t)' => StockInv'
    BY <1>1, Begun DEF Rows
  <1>8. ASSUME Own(d) > 0
        PROVE  Takes(t, delivery[d].resv)'
    <2>1. PICK p : p = path
      OBVIOUS
    <2>2. PICK r : r = a.resv
      OBVIOUS
    <2>3. 1 \in 1 .. Len(p) /\ Len(p) \in Nat /\ p[1] = r /\ run'[t].todo = p
      BY <1>6, <1>7, <1>8, <2>1, <2>2
    <2>4. Takes(t, r)'
      BY <2>3, Listed
    <2>5. r = delivery'[d].resv
      BY <1>7, <2>2 DEF a
    <2>6. QED
      BY <2>4, <2>5 DEF Takes
  <1>9. Cancels(t)'
    <2>1. a = delivery'[d] /\ run'[t].req.delivery = d
      BY <1>2, <1>7 DEF a
    <2>2. QED
      BY <1>1, <1>3, <1>7, <1>8, <2>1 DEF Cancels, a
  <1>10. QED
    BY <1>2, <1>6, <1>7, <1>9 DEF RunOK, Kinds, StockKinds

LEMMA StockFinite == IsFiniteSet(Stock)
  <1>1. IdOrder \in [1 .. Len(IdOrder) -> Stock] /\ Len(IdOrder) \in Nat
        /\ DOMAIN IdOrder = 1 .. Len(IdOrder)
    BY PlaceAssumption
  <1>2. IdOrder \in Surjection(1 .. Len(IdOrder), Stock)
    BY <1>1, PlaceAssumption DEF Surjection, Range
  <1>3. IsFiniteSet(1 .. Len(IdOrder))
    BY <1>1, FS_Interval
  <1>4. QED
    BY <1>2, <1>3, FS_Surjection

\* Without a lock.
LEMMA Looked ==
  ASSUME IInv, StockInv, NEW t \in Txs, NEW x, run' = [run EXCEPT ![t] = x],
         stale' = [stale EXCEPT ![t] = {}],
         UNCHANGED <<stockVars, resv, posted, delivery, commandVars, rowLock>>
  PROVE  /\ run'[t] = x /\ stale'[t] = {}
         /\ RunOK(t)' => StockInv'
  <1>1. rowLock' \in [Rows -> Txs \union {None}] /\ stale' \in [Txs -> SUBSET Rows]
    BY DEF StockInv, Types
  <1>2. \A u \in Txs : u # t =>
            stale'[u] = stale[u] /\ \A r \in Rows : rowLock'[r] = u <=> rowLock[r] = u
    BY DEF StockInv, Types
  <1>3. run'[t] = x /\ stale'[t] = {}
    BY DEF IInv, Shape, StockInv, Types
  <1>4. QED
    BY <1>1, <1>2, <1>3, Progress

\* The plan takes something from lots, and from levels that have none.
LEMMA PlanTakes ==
  ASSUME StockInv, NEW l \in Lines
  PROVE  /\ DOMAIN Plan(NeedOf[l]) \subseteq Leaves
         /\ Plan(NeedOf[l]) \in [DOMAIN Plan(NeedOf[l]) -> Nat \ {0}]
  <1> DEFINE need == NeedOf[l]
             free == {p \in Stock : Candidate(p)}
             Offer == [p \in Stock |-> Available(p)]
             Wanted(p) == need - SumOver({x \in free : Rank(x) < Rank(p)}, Offer)
             items == Plan(need)
  <1>1. items = [p \in {x \in free : Worth(Wanted(x))} |->
                    IF Wanted(p) < Offer[p] THEN Wanted(p) ELSE Offer[p]]
    BY Zenon DEF Plan
  <1>2. need \in Nat /\ Offer \in [Stock -> Int]
    BY OrderAssumption DEF Available, StockInv, Types
  <1>3. free \subseteq Leaves /\ free \subseteq Stock /\ \A p \in free : Offer[p] > 0
    BY DEF Candidate, Leaves
  <1> HIDE DEF free, Offer, need, items
  <1>4. ASSUME NEW p \in Stock
        PROVE  Wanted(p) \in Int
    <2>1. IsFiniteSet({x \in free : Rank(x) < Rank(p)})
      BY <1>3, StockFinite, FS_Subset
    <2>2. \A x \in {y \in free : Rank(y) < Rank(p)} : Offer[x] \in Int
      BY <1>2, <1>3
    <2>3. SumOver({x \in free : Rank(x) < Rank(p)}, Offer) \in Nat
      BY <2>1, <2>2, SumIsNat
    <2>4. QED
      BY <1>2, <2>3
  <1> HIDE DEF Wanted
  <1>5. DOMAIN items \subseteq free
    BY <1>1
  <1>6. ASSUME NEW p \in DOMAIN items
        PROVE  items[p] \in Nat \ {0}
    <2>1. p \in free /\ Worth(Wanted(p)) /\ items[p] = IF Wanted(p) < Offer[p] THEN Wanted(p) ELSE Offer[p]
      BY <1>1
    <2>2. QED
      BY <1>2, <1>3, <1>4, <2>1 DEF Worth
  <1>7. items \in [DOMAIN items -> Nat \ {0}]
    BY <1>1, <1>6
  <1>8. QED
    BY <1>3, <1>5, <1>7 DEF items, need

LEMMA BeginOrderHolds ==
  ASSUME IInv, StockInv, NEW t \in Txs, NEW l \in Lines, BeginOrder(t, l)
  PROVE  StockInv'
  <1>1. PICK items : items = Plan(NeedOf[l])
    OBVIOUS
  <1>2. PICK path : run' = [run EXCEPT ![t] =
               [req |-> [kind |-> "order", line |-> l, items |-> items], key |-> None, own |-> 0,
                todo |-> path]]
    BY <1>1 DEF BeginOrder
  <1>3. /\ stale' = [stale EXCEPT ![t] = {}]
        /\ UNCHANGED <<stockVars, resv, posted, delivery, commandVars, rowLock>>
    BY DEF BeginOrder
  <1> DEFINE q == [kind |-> "order", line |-> l, items |-> items]
             x == [req |-> q, key |-> None, own |-> 0, todo |-> path]
  <1>4. q.kind = "order" /\ q.line = l /\ q.items = items /\ x.req = q
    OBVIOUS
  <1> HIDE DEF q
  <1>5. run' = [run EXCEPT ![t] = x]
    BY <1>2 DEF q
  <1> HIDE DEF x
  <1>6. run'[t] = x /\ (RunOK(t)' => StockInv')
    BY <1>3, <1>5, Looked
  <1>7. DOMAIN items \subseteq Leaves /\ items \in [DOMAIN items -> Nat \ {0}]
    BY <1>1, PlanTakes
  <1>8. Orders(t)'
    BY <1>4, <1>6, <1>7 DEF Orders
  <1>9. QED
    BY <1>4, <1>6, <1>8 DEF RunOK, Kinds, StockKinds

LEMMA BeginShipHolds ==
  ASSUME IInv, StockInv, NEW t \in Txs, NEW k \in Keys, BeginShip(t, k)
  PROVE  StockInv'
  <1>1. PICK q : q = request[k]
    OBVIOUS
  <1>2. PICK d : d = q.delivery
    OBVIOUS
  <1>3. PICK a : a = delivery[d]
    OBVIOUS
  <1>4. PICK own : own = Own(d)
    OBVIOUS
  <1>5. q.kind = "ship" /\ d \in Deliveries
    BY <1>1, <1>2 DEF BeginShip, StockInv, Requested, Meaningful
  <1>6. a.status = "READY" /\ own = a.qty
    BY <1>1, <1>2, <1>3, <1>4 DEF BeginShip
  <1> DEFINE path == <<k, d>> \o StockPath(a.pos) \o <<a.resv>>
             x == [req |-> q, key |-> k, own |-> own, todo |-> path]
  <1>7. /\ run' = [run EXCEPT ![t] = x]
        /\ stale' = [stale EXCEPT ![t] = {}]
        /\ UNCHANGED <<stockVars, resv, posted, delivery, commandVars, rowLock>>
    BY <1>1, <1>2, <1>3, <1>4 DEF BeginShip
  <1>8. x.req = q /\ x.own = own /\ x.todo = path
    OBVIOUS
  <1> HIDE DEF path, x
  <1>9. run'[t] = x /\ stale'[t] = {} /\ (RunOK(t)' => StockInv')
    BY <1>7, Looked
  <1>10. a.pos \in Stock /\ a.qty \in Nat \ {0}
    BY <1>3, <1>5, <1>6, SitesAre DEF StockInv, DeliveriesHold, Holds
  <1>11. a.resv \in DOMAIN resv /\ a.resv \in Rows /\ resv[a.resv].status = "ACTIVE"
    BY <1>3, <1>4, <1>6, <1>10, Reserved DEF Own, Active, StockInv
  <1>12. /\ path \in Seq(Rows) /\ Len(path) \in Nat /\ Len(path) >= 3
         /\ path[2] = d /\ path[Len(path)] = a.resv
    <2>1. PICK mid : mid = StockPath(a.pos)
      OBVIOUS
    <2>2. mid \in Seq(Rows) /\ k \in Rows /\ d \in Rows /\ a.resv \in Rows
      BY <1>5, <1>10, <1>11, <2>1, Places DEF Rows
    <2>3. path = <<k, d>> \o mid \o <<a.resv>>
      BY <2>1 DEF path
    <2>4. QED
      BY <2>2, <2>3
  <1>13. Takes(t, d)'
    <2>1. 2 \in 1 .. Len(path)
      BY <1>12
    <2>2. PICK p : p = path
      OBVIOUS
    <2>3. run'[t].todo = p /\ Len(p) \in Nat /\ 2 \in 1 .. Len(p) /\ p[2] = d
      BY <1>8, <1>9, <1>12, <2>1, <2>2
    <2>4. QED
      BY <2>3, Listed
  <1>14. Takes(t, a.resv)'
    <2>1. PICK p : p = path
      OBVIOUS
    <2>2. /\ run'[t].todo = p /\ Len(p) \in Nat /\ Len(p) \in 1 .. Len(p)
          /\ p[Len(p)] = a.resv
      BY <1>8, <1>9, <1>12, <2>1
    <2>3. QED
      BY <2>2, Listed
  <1>15. run'[t].req = q /\ run'[t].own = own /\ delivery'[d] = a /\ resv' = resv
    BY <1>3, <1>7, <1>8, <1>9
  <1>16. Ships(t)'
    BY <1>2, <1>6, <1>9, <1>10, <1>11, <1>13, <1>14, <1>15 DEF Ships
  <1>17. QED
    BY <1>5, <1>8, <1>9, <1>12, <1>16 DEF RunOK, Kinds, StockKinds

------------------------------------------------------------------------------
(* Locking, and ending without an effect.                                   *)

\* A row that a transaction has or has yet to lock is so after its next lock.
LEMMA StillTaken ==
  ASSUME NEW t, NEW r \in Rows, NEW path \in Seq(Rows), path # <<>>, run[t].todo = path,
         rowLock \in [Rows -> Txs \union {None}], rowLock' = [rowLock EXCEPT ![Head(path)] = t],
         run'[t].todo = Tail(path), Takes(t, r)
  PROVE  Takes(t, r)'
  <1>1. CASE rowLock[r] = t
    BY <1>1 DEF Takes
  <1>2. ASSUME NEW i \in 1 .. Len(path), path[i] = r
        PROVE  Takes(t, r)'
    <2>1. CASE i = 1
      <3>1. rowLock'[r] = t
        BY <1>2, <2>1
      <3>2. QED
        BY <3>1 DEF Takes
    <2>2. CASE i # 1
      <3>1. /\ Tail(path) \in Seq(Rows) /\ Len(Tail(path)) = Len(path) - 1
            /\ \A j \in 1 .. Len(Tail(path)) : Tail(path)[j] = path[j + 1]
            /\ Len(path) \in Nat
        BY HeadTailProperties
      <3>2. PICK rest : rest = Tail(path)
        OBVIOUS
      <3>3. i - 1 \in 1 .. Len(rest) /\ rest[i - 1] = r /\ Len(rest) \in Nat
        BY <1>2, <2>2, <3>1, <3>2
      <3>4. QED
        BY <3>2, <3>3, Listed
    <2>3. QED
      BY <2>1, <2>2
  <1>3. QED
    BY <1>1, <1>2 DEF Takes

LEMMA LockHolds ==
  ASSUME IInv, StockInv, NEW t \in Txs, Lock(t)
  PROVE  StockInv'
  <1>1. PICK q : q = run[t].req
    OBVIOUS
  <1>2. PICK path : path = run[t].todo
    OBVIOUS
  <1>3. PICK x : x = [req |-> q, key |-> run[t].key, todo |-> Tail(path), own |-> run[t].own]
    OBVIOUS
  <1>4. /\ run[t] # None /\ path # <<>>
        /\ rowLock[Head(path)] \in {None, t}
        /\ SnapshotHolds(t, Head(path))
        /\ rowLock' = [rowLock EXCEPT ![Head(path)] = t]
        /\ run' = [run EXCEPT ![t].todo = Tail(@)]
        /\ UNCHANGED <<stockVars, resv, posted, delivery, commandVars, stale>>
    BY <1>2 DEF Lock, Idle
  <1>5. run[t] = [req |-> q, key |-> run[t].key, todo |-> path, own |-> run[t].own]
    BY <1>1, <1>2, <1>4 DEF IInv, Shape
  <1>6. [run[t] EXCEPT !.todo = Tail(run[t].todo)] = x
    BY <1>1, <1>2, <1>3, <1>5, NextRow
  <1>7. run' = [run EXCEPT ![t] = x]
    BY <1>4, <1>6
  <1>8. run'[t] = x
    BY <1>7 DEF IInv, Shape
  <1>9. run'[t].req = q /\ run'[t].todo = Tail(path) /\ run'[t].own = run[t].own
    BY <1>3, <1>8
  <1>10. rowLock' \in [Rows -> Txs \union {None}] /\ stale' \in [Txs -> SUBSET Rows]
    BY <1>4 DEF StockInv, Types
  <1>11. \A u \in Txs : u # t =>
            stale'[u] = stale[u] /\ \A r \in Rows : rowLock'[r] = u <=> rowLock[r] = u
    BY <1>4, NoneAssumption DEF StockInv, Types
  <1>12. RunOK(t)' => StockInv'
    BY <1>4, <1>7, <1>10, <1>11, Progress
  <1>13. RunOK(t)
    BY <1>4 DEF StockInv, RunsHold
  <1>14. CASE q.kind \in {"post", "order"}
    BY <1>1, <1>4, <1>9, <1>12, <1>13, <1>14 DEF RunOK, Orders
  <1>15. CASE q.kind \notin {"post", "order"}
    <2>1. path \in Seq(Rows)
      BY <1>1, <1>2, <1>13, <1>15 DEF RunOK
    <2>2. Tail(path) \in Seq(Rows) /\ Head(path) \in Rows
      BY <1>4, <2>1
    <2>3. ASSUME NEW r \in Rows, Takes(t, r)
          PROVE  Takes(t, r)'
      BY <1>2, <1>4, <1>9, <2>1, <2>3, StillTaken DEF StockInv, Types
    <2>4. /\ UNCHANGED <<resv, delivery, stale>>
          /\ rowLock' = [rowLock EXCEPT ![Head(path)] = t]
          /\ rowLock \in [Rows -> Txs \union {None}]
      BY <1>4 DEF StockInv, Types
    <2>5. \A r \in Rows : rowLock[r] = t => rowLock'[r] = t
      BY <2>2, <2>4
    <2>6. DOMAIN resv \subseteq Rows /\ Deliveries \subseteq Rows
      BY Reserved DEF StockInv, Rows
    <2>7. q.kind \in {"release", "consume"} => Takes(t, q.resv)'
      <3> SUFFICES ASSUME q.kind \in {"release", "consume"} PROVE Takes(t, q.resv)'
        OBVIOUS
      <3>1. Takes(t, q.resv)
        BY <1>1, <1>13 DEF RunOK
      <3>2. q.resv \in Rows
        BY <1>1, <1>4, <2>6, Asked DEF Meaningful, StockKinds
      <3>3. QED
        BY <2>3, <3>1, <3>2
    <2>8. q.kind = "attach" => Attaches(t)'
      BY <1>1, <1>9, <1>13, <2>3, <2>4, <2>5, <2>6 DEF RunOK, Attaches
    <2>9. q.kind = "prepare" => Prepares(t)'
      BY <1>1, <1>9, <1>13, <2>3, <2>4, <2>5, <2>6 DEF RunOK, Prepares
    <2>10. q.kind = "cancel" => Cancels(t)'
      <3> SUFFICES ASSUME q.kind = "cancel" PROVE Cancels(t)'
        OBVIOUS
      <3>1. PICK d : d = q.delivery
        OBVIOUS
      <3>2. PICK i : i = delivery[d].resv
        OBVIOUS
      <3>3. Cancels(t)
        BY <1>1, <1>13 DEF RunOK
      <3>4. run[t].own > 0 => Takes(t, i)'
        BY <1>1, <2>3, <2>6, <3>1, <3>2, <3>3 DEF Cancels
      <3>5. run[t].own > 0 => Takes(t, delivery[d].resv)'
        BY <2>4, <3>2, <3>4 DEF Takes
      <3>6. QED
        BY <1>1, <1>9, <2>4, <2>5, <2>6, <3>1, <3>3, <3>5 DEF Cancels
    <2>11. q.kind = "ship" => Ships(t)'
      <3> SUFFICES ASSUME q.kind = "ship" PROVE Ships(t)'
        OBVIOUS
      <3>1. PICK d : d = q.delivery
        OBVIOUS
      <3>2. PICK i : i = delivery[d].resv
        OBVIOUS
      <3>3. Ships(t)
        BY <1>1, <1>13 DEF RunOK
      <3>4. d \in Deliveries
        BY <1>1, <1>4, <3>1, Asked DEF Meaningful
      <3>5. d \notin stale[t] => Takes(t, i)'
        BY <1>1, <2>3, <2>6, <3>1, <3>2, <3>3 DEF Ships
      <3>6. d \notin stale[t] => Takes(t, delivery[d].resv)'
        BY <2>4, <3>2, <3>5 DEF Takes
      <3>7. Takes(t, d)'
        BY <1>1, <2>3, <2>6, <3>1, <3>3, <3>4 DEF Ships
      <3>8. Head(path) \notin stale[t]
        BY <1>1, <1>4 DEF SnapshotHolds
      <3>9. \A r \in Deliveries \union 1 .. MaxResvs : rowLock'[r] = t => r \notin stale[t]
        <4>1. Deliveries \union 1 .. MaxResvs \subseteq Rows
          BY DEF Rows
        <4>2. QED
          BY <2>4, <3>3, <3>8, <4>1 DEF Ships
      <3>10. QED
        BY <1>1, <1>9, <2>4, <3>1, <3>3, <3>6, <3>7, <3>9 DEF Ships
    <2>12. QED
      BY <1>1, <1>9, <1>12, <1>13, <1>15, <2>2, <2>7, <2>8, <2>9, <2>10, <2>11 DEF RunOK
  <1>16. QED
    BY <1>14, <1>15

LEMMA SendHolds ==
  ASSUME IInv, StockInv, NEW k \in Keys, Send(k)
  PROVE  StockInv'
  <1>1. PICK q \in Requests : request' = [request EXCEPT ![k] = q]
    BY DEF Send
  <1>2. UNCHANGED <<stockVars, resv, posted, delivery, receipts, effects, rowLock, run, stale>>
    BY DEF Send
  <1>3. Meaningful(q)
    <2>1. CASE q \in [kind : {"create"}, pos : Positions, qty : 1 .. MaxQty]
      BY <2>1, BoundAssumption DEF Meaningful, StockKinds
    <2>2. CASE q \in {[kind |-> "release", resv |-> i, version |-> resv[i].version] : i \in DOMAIN resv}
      BY <2>2 DEF Meaningful, StockKinds
    <2>3. CASE q \in {[kind |-> "consume", resv |-> i, version |-> resv[i].version, move |-> m]
                          : i \in DOMAIN resv, m \in Moves}
      BY <2>3 DEF Meaningful, StockKinds
    <2>4. CASE q \in [kind : {"post"}, move : Moves]
      BY <2>4 DEF Meaningful, StockKinds
    <2>5. CASE q \in [kind : {"ship"}, delivery : Deliveries]
      BY <2>5 DEF Meaningful, StockKinds
    <2>6. QED
      BY <2>1, <2>2, <2>3, <2>4, <2>5 DEF Requests
  <1>4. Requested'
    BY <1>1, <1>2, <1>3 DEF StockInv, IInv, Shape, Requested, Meaningful
  <1>5. Types' /\ OneTwin' /\ DeliveriesHold'
    BY <1>2 DEF StockInv, Types, OneTwin, DeliveriesHold, Holds, stockVars
  <1>6. RunsHold'
    BY <1>2 DEF StockInv, RunsHold, RunOK, Takes, Attaches, Prepares, Cancels, Ships, Orders
  <1>7. QED
    BY <1>4, <1>5, <1>6 DEF StockInv

LEMMA StutterHolds ==
  ASSUME StockInv, UNCHANGED vars
  PROVE  StockInv'
  <1>1. UNCHANGED <<stockVars, resv, posted, delivery, commandVars, rowLock, run, stale>>
    BY DEF vars
  <1>2. Types' /\ OneTwin' /\ DeliveriesHold' /\ Requested'
    BY <1>1 DEF StockInv, Types, OneTwin, DeliveriesHold, Holds, stockVars, Requested, Meaningful,
                commandVars
  <1>3. RunsHold'
    BY <1>1 DEF StockInv, RunsHold, RunOK, Takes, Attaches, Prepares, Cancels, Ships, Orders
  <1>4. QED
    BY <1>2, <1>3 DEF StockInv

LEMMA RollBackHolds ==
  ASSUME IInv, StockInv, NEW t \in Txs, RollBack(t)
  PROVE  StockInv'
  <1>1. Leave(t, {}) /\ UNCHANGED <<stockVars, resv, posted, delivery, commandVars>>
    BY DEF RollBack
  <1>2. Written(t, {})
    BY <1>1 DEF Written, commandVars
  <1>3. /\ Requested' /\ RunsHold'
        /\ \A d \in Deliveries : d \notin {} => Holds(d)'
        /\ rowLock' \in [Rows -> Txs \union {None}]
        /\ stale' \in [Txs -> SUBSET Rows]
    BY <1>2, Sequel
  <1>4. DeliveriesHold'
    BY <1>3 DEF DeliveriesHold
  <1>5. Types' /\ OneTwin'
    BY <1>1, <1>3 DEF StockInv, Types, OneTwin, stockVars, commandVars
  <1>6. QED
    BY <1>3, <1>4, <1>5 DEF StockInv

------------------------------------------------------------------------------
(* What each command does when it commits: reservations.                    *)

\* A committing transaction that leaves the types, the twins and its own delivery
\* in order leaves everything in order.
LEMMA Committed ==
  ASSUME IInv, StockInv, NEW t \in Txs, NEW W, Written(t, W),
         total' \in [Stock -> Int], reserved' \in [Stock -> Int],
         resv' \in Seq(Reservations), Len(resv') <= MaxResvs,
         posted' \subseteq Moves, IsFiniteSet(posted'),
         delivery' \in [Deliveries -> Allocations], receipts' \subseteq Keys,
         OneTwin',
         \A d \in Deliveries : d \in W => Holds(d)'
  PROVE  StockInv'
  <1>1. /\ Requested' /\ RunsHold'
        /\ \A d \in Deliveries : d \notin W => Holds(d)'
        /\ rowLock' \in [Rows -> Txs \union {None}]
        /\ stale' \in [Txs -> SUBSET Rows]
    BY Sequel
  <1>2. DeliveriesHold'
    BY <1>1 DEF DeliveriesHold
  <1>3. Types'
    BY <1>1 DEF Types
  <1>4. QED
    BY <1>1, <1>2, <1>3 DEF StockInv

LEMMA Added ==
  ASSUME NEW f \in [Stock -> Int], NEW p, NEW n \in Int
  PROVE  /\ Add(f, p, n) \in [Stock -> Int]
         /\ \A r \in Stock : Add(f, p, n)[r] = IF r \in Touched(p) THEN f[r] + n ELSE f[r]
  BY DEF Add

\* Rows of other tables are no rows of reservations and deliveries.
LEMMA OtherTables ==
  ASSUME NEW p \in Stock
  PROVE  /\ Touched(p) \subseteq Rows /\ Touched(p) \intersect OwnRows = {}
         /\ Moves \intersect OwnRows = {}
  BY Places, RowAssumption DEF OwnRows, Rows

\* The receipt of a command is one of its key.
LEMMA Receipted ==
  ASSUME IInv, StockInv, NEW t \in Txs, run[t] # None,
         run[t].req.kind \in StockKinds \union {"ship"}, Receipt(run[t].key)
  PROVE  receipts' \subseteq Keys /\ UNCHANGED request
  BY DEF IInv, KeysAreHeld, StockInv, Types, Receipt

\* Reserving by hand.
CreateDoes(t, p, n) ==
    /\ p \in Positions /\ p \in Stock /\ n \in Nat \ {0}
    /\ n <= Available(p)
    /\ Len(resv) < MaxResvs
    /\ reserved' = Add(reserved, p, n)
    /\ resv' = Book(resv, p, n, None)
    /\ receipts' \subseteq Keys /\ UNCHANGED <<request, total, posted, delivery>>
    /\ Leave(t, Touched(p))

LEMMA Creates ==
  ASSUME IInv, StockInv, NEW t \in Txs, Create(t)
  PROVE  \E p, n : CreateDoes(t, p, n)
  <1>1. PICK q : q = run[t].req
    OBVIOUS
  <1>2. run[t] # None /\ q.kind = "create"
    BY <1>1 DEF Create, Ready, Idle
  <1>3. q.pos \in Positions /\ q.qty \in Nat \ {0}
    BY <1>1, <1>2, Asked DEF Meaningful, StockKinds
  <1>4. q.pos \in Stock
    BY <1>3 DEF Positions, Stock
  <1>5. /\ q.qty <= Available(q.pos)
        /\ Len(resv) < MaxResvs
        /\ reserved' = Add(reserved, q.pos, q.qty)
        /\ resv' = Append(resv, NewReservation(q.pos, q.qty, None))
        /\ Receipt(run[t].key)
        /\ Leave(t, Touched(q.pos))
        /\ UNCHANGED <<total, posted, delivery>>
    BY <1>1 DEF Create
  <1>6. receipts' \subseteq Keys /\ UNCHANGED request
    BY <1>1, <1>2, <1>5, Receipted DEF StockKinds
  <1>7. CreateDoes(t, q.pos, q.qty)
    BY <1>3, <1>4, <1>5, <1>6 DEF CreateDoes, Book
  <1>8. QED
    BY <1>7

LEMMA CreateHolds ==
  ASSUME IInv, StockInv, NEW t \in Txs, NEW p, NEW n, CreateDoes(t, p, n)
  PROVE  StockInv'
  <1>1. p \in Stock /\ p \in Sites /\ n \in Nat \ {0} /\ None \in Lines \union Deliveries \union {None}
    BY SitesAre DEF CreateDoes
  <1>2. resv \in Seq(Reservations) /\ Len(resv) \in Nat
    BY DEF StockInv, Types
  <1>3. resv' = Book(resv, p, n, None)
    BY DEF CreateDoes
  <1>4. /\ resv' \in Seq(Reservations)
        /\ Len(resv') = Len(resv) + 1
        /\ \A j : j \in DOMAIN resv' <=> j \in DOMAIN resv \/ j = Len(resv) + 1
        /\ \A j \in DOMAIN resv : resv'[j] = resv[j]
        /\ resv'[Len(resv) + 1].source = None
    BY <1>1, <1>2, <1>3, Appended
  <1>5. Written(t, Touched(p))
    BY <1>1, <1>4, OtherTables DEF CreateDoes, Written
  <1>6. OneTwin'
    BY <1>4, NoneAssumption, OneTwinKeeps
  <1>7. \A d \in Deliveries : d \notin Touched(p)
    BY <1>1, OtherTables DEF OwnRows
  <1>8. reserved' \in [Stock -> Int]
    <2>1. reserved' = Add(reserved, p, n) /\ reserved \in [Stock -> Int] /\ n \in Int
      BY <1>1 DEF CreateDoes, StockInv, Types
    <2>2. QED
      BY <2>1, Added
  <1>9. Len(resv') <= MaxResvs
    BY <1>2, <1>4, BoundAssumption DEF CreateDoes
  <1>10. /\ total' \in [Stock -> Int] /\ posted' \subseteq Moves /\ IsFiniteSet(posted')
         /\ delivery' \in [Deliveries -> Allocations] /\ receipts' \subseteq Keys
    BY DEF CreateDoes, StockInv, Types
  <1>11. QED
    BY <1>4, <1>5, <1>6, <1>7, <1>8, <1>9, <1>10, Committed

\* Releasing or consuming.
EndDoes(t, i, status, user) ==
    /\ i \in DOMAIN resv
    /\ resv[i].status = "ACTIVE"
    /\ status \in {"RELEASED", "CONSUMED"}
    /\ user \in Moves \union Deliveries \union {None}
    /\ rowLock[i] = t
    /\ reserved[resv[i].pos] >= resv[i].qty
    /\ reserved' = Add(reserved, resv[i].pos, -resv[i].qty)
    /\ resv' = End(resv, i, status, user)
    /\ receipts' \subseteq Keys /\ UNCHANGED <<request, total, posted, delivery>>
    /\ Leave(t, Touched(resv[i].pos) \union {i})

LEMMA Ends ==
  ASSUME IInv, StockInv, NEW t \in Txs, NEW kind \in {"release", "consume"}, EndReservation(t, kind)
  PROVE  \E i, status, user : EndDoes(t, i, status, user)
  <1>1. PICK q : q = run[t].req
    OBVIOUS
  <1>2. run[t] # None /\ q.kind = kind /\ run[t].todo = <<>>
    BY <1>1 DEF EndReservation, Ready, Idle
  <1>3. q.resv \in DOMAIN resv /\ (kind = "consume" => q.move \in Moves)
    BY <1>1, <1>2, Asked DEF Meaningful, StockKinds
  <1>4. rowLock[q.resv] = t
    BY <1>1, <1>2 DEF StockInv, RunsHold, RunOK, Takes
  <1>5. PICK i : i = q.resv
    OBVIOUS
  <1>6. /\ resv[i].status = "ACTIVE"
        /\ reserved[resv[i].pos] >= resv[i].qty
        /\ reserved' = Add(reserved, resv[i].pos, -resv[i].qty)
        /\ resv' = IF kind = "release"
                   THEN End(resv, i, "RELEASED", None)
                   ELSE End(resv, i, "CONSUMED", q.move)
        /\ Receipt(run[t].key)
        /\ Leave(t, Touched(resv[i].pos) \union {i})
        /\ UNCHANGED <<total, posted, delivery>>
    BY <1>1, <1>5 DEF EndReservation, MayEnd
  <1>7. receipts' \subseteq Keys /\ UNCHANGED request
    BY <1>1, <1>2, <1>6, Receipted DEF StockKinds
  <1>8. CASE kind = "release"
    <2>1. EndDoes(t, i, "RELEASED", None)
      BY <1>3, <1>4, <1>5, <1>6, <1>7, <1>8 DEF EndDoes
    <2>2. QED
      BY <2>1
  <1>9. CASE kind = "consume"
    <2>1. EndDoes(t, i, "CONSUMED", q.move)
      BY <1>3, <1>4, <1>5, <1>6, <1>7, <1>9 DEF EndDoes
    <2>2. QED
      BY <2>1
  <1>10. QED
    BY <1>8, <1>9

LEMMA EndHolds ==
  ASSUME IInv, StockInv, NEW t \in Txs, NEW i, NEW status, NEW user, EndDoes(t, i, status, user)
  PROVE  StockInv'
  <1>1. /\ i \in DOMAIN resv /\ resv[i].status = "ACTIVE" /\ status \in Statuses
        /\ status # "ACTIVE" /\ user \in Moves \union Deliveries \union {None}
        /\ rowLock[i] = t /\ resv' = End(resv, i, status, user)
    BY DEF EndDoes, Statuses
  <1>2. resv \in Seq(Reservations)
    BY DEF StockInv, Types
  <1>3. /\ resv' \in Seq(Reservations)
        /\ Len(resv') = Len(resv)
        /\ DOMAIN resv' = DOMAIN resv
        /\ \A j \in DOMAIN resv : j # i => resv'[j] = resv[j]
        /\ resv'[i].status = status
        /\ resv'[i].pos = resv[i].pos /\ resv'[i].source = resv[i].source
        /\ resv'[i].qty = resv[i].qty
    BY <1>1, <1>2, Finished
  <1>4. PICK p : p = resv[i].pos
    OBVIOUS
  <1>5. p \in Stock /\ resv[i].qty \in Nat
    BY <1>1, <1>2, <1>4, FieldsOf
  <1>6. i \in 1 .. MaxResvs /\ i \in Rows
    BY <1>1, Reserved DEF StockInv
  <1>7. Written(t, Touched(p) \union {i})
    BY <1>1, <1>3, <1>4, <1>5, <1>6, OtherTables DEF EndDoes, Written, OwnRows
  <1>8. OneTwin'
    BY <1>1, <1>3, OneTwinKeeps
  <1>9. \A d \in Deliveries : d \notin Touched(p) \union {i}
    BY <1>5, <1>6, OtherTables, RowAssumption DEF OwnRows
  <1>10. reserved' \in [Stock -> Int]
    <2>1. reserved \in [Stock -> Int] /\ -resv[i].qty \in Int
      BY <1>5 DEF StockInv, Types
    <2>2. reserved' = Add(reserved, p, -resv[i].qty)
      BY <1>4 DEF EndDoes
    <2>3. QED
      BY <1>5, <2>1, <2>2, Added
  <1>11. Len(resv') <= MaxResvs
    BY <1>3 DEF StockInv, Types
  <1>12. /\ total' \in [Stock -> Int] /\ posted' \subseteq Moves /\ IsFiniteSet(posted')
         /\ delivery' \in [Deliveries -> Allocations] /\ receipts' \subseteq Keys
    BY DEF EndDoes, StockInv, Types
  <1>13. QED
    BY <1>3, <1>7, <1>8, <1>9, <1>10, <1>11, <1>12, Committed

------------------------------------------------------------------------------
(* Movements.                                                               *)

\* A delivery with another status.
Mark(f, d, s) == [f EXCEPT ![d].status = s]

\* The status of a delivery changes and nothing else of it.
LEMMA Marked ==
  ASSUME NEW f \in [Deliveries -> Allocations], NEW d \in Deliveries,
         NEW s \in {"NONE", "DRAFT", "READY", "SHIPPED", "CANCELLED"},
         NEW new, new = Mark(f, d, s)
  PROVE  /\ new \in [Deliveries -> Allocations]
         /\ \A e \in Deliveries : e # d => new[e] = f[e]
         /\ new[d].status = s
         /\ new[d].pos = f[d].pos /\ new[d].qty = f[d].qty /\ new[d].resv = f[d].resv
  <1> DEFINE x == [f[d] EXCEPT !.status = s]
  <1>1. f[d] \in Allocations
    OBVIOUS
  <1>2. /\ x \in Allocations /\ x.status = s
        /\ x.pos = f[d].pos /\ x.qty = f[d].qty /\ x.resv = f[d].resv
    BY <1>1 DEF Allocations
  <1>3. new = [f EXCEPT ![d] = x]
    BY Zenon DEF Mark
  <1> HIDE DEF x
  <1>4. QED
    BY <1>2, <1>3

\* A movement applied to its two ends.
Moved(f, m) ==
    LET Taken == IF MoveFrom[m] = None THEN f ELSE Add(f, MoveFrom[m], -MoveQty[m])
    IN  IF MoveTo[m] = None THEN Taken ELSE Add(Taken, MoveTo[m], MoveQty[m])

\* Posting.
PostDoes(t, m) ==
    /\ m \in Moves /\ m \notin posted
    /\ MoveFrom[m] # None => MoveQty[m] <= Available(MoveFrom[m])
    /\ total' = Moved(total, m)
    /\ posted' = posted \union {m}
    /\ receipts' \subseteq Keys /\ UNCHANGED <<request, reserved, resv, delivery>>
    /\ Leave(t, {m} \union UNION {Touched(p) : p \in Legs(m)})

LEMMA Posts ==
  ASSUME IInv, StockInv, NEW t \in Txs, PostMovement(t)
  PROVE  \E m : PostDoes(t, m)
  <1>1. PICK m : m = run[t].req.move
    OBVIOUS
  <1>2. run[t] # None /\ run[t].req.kind = "post"
    BY DEF PostMovement, Ready, Idle
  <1>3. m \in Moves
    BY <1>1, <1>2, Asked DEF Meaningful, StockKinds
  <1>4. /\ m \notin posted
        /\ MoveFrom[m] # None => MoveQty[m] <= Available(MoveFrom[m])
        /\ total' = Moved(total, m)
        /\ posted' = posted \union {m}
        /\ Receipt(run[t].key)
        /\ Leave(t, {m} \union UNION {Touched(p) : p \in Legs(m)})
        /\ UNCHANGED <<reserved, resv, delivery>>
    BY <1>1, Zenon DEF PostMovement, MayPost, Moved
  <1>5. receipts' \subseteq Keys /\ UNCHANGED request
    BY <1>2, <1>4, Receipted DEF StockKinds
  <1>6. PostDoes(t, m)
    BY <1>3, <1>4, <1>5 DEF PostDoes
  <1>7. QED
    BY <1>6

LEMMA MovedIs ==
  ASSUME NEW f \in [Stock -> Int], NEW m \in Moves
  PROVE  /\ Moved(f, m) \in [Stock -> Int]
         /\ MoveQty[m] \in Nat \ {0}
         /\ \A r \in Stock :
                Moved(f, m)[r] = f[r]
                    - (IF MoveFrom[m] # None /\ r \in Touched(MoveFrom[m]) THEN MoveQty[m] ELSE 0)
                    + (IF MoveTo[m] # None /\ r \in Touched(MoveTo[m]) THEN MoveQty[m] ELSE 0)
  <1> DEFINE Taken == IF MoveFrom[m] = None THEN f ELSE Add(f, MoveFrom[m], -MoveQty[m])
  <1>1. MoveQty[m] \in Nat \ {0} /\ -MoveQty[m] \in Int /\ MoveQty[m] \in Int
    BY MoveAssumption
  <1>2. /\ Taken \in [Stock -> Int]
        /\ \A r \in Stock : Taken[r] = f[r]
               - (IF MoveFrom[m] # None /\ r \in Touched(MoveFrom[m]) THEN MoveQty[m] ELSE 0)
    BY <1>1, Added
  <1>3. Moved(f, m) = IF MoveTo[m] = None THEN Taken ELSE Add(Taken, MoveTo[m], MoveQty[m])
    BY DEF Moved
  <1> HIDE DEF Taken
  <1>4. QED
    BY <1>1, <1>2, <1>3, Added

LEMMA LegsTouch ==
  ASSUME NEW m \in Moves
  PROVE  UNION {Touched(p) : p \in Legs(m)} \subseteq Stock
  <1>1. Legs(m) \subseteq Stock
    BY MoveAssumption DEF Legs, Positions, Stock
  <1>2. QED
    BY <1>1, Places

LEMMA PostHolds ==
  ASSUME IInv, StockInv, NEW t \in Txs, NEW m, PostDoes(t, m)
  PROVE  StockInv'
  <1>1. PICK W : W = {m} \union UNION {Touched(p) : p \in Legs(m)}
    OBVIOUS
  <1>2. m \in Moves
    BY DEF PostDoes
  <1>3. W \subseteq Moves \union Stock
    BY <1>1, <1>2, LegsTouch
  <1>4. W \subseteq Rows /\ W \intersect OwnRows = {}
    BY <1>3, RowAssumption DEF OwnRows, Rows
  <1>5. Leave(t, W) /\ UNCHANGED <<request, reserved, resv, delivery>>
    BY <1>1 DEF PostDoes
  <1>6. Written(t, W)
    BY <1>4, <1>5 DEF Written
  <1>7. OneTwin'
    BY <1>5, OneTwinKeeps
  <1>8. \A d \in Deliveries : d \notin W
    BY <1>4 DEF OwnRows
  <1>9. total' \in [Stock -> Int]
    BY <1>2, MovedIs DEF PostDoes, StockInv, Types
  <1>10. posted' \subseteq Moves /\ IsFiniteSet(posted')
    BY <1>2, FS_AddElement DEF PostDoes, StockInv, Types
  <1>11. /\ reserved' \in [Stock -> Int] /\ resv' \in Seq(Reservations) /\ Len(resv') <= MaxResvs
         /\ delivery' \in [Deliveries -> Allocations] /\ receipts' \subseteq Keys
    BY <1>5 DEF PostDoes, StockInv, Types
  <1>12. QED
    BY <1>6, <1>7, <1>8, <1>9, <1>10, <1>11, Committed

------------------------------------------------------------------------------
(* Allocations to deliveries.                                               *)

\* What is checked of the reservation and the delivery.
AttachDoes(t, d, i) ==
    /\ d \in Deliveries /\ i \in DOMAIN resv
    /\ rowLock[d] = t /\ rowLock[i] = t
    /\ resv[i].status = "ACTIVE" /\ resv[i].source \in Lines
    /\ delivery[d].status = "NONE"
    /\ UNCHANGED <<request, receipts, total, reserved, posted>>
    /\ Leave(t, {d, i})

\* The reservation goes over to the delivery.
AttachWhole(t, d, i) ==
    /\ AttachDoes(t, d, i)
    /\ resv' = Rename(resv, i, d)
    /\ delivery' = [delivery EXCEPT ![d] =
           [status |-> "DRAFT", pos |-> resv[i].pos, qty |-> resv[i].qty, resv |-> i]]

\* A part of it does.
AttachPart(t, d, i, n) ==
    /\ AttachDoes(t, d, i)
    /\ n \in Nat \ {0} /\ n < resv[i].qty
    /\ Len(resv) < MaxResvs
    /\ resv' = Book(Reduce(resv, i, n), resv[i].pos, n, d)
    /\ delivery' = [delivery EXCEPT ![d] =
           [status |-> "DRAFT", pos |-> resv[i].pos, qty |-> n, resv |-> Len(resv) + 1]]

LEMMA Attaching ==
  ASSUME IInv, StockInv, NEW t \in Txs, Attach(t)
  PROVE  \E d, i, n : AttachWhole(t, d, i) \/ AttachPart(t, d, i, n)
  <1>1. PICK q : q = run[t].req
    OBVIOUS
  <1>2. PICK d, i : d = q.delivery /\ i = q.resv
    OBVIOUS
  <1>3. PICK n : n = IF resv[i].qty < NeedOf[LineOf[d]] THEN resv[i].qty ELSE NeedOf[LineOf[d]]
    OBVIOUS
  <1>4. run[t] # None /\ q.kind = "attach" /\ run[t].todo = <<>>
    BY <1>1 DEF Attach, Ready, Idle
  <1>5. Attaches(t)
    BY <1>1, <1>4 DEF StockInv, RunsHold, RunOK
  <1>6. d \in Deliveries /\ i \in DOMAIN resv /\ rowLock[d] = t /\ rowLock[i] = t
    BY <1>1, <1>2, <1>4, <1>5 DEF Attaches, Takes
  <1>7. /\ resv[i].status = "ACTIVE" /\ resv[i].source = LineOf[d]
        /\ delivery[d].status = "NONE"
        /\ n = resv[i].qty \/ Len(resv) < MaxResvs
        /\ Leave(t, {d, i})
        /\ UNCHANGED <<stockVars, posted, commandVars>>
    BY <1>1, <1>2, <1>3 DEF Attach, Active
  <1>8. resv' = IF n = resv[i].qty THEN Rename(resv, i, d)
                ELSE Book(Reduce(resv, i, n), resv[i].pos, n, d)
    <2> DEFINE e == run[t].req.delivery
               j == run[t].req.resv
               k == IF resv[j].qty < NeedOf[LineOf[e]] THEN resv[j].qty ELSE NeedOf[LineOf[e]]
    <2>1. resv' = IF k = resv[j].qty THEN Rename(resv, j, e)
                  ELSE Book(Reduce(resv, j, k), resv[j].pos, k, e)
      BY Zenon DEF Attach, Rename, Reduce, Book
    <2>2. e = d /\ j = i
      BY <1>1, <1>2
    <2>3. k = n
      BY <1>3, <2>2
    <2> HIDE DEF e, j, k
    <2>4. QED
      BY <2>1, <2>2, <2>3
  <1>9. delivery' = [delivery EXCEPT ![d] =
               [status |-> "DRAFT", pos |-> resv[i].pos, qty |-> n,
                resv |-> IF n = resv[i].qty THEN i ELSE Len(resv) + 1]]
    BY <1>1, <1>2, <1>3, Zenon DEF Attach
  <1>10. LineOf[d] \in Lines /\ NeedOf[LineOf[d]] \in Nat \ {0}
    BY <1>6, OrderAssumption
  <1>11. resv[i].qty \in Nat \ {0}
    BY <1>6, Reserved, FieldsOf DEF StockInv
  <1>12. n \in Nat \ {0} /\ (n # resv[i].qty => n < resv[i].qty)
    BY <1>3, <1>10, <1>11
  <1>13. AttachDoes(t, d, i)
    BY <1>6, <1>7, <1>10 DEF AttachDoes, stockVars, commandVars
  <1>14. CASE n = resv[i].qty
    <2>1. AttachWhole(t, d, i)
      BY <1>8, <1>9, <1>13, <1>14 DEF AttachWhole
    <2>2. QED
      BY <2>1
  <1>15. CASE n # resv[i].qty
    <2>1. AttachPart(t, d, i, n)
      BY <1>7, <1>8, <1>9, <1>12, <1>13, <1>15 DEF AttachPart
    <2>2. QED
      BY <2>1
  <1>16. QED
    BY <1>14, <1>15

\* The rows of a delivery and of a reservation.
LEMMA TwoRows ==
  ASSUME StockInv, NEW d \in Deliveries, NEW i \in DOMAIN resv
  PROVE  /\ {d, i} \subseteq Rows /\ i \in 1 .. MaxResvs /\ d # i /\ i # 0
         /\ i \notin Deliveries /\ d \notin Lines
         /\ d \in Lines \union Deliveries \union {None}
  BY Reserved, RowAssumption, OrderAssumption DEF StockInv, Rows

LEMMA AllocationSet ==
  ASSUME NEW d \in Deliveries, delivery \in [Deliveries -> Allocations], NEW x \in Allocations,
         delivery' = [delivery EXCEPT ![d] = x]
  PROVE  /\ delivery' \in [Deliveries -> Allocations]
         /\ delivery'[d] = x
         /\ \A e \in Deliveries : e # d => delivery'[e] = delivery[e]
  OBVIOUS

LEMMA AttachWholeHolds ==
  ASSUME IInv, StockInv, NEW t \in Txs, NEW d, NEW i, AttachWhole(t, d, i)
  PROVE  StockInv'
  <1>1. AttachDoes(t, d, i) /\ d \in Deliveries /\ i \in DOMAIN resv
    BY DEF AttachWhole, AttachDoes
  <1>2. resv \in Seq(Reservations) /\ resv[i] \in Reservations
    BY <1>1, Reserved DEF StockInv, Types
  <1>3. PICK p, n : p = resv[i].pos /\ n = resv[i].qty
    OBVIOUS
  <1>4. p \in Stock /\ p \in Sites /\ n \in Nat \ {0}
    BY <1>2, <1>3, FieldsOf
  <1>5. /\ {d, i} \subseteq Rows /\ i \in 1 .. MaxResvs /\ d # i /\ i # 0
        /\ i \notin Deliveries /\ d \notin Lines
        /\ d \in Lines \union Deliveries \union {None}
    BY <1>1, TwoRows
  <1>6. resv' = Rename(resv, i, d)
    BY DEF AttachWhole
  <1>7. /\ resv' \in Seq(Reservations)
        /\ Len(resv') = Len(resv)
        /\ DOMAIN resv' = DOMAIN resv
        /\ \A j \in DOMAIN resv : j # i => resv'[j] = resv[j]
        /\ resv'[i].source = d
        /\ resv'[i].pos = p /\ resv'[i].qty = n
    BY <1>1, <1>2, <1>3, <1>5, <1>6, Renamed
  <1> DEFINE x == [status |-> "DRAFT", pos |-> p, qty |-> n, resv |-> i]
  <1>8. x \in Allocations /\ x.status = "DRAFT" /\ x.pos = p /\ x.qty = n /\ x.resv = i
    BY <1>4, <1>5 DEF Allocations
  <1>9. delivery' = [delivery EXCEPT ![d] = x]
    BY <1>3 DEF AttachWhole
  <1> HIDE DEF x
  <1>10. /\ delivery' \in [Deliveries -> Allocations] /\ delivery'[d] = x
         /\ \A e \in Deliveries : e # d => delivery'[e] = delivery[e]
    BY <1>1, <1>8, <1>9, AllocationSet DEF StockInv, Types
  <1>11. Written(t, {d, i})
    BY <1>1, <1>3, <1>5, <1>7, <1>10, OrderAssumption DEF AttachDoes, Written
  <1>12. OneTwin'
    BY <1>5, <1>7, OneTwinKeeps
  <1>13. Holds(d)'
    BY <1>1, <1>4, <1>5, <1>7, <1>8, <1>10 DEF Holds
  <1>14. \A e \in Deliveries : e \in {d, i} => e = d
    BY <1>5
  <1>15. /\ total' \in [Stock -> Int] /\ reserved' \in [Stock -> Int]
         /\ posted' \subseteq Moves /\ IsFiniteSet(posted') /\ receipts' \subseteq Keys
         /\ Len(resv') <= MaxResvs
    BY <1>1, <1>7 DEF AttachDoes, StockInv, Types
  <1>16. QED
    BY <1>7, <1>10, <1>11, <1>12, <1>13, <1>14, <1>15, Committed

LEMMA AttachPartHolds ==
  ASSUME IInv, StockInv, NEW t \in Txs, NEW d, NEW i, NEW n, AttachPart(t, d, i, n)
  PROVE  StockInv'
  <1>1. AttachDoes(t, d, i) /\ d \in Deliveries /\ i \in DOMAIN resv
        /\ n \in Nat \ {0} /\ n \in Nat /\ n < resv[i].qty /\ Len(resv) < MaxResvs
    BY DEF AttachPart, AttachDoes
  <1>2. resv \in Seq(Reservations) /\ resv[i] \in Reservations
    BY <1>1, Reserved DEF StockInv, Types
  <1>3. PICK p : p = resv[i].pos
    OBVIOUS
  <1>4. p \in Stock /\ p \in Sites
    BY <1>2, <1>3, FieldsOf
  <1>5. /\ {d, i} \subseteq Rows /\ i \in 1 .. MaxResvs /\ d # i /\ i # 0
        /\ i \notin Deliveries /\ d \notin Lines
        /\ d \in Lines \union Deliveries \union {None}
    BY <1>1, TwoRows
  <1>6. PICK less : less = Reduce(resv, i, n)
    OBVIOUS
  <1>7. /\ less \in Seq(Reservations)
        /\ Len(less) = Len(resv)
        /\ DOMAIN less = DOMAIN resv
        /\ \A j \in DOMAIN resv : j # i => less[j] = resv[j]
        /\ less[i].pos = p /\ less[i].source = resv[i].source /\ less[i].status = resv[i].status
    BY <1>1, <1>2, <1>3, <1>6, Reduced
  <1>8. PICK last : last = Len(resv) + 1
    OBVIOUS
  <1>9. resv' = Book(less, p, n, d)
    BY <1>3, <1>6 DEF AttachPart
  <1>10. /\ resv' \in Seq(Reservations)
         /\ Len(resv') = last
         /\ \A j : j \in DOMAIN resv' <=> j \in DOMAIN resv \/ j = last
         /\ \A j \in DOMAIN resv : resv'[j] = less[j]
         /\ resv'[last].source = d /\ resv'[last].pos = p /\ resv'[last].qty = n
         /\ last \in Nat \ {0} /\ last \in DOMAIN resv'
    <2>1. /\ resv' \in Seq(Reservations)
          /\ Len(resv') = Len(less) + 1
          /\ \A j : j \in DOMAIN resv' <=> j \in DOMAIN less \/ j = Len(less) + 1
          /\ \A j \in DOMAIN less : resv'[j] = less[j]
          /\ resv'[Len(less) + 1].source = d /\ resv'[Len(less) + 1].pos = p
          /\ resv'[Len(less) + 1].qty = n
      <3>1. /\ less \in Seq(Reservations) /\ p \in Sites /\ n \in Nat \ {0}
            /\ d \in Lines \union Deliveries \union {None}
        BY <1>1, <1>4, <1>5, <1>7
      <3>2. PICK new : new = resv'
        OBVIOUS
      <3>3. new = Book(less, p, n, d)
        BY <1>9, <3>2
      <3>4. /\ new \in Seq(Reservations)
            /\ Len(new) = Len(less) + 1
            /\ \A j : j \in DOMAIN new <=> j \in DOMAIN less \/ j = Len(less) + 1
            /\ \A j \in DOMAIN less : new[j] = less[j]
            /\ new[Len(less) + 1].source = d /\ new[Len(less) + 1].pos = p
            /\ new[Len(less) + 1].qty = n
        BY <3>1, <3>3, Appended
      <3>5. QED
        BY <3>2, <3>4
    <2>2. Len(resv) \in Nat
      BY <1>2
    <2>3. QED
      <3>1. Len(less) + 1 = last /\ last \in Nat \ {0}
        BY <1>7, <1>8, <2>2
      <3>2. last \in DOMAIN resv'
        BY <2>1, <3>1
      <3>3. \A j : j \in DOMAIN resv' <=> j \in DOMAIN resv \/ j = last
        BY <1>7, <2>1, <3>1
      <3>4. \A j \in DOMAIN resv : resv'[j] = less[j]
        BY <1>7, <2>1
      <3>5. QED
        BY <2>1, <3>1, <3>2, <3>3, <3>4
  <1> DEFINE x == [status |-> "DRAFT", pos |-> p, qty |-> n, resv |-> last]
  <1>11. x \in Allocations /\ x.status = "DRAFT" /\ x.pos = p /\ x.qty = n /\ x.resv = last
    BY <1>1, <1>4, <1>10 DEF Allocations
  <1>12. delivery' = [delivery EXCEPT ![d] = x]
    BY <1>3, <1>8 DEF AttachPart
  <1> HIDE DEF x
  <1>13. /\ delivery' \in [Deliveries -> Allocations] /\ delivery'[d] = x
         /\ \A e \in Deliveries : e # d => delivery'[e] = delivery[e]
    BY <1>1, <1>11, <1>12, AllocationSet DEF StockInv, Types
  <1>14. Written(t, {d, i})
    BY <1>1, <1>3, <1>5, <1>7, <1>10, <1>13, OrderAssumption DEF AttachDoes, Written
  <1>15. OneTwin'
    <2>1. \A j \in DOMAIN resv : resv'[j].source = resv[j].source /\ resv'[j].pos = resv[j].pos
                                 /\ resv'[j].status = resv[j].status
      BY <1>3, <1>7, <1>10
    <2>2. QED
      BY <1>5, <1>10, <2>1, OneTwinKeeps
  <1>16. Holds(d)'
    BY <1>1, <1>4, <1>5, <1>10, <1>11, <1>13 DEF Holds
  <1>17. \A e \in Deliveries : e \in {d, i} => e = d
    BY <1>5
  <1>18. /\ total' \in [Stock -> Int] /\ reserved' \in [Stock -> Int]
         /\ posted' \subseteq Moves /\ IsFiniteSet(posted') /\ receipts' \subseteq Keys
    BY <1>1 DEF AttachDoes, StockInv, Types
  <1>19. Len(resv') <= MaxResvs
    <2>1. Len(resv) \in Nat /\ MaxResvs \in Nat
      BY <1>2, BoundAssumption
    <2>2. QED
      BY <1>1, <1>8, <1>10, <2>1
  <1>20. QED
    BY <1>10, <1>13, <1>14, <1>15, <1>16, <1>17, <1>18, <1>19, Committed

------------------------------------------------------------------------------
(* Preparing a delivery.                                                    *)

\* A delivery becomes READY.
PrepareDoes(t, d) ==
    /\ d \in Deliveries /\ rowLock[d] = t
    /\ delivery[d].status \in {"NONE", "DRAFT"}
    /\ UNCHANGED <<request, receipts, total, posted>>

\* What is not covered gets reserved.
PrepareNew(t, d, p, n, x) ==
    /\ PrepareDoes(t, d)
    /\ p \in Sites /\ n \in Nat \ {0} /\ n <= Available(p)
    /\ Len(resv) < MaxResvs
    /\ reserved' = Add(reserved, p, n)
    /\ resv' = Book(resv, p, n, d)
    /\ x \in Allocations
    /\ x.status = "READY" /\ x.pos = p /\ x.qty = n /\ x.resv = Len(resv) + 1
    /\ delivery' = [delivery EXCEPT ![d] = x]
    /\ Leave(t, {d} \union Touched(p))

\* What was covered is renamed, if it still is.
PrepareOld(t, d, i) ==
    /\ PrepareDoes(t, d)
    /\ delivery[d].status = "DRAFT"
    /\ i \in DOMAIN resv /\ rowLock[i] = t /\ delivery[d].resv = i
    /\ \/ resv' = resv
       \/ resv[i].status = "ACTIVE" /\ resv' = Rename(resv, i, d)
    /\ delivery' = Mark(delivery, d, "READY")
    /\ UNCHANGED reserved
    /\ Leave(t, {d, i})

LEMMA Preparing ==
  ASSUME IInv, StockInv, NEW t \in Txs, Prepare(t)
  PROVE  \E d, p, n, x, i : PrepareNew(t, d, p, n, x) \/ PrepareOld(t, d, i)
  <1>1. PICK q : q = run[t].req
    OBVIOUS
  <1>2. PICK d, a : d = q.delivery /\ a = q.alloc
    OBVIOUS
  <1>3. run[t] # None /\ q.kind = "prepare" /\ run[t].todo = <<>>
    BY <1>1 DEF Prepare, Ready, Idle
  <1>4. Prepares(t)
    BY <1>1, <1>3 DEF StockInv, RunsHold, RunOK
  <1>5. /\ d \in Deliveries /\ rowLock[d] = t /\ run[t].own \in Nat
        /\ a \in Allocations /\ a.pos \in Sites /\ a.qty \in Nat \ {0}
        /\ delivery[d].status \in {"NONE", "DRAFT"}
    BY <1>1, <1>2, <1>4 DEF Prepares
  <1>6. UNCHANGED <<total, posted, commandVars>>
    BY DEF Prepare
  <1>7. PrepareDoes(t, d)
    BY <1>5, <1>6 DEF PrepareDoes, commandVars
  <1>8. CASE run[t].own = 0
    <2> DEFINE y == [a EXCEPT !.status = "READY"]
               x == [y EXCEPT !.resv = Len(resv) + 1]
    <2>1. /\ a.qty <= Available(a.pos)
          /\ Len(resv) < MaxResvs
          /\ reserved' = Add(reserved, a.pos, a.qty)
          /\ resv' = Append(resv, NewReservation(a.pos, a.qty, d))
          /\ delivery' = [delivery EXCEPT ![d] = [a EXCEPT !.status = "READY", !.resv = Len(resv) + 1]]
          /\ Leave(t, {d} \union Touched(a.pos))
      BY <1>1, <1>2, <1>5, <1>8 DEF Prepare
    <2>2. Len(resv) + 1 \in Nat
      BY DEF StockInv, Types
    <2>3. y \in Allocations /\ y.status = "READY" /\ y.pos = a.pos /\ y.qty = a.qty
      BY <1>5 DEF Allocations
    <2>4. delivery' = [delivery EXCEPT ![d] = x]
      BY <2>1, Zenon
    <2> HIDE DEF y
    <2>5. /\ x \in Allocations /\ x.status = "READY" /\ x.pos = a.pos /\ x.qty = a.qty
          /\ x.resv = Len(resv) + 1
      BY <2>2, <2>3 DEF Allocations
    <2> HIDE DEF x
    <2>6. PrepareNew(t, d, a.pos, a.qty, x)
      BY <1>5, <1>7, <2>1, <2>4, <2>5 DEF PrepareNew, Book
    <2>7. QED
      BY <2>6
  <1>9. CASE run[t].own > 0
    <2>1. /\ resv' = IF Active(a.resv) THEN Rename(resv, a.resv, d) ELSE resv
          /\ delivery' = Mark(delivery, d, "READY")
          /\ UNCHANGED reserved
          /\ Leave(t, {d, a.resv})
      <3> DEFINE e == run[t].req.delivery
                 b == run[t].req.alloc
      <3>0. run[t].own # 0
        BY <1>9
      <3>1. /\ resv' = IF Active(b.resv) THEN Rename(resv, b.resv, e) ELSE resv
            /\ delivery' = Mark(delivery, e, "READY")
            /\ UNCHANGED reserved
            /\ Leave(t, {e, b.resv})
        BY <3>0, Zenon DEF Prepare, Rename, Mark
      <3>2. e = d /\ b = a
        BY <1>1, <1>2
      <3> HIDE DEF e, b
      <3>3. QED
        BY <3>1, <3>2
    <2>2. PICK i : i = a.resv
      OBVIOUS
    <2>3. /\ a = delivery[d] /\ a.status = "DRAFT" /\ i \in DOMAIN resv /\ rowLock[i] = t
      BY <1>1, <1>2, <1>3, <1>4, <1>9, <2>2 DEF Prepares, Takes
    <2>4. resv' = resv \/ (resv[i].status = "ACTIVE" /\ resv' = Rename(resv, i, d))
      BY <2>1, <2>2 DEF Active
    <2>6. PrepareOld(t, d, i)
      BY <1>7, <2>1, <2>2, <2>3, <2>4 DEF PrepareOld
    <2>7. QED
      BY <2>6
  <1>10. QED
    BY <1>5, <1>8, <1>9

LEMMA PrepareNewHolds ==
  ASSUME IInv, StockInv, NEW t \in Txs, NEW d, NEW p, NEW n, NEW x, PrepareNew(t, d, p, n, x)
  PROVE  StockInv'
  <1>1. /\ PrepareDoes(t, d) /\ d \in Deliveries /\ p \in Stock /\ p \in Sites /\ n \in Nat \ {0} /\ n \in Int
        /\ Len(resv) < MaxResvs /\ x \in Allocations
        /\ d \in Lines \union Deliveries \union {None} /\ d \notin Lines /\ d \in Rows
    BY OrderAssumption, SitesAre DEF PrepareNew, PrepareDoes, Rows
  <1>2. resv \in Seq(Reservations) /\ Len(resv) \in Nat
    BY DEF StockInv, Types
  <1>3. resv' = Book(resv, p, n, d)
    BY DEF PrepareNew
  <1>4. /\ resv' \in Seq(Reservations)
        /\ Len(resv') = Len(resv) + 1
        /\ \A j : j \in DOMAIN resv' <=> j \in DOMAIN resv \/ j = Len(resv) + 1
        /\ \A j \in DOMAIN resv : resv'[j] = resv[j]
        /\ resv'[Len(resv) + 1].source = d /\ resv'[Len(resv) + 1].pos = p
        /\ resv'[Len(resv) + 1].qty = n
    BY <1>1, <1>2, <1>3, Appended
  <1>5. delivery' = [delivery EXCEPT ![d] = x] /\ delivery \in [Deliveries -> Allocations]
    BY DEF PrepareNew, StockInv, Types
  <1>6. /\ delivery' \in [Deliveries -> Allocations] /\ delivery'[d] = x
        /\ \A e \in Deliveries : e # d => delivery'[e] = delivery[e]
    BY <1>1, <1>5, AllocationSet
  <1>7. PICK W : W = {d} \union Touched(p)
    OBVIOUS
  <1>8. /\ W \subseteq Rows /\ \A r \in OwnRows : r \in W => r = d
        /\ d \in W /\ \A j \in DOMAIN resv : j \notin W
    BY <1>1, <1>7, OtherTables, Reserved, RowAssumption DEF OwnRows, StockInv
  <1>9. Written(t, W)
    BY <1>1, <1>4, <1>6, <1>7, <1>8 DEF PrepareNew, PrepareDoes, Written
  <1>10. OneTwin'
    BY <1>1, <1>4, OneTwinKeeps
  <1>11. Holds(d)'
    <2>1. x.status = "READY" /\ x.pos = p /\ x.qty = n /\ x.resv = Len(resv) + 1
      BY DEF PrepareNew
    <2>2. Len(resv) + 1 \in DOMAIN resv'
      BY <1>4
    <2>3. QED
      BY <1>1, <1>2, <1>4, <1>6, <2>1, <2>2 DEF Holds
  <1>12. reserved' \in [Stock -> Int]
    <2>1. reserved' = Add(reserved, p, n) /\ reserved \in [Stock -> Int]
      BY DEF PrepareNew, StockInv, Types
    <2>2. QED
      BY <1>1, <2>1, Added
  <1>13. \A e \in Deliveries : e \in W => e = d
    BY <1>8 DEF OwnRows
  <1>14. /\ total' \in [Stock -> Int] /\ posted' \subseteq Moves /\ IsFiniteSet(posted')
         /\ receipts' \subseteq Keys
    BY <1>1 DEF PrepareDoes, StockInv, Types
  <1>15. Len(resv') <= MaxResvs
    BY <1>1, <1>2, <1>4, BoundAssumption
  <1>16. QED
    BY <1>4, <1>6, <1>9, <1>10, <1>11, <1>12, <1>13, <1>14, <1>15, Committed

LEMMA PrepareOldHolds ==
  ASSUME IInv, StockInv, NEW t \in Txs, NEW d, NEW i, PrepareOld(t, d, i)
  PROVE  StockInv'
  <1>1. /\ PrepareDoes(t, d) /\ d \in Deliveries /\ i \in DOMAIN resv
        /\ delivery[d].status = "DRAFT" /\ delivery[d].resv = i
    BY DEF PrepareOld, PrepareDoes
  <1>2. resv \in Seq(Reservations) /\ delivery \in [Deliveries -> Allocations]
    BY DEF StockInv, Types
  <1>3. /\ {d, i} \subseteq Rows /\ i \in 1 .. MaxResvs /\ d # i /\ i # 0
        /\ i \notin Deliveries /\ d \notin Lines
        /\ d \in Lines \union Deliveries \union {None}
    BY <1>1, TwoRows
  <1>4. Holds(d)
    BY <1>1 DEF StockInv, DeliveriesHold
  <1>5. resv[i].source = d /\ resv[i].pos = delivery[d].pos /\ resv[i].qty = delivery[d].qty
    BY <1>1, <1>3, <1>4 DEF Holds
  <1>6. /\ resv' \in Seq(Reservations)
        /\ Len(resv') = Len(resv)
        /\ DOMAIN resv' = DOMAIN resv
        /\ \A j \in DOMAIN resv : j # i => resv'[j] = resv[j]
        /\ resv'[i].source = d /\ resv'[i].pos = resv[i].pos /\ resv'[i].qty = resv[i].qty
    <2>1. CASE resv' = resv
      BY <1>2, <1>5, <2>1
    <2>2. CASE resv' = Rename(resv, i, d)
      BY <1>1, <1>2, <1>3, <2>2, Renamed
    <2>3. QED
      BY <2>1, <2>2 DEF PrepareOld
  <1>7. delivery' = Mark(delivery, d, "READY")
    BY DEF PrepareOld
  <1>8. /\ delivery' \in [Deliveries -> Allocations]
        /\ \A e \in Deliveries : e # d => delivery'[e] = delivery[e]
        /\ delivery'[d].status = "READY" /\ delivery'[d].pos = delivery[d].pos
        /\ delivery'[d].qty = delivery[d].qty /\ delivery'[d].resv = i
    BY <1>1, <1>2, <1>7, Marked
  <1>9. Written(t, {d, i})
    <2>1. resv[i].status # "ACTIVE" => resv' = resv
      BY DEF PrepareOld
    <2>2. QED
      BY <1>1, <1>3, <1>5, <1>6, <1>8, <2>1 DEF PrepareOld, PrepareDoes, Written
  <1>10. OneTwin'
    BY <1>3, <1>6, OneTwinKeeps
  <1>11. Holds(d)'
    BY <1>1, <1>3, <1>4, <1>5, <1>6, <1>8 DEF Holds
  <1>12. \A e \in Deliveries : e \in {d, i} => e = d
    BY <1>3
  <1>13. /\ total' \in [Stock -> Int] /\ reserved' \in [Stock -> Int]
         /\ posted' \subseteq Moves /\ IsFiniteSet(posted') /\ receipts' \subseteq Keys
         /\ Len(resv') <= MaxResvs
    BY <1>1, <1>6 DEF PrepareOld, PrepareDoes, StockInv, Types
  <1>14. QED
    BY <1>6, <1>8, <1>9, <1>10, <1>11, <1>12, <1>13, Committed

------------------------------------------------------------------------------
(* Shipping and cancelling.                                                 *)

\* A delivery goes out of stock with its reservation.
ShipDoes(t, d, i) ==
    /\ d \in Deliveries /\ i \in DOMAIN resv
    /\ rowLock[d] = t /\ rowLock[i] = t
    /\ resv[i].status = "ACTIVE"
    /\ delivery[d].status = "READY" /\ delivery[d].resv = i
    /\ resv[i].qty <= total[resv[i].pos] - (reserved[resv[i].pos] - resv[i].qty)
    /\ total' = Add(total, resv[i].pos, -resv[i].qty)
    /\ reserved' = Add(reserved, resv[i].pos, -resv[i].qty)
    /\ resv' = End(resv, i, "CONSUMED", d)
    /\ delivery' = Mark(delivery, d, "SHIPPED")
    /\ receipts' \subseteq Keys /\ UNCHANGED <<request, posted>>
    /\ Leave(t, {d, i} \union Touched(resv[i].pos))

LEMMA Shipping ==
  ASSUME IInv, StockInv, NEW t \in Txs, Ship(t)
  PROVE  \E d, i : ShipDoes(t, d, i)
  <1>1. PICK d : d = run[t].req.delivery
    OBVIOUS
  <1>2. PICK a : a = delivery[d]
    OBVIOUS
  <1>3. PICK i : i = a.resv
    OBVIOUS
  <1>4. run[t] # None /\ run[t].req.kind = "ship" /\ run[t].todo = <<>>
    BY DEF Ship, Ready, Idle
  <1>5. d \in Deliveries /\ d \in OwnRows
    BY <1>1, <1>4, Asked DEF Meaningful, OwnRows
  <1>6. Ships(t)
    BY <1>4 DEF StockInv, RunsHold, RunOK
  <1>7. rowLock[d] = t
    BY <1>1, <1>4, <1>6 DEF Ships, Takes
  <1>8. d \notin stale[t]
    BY <1>5, <1>6, <1>7 DEF Ships
  <1>9. a.qty = run[t].own /\ i \in DOMAIN resv /\ Takes(t, i) /\ (i \notin stale[t] => resv[i].status = "ACTIVE")
    BY <1>1, <1>2, <1>3, <1>6, <1>8 DEF Ships
  <1>10. rowLock[i] = t
    BY <1>4, <1>9 DEF Takes
  <1>11. i \in 1 .. MaxResvs /\ i # 0
    BY <1>9, Reserved DEF StockInv
  <1>12. resv[i].status = "ACTIVE"
    BY <1>6, <1>9, <1>10, <1>11 DEF Ships
  <1>13. Holds(d)
    BY <1>5 DEF StockInv, DeliveriesHold
  <1>14. resv[i].pos = a.pos /\ resv[i].qty = a.qty
    BY <1>2, <1>3, <1>11, <1>13 DEF Holds
  <1>15. PICK p, n : p = a.pos /\ n = a.qty
    OBVIOUS
  <1>16. /\ a.status = "READY"
         /\ n <= total[p] - (reserved[p] - n)
         /\ total' = Add(total, p, -n)
         /\ reserved' = Add(reserved, p, -n)
         /\ Receipt(run[t].key)
         /\ Leave(t, {d, i} \union Touched(p))
         /\ UNCHANGED posted
    BY <1>1, <1>2, <1>3, <1>9, <1>15 DEF Ship
  <1>17. resv' = End(resv, i, "CONSUMED", d)
    BY <1>1, <1>2, <1>3, <1>9, <1>12 DEF Ship, Active
  <1>18. delivery' = Mark(delivery, d, "SHIPPED")
    BY <1>1 DEF Ship, Mark
  <1>19. receipts' \subseteq Keys /\ UNCHANGED request
    BY <1>4, <1>16, Receipted
  <1>20. ShipDoes(t, d, i)
    BY <1>2, <1>3, <1>5, <1>7, <1>9, <1>10, <1>12, <1>14, <1>15, <1>16, <1>17, <1>18, <1>19
       DEF ShipDoes
  <1>21. QED
    BY <1>20

\* A delivery and its reservation end together.
LEMMA EndedWith ==
  ASSUME IInv, StockInv, NEW t \in Txs, NEW d \in Deliveries, NEW i \in DOMAIN resv,
         NEW status \in Statuses, status # "ACTIVE",
         NEW user \in Moves \union Deliveries \union {None},
         NEW s \in {"SHIPPED", "CANCELLED"},
         s = "SHIPPED" => status = "CONSUMED" /\ user = d,
         rowLock[d] = t, rowLock[i] = t, resv[i].status = "ACTIVE",
         delivery[d].status \in {"DRAFT", "READY"}, delivery[d].resv = i,
         resv' = End(resv, i, status, user), delivery' = Mark(delivery, d, s),
         total' \in [Stock -> Int], reserved' \in [Stock -> Int],
         receipts' \subseteq Keys, UNCHANGED <<request, posted>>,
         NEW p, p = resv[i].pos, Leave(t, {d, i} \union Touched(p))
  PROVE  StockInv'
  <1>1. resv \in Seq(Reservations) /\ delivery \in [Deliveries -> Allocations]
    BY DEF StockInv, Types
  <1>2. /\ {d, i} \subseteq Rows /\ i \in 1 .. MaxResvs /\ d # i /\ i # 0
        /\ i \notin Deliveries /\ d \notin Lines
    BY TwoRows
  <1>3. Holds(d)
    BY DEF StockInv, DeliveriesHold
  <1>4. resv[i].source = d /\ resv[i].pos = delivery[d].pos /\ resv[i].qty = delivery[d].qty
    BY <1>2, <1>3 DEF Holds
  <1>5. /\ resv' \in Seq(Reservations)
        /\ Len(resv') = Len(resv)
        /\ DOMAIN resv' = DOMAIN resv
        /\ \A j \in DOMAIN resv : j # i => resv'[j] = resv[j]
        /\ resv'[i].status = status /\ resv'[i].usedBy = user
        /\ resv'[i].pos = resv[i].pos /\ resv'[i].source = resv[i].source
        /\ resv'[i].qty = resv[i].qty
    BY <1>1, Finished
  <1>6. /\ delivery' \in [Deliveries -> Allocations]
        /\ \A e \in Deliveries : e # d => delivery'[e] = delivery[e]
        /\ delivery'[d].status = s /\ delivery'[d].pos = delivery[d].pos
        /\ delivery'[d].qty = delivery[d].qty /\ delivery'[d].resv = i
    <2>1. s \in {"NONE", "DRAFT", "READY", "SHIPPED", "CANCELLED"}
      OBVIOUS
    <2>2. delivery \in [Deliveries -> Allocations] /\ delivery' = Mark(delivery, d, s)
      BY <1>1
    <2>3. /\ delivery' \in [Deliveries -> Allocations]
          /\ \A e \in Deliveries : e # d => delivery'[e] = delivery[e]
          /\ delivery'[d].status = s /\ delivery'[d].pos = delivery[d].pos
          /\ delivery'[d].qty = delivery[d].qty /\ delivery'[d].resv = delivery[d].resv
      BY <2>1, <2>2, Marked
    <2>4. QED
      BY <2>3
  <1>7. PICK W : W = {d, i} \union Touched(p)
    OBVIOUS
  <1>8. p \in Stock
    BY <1>1, FieldsOf
  <1>9. W \subseteq Rows /\ (\A r \in OwnRows : r \in W => r \in {d, i}) /\ {d, i} \subseteq W
    BY <1>2, <1>7, <1>8, OtherTables
  <1>10. Written(t, W)
    BY <1>4, <1>5, <1>6, <1>7, <1>9 DEF Written
  <1>11. OneTwin'
    BY <1>5, OneTwinKeeps
  <1>12. Holds(d)'
    BY <1>2, <1>3, <1>4, <1>5, <1>6 DEF Holds
  <1>13. \A e \in Deliveries : e \in W => e = d
    BY <1>2, <1>9 DEF OwnRows
  <1>14. posted' \subseteq Moves /\ IsFiniteSet(posted') /\ Len(resv') <= MaxResvs
    BY <1>5 DEF StockInv, Types
  <1>15. QED
    BY <1>5, <1>6, <1>10, <1>11, <1>12, <1>13, <1>14, Committed

LEMMA ShipHolds ==
  ASSUME IInv, StockInv, NEW t \in Txs, NEW d, NEW i, ShipDoes(t, d, i)
  PROVE  StockInv'
  <1>1. PICK p, n : p = resv[i].pos /\ n = -resv[i].qty
    OBVIOUS
  <1>2. d \in Deliveries /\ i \in DOMAIN resv /\ resv[i] \in Reservations
    BY Reserved DEF ShipDoes, StockInv
  <1>3. n \in Int
    BY <1>1, <1>2, FieldsOf
  <1>4. total' = Add(total, p, n) /\ reserved' = Add(reserved, p, n)
    BY <1>1 DEF ShipDoes
  <1>5. total' \in [Stock -> Int] /\ reserved' \in [Stock -> Int]
    BY <1>3, <1>4, Added DEF StockInv, Types
  <1>6. QED
    BY <1>1, <1>2, <1>5, EndedWith DEF ShipDoes, Statuses

\* A delivery is cancelled with its reservation, or without.
CancelBoth(t, d, i) ==
    /\ d \in Deliveries /\ i \in DOMAIN resv
    /\ rowLock[d] = t /\ rowLock[i] = t
    /\ resv[i].status = "ACTIVE"
    /\ delivery[d].status \in {"DRAFT", "READY"} /\ delivery[d].resv = i
    /\ reserved[resv[i].pos] >= resv[i].qty
    /\ reserved' = Add(reserved, resv[i].pos, -resv[i].qty)
    /\ resv' = End(resv, i, "RELEASED", None)
    /\ delivery' = Mark(delivery, d, "CANCELLED")
    /\ UNCHANGED <<request, receipts, total, posted>>
    /\ Leave(t, {d, i} \union Touched(resv[i].pos))

CancelAlone(t, d) ==
    /\ d \in Deliveries /\ rowLock[d] = t
    /\ delivery[d].status \in {"DRAFT", "READY"}
    /\ delivery' = Mark(delivery, d, "CANCELLED")
    /\ UNCHANGED <<request, receipts, stockVars, posted, resv>>
    /\ Leave(t, {d})

LEMMA Cancelling ==
  ASSUME IInv, StockInv, NEW t \in Txs, Cancel(t)
  PROVE  \E d, i : CancelBoth(t, d, i) \/ CancelAlone(t, d)
  <1>1. PICK d : d = run[t].req.delivery
    OBVIOUS
  <1>2. PICK i : i = delivery[d].resv
    OBVIOUS
  <1>3. run[t] # None /\ run[t].req.kind = "cancel" /\ run[t].todo = <<>>
    BY DEF Cancel, Ready, Idle
  <1>4. Cancels(t)
    BY <1>3 DEF StockInv, RunsHold, RunOK
  <1>5. d \in Deliveries /\ rowLock[d] = t /\ delivery[d].status \in {"DRAFT", "READY"}
    BY <1>1, <1>4 DEF Cancels
  <1>6. delivery' = Mark(delivery, d, "CANCELLED") /\ UNCHANGED <<total, posted, commandVars>>
    BY <1>1 DEF Cancel, Mark
  <1>7. CASE run[t].own > 0 /\ Active(i)
    <2>1. i \in DOMAIN resv /\ resv[i].status = "ACTIVE"
      BY <1>7 DEF Active
    <2>2. Takes(t, i)
      BY <1>1, <1>2, <1>4, <1>7 DEF Cancels
    <2>3. rowLock[i] = t
      BY <1>3, <2>2 DEF Takes
    <2>4. Holds(d) /\ i # 0
      BY <1>5, <2>1, Reserved DEF StockInv, DeliveriesHold
    <2>5. resv[i].pos = delivery[d].pos /\ resv[i].qty = delivery[d].qty
      BY <1>2, <2>4 DEF Holds
    <2>6. /\ reserved[delivery[d].pos] >= delivery[d].qty
          /\ reserved' = Add(reserved, delivery[d].pos, -delivery[d].qty)
          /\ resv' = End(resv, i, "RELEASED", None)
          /\ Leave(t, {d, i} \union Touched(delivery[d].pos))
      BY <1>1, <1>2, <1>7 DEF Cancel
    <2>7. CancelBoth(t, d, i)
      BY <1>2, <1>5, <1>6, <2>1, <2>3, <2>5, <2>6 DEF CancelBoth, commandVars
    <2>8. QED
      BY <2>7
  <1>8. CASE ~(run[t].own > 0 /\ Active(i))
    <2>1. UNCHANGED <<reserved, resv>> /\ Leave(t, {d})
      BY <1>1, <1>2, <1>8 DEF Cancel
    <2>2. CancelAlone(t, d)
      BY <1>5, <1>6, <2>1 DEF CancelAlone, commandVars, stockVars
    <2>3. QED
      BY <2>2
  <1>9. QED
    BY <1>7, <1>8

LEMMA CancelBothHolds ==
  ASSUME IInv, StockInv, NEW t \in Txs, NEW d, NEW i, CancelBoth(t, d, i)
  PROVE  StockInv'
  <1>1. PICK p, n : p = resv[i].pos /\ n = -resv[i].qty
    OBVIOUS
  <1>2. d \in Deliveries /\ i \in DOMAIN resv /\ resv[i] \in Reservations
    BY Reserved DEF CancelBoth, StockInv
  <1>3. n \in Int
    BY <1>1, <1>2, FieldsOf
  <1>4. reserved' = Add(reserved, p, n) /\ UNCHANGED <<total, receipts>>
    BY <1>1 DEF CancelBoth
  <1>5. total' \in [Stock -> Int] /\ reserved' \in [Stock -> Int] /\ receipts' \subseteq Keys
    BY <1>3, <1>4, Added DEF StockInv, Types
  <1>6. QED
    BY <1>1, <1>2, <1>5, EndedWith DEF CancelBoth, Statuses

LEMMA CancelAloneHolds ==
  ASSUME IInv, StockInv, NEW t \in Txs, NEW d, CancelAlone(t, d)
  PROVE  StockInv'
  <1>1. /\ d \in Deliveries /\ rowLock[d] = t /\ delivery[d].status \in {"DRAFT", "READY"}
        /\ delivery' = Mark(delivery, d, "CANCELLED")
        /\ UNCHANGED <<request, receipts, stockVars, posted, resv>>
        /\ Leave(t, {d})
    BY DEF CancelAlone
  <1>2. delivery \in [Deliveries -> Allocations] /\ Holds(d)
    BY <1>1 DEF StockInv, Types, DeliveriesHold
  <1>3. /\ delivery' \in [Deliveries -> Allocations]
        /\ \A e \in Deliveries : e # d => delivery'[e] = delivery[e]
        /\ delivery'[d].status = "CANCELLED" /\ delivery'[d].pos = delivery[d].pos
        /\ delivery'[d].qty = delivery[d].qty /\ delivery'[d].resv = delivery[d].resv
    BY <1>1, <1>2, Marked
  <1>4. Written(t, {d})
    BY <1>1, <1>3 DEF Written, Rows
  <1>5. OneTwin'
    BY <1>1, OneTwinKeeps
  <1>6. Holds(d)'
    BY <1>1, <1>2, <1>3 DEF Holds
  <1>7. /\ total' \in [Stock -> Int] /\ reserved' \in [Stock -> Int]
        /\ posted' \subseteq Moves /\ IsFiniteSet(posted') /\ receipts' \subseteq Keys
        /\ resv' \in Seq(Reservations) /\ Len(resv') <= MaxResvs
    BY <1>1 DEF StockInv, Types, stockVars
  <1>8. QED
    BY <1>3, <1>4, <1>5, <1>6, <1>7, Committed

------------------------------------------------------------------------------
(* Reserving for an order line.                                             *)

\* A reservation of the line that gets more.
Grow(r, n) == [r EXCEPT !.qty = @ + n, !.version = @ + 1]

LEMMA Grown ==
  ASSUME NEW r \in Reservations, NEW n \in Nat, NEW x, x = Grow(r, n)
  PROVE  /\ x \in Reservations
         /\ x.qty = r.qty + n /\ x.pos = r.pos /\ x.source = r.source
         /\ x.status = r.status /\ x.usedBy = r.usedBy
  <1> DEFINE y == [r EXCEPT !.qty = r.qty + n]
             v == r.version + 1
  <1>1. r.qty + n \in Nat \ {0} /\ v \in Nat \ {0}
    BY DEF Reservations
  <1>2. x = [y EXCEPT !.version = v]
    BY Zenon DEF Grow
  <1> HIDE DEF v
  <1>3. /\ y \in Reservations
        /\ y.qty = r.qty + n /\ y.pos = r.pos /\ y.source = r.source
        /\ y.status = r.status /\ y.usedBy = r.usedBy
    BY <1>1 DEF Reservations
  <1> HIDE DEF y
  <1>4. QED
    BY <1>1, <1>2, <1>3 DEF Reservations

\* A finite set is enumerated by SetToSeq.
LEMMA Enumerated ==
  ASSUME NEW S, IsFiniteSet(S), NEW s, s = SetToSeq(S)
  PROVE  /\ Len(s) \in Nat /\ DOMAIN s = 1 .. Len(s) /\ s \in Seq(S)
         /\ \A j, k \in DOMAIN s : s[j] = s[k] => j = k
         /\ \A x \in S : \E j \in DOMAIN s : s[j] = x
  <1> DEFINE n == Cardinality(S)
  <1>1. n \in Nat /\ ExistsBijection(1 .. n, S)
    BY FS_CardinalityType
  <1>2. \E f \in [1 .. n -> S] : IsInjective(f)
    BY <1>1 DEF ExistsBijection, Bijection, Injection
  <1>3. s \in [1 .. n -> S] /\ IsInjective(s)
    BY <1>2 DEF SetToSeq
  <1>4. s \in Injection(1 .. n, S)
    BY <1>3 DEF Injection
  <1>5. Cardinality(1 .. n) = n
    BY <1>1, FS_Interval
  <1>6. s \in Surjection(1 .. n, S)
    BY <1>4, <1>5, FS_Injection
  <1> HIDE DEF n
  <1>7. s \in Seq(S) /\ Len(s) = n /\ DOMAIN s = 1 .. n
    BY <1>1, <1>3
  <1>8. \A x \in S : \E j \in DOMAIN s : s[j] = x
    BY <1>6, <1>7 DEF Surjection
  <1>9. QED
    BY <1>1, <1>3, <1>7, <1>8 DEF IsInjective

\* What the plan does to the reservations.
Merged(rs, line, items, new) ==
    /\ new \in Seq(Reservations)
    /\ DOMAIN rs \subseteq DOMAIN new
    /\ \A i \in DOMAIN rs :
           /\ new[i].pos = rs[i].pos /\ new[i].source = rs[i].source
           /\ new[i].status = rs[i].status
           /\ i \notin Hit(rs, line, items) => new[i] = rs[i]
           /\ i \in Hit(rs, line, items) =>
                  rs[i].pos \in DOMAIN items /\ new[i].qty = rs[i].qty + items[rs[i].pos]
    /\ \A i \in DOMAIN new : i \notin DOMAIN rs =>
           /\ new[i].pos \in DOMAIN items /\ Twins(rs, line, new[i].pos) = {}
           /\ new[i].qty = items[new[i].pos]
           /\ new[i].source = line /\ new[i].status = "ACTIVE"
    /\ \A i, j \in DOMAIN new :
           i \notin DOMAIN rs /\ j \notin DOMAIN rs /\ new[i].pos = new[j].pos => i = j
    /\ \A p \in DOMAIN items : Twins(rs, line, p) = {} =>
           \E i \in DOMAIN new : i \notin DOMAIN rs /\ new[i].pos = p

LEMMA Upserted ==
  ASSUME NEW rs \in Seq(Reservations), NEW line \in Lines,
         NEW items, DOMAIN items \subseteq Leaves, items \in [DOMAIN items -> Nat \ {0}],
         NEW new, new = Upsert(rs, line, items)
  PROVE  Merged(rs, line, items, new)
  <1> DEFINE D == DOMAIN items
             N == {p \in DOMAIN items : Twins(rs, line, p) = {}}
             s == SetToSeq(N)
             hit == Hit(rs, line, items)
             A == [i \in DOMAIN rs |-> IF i \in hit THEN Grow(rs[i], items[rs[i].pos]) ELSE rs[i]]
             B == [j \in DOMAIN s |-> NewReservation(s[j], items[s[j]], line)]
  <1>1. DOMAIN items = D /\ D \subseteq Leaves /\ D \subseteq Stock /\ items \in [D -> Nat \ {0}]
    BY SitesAre
  <1>2. new = A \o B
    BY Zenon DEF Upsert, Grow
  <1>3. IsFiniteSet(N) /\ N \subseteq D
    BY <1>1, StockFinite, FS_Subset
  <1>4. /\ Len(s) \in Nat /\ DOMAIN s = 1 .. Len(s) /\ s \in Seq(N)
        /\ \A j, k \in DOMAIN s : s[j] = s[k] => j = k
        /\ \A x \in N : \E j \in DOMAIN s : s[j] = x
    BY <1>3, Enumerated
  <1>5. hit \subseteq DOMAIN rs /\ \A i \in hit : rs[i].pos \in D
    BY <1>1 DEF Hit, Twins
  <1>6. \A p \in N : p \in D /\ Twins(rs, line, p) = {}
    BY <1>3
  <1>7. \A p \in D : Twins(rs, line, p) = {} => p \in N
    BY <1>1
  <1> HIDE DEF D, N, s, hit
  <1>8. DOMAIN rs = 1 .. Len(rs) /\ Len(rs) \in Nat /\ \A i \in DOMAIN rs : rs[i] \in Reservations
    OBVIOUS
  <1>9. ASSUME NEW i \in DOMAIN rs
        PROVE  /\ A[i] \in Reservations
               /\ A[i].pos = rs[i].pos /\ A[i].source = rs[i].source /\ A[i].status = rs[i].status
               /\ i \notin hit => A[i] = rs[i]
               /\ i \in hit => rs[i].pos \in D /\ A[i].qty = rs[i].qty + items[rs[i].pos]
    <2>1. CASE i \notin hit
      BY <1>8, <2>1
    <2>2. CASE i \in hit
      <3>1. rs[i].pos \in D /\ items[rs[i].pos] \in Nat /\ rs[i] \in Reservations
        BY <1>1, <1>5, <1>8, <2>2
      <3>2. A[i] = Grow(rs[i], items[rs[i].pos])
        BY <2>2
      <3> HIDE DEF A
      <3> DEFINE r == rs[i]
                 n == items[rs[i].pos]
                 x == A[i]
      <3>3. r \in Reservations /\ n \in Nat /\ x = Grow(r, n)
        BY <3>1, <3>2
      <3>4. /\ x \in Reservations
            /\ x.qty = r.qty + n /\ x.pos = r.pos /\ x.source = r.source
            /\ x.status = r.status
        <4> HIDE DEF r, n, x
        <4>1. QED
          BY <3>3, Grown
      <3>5. QED
        BY <2>2, <3>1, <3>4
    <2>3. QED
      BY <2>1, <2>2
  <1>10. ASSUME NEW j \in DOMAIN s
         PROVE  /\ B[j] \in Reservations
                /\ B[j].pos = s[j] /\ B[j].qty = items[s[j]]
                /\ B[j].source = line /\ B[j].status = "ACTIVE"
    <2>1. s[j] \in Sites /\ items[s[j]] \in Nat \ {0}
      BY <1>1, <1>3, <1>4, SitesAre
    <2>2. B[j] = NewReservation(s[j], items[s[j]], line)
      OBVIOUS
    <2> HIDE DEF B
    <2>3. QED
      BY <2>1, <2>2 DEF NewReservation, Reservations, Statuses
  <1>11. A \in Seq(Reservations) /\ Len(A) = Len(rs)
    BY <1>8, <1>9
  <1>12. B \in Seq(Reservations) /\ Len(B) = Len(s)
    BY <1>4, <1>10
  <1> HIDE DEF A, B
  <1>13. /\ new \in Seq(Reservations)
         /\ Len(new) = Len(rs) + Len(s)
         /\ \A i \in 1 .. Len(rs) : new[i] = A[i]
         /\ \A i \in Len(rs) + 1 .. Len(rs) + Len(s) : new[i] = B[i - Len(rs)]
    <2>1. /\ A \o B \in Seq(Reservations)
          /\ Len(A \o B) = Len(A) + Len(B)
          /\ \A i \in 1 .. Len(A) + Len(B) :
                 (A \o B)[i] = IF i <= Len(A) THEN A[i] ELSE B[i - Len(A)]
      BY <1>11, <1>12, ConcatProperties
    <2>2. /\ new \in Seq(Reservations)
          /\ Len(new) = Len(rs) + Len(s)
          /\ \A i \in 1 .. Len(rs) + Len(s) :
                 new[i] = IF i <= Len(rs) THEN A[i] ELSE B[i - Len(rs)]
      BY <1>2, <1>11, <1>12, <2>1
    <2>3. Len(rs) \in Nat /\ Len(s) \in Nat
      BY <1>4, <1>8
    <2>4. \A i \in 1 .. Len(rs) : new[i] = A[i]
      BY <2>2, <2>3
    <2>5. \A i \in Len(rs) + 1 .. Len(rs) + Len(s) : new[i] = B[i - Len(rs)]
      BY <2>2, <2>3
    <2>6. QED
      BY <2>2, <2>4, <2>5
  <1>14. DOMAIN new = 1 .. Len(rs) + Len(s)
    BY <1>13
  <1>15. \A i \in DOMAIN rs : i \in DOMAIN new /\ new[i] = A[i]
    BY <1>4, <1>8, <1>13, <1>14
  <1>16. \A i \in DOMAIN new : i \notin DOMAIN rs =>
             i - Len(rs) \in DOMAIN s /\ i \in Int /\ new[i] = B[i - Len(rs)]
    <2> SUFFICES ASSUME NEW i \in DOMAIN new, i \notin DOMAIN rs
                 PROVE  i - Len(rs) \in DOMAIN s /\ i \in Int /\ new[i] = B[i - Len(rs)]
      OBVIOUS
    <2>1. i \in Int /\ i \in Len(rs) + 1 .. Len(rs) + Len(s)
      BY <1>4, <1>8, <1>14
    <2>2. i - Len(rs) \in 1 .. Len(s)
      BY <1>4, <1>8, <2>1
    <2>3. QED
      BY <1>4, <1>13, <2>1, <2>2
  <1>17. \A j \in DOMAIN s : /\ Len(rs) + j \in DOMAIN new /\ Len(rs) + j \notin DOMAIN rs
                             /\ new[Len(rs) + j] = B[j]
    <2> TAKE j \in DOMAIN s
    <2>1. j \in 1 .. Len(s) /\ Len(rs) \in Nat
      BY <1>4, <1>8
    <2>2. Len(rs) + j \in DOMAIN new /\ Len(rs) + j \notin DOMAIN rs
      BY <1>4, <1>8, <1>14, <2>1
    <2>3. (Len(rs) + j) - Len(rs) = j
      BY <2>1
    <2>4. QED
      BY <1>16, <2>2, <2>3
  <1>18. \A i \in DOMAIN new : i \notin DOMAIN rs =>
             /\ new[i].pos \in D /\ Twins(rs, line, new[i].pos) = {}
             /\ new[i].qty = items[new[i].pos]
             /\ new[i].source = line /\ new[i].status = "ACTIVE"
    <2> SUFFICES ASSUME NEW i \in DOMAIN new, i \notin DOMAIN rs
                 PROVE  /\ new[i].pos \in D /\ Twins(rs, line, new[i].pos) = {}
                        /\ new[i].qty = items[new[i].pos]
                        /\ new[i].source = line /\ new[i].status = "ACTIVE"
      OBVIOUS
    <2>1. PICK j \in DOMAIN s : new[i] = B[j]
      BY <1>16
    <2>2. s[j] \in N
      BY <1>4
    <2>3. QED
      BY <1>6, <1>10, <2>1, <2>2
  <1>19. \A i, j \in DOMAIN new :
             i \notin DOMAIN rs /\ j \notin DOMAIN rs /\ new[i].pos = new[j].pos => i = j
    <2> SUFFICES ASSUME NEW i \in DOMAIN new, NEW j \in DOMAIN new,
                        i \notin DOMAIN rs, j \notin DOMAIN rs, new[i].pos = new[j].pos
                 PROVE  i = j
      OBVIOUS
    <2>1. /\ i - Len(rs) \in DOMAIN s /\ j - Len(rs) \in DOMAIN s /\ i \in Int /\ j \in Int
          /\ new[i] = B[i - Len(rs)] /\ new[j] = B[j - Len(rs)]
      BY <1>16
    <2>2. s[i - Len(rs)] = s[j - Len(rs)]
      BY <1>10, <2>1
    <2>3. i - Len(rs) = j - Len(rs)
      BY <1>4, <2>1, <2>2
    <2>4. QED
      BY <1>8, <2>1, <2>3
  <1>20. \A p \in D : Twins(rs, line, p) = {} =>
             \E i \in DOMAIN new : i \notin DOMAIN rs /\ new[i].pos = p
    <2> SUFFICES ASSUME NEW p \in D, Twins(rs, line, p) = {}
                 PROVE  \E i \in DOMAIN new : i \notin DOMAIN rs /\ new[i].pos = p
      OBVIOUS
    <2>1. PICK j \in DOMAIN s : s[j] = p
      BY <1>4, <1>7
    <2>2. QED
      BY <1>10, <1>17, <2>1
  <1>21. \A i \in DOMAIN rs :
             /\ new[i].pos = rs[i].pos /\ new[i].source = rs[i].source
             /\ new[i].status = rs[i].status
             /\ i \notin hit => new[i] = rs[i]
             /\ i \in hit => rs[i].pos \in D /\ new[i].qty = rs[i].qty + items[rs[i].pos]
    BY <1>9, <1>15
  <1>22. QED
    BY <1>13, <1>15, <1>18, <1>19, <1>20, <1>21 DEF Merged, D, hit

\* What an order reserves.
OrderDoes(t, line, items) ==
    /\ line \in Lines
    /\ DOMAIN items \subseteq Leaves
    /\ items \in [DOMAIN items -> Nat \ {0}]
    /\ PlanHolds(items)
    /\ \A i \in Hit(resv, line, items) : rowLock[i] = None
    /\ Len(Upsert(resv, line, items)) <= MaxResvs
    /\ reserved' = [r \in Stock |-> reserved[r] + Planned(items, r)]
    /\ resv' = Upsert(resv, line, items)
    /\ UNCHANGED <<request, receipts, total, posted, delivery>>
    /\ Leave(t, Hit(resv, line, items) \union {r \in Stock : Planned(items, r) > 0})

LEMMA Ordering ==
  ASSUME IInv, StockInv, NEW t \in Txs, OrderReserve(t)
  PROVE  \E line, items : OrderDoes(t, line, items)
  <1>1. PICK line : line = run[t].req.line
    OBVIOUS
  <1>2. PICK items : items = run[t].req.items
    OBVIOUS
  <1>3. run[t] # None /\ run[t].req.kind = "order"
    BY DEF OrderReserve, Ready, Idle
  <1>4. Orders(t)
    BY <1>3 DEF StockInv, RunsHold, RunOK
  <1>5. line \in Lines /\ DOMAIN items \subseteq Leaves /\ items \in [DOMAIN items -> Nat \ {0}]
    BY <1>1, <1>2, <1>4 DEF Orders
  <1>6. /\ PlanHolds(items)
        /\ \A i \in Hit(resv, line, items) : rowLock[i] = None
        /\ Len(Upsert(resv, line, items)) <= MaxResvs
        /\ reserved' = [r \in Stock |-> reserved[r] + Planned(items, r)]
        /\ resv' = Upsert(resv, line, items)
        /\ UNCHANGED <<total, posted, delivery, commandVars>>
        /\ Leave(t, Hit(resv, line, items) \union {r \in Stock : Planned(items, r) > 0})
    BY Zenon, <1>1, <1>2 DEF OrderReserve
  <1>7. UNCHANGED <<request, receipts, total, posted, delivery>>
    BY <1>6 DEF commandVars
  <1>8. OrderDoes(t, line, items)
    BY Zenon, <1>5, <1>6, <1>7 DEF OrderDoes
  <1>9. QED
    BY <1>8

LEMMA PlannedIsNat ==
  ASSUME NEW D, D \subseteq Stock, NEW items \in [D -> Nat \ {0}], NEW r
  PROVE  Planned(items, r) \in Nat
  <1> DEFINE S == {p \in DOMAIN items : r \in Touched(p)}
  <1>1. S \subseteq D /\ IsFiniteSet(S)
    BY StockFinite, FS_Subset
  <1>2. \A p \in S : items[p] \in Int
    BY <1>1
  <1>3. SumOver(S, items) \in Nat
    BY <1>1, <1>2, SumIsNat
  <1>4. QED
    BY <1>3 DEF Planned

\* Reservations of a line in a lot of the plan.
LEMMA HitIs ==
  ASSUME NEW rs, NEW line, NEW items, NEW i \in Hit(rs, line, items)
  PROVE  /\ i \in DOMAIN rs /\ rs[i].status = "ACTIVE" /\ rs[i].source = line
         /\ rs[i].pos \in Batches /\ rs[i].pos \in DOMAIN items
  BY DEF Hit, Twins

LEMMA OrderHolds ==
  ASSUME IInv, StockInv, NEW t \in Txs, NEW line, NEW items, OrderDoes(t, line, items)
  PROVE  StockInv'
  <1> DEFINE D == DOMAIN items
             hit == Hit(resv, line, items)
  <1>1. D \subseteq Leaves /\ D \subseteq Stock /\ items \in [D -> Nat \ {0}] /\ line \in Lines
    BY DEF OrderDoes, Leaves
  <1>2. resv \in Seq(Reservations) /\ delivery \in [Deliveries -> Allocations]
    BY DEF StockInv, Types
  <1>3. resv' = Upsert(resv, line, items)
    BY DEF OrderDoes
  <1>4. \A i \in hit : /\ i \in DOMAIN resv /\ resv[i].status = "ACTIVE" /\ resv[i].source = line
                       /\ resv[i].pos \in Batches /\ resv[i].pos \in D /\ rowLock[i] = None
    BY HitIs DEF OrderDoes
  <1>5. PICK W : W = hit \union {r \in Stock : Planned(items, r) > 0}
    OBVIOUS
  <1>6. Leave(t, W)
    BY <1>5 DEF OrderDoes
  <1> HIDE DEF D, hit
  <1>7. Merged(resv, line, items, resv')
    <2>1. PICK new : new = resv'
      OBVIOUS
    <2>2. Merged(resv, line, items, new)
      BY <1>1, <1>2, <1>3, <2>1, Upserted DEF D
    <2>3. QED
      BY <2>1, <2>2
  <1>8. Len(resv') <= MaxResvs
    BY <1>3 DEF OrderDoes
  <1>9. \A i \in DOMAIN resv : i \notin Deliveries /\ i \in Rows
    BY Reserved, RowAssumption DEF StockInv
  <1>10. \A r \in OwnRows : r \in W => r \in hit
    BY <1>5, RowAssumption DEF OwnRows
  <1>11. line \notin Deliveries
    BY <1>1, OrderAssumption
  <1>12. Written(t, W)
    <2>1. W \subseteq Rows
      BY <1>4, <1>5, <1>9 DEF Rows
    <2>2. \A r \in OwnRows : r \in W => rowLock[r] \in {t, None}
      BY <1>4, <1>10
    <2>3. UNCHANGED request /\ \A d \in Deliveries : d \notin W => delivery'[d] = delivery[d]
      BY DEF OrderDoes
    <2>4. \A i \in DOMAIN resv :
              /\ resv'[i].pos = resv[i].pos
              /\ i \notin W \/ resv[i].status # "ACTIVE" => resv'[i] = resv[i]
              /\ resv[i].source \in Deliveries =>
                     resv'[i].source = resv[i].source /\ resv'[i].qty = resv[i].qty
      <3> SUFFICES ASSUME NEW i \in DOMAIN resv
                   PROVE  /\ resv'[i].pos = resv[i].pos
                          /\ i \notin W \/ resv[i].status # "ACTIVE" => resv'[i] = resv[i]
                          /\ resv[i].source \in Deliveries =>
                                 resv'[i].source = resv[i].source /\ resv'[i].qty = resv[i].qty
        OBVIOUS
      <3>1. CASE i \in hit
        BY <1>4, <1>5, <1>7, <1>11, <3>1 DEF Merged, hit, D
      <3>2. CASE i \notin hit
        BY <1>7, <3>2 DEF hit, Merged, D
      <3>3. QED
        BY <3>1, <3>2
    <2>5. QED
      BY <1>6, <1>7, <2>1, <2>2, <2>3, <2>4 DEF Written, Merged, hit, D
  <1>13. OneTwin'
    <2>1. SUFFICES ASSUME NEW i \in DOMAIN resv', NEW j \in DOMAIN resv',
                          resv'[i].status = "ACTIVE", resv'[j].status = "ACTIVE",
                          resv'[i].source \in Lines, resv'[i].source = resv'[j].source,
                          resv'[i].pos \in Batches, resv'[i].pos = resv'[j].pos
                   PROVE  i = j
      BY DEF OneTwin
    <2>2. CASE i \in DOMAIN resv /\ j \in DOMAIN resv
      BY <1>7, <2>1, <2>2 DEF StockInv, OneTwin, Merged, hit, D
    <2>3. CASE i \notin DOMAIN resv /\ j \notin DOMAIN resv
      BY <1>7, <2>1, <2>3 DEF Merged, hit, D
    <2>4. CASE i \in DOMAIN resv /\ j \notin DOMAIN resv
      <3>1. i \in Twins(resv, line, resv'[j].pos)
        BY <1>7, <2>1, <2>4 DEF Twins, Merged, hit, D
      <3>2. QED
        BY <1>7, <2>4, <3>1 DEF Merged, hit, D
    <2>5. CASE i \notin DOMAIN resv /\ j \in DOMAIN resv
      <3>1. j \in Twins(resv, line, resv'[i].pos)
        BY <1>7, <2>1, <2>5 DEF Twins, Merged, hit, D
      <3>2. QED
        BY <1>7, <2>5, <3>1 DEF Merged, hit, D
    <2>6. QED
      BY <2>2, <2>3, <2>4, <2>5
  <1>14. reserved' \in [Stock -> Int]
    <2>1. \A r \in Stock : Planned(items, r) \in Nat
      BY <1>1, PlannedIsNat
    <2>2. reserved \in [Stock -> Int]
      BY DEF StockInv, Types
    <2>3. QED
      BY <2>1, <2>2 DEF OrderDoes
  <1>15. \A d \in Deliveries : d \notin W
    BY <1>4, <1>9, <1>10 DEF OwnRows
  <1>16. /\ total' \in [Stock -> Int] /\ posted' \subseteq Moves /\ IsFiniteSet(posted')
         /\ delivery' \in [Deliveries -> Allocations] /\ receipts' \subseteq Keys
    BY DEF OrderDoes, StockInv, Types
  <1>17. QED
    BY <1>7, <1>8, <1>12, <1>13, <1>14, <1>15, <1>16, Committed DEF Merged, hit, D

------------------------------------------------------------------------------
(* All steps.                                                               *)

\* The writes of a committing transaction.
Commits(t) ==
    \/ \E p, n : CreateDoes(t, p, n)
    \/ \E i, status, user : EndDoes(t, i, status, user)
    \/ \E m : PostDoes(t, m)
    \/ \E line, items : OrderDoes(t, line, items)
    \/ \E d, i : AttachWhole(t, d, i)
    \/ \E d, i, n : AttachPart(t, d, i, n)
    \/ \E d, p, n, x : PrepareNew(t, d, p, n, x)
    \/ \E d, i : PrepareOld(t, d, i)
    \/ \E d, i : ShipDoes(t, d, i)
    \/ \E d, i : CancelBoth(t, d, i)
    \/ \E d : CancelAlone(t, d)

\* Nothing but requests, receipts, locks and transactions changes.
Quiet == UNCHANGED <<stockVars, resv, posted, delivery>>

LEMMA EffectCommits ==
  ASSUME IInv, StockInv, NEW t \in Txs, Effect(t)
  PROVE  Commits(t)
  <1>1. CASE Create(t)
    BY <1>1, Creates DEF Commits
  <1>2. CASE \E kind \in {"release", "consume"} : EndReservation(t, kind)
    BY <1>2, Ends DEF Commits
  <1>3. CASE PostMovement(t)
    BY <1>3, Posts DEF Commits
  <1>4. CASE OrderReserve(t)
    BY <1>4, Ordering DEF Commits
  <1>5. CASE Attach(t)
    BY <1>5, Attaching DEF Commits
  <1>6. CASE Prepare(t)
    BY <1>6, Preparing DEF Commits
  <1>7. CASE Ship(t)
    BY <1>7, Shipping DEF Commits
  <1>8. CASE Cancel(t)
    BY <1>8, Cancelling DEF Commits
  <1>9. QED
    BY <1>1, <1>2, <1>3, <1>4, <1>5, <1>6, <1>7, <1>8 DEF Effect

\* Every step leaves the stock, the reservations, the movements and the
\* deliveries alone, or is a commit.
LEMMA QuietOrCommits ==
  ASSUME IInv, StockInv, [Next]_vars
  PROVE  Quiet \/ \E t \in Txs : Commits(t)
  <1>1. CASE \E k \in Keys : Send(k)
    BY <1>1 DEF Send, Quiet
  <1>2. ASSUME NEW t \in Txs, Begin(t) PROVE Quiet
    <2>1. ASSUME NEW k \in Keys, BeginCommand(t, k) PROVE Quiet
      BY <2>1 DEF BeginCommand, Start, Quiet
    <2>2. ASSUME NEW k \in Keys, BeginShip(t, k) PROVE Quiet
      BY <2>2 DEF BeginShip, Quiet
    <2>3. ASSUME NEW l \in Lines, BeginOrder(t, l) PROVE Quiet
      BY <2>3 DEF BeginOrder, Quiet
    <2>4. ASSUME NEW d \in Deliveries, BeginAttach(t, d) PROVE Quiet
      BY <2>4 DEF BeginAttach, Start, Quiet
    <2>5. ASSUME NEW d \in Deliveries, BeginPrepare(t, d) PROVE Quiet
      BY <2>5 DEF BeginPrepare, Start, Quiet
    <2>6. ASSUME NEW d \in Deliveries, BeginCancel(t, d) PROVE Quiet
      BY <2>6 DEF BeginCancel, Start, Quiet
    <2>7. QED
      BY <1>2, <2>1, <2>2, <2>3, <2>4, <2>5, <2>6 DEF Begin
  <1>3. ASSUME NEW t \in Txs, Lock(t) \/ RollBack(t) PROVE Quiet
    BY <1>3 DEF Lock, RollBack, Quiet
  <1>4. ASSUME NEW t \in Txs, Effect(t) PROVE Commits(t)
    BY <1>4, EffectCommits
  <1>5. CASE UNCHANGED vars
    BY <1>5 DEF vars, Quiet
  <1>6. QED
    BY <1>1, <1>2, <1>3, <1>4, <1>5 DEF Next

LEMMA CommitHolds ==
  ASSUME IInv, StockInv, NEW t \in Txs, Commits(t)
  PROVE  StockInv'
  <1>1. CASE \E p, n : CreateDoes(t, p, n)
    BY <1>1, CreateHolds
  <1>2. CASE \E i, status, user : EndDoes(t, i, status, user)
    BY <1>2, EndHolds
  <1>3. CASE \E m : PostDoes(t, m)
    BY <1>3, PostHolds
  <1>4. CASE \E line, items : OrderDoes(t, line, items)
    BY <1>4, OrderHolds
  <1>5. CASE \E d, i : AttachWhole(t, d, i)
    BY <1>5, AttachWholeHolds
  <1>6. CASE \E d, i, n : AttachPart(t, d, i, n)
    BY <1>6, AttachPartHolds
  <1>7. CASE \E d, p, n, x : PrepareNew(t, d, p, n, x)
    BY <1>7, PrepareNewHolds
  <1>8. CASE \E d, i : PrepareOld(t, d, i)
    BY <1>8, PrepareOldHolds
  <1>9. CASE \E d, i : ShipDoes(t, d, i)
    BY <1>9, ShipHolds
  <1>10. CASE \E d, i : CancelBoth(t, d, i)
    BY <1>10, CancelBothHolds
  <1>11. CASE \E d : CancelAlone(t, d)
    BY <1>11, CancelAloneHolds
  <1>12. QED
    BY <1>1, <1>2, <1>3, <1>4, <1>5, <1>6, <1>7, <1>8, <1>9, <1>10, <1>11 DEF Commits

LEMMA InitStockInv == Init => StockInv
  <1> SUFFICES ASSUME Init PROVE StockInv
    OBVIOUS
  <1>1. NoDelivery \in Allocations
    BY DEF NoDelivery, Allocations
  <1>2. delivery \in [Deliveries -> Allocations] /\ \A d \in Deliveries : delivery[d] = NoDelivery
    BY <1>1 DEF Init
  <1>3. resv = <<>> /\ resv \in Seq(Reservations) /\ Len(resv) = 0
    BY DEF Init
  <1>4. IsFiniteSet(posted)
    BY FS_EmptySet DEF Init
  <1>5. total \in [Stock -> Int]
    BY PlaceAssumption DEF Init
  <1>6. Types
    BY <1>2, <1>3, <1>4, <1>5, BoundAssumption DEF Init, Types
  <1>7. Requested
    BY DEF Init, Requested
  <1>8. OneTwin
    BY <1>3 DEF OneTwin
  <1>9. DeliveriesHold
    BY <1>2 DEF DeliveriesHold, Holds, NoDelivery
  <1>10. RunsHold
    BY DEF Init, RunsHold
  <1>11. QED
    BY <1>6, <1>7, <1>8, <1>9, <1>10 DEF StockInv

LEMMA NextStockInv ==
  ASSUME IInv, StockInv, [Next]_vars
  PROVE  StockInv'
  <1>1. CASE \E k \in Keys : Send(k)
    BY <1>1, SendHolds
  <1>2. ASSUME NEW t \in Txs, Begin(t) PROVE StockInv'
    BY <1>2, BeginCommandHolds, BeginShipHolds, BeginOrderHolds, BeginAttachHolds,
       BeginPrepareHolds, BeginCancelHolds DEF Begin
  <1>3. ASSUME NEW t \in Txs, Effect(t) PROVE StockInv'
    BY <1>3, EffectCommits, CommitHolds
  <1>4. CASE UNCHANGED vars
    BY <1>4, StutterHolds
  <1>5. QED
    BY <1>1, <1>2, <1>3, <1>4, LockHolds, RollBackHolds DEF Next

\* Every variable has its type in every state: transactions lock rows that exist,
\* reservations and deliveries refer to rows that exist.
THEOREM StockTypes == Spec => []TypeOK
  <1>1. Init => IInv /\ StockInv
    BY InitIInv, InitStockInv
  <1>2. IInv /\ StockInv /\ [Next]_vars => IInv' /\ StockInv'
    BY NextIInv, NextStockInv
  <1>3. IInv /\ StockInv => TypeOK
    <2> SUFFICES ASSUME IInv, StockInv PROVE TypeOK
      OBVIOUS
    <2>1. \A i \in DOMAIN resv :
              /\ resv[i].pos \in Stock
              /\ resv[i].qty \in Nat \ {0}
              /\ resv[i].source \in Lines \union Deliveries \union {None}
              /\ resv[i].status \in Statuses
              /\ resv[i].version \in Nat \ {0}
              /\ resv[i].usedBy \in Moves \union Deliveries \union {None}
      BY Reserved, FieldsOf DEF StockInv, Reservations
    <2>2. \A d \in Deliveries :
              /\ delivery[d].status \in {"NONE", "DRAFT", "READY", "SHIPPED", "CANCELLED"}
              /\ delivery[d].status # "NONE" =>
                     delivery[d].pos \in Stock /\ delivery[d].qty \in Nat \ {0}
              /\ delivery[d].resv \in {0} \union DOMAIN resv
      <3> SUFFICES ASSUME NEW d \in Deliveries
                   PROVE  /\ delivery[d].status \in {"NONE", "DRAFT", "READY", "SHIPPED", "CANCELLED"}
                          /\ delivery[d].status # "NONE" =>
                                 delivery[d].pos \in Stock /\ delivery[d].qty \in Nat \ {0}
                          /\ delivery[d].resv \in {0} \union DOMAIN resv
        OBVIOUS
      <3>1. delivery[d] \in Allocations
        BY DEF StockInv, Types
      <3>2. Holds(d)
        BY DEF StockInv, DeliveriesHold
      <3>3. QED
        BY <3>1, <3>2, SitesAre DEF Allocations, Holds
    <2>3. effects \in [Keys -> Nat]
      BY DEF IInv, Shape
    <2>4. QED
      BY <2>1, <2>2, <2>3 DEF StockInv, Types, TypeOK
  <1>4. QED
    BY <1>1, <1>2, <1>3, PTL DEF Spec

\* A shipped delivery left from the reservation that it held, which was still
\* ACTIVE, of its quantity, and ended with it: shipping runs SERIALIZABLE, and the
\* rows that it has read and another has written since fail it.
THEOREM DeliveriesLeaveFromTheirReservation == Spec => []ShippedFromReservation
  <1>1. Init => IInv /\ StockInv
    BY InitIInv, InitStockInv
  <1>2. IInv /\ StockInv /\ [Next]_vars => IInv' /\ StockInv'
    BY NextIInv, NextStockInv
  <1>3. StockInv => ShippedFromReservation
    BY DEF StockInv, DeliveriesHold, Holds, ShippedFromReservation
  <1>4. QED
    BY <1>1, <1>2, <1>3, PTL DEF Spec

------------------------------------------------------------------------------
(* The ACTIVE reservations cover what is reserved.                          *)

\* The ACTIVE reservations that take something at row r.
Sharers(rs, r) == {i \in DOMAIN rs : rs[i].status = "ACTIVE" /\ r \in Touched(rs[i].pos)}
Quantities(rs) == [i \in DOMAIN rs |-> rs[i].qty]
\* What they take there together.
Held(rs, r) == SumOver(Sharers(rs, r), Quantities(rs))

LEMMA HeldIsNat ==
  ASSUME NEW rs \in Seq(Reservations), NEW r
  PROVE  /\ IsFiniteSet(Sharers(rs, r))
         /\ \A i \in DOMAIN rs : Quantities(rs)[i] \in Nat \ {0} /\ Quantities(rs)[i] = rs[i].qty
         /\ Sharers(rs, r) \subseteq DOMAIN rs
         /\ Held(rs, r) \in Nat /\ Held(rs, r) = SumOver(Sharers(rs, r), Quantities(rs))
  <1>1. DOMAIN rs = 1 .. Len(rs) /\ Len(rs) \in Nat
    OBVIOUS
  <1>2. IsFiniteSet(DOMAIN rs)
    BY <1>1, FS_Interval
  <1>3. IsFiniteSet(Sharers(rs, r))
    BY <1>2, FS_Subset DEF Sharers
  <1>4. \A i \in DOMAIN rs : Quantities(rs)[i] \in Nat \ {0} /\ Quantities(rs)[i] = rs[i].qty
    BY Typed, FieldsOf DEF Quantities
  <1>5. \A i \in Sharers(rs, r) : Quantities(rs)[i] \in Int
    BY <1>4 DEF Sharers
  <1>6. SumOver(Sharers(rs, r), Quantities(rs)) \in Nat
    BY <1>3, <1>5, SumIsNat
  <1>7. Sharers(rs, r) \subseteq DOMAIN rs
    BY DEF Sharers
  <1>8. QED
    BY <1>3, <1>4, <1>6, <1>7 DEF Held

\* Position, quantity and status stay.
LEMMA HeldSame ==
  ASSUME NEW rs, NEW new, DOMAIN new = DOMAIN rs,
         \A i \in DOMAIN rs : new[i].pos = rs[i].pos /\ new[i].qty = rs[i].qty
                              /\ new[i].status = rs[i].status,
         NEW r
  PROVE  Held(new, r) = Held(rs, r)
  <1>1. Sharers(new, r) = Sharers(rs, r)
    BY DEF Sharers
  <1>2. \A i \in Sharers(rs, r) : Quantities(rs)[i] = Quantities(new)[i]
    BY DEF Sharers, Quantities
  <1>3. QED
    BY <1>1, <1>2, SumSame DEF Held

\* What a reservation takes at a row.
Share(n, p, r) == IF r \in Touched(p) THEN n ELSE 0

\* A reservation ends.
LEMMA HeldEnded ==
  ASSUME NEW rs \in Seq(Reservations), NEW i \in DOMAIN rs, rs[i].status = "ACTIVE",
         NEW new, DOMAIN new = DOMAIN rs, new[i].status # "ACTIVE",
         \A j \in DOMAIN rs : j # i => new[j] = rs[j],
         NEW r
  PROVE  Held(new, r) = Held(rs, r) - Share(rs[i].qty, rs[i].pos, r)
  <1> DEFINE S == Sharers(rs, r)
  <1>1. Sharers(new, r) = S \ {i}
    BY DEF Sharers
  <1>2. \A j \in S \ {i} : Quantities(new)[j] = Quantities(rs)[j]
    BY DEF Sharers, Quantities
  <1>3. Held(new, r) = SumOver(S \ {i}, Quantities(rs))
    BY <1>1, <1>2, SumSame DEF Held
  <1>4. IsFiniteSet(S) /\ (\A j \in S : Quantities(rs)[j] \in Int) /\ Quantities(rs)[i] \in Nat
        /\ Quantities(rs)[i] = rs[i].qty /\ Held(rs, r) \in Nat /\ Held(rs, r) = SumOver(S, Quantities(rs))
    BY HeldIsNat
  <1>5. i \in S <=> r \in Touched(rs[i].pos)
    BY DEF Sharers
  <1> HIDE DEF S
  <1>6. CASE i \in S
    <2>1. SumOver(S \ {i}, Quantities(rs)) = SumOver(S, Quantities(rs)) - Quantities(rs)[i]
      BY <1>4, <1>6, SumRemove
    <2>2. QED
      BY <1>3, <1>4, <1>5, <1>6, <2>1 DEF Share
  <1>7. CASE i \notin S
    <2>1. S \ {i} = S
      BY <1>7
    <2>2. Held(new, r) = Held(rs, r)
      BY Zenon, <1>3, <1>4, <2>1
    <2>3. QED
      BY <1>4, <1>5, <1>7, <2>2 DEF Share
  <1>8. QED
    BY <1>6, <1>7

\* A reservation is new.
LEMMA HeldBooked ==
  ASSUME NEW rs \in Seq(Reservations), NEW p, NEW n \in Nat \ {0}, NEW k, k \notin DOMAIN rs,
         NEW new, \A j : j \in DOMAIN new <=> j \in DOMAIN rs \/ j = k,
         \A j \in DOMAIN rs : new[j] = rs[j],
         new[k].pos = p, new[k].qty = n, new[k].status = "ACTIVE",
         NEW r
  PROVE  Held(new, r) = Held(rs, r) + Share(n, p, r)
  <1> DEFINE S == Sharers(rs, r)
  <1>1. \A j \in S : Quantities(new)[j] = Quantities(rs)[j]
    BY DEF Sharers, Quantities
  <1>2. Quantities(new)[k] = n
    BY DEF Quantities
  <1>3. IsFiniteSet(S) /\ (\A j \in S : Quantities(new)[j] \in Int)
        /\ Held(rs, r) \in Nat /\ Held(rs, r) = SumOver(S, Quantities(rs))
    <2>1. /\ IsFiniteSet(S) /\ S \subseteq DOMAIN rs
          /\ \A i \in DOMAIN rs : Quantities(rs)[i] \in Nat \ {0} /\ Quantities(rs)[i] = rs[i].qty
          /\ Held(rs, r) \in Nat /\ Held(rs, r) = SumOver(S, Quantities(rs))
      BY HeldIsNat
    <2> HIDE DEF S
    <2>2. QED
      BY <1>1, <2>1
  <1>4. k \notin S
    BY DEF Sharers
  <1>5. SumOver(S, Quantities(new)) = SumOver(S, Quantities(rs))
    BY <1>1, SumSame
  <1>6. CASE r \in Touched(p)
    <2>1. Sharers(new, r) = S \union {k}
      BY <1>6 DEF Sharers
    <2> HIDE DEF S
    <2>2. SumOver(S \union {k}, Quantities(new)) = SumOver(S, Quantities(new)) + Quantities(new)[k]
      BY <1>2, <1>3, <1>4, SumAdd
    <2>3. QED
      BY <1>2, <1>3, <1>5, <1>6, <2>1, <2>2 DEF Held, Share
  <1>7. CASE r \notin Touched(p)
    <2>1. Sharers(new, r) = S
      BY <1>7 DEF Sharers
    <2> HIDE DEF S
    <2>2. QED
      BY <1>3, <1>5, <1>7, <2>1 DEF Held, Share
  <1>8. QED
    BY <1>6, <1>7

\* A reservation holds another quantity.
LEMMA HeldReduced ==
  ASSUME NEW rs \in Seq(Reservations), NEW i \in DOMAIN rs, rs[i].status = "ACTIVE",
         NEW m \in Nat, m < rs[i].qty,
         NEW new \in Seq(Reservations), DOMAIN new = DOMAIN rs,
         new[i].qty = rs[i].qty - m, new[i].pos = rs[i].pos, new[i].status = "ACTIVE",
         \A j \in DOMAIN rs : j # i => new[j] = rs[j],
         NEW r
  PROVE  Held(new, r) = Held(rs, r) - Share(m, rs[i].pos, r)
  <1> DEFINE S == Sharers(rs, r)
             Q == Quantities(rs)
             R == Quantities(new)
  <1>1. Sharers(new, r) = S
    BY DEF Sharers
  <1>2. \A j \in S \ {i} : Q[j] = R[j]
    BY DEF Sharers, Quantities
  <1>3. IsFiniteSet(S) /\ (\A j \in S : Q[j] \in Int /\ R[j] \in Int)
        /\ Held(rs, r) \in Nat /\ Held(rs, r) = SumOver(S, Q) /\ Held(new, r) = SumOver(S, R)
    <2>1. IsFiniteSet(S) /\ S \subseteq DOMAIN rs /\ Held(rs, r) \in Nat /\ Held(rs, r) = SumOver(S, Q)
      BY HeldIsNat
    <2>2. \A j \in DOMAIN rs : Q[j] \in Int
      BY HeldIsNat
    <2>3. \A j \in DOMAIN rs : R[j] \in Int
      BY HeldIsNat
    <2>4. Held(new, r) = SumOver(S, R)
      BY Zenon, <1>1 DEF Held
    <2> HIDE DEF S, Q, R
    <2>5. QED
      BY <2>1, <2>2, <2>3, <2>4
  <1>4. Q[i] \in Nat /\ R[i] \in Nat /\ Q[i] = rs[i].qty /\ R[i] = rs[i].qty - m
    BY HeldIsNat
  <1>5. i \in S <=> r \in Touched(rs[i].pos)
    BY DEF Sharers
  <1> HIDE DEF S, Q, R
  <1>6. CASE i \in S
    <2>1. SumOver(S, R) = SumOver(S, Q) + (R[i] - Q[i])
      BY <1>2, <1>3, <1>4, <1>6, SumChange
    <2>2. R[i] - Q[i] = -m
      BY <1>4
    <2>3. QED
      BY <1>3, <1>5, <1>6, <2>1, <2>2 DEF Share
  <1>7. CASE i \notin S
    <2>1. \A j \in S : Q[j] = R[j]
      BY <1>2, <1>7
    <2>2. SumOver(S, R) = SumOver(S, Q)
      BY <2>1, SumSame
    <2>3. QED
      BY <1>3, <1>5, <1>7, <2>2 DEF Share
  <1>8. QED
    BY <1>6, <1>7

\* What the plan adds to the reservations is what it takes: each lot of it is
\* added to the one reservation that the line has there, or gets a new one.
LEMMA HeldMerged ==
  ASSUME StockInv, NEW line \in Lines,
         NEW items, DOMAIN items \subseteq Leaves, items \in [DOMAIN items -> Nat \ {0}],
         NEW new \in Seq(Reservations), Merged(resv, line, items, new), NEW r
  PROVE  Held(new, r) = Held(resv, r) + Planned(items, r)
  <1> DEFINE S == Sharers(resv, r)
             Q == Quantities(resv)
             R == Quantities(new)
             hit == Hit(resv, line, items)
             N == {i \in DOMAIN new : i \notin DOMAIN resv /\ r \in Touched(new[i].pos)}
             H == {i \in S : i \in hit}
             P == {p \in DOMAIN items : r \in Touched(p)}
             e == [i \in DOMAIN resv |-> IF i \in hit THEN items[resv[i].pos] ELSE 0]
             w == [i \in DOMAIN new |-> items[new[i].pos]]
             T == H \union N
             f == [i \in T |-> new[i].pos]
  <1>1. resv \in Seq(Reservations) /\ new \in Seq(Reservations) /\ OneTwin
    BY DEF StockInv, Types
  <1>2. /\ IsFiniteSet(S) /\ S \subseteq DOMAIN resv
        /\ Held(resv, r) \in Nat /\ Held(resv, r) = SumOver(S, Q)
        /\ \A i \in DOMAIN resv : Q[i] \in Nat \ {0} /\ Q[i] = resv[i].qty
    BY <1>1, HeldIsNat
  <1>3. /\ Held(new, r) \in Nat /\ Held(new, r) = SumOver(Sharers(new, r), R)
        /\ IsFiniteSet(Sharers(new, r))
        /\ \A i \in DOMAIN new : R[i] \in Nat \ {0} /\ R[i] = new[i].qty
    BY <1>1, HeldIsNat
  <1>4. /\ DOMAIN resv \subseteq DOMAIN new
        /\ \A i \in DOMAIN resv :
               /\ new[i].pos = resv[i].pos /\ new[i].status = resv[i].status
               /\ i \notin hit => new[i] = resv[i]
               /\ i \in hit => resv[i].pos \in DOMAIN items
                               /\ new[i].qty = resv[i].qty + items[resv[i].pos]
        /\ \A i \in DOMAIN new : i \notin DOMAIN resv =>
               /\ new[i].pos \in DOMAIN items /\ Twins(resv, line, new[i].pos) = {}
               /\ new[i].qty = items[new[i].pos] /\ new[i].status = "ACTIVE"
        /\ \A i, j \in DOMAIN new :
               i \notin DOMAIN resv /\ j \notin DOMAIN resv /\ new[i].pos = new[j].pos => i = j
        /\ \A p \in DOMAIN items : Twins(resv, line, p) = {} =>
               \E i \in DOMAIN new : i \notin DOMAIN resv /\ new[i].pos = p
    BY DEF Merged
  <1>5. \A i \in hit : /\ i \in DOMAIN resv /\ resv[i].status = "ACTIVE" /\ resv[i].source = line
                       /\ resv[i].pos \in Batches /\ resv[i].pos \in DOMAIN items
    BY HitIs
  <1>6. \A p \in DOMAIN items : \A i \in Twins(resv, line, p) : i \in hit /\ resv[i].pos = p
    BY DEF Hit, Twins
  <1>7. \A i : i \in S <=> i \in DOMAIN resv /\ resv[i].status = "ACTIVE" /\ r \in Touched(resv[i].pos)
    BY DEF Sharers
  <1>8. \A i : i \in Sharers(new, r) <=>
            i \in DOMAIN new /\ new[i].status = "ACTIVE" /\ r \in Touched(new[i].pos)
    BY DEF Sharers
  <1>9. \A i : i \in N <=> i \in DOMAIN new /\ i \notin DOMAIN resv /\ r \in Touched(new[i].pos)
    OBVIOUS
  <1>10. \A i : i \in H <=> i \in S /\ i \in hit
    OBVIOUS
  <1>11. \A p : p \in P <=> p \in DOMAIN items /\ r \in Touched(p)
    OBVIOUS
  <1>12. \A i \in DOMAIN resv : e[i] = IF i \in hit THEN items[resv[i].pos] ELSE 0
    OBVIOUS
  <1>13. \A i \in DOMAIN new : w[i] = items[new[i].pos]
    OBVIOUS
  <1>14. f \in [T -> P]
    BY <1>4, <1>5, <1>7, <1>9, <1>10, <1>11
  <1>15. \A i \in T : f[i] = new[i].pos
    OBVIOUS
  <1>16. \A p \in DOMAIN items : items[p] \in Nat \ {0}
    OBVIOUS
  <1> HIDE DEF S, Q, R, hit, N, H, P, e, w, T, f
  <1>17. Sharers(new, r) = S \union N /\ S \intersect N = {}
    BY <1>2, <1>4, <1>7, <1>8, <1>9
  <1>18. IsFiniteSet(N) /\ IsFiniteSet(H) /\ H \subseteq S /\ H \intersect N = {} /\ IsFiniteSet(T)
    BY <1>2, <1>3, <1>10, <1>17, FS_Subset, FS_Union DEF T
  <1>19. SumOver(Sharers(new, r), R) = SumOver(S, R) + SumOver(N, R)
    <2>1. \A x \in S \union N : R[x] \in Int
      BY <1>2, <1>3, <1>4, <1>9
    <2>2. QED
      BY <1>2, <1>17, <1>18, <2>1, SumSplit
  <1>20. SumOver(S, R) = SumOver(S, Q) + SumOver(S, e)
    <2>1. ASSUME NEW i \in S
          PROVE  Q[i] \in Nat /\ e[i] \in Nat /\ R[i] = Q[i] + e[i]
      <3>1. i \in DOMAIN resv /\ i \in DOMAIN new
        BY <1>2, <1>4
      <3>2. CASE i \in hit
        BY <1>2, <1>3, <1>4, <1>12, <1>16, <3>1, <3>2
      <3>3. CASE i \notin hit
        <4>1. new[i] = resv[i] /\ e[i] = 0
          BY <1>4, <1>12, <3>1, <3>3
        <4>2. R[i] = resv[i].qty /\ Q[i] = resv[i].qty /\ Q[i] \in Nat
          BY <1>2, <1>3, <3>1, <4>1
        <4>3. QED
          BY <4>1, <4>2
      <3>4. QED
        BY <3>2, <3>3
    <2>2. \A i \in S : Q[i] \in Nat /\ e[i] \in Nat /\ R[i] = Q[i] + e[i]
      BY <2>1
    <2>3. IsFiniteSet(S)
      BY <1>2
    <2>4. QED
      BY <2>2, <2>3, SumPlus
  <1>21. SumOver(S, e) = SumOver(H, e)
    <2>1. H \in SUBSET S /\ \A i \in S \ H : e[i] = 0
      BY <1>2, <1>10, <1>12, <1>18
    <2>2. QED
      BY <2>1, SumPositive
  <1>22. SumOver(H, e) = SumOver(H, w)
    <2>1. \A i \in H : e[i] = w[i]
      BY <1>2, <1>4, <1>10, <1>12, <1>13
    <2>2. QED
      BY <2>1, SumSame
  <1>23. SumOver(N, R) = SumOver(N, w)
    <2>1. \A i \in N : R[i] = w[i]
      BY <1>3, <1>4, <1>9, <1>13
    <2>2. QED
      BY <2>1, SumSame
  <1>24. \A i \in T : w[i] \in Int /\ items[f[i]] = w[i]
    BY <1>2, <1>4, <1>9, <1>10, <1>13, <1>15, <1>16 DEF T
  <1>25. SumOver(T, w) = SumOver(H, w) + SumOver(N, w)
    <2>1. \A x \in H \union N : w[x] \in Int
      BY <1>24 DEF T
    <2>2. QED
      BY <1>18, <2>1, SumSplit DEF T
  <1>26. \A i, j \in T : f[i] = f[j] => i = j
    <2> SUFFICES ASSUME NEW i \in T, NEW j \in T, new[i].pos = new[j].pos
                 PROVE  i = j
      BY <1>15
    <2>1. CASE i \in H /\ j \in H
      <3>1. i \in hit /\ j \in hit /\ i \in DOMAIN resv /\ j \in DOMAIN resv
        BY <1>5, <1>10, <2>1
      <3>2. resv[i].pos = resv[j].pos
        BY <1>4, <3>1
      <3>3. QED
        BY <1>1, <1>5, <3>1, <3>2 DEF OneTwin
    <2>2. CASE i \in N /\ j \in N
      BY <1>4, <1>9, <2>2
    <2>3. ASSUME NEW k \in H, NEW l \in N PROVE new[k].pos # new[l].pos
      <3>1. k \in hit /\ k \in DOMAIN resv /\ l \in DOMAIN new /\ l \notin DOMAIN resv
        BY <1>5, <1>9, <1>10
      <3>2. Twins(resv, line, new[l].pos) = {} /\ new[k].pos = resv[k].pos
        BY <1>4, <3>1
      <3>3. k \in Twins(resv, line, resv[k].pos)
        BY <1>5, <3>1 DEF Twins
      <3>4. QED
        BY <3>2, <3>3
    <2>4. QED
      BY <2>1, <2>2, <2>3 DEF T
  <1>27. \A p \in P : \E i \in T : f[i] = p
    <2> SUFFICES ASSUME NEW p \in P PROVE \E i \in T : new[i].pos = p
      BY <1>15
    <2>1. p \in DOMAIN items /\ r \in Touched(p)
      BY <1>11
    <2>2. CASE Twins(resv, line, p) = {}
      BY <1>4, <1>9, <2>1, <2>2 DEF T
    <2>3. CASE Twins(resv, line, p) # {}
      <3>1. PICK i : i \in Twins(resv, line, p)
        BY <2>3
      <3>2. i \in hit /\ resv[i].pos = p
        BY <1>6, <2>1, <3>1
      <3>3. i \in H /\ new[i].pos = p
        BY <1>4, <1>5, <1>7, <1>10, <2>1, <3>2
      <3>4. QED
        BY <3>3 DEF T
    <2>4. QED
      BY <2>2, <2>3
  <1>28. f \in Bijection(T, P)
    BY <1>14, <1>26, <1>27 DEF Bijection, Injection, Surjection, IsInjective
  <1>29. SumOver(P, items) = SumOver(T, w)
    BY <1>18, <1>24, <1>28, SumRenamed
  <1>30. Planned(items, r) = SumOver(P, items)
    BY DEF Planned, P
  <1>31. SumOver(S, e) = SumOver(H, w) /\ SumOver(N, R) = SumOver(N, w)
    BY <1>21, <1>22, <1>23
  <1>32. SumOver(S, e) \in Nat /\ SumOver(N, R) \in Nat
    <2>1. \A i \in S : e[i] \in Int
      BY <1>2, <1>4, <1>12, <1>16
    <2>2. \A i \in N : R[i] \in Int
      BY <1>3, <1>9
    <2>3. QED
      BY <1>2, <1>18, <2>1, <2>2, SumIsNat
  <1>33. QED
    BY <1>2, <1>3, <1>19, <1>20, <1>25, <1>29, <1>30, <1>31, <1>32

\* ReservedIsCovered, as an operator of the reservations.
Covered == \A r \in Stock : reserved[r] = Held(resv, r)

LEMMA CoveredIs == Covered <=> ReservedIsCovered
  <1>1. \A r : Sharers(resv, r) = {i \in DOMAIN resv : Active(i) /\ r \in Touched(resv[i].pos)}
    BY DEF Sharers, Active
  <1>2. \A r : Held(resv, r) = SumOver({i \in DOMAIN resv : Active(i) /\ r \in Touched(resv[i].pos)},
                                       [i \in DOMAIN resv |-> resv[i].qty])
    BY <1>1 DEF Held, Quantities
  <1>3. QED
    BY Zenon, <1>2 DEF Covered, ReservedIsCovered

\* What Add does, in terms of what a reservation takes.
LEMMA AddedShare ==
  ASSUME NEW f \in [Stock -> Int], NEW p, NEW n \in Int, NEW r \in Stock
  PROVE  /\ Add(f, p, n)[r] = f[r] + Share(n, p, r)
         /\ Add(f, p, -n)[r] = f[r] - Share(n, p, r)
         /\ f[r] \in Int /\ Share(n, p, r) \in Int
  BY DEF Add, Share

\* A position and a quantity get reserved.
LEMMA BookedIsCovered ==
  ASSUME StockInv, Covered, NEW p \in Sites, NEW n \in Nat \ {0},
         NEW s \in Lines \union Deliveries \union {None},
         reserved' = Add(reserved, p, n), resv' = Book(resv, p, n, s)
  PROVE  Covered'
  <1>1. resv \in Seq(Reservations) /\ reserved \in [Stock -> Int]
    BY DEF StockInv, Types
  <1>2. PICK new : new = resv'
    OBVIOUS
  <1>3. PICK k : k = Len(resv) + 1
    OBVIOUS
  <1>4. /\ \A j : j \in DOMAIN new <=> j \in DOMAIN resv \/ j = k
        /\ k \notin DOMAIN resv
        /\ \A j \in DOMAIN resv : new[j] = resv[j]
        /\ new[k].pos = p /\ new[k].qty = n /\ new[k].status = "ACTIVE"
    <2>1. resv \in Seq(Reservations) /\ new = Book(resv, p, n, s)
      BY <1>1, <1>2
    <2>2. /\ \A j : j \in DOMAIN new <=> j \in DOMAIN resv \/ j = Len(resv) + 1
          /\ Len(resv) + 1 \notin DOMAIN resv
          /\ \A j \in DOMAIN resv : new[j] = resv[j]
          /\ new[Len(resv) + 1].pos = p /\ new[Len(resv) + 1].qty = n
          /\ new[Len(resv) + 1].status = "ACTIVE"
      BY <2>1, Appended
    <2>3. QED
      BY <1>3, <2>2
  <1>5. \A r : Held(new, r) = Held(resv, r) + Share(n, p, r)
    BY <1>1, <1>4, HeldBooked
  <1>6. \A r \in Stock : reserved'[r] = reserved[r] + Share(n, p, r)
    BY <1>1, AddedShare
  <1>7. \A r \in Stock : reserved'[r] = Held(resv', r)
    BY <1>2, <1>5, <1>6 DEF Covered
  <1>8. QED
    BY <1>7 DEF Covered

\* A reservation ends, and with it what it took.
LEMMA EndedIsCovered ==
  ASSUME StockInv, Covered, NEW i \in DOMAIN resv, resv[i].status = "ACTIVE",
         NEW status \in Statuses \ {"ACTIVE"}, NEW user \in Moves \union Deliveries \union {None},
         reserved' = Add(reserved, resv[i].pos, -resv[i].qty), resv' = End(resv, i, status, user)
  PROVE  Covered'
  <1>1. resv \in Seq(Reservations) /\ reserved \in [Stock -> Int]
    BY DEF StockInv, Types
  <1>2. PICK new : new = resv'
    OBVIOUS
  <1>3. PICK p, n : p = resv[i].pos /\ n = resv[i].qty
    OBVIOUS
  <1>4. n \in Int
    BY <1>1, <1>3, Typed, FieldsOf
  <1>5. /\ DOMAIN new = DOMAIN resv /\ new[i].status # "ACTIVE"
        /\ \A j \in DOMAIN resv : j # i => new[j] = resv[j]
    BY <1>1, <1>2, Finished
  <1>6. \A r : Held(new, r) = Held(resv, r) - Share(n, p, r)
    BY <1>1, <1>3, <1>5, HeldEnded
  <1>7. \A r \in Stock : reserved'[r] = reserved[r] - Share(n, p, r)
    BY <1>1, <1>3, <1>4, AddedShare
  <1>8. \A r \in Stock : reserved'[r] = Held(resv', r)
    BY <1>2, <1>6, <1>7 DEF Covered
  <1>9. QED
    BY <1>8 DEF Covered

\* A reservation gets another source.
LEMMA RenamedIsCovered ==
  ASSUME StockInv, Covered, NEW i \in DOMAIN resv, NEW s \in Lines \union Deliveries \union {None},
         UNCHANGED reserved, resv' = Rename(resv, i, s)
  PROVE  Covered'
  <1>1. resv \in Seq(Reservations)
    BY DEF StockInv, Types
  <1>2. PICK new : new = resv'
    OBVIOUS
  <1>3. /\ DOMAIN new = DOMAIN resv
        /\ \A j \in DOMAIN resv : j # i => new[j] = resv[j]
        /\ new[i].pos = resv[i].pos /\ new[i].qty = resv[i].qty
        /\ new[i].status = resv[i].status
    BY <1>1, <1>2, Renamed
  <1>4. \A j \in DOMAIN resv : new[j].pos = resv[j].pos /\ new[j].qty = resv[j].qty
                               /\ new[j].status = resv[j].status
    BY <1>3
  <1>5. \A r : Held(new, r) = Held(resv, r)
    BY <1>3, <1>4, HeldSame
  <1>6. \A r \in Stock : reserved'[r] = Held(resv', r)
    BY <1>2, <1>5 DEF Covered
  <1>7. QED
    BY <1>6 DEF Covered

\* A reservation is split.
LEMMA SplitIsCovered ==
  ASSUME StockInv, Covered, NEW i \in DOMAIN resv, resv[i].status = "ACTIVE",
         NEW n \in Nat \ {0}, n < resv[i].qty, NEW s \in Lines \union Deliveries \union {None},
         UNCHANGED reserved, resv' = Book(Reduce(resv, i, n), resv[i].pos, n, s)
  PROVE  Covered'
  <1>1. resv \in Seq(Reservations)
    BY DEF StockInv, Types
  <1>2. PICK new : new = resv'
    OBVIOUS
  <1>3. PICK p : p = resv[i].pos
    OBVIOUS
  <1>4. p \in Stock /\ p \in Sites
    BY <1>1, <1>3, Typed, FieldsOf
  <1>5. PICK mid : mid = Reduce(resv, i, n)
    OBVIOUS
  <1>6. /\ mid \in Seq(Reservations) /\ DOMAIN mid = DOMAIN resv
        /\ \A j \in DOMAIN resv : j # i => mid[j] = resv[j]
        /\ mid[i].qty = resv[i].qty - n
        /\ mid[i].pos = resv[i].pos /\ mid[i].status = "ACTIVE"
    BY <1>1, <1>5, Reduced
  <1>7. n \in Nat
    OBVIOUS
  <1>8. \A r : Held(mid, r) = Held(resv, r) - Share(n, p, r)
    BY <1>1, <1>3, <1>6, <1>7, HeldReduced
  <1>9. PICK k : k = Len(mid) + 1
    OBVIOUS
  <1>10. new = Book(mid, p, n, s)
    BY <1>2, <1>3, <1>5
  <1>11. /\ \A j : j \in DOMAIN new <=> j \in DOMAIN mid \/ j = k
         /\ k \notin DOMAIN mid
         /\ \A j \in DOMAIN mid : new[j] = mid[j]
         /\ new[k].pos = p /\ new[k].qty = n /\ new[k].status = "ACTIVE"
    <2>1. mid \in Seq(Reservations) /\ p \in Sites
      BY <1>4, <1>6
    <2>2. /\ \A j : j \in DOMAIN new <=> j \in DOMAIN mid \/ j = Len(mid) + 1
          /\ Len(mid) + 1 \notin DOMAIN mid
          /\ \A j \in DOMAIN mid : new[j] = mid[j]
          /\ new[Len(mid) + 1].pos = p /\ new[Len(mid) + 1].qty = n
          /\ new[Len(mid) + 1].status = "ACTIVE"
      BY <1>10, <2>1, Appended
    <2>3. QED
      BY <1>9, <2>2
  <1>12. \A r : Held(new, r) = Held(mid, r) + Share(n, p, r)
    BY <1>4, <1>6, <1>11, HeldBooked
  <1>13. \A r : Held(resv, r) \in Nat /\ Share(n, p, r) \in Nat
    BY <1>1, HeldIsNat DEF Share
  <1>14. \A r \in Stock : reserved'[r] = Held(resv', r)
    BY <1>2, <1>8, <1>12, <1>13 DEF Covered
  <1>15. QED
    BY <1>14 DEF Covered

LEMMA OrderIsCovered ==
  ASSUME StockInv, StockInv', Covered, NEW t, NEW line, NEW items, OrderDoes(t, line, items)
  PROVE  Covered'
  <1>1. /\ line \in Lines /\ DOMAIN items \subseteq Leaves
        /\ items \in [DOMAIN items -> Nat \ {0}] /\ resv' = Upsert(resv, line, items)
    BY DEF OrderDoes
  <1>2. PICK new : new = resv'
    OBVIOUS
  <1>3. resv \in Seq(Reservations) /\ resv' \in Seq(Reservations) /\ new \in Seq(Reservations)
    BY <1>2 DEF StockInv, Types
  <1>4. Merged(resv, line, items, new)
    BY <1>1, <1>2, <1>3, Upserted
  <1>5. \A r : Held(new, r) = Held(resv, r) + Planned(items, r)
    BY <1>1, <1>3, <1>4, HeldMerged
  <1>6. \A r \in Stock : reserved'[r] = reserved[r] + Planned(items, r)
    BY DEF OrderDoes
  <1>7. \A r \in Stock : reserved'[r] = Held(resv', r)
    BY <1>2, <1>5, <1>6 DEF Covered
  <1>8. QED
    BY <1>7 DEF Covered

LEMMA CommitIsCovered ==
  ASSUME IInv, StockInv, StockInv', Covered, NEW t \in Txs, Commits(t)
  PROVE  Covered'
  <1>1. None \in Lines \union Deliveries \union {None} /\ Deliveries \subseteq Lines \union Deliveries \union {None}
    OBVIOUS
  <1>2. ASSUME NEW p, NEW n, CreateDoes(t, p, n) PROVE Covered'
    BY <1>1, <1>2, BookedIsCovered, SitesAre DEF CreateDoes
  <1>3. ASSUME NEW i, NEW status, NEW user, EndDoes(t, i, status, user) PROVE Covered'
    BY <1>3, EndedIsCovered DEF EndDoes, Statuses
  <1>4. ASSUME NEW m, PostDoes(t, m) PROVE Covered'
    BY <1>4 DEF PostDoes, Covered
  <1>5. ASSUME NEW line, NEW items, OrderDoes(t, line, items) PROVE Covered'
    BY <1>5, OrderIsCovered
  <1>6. ASSUME NEW d, NEW i, AttachWhole(t, d, i) PROVE Covered'
    BY <1>1, <1>6, RenamedIsCovered DEF AttachWhole, AttachDoes
  <1>7. ASSUME NEW d, NEW i, NEW n, AttachPart(t, d, i, n) PROVE Covered'
    BY <1>1, <1>7, SplitIsCovered DEF AttachPart, AttachDoes
  <1>8. ASSUME NEW d, NEW p, NEW n, NEW x, PrepareNew(t, d, p, n, x) PROVE Covered'
    BY <1>1, <1>8, BookedIsCovered DEF PrepareNew, PrepareDoes
  <1>9. ASSUME NEW d, NEW i, PrepareOld(t, d, i) PROVE Covered'
    <2>1. CASE resv' = resv
      BY <1>9, <2>1 DEF PrepareOld, Covered
    <2>2. CASE resv' = Rename(resv, i, d)
      BY <1>1, <1>9, <2>2, RenamedIsCovered DEF PrepareOld, PrepareDoes
    <2>3. QED
      BY <1>9, <2>1, <2>2 DEF PrepareOld
  <1>10. ASSUME NEW d, NEW i, ShipDoes(t, d, i) PROVE Covered'
    <2>1. "CONSUMED" \in Statuses \ {"ACTIVE"} /\ d \in Moves \union Deliveries \union {None}
      BY <1>10 DEF ShipDoes, Statuses
    <2>2. QED
      BY <1>10, <2>1, EndedIsCovered DEF ShipDoes
  <1>11. ASSUME NEW d, NEW i, CancelBoth(t, d, i) PROVE Covered'
    <2>1. "RELEASED" \in Statuses \ {"ACTIVE"} /\ None \in Moves \union Deliveries \union {None}
      BY DEF Statuses
    <2>2. QED
      BY <1>11, <2>1, EndedIsCovered DEF CancelBoth
  <1>12. ASSUME NEW d, CancelAlone(t, d) PROVE Covered'
    BY <1>12 DEF CancelAlone, stockVars, Covered
  <1>13. QED
    BY <1>2, <1>3, <1>4, <1>5, <1>6, <1>7, <1>8, <1>9, <1>10, <1>11, <1>12 DEF Commits

LEMMA InitCovered == Init => Covered
  <1> SUFFICES ASSUME Init PROVE Covered
    OBVIOUS
  <1>1. resv = <<>>
    BY DEF Init
  <1>2. \A r : Sharers(resv, r) = {}
    BY <1>1 DEF Sharers
  <1>3. \A r : Held(resv, r) = 0
    BY <1>2, SumEmpty DEF Held
  <1>4. QED
    BY <1>3 DEF Init, Covered

LEMMA NextCovered ==
  ASSUME IInv, StockInv, Covered, [Next]_vars
  PROVE  Covered'
  <1>1. StockInv'
    BY NextStockInv
  <1>2. CASE Quiet
    BY <1>2 DEF Quiet, stockVars, Covered
  <1>3. QED
    BY <1>1, <1>2, QuietOrCommits, CommitIsCovered

\* The reserved quantity of every level and lot is what its ACTIVE reservations
\* hold.
THEOREM ReservationsCoverReserved == Spec => []ReservedIsCovered
  <1>1. Init => IInv /\ StockInv /\ Covered
    BY InitIInv, InitStockInv, InitCovered
  <1>2. IInv /\ StockInv /\ Covered /\ [Next]_vars => IInv' /\ StockInv' /\ Covered'
    BY NextIInv, NextStockInv, NextCovered
  <1>3. Covered => ReservedIsCovered
    BY CoveredIs
  <1>4. QED
    BY <1>1, <1>2, <1>3, PTL DEF Spec

------------------------------------------------------------------------------
(* The ledger.                                                              *)

\* An end of a movement, or a position, that is booked at row r.
Touches(p, r) == p # None /\ r \in Touched(p)
\* What the movements of S bring to, or take from, row r.
Through(ends, S, r) == SumOver({m \in S : Touches(ends[m], r)}, MoveQty)

Shipped(f) == {d \in Deliveries : f[d].status = "SHIPPED"}
\* What the shipped deliveries took from row r.
Gone(f, r) == SumOver({d \in Deliveries : f[d].status = "SHIPPED" /\ Touches(f[d].pos, r)},
                      [d \in Deliveries |-> f[d].qty])

\* LedgerMatches, and as many shipped deliveries as can be summed up.
Ledger ==
    /\ IsFiniteSet(Shipped(delivery))
    /\ \A r \in Stock : total[r] = Initial[r] + Through(MoveTo, posted, r) - Through(MoveFrom, posted, r) - Gone(delivery, r)

LEMMA LedgerIs == Ledger => LedgerMatches
  <1> SUFFICES ASSUME Ledger, NEW r \in Stock
               PROVE  total[r] = Initial[r]
                        + SumOver({m \in posted : MoveTo[m] # None /\ r \in Touched(MoveTo[m])}, MoveQty)
                        - SumOver({m \in posted : MoveFrom[m] # None /\ r \in Touched(MoveFrom[m])}, MoveQty)
                        - SumOver({d \in Deliveries : /\ delivery[d].status = "SHIPPED"
                                                      /\ delivery[d].pos # None
                                                      /\ r \in Touched(delivery[d].pos)},
                                  [d \in Deliveries |-> delivery[d].qty])
    BY Zenon DEF LedgerMatches
  <1>1. total[r] = Initial[r] + Through(MoveTo, posted, r) - Through(MoveFrom, posted, r) - Gone(delivery, r)
    BY DEF Ledger
  <1>2. QED
    BY Zenon, <1>1 DEF Through, Gone, Touches

\* A further movement is summed up.
LEMMA OneMore ==
  ASSUME NEW S, IsFiniteSet(S), S \subseteq Moves, NEW m \in Moves, m \notin S, NEW ends, NEW r
  PROVE  /\ Through(ends, S \union {m}, r)
                = Through(ends, S, r) + (IF Touches(ends[m], r) THEN MoveQty[m] ELSE 0)
         /\ Through(ends, S, r) \in Nat
  <1> DEFINE T == {x \in S : Touches(ends[x], r)}
  <1>1. T \subseteq S /\ IsFiniteSet(T) /\ m \notin T
    BY FS_Subset
  <1>2. \A x \in Moves : MoveQty[x] \in Nat \ {0}
    BY MoveAssumption
  <1>3. (\A x \in T : MoveQty[x] \in Int) /\ MoveQty[m] \in Nat
    BY <1>1, <1>2
  <1>4. SumOver(T, MoveQty) \in Nat /\ Through(ends, S, r) = SumOver(T, MoveQty)
    BY <1>1, <1>3, SumIsNat DEF Through
  <1>5. CASE Touches(ends[m], r)
    <2>1. {x \in S \union {m} : Touches(ends[x], r)} = T \union {m}
      BY <1>5
    <2> HIDE DEF T
    <2>2. SumOver(T \union {m}, MoveQty) = SumOver(T, MoveQty) + MoveQty[m]
      BY <1>1, <1>3, SumAdd
    <2>3. Through(ends, S \union {m}, r) = SumOver(T, MoveQty) + MoveQty[m]
      BY Zenon, <2>1, <2>2 DEF Through
    <2>4. QED
      BY <1>4, <1>5, <2>3
  <1>6. CASE ~Touches(ends[m], r)
    <2>1. {x \in S \union {m} : Touches(ends[x], r)} = T
      BY <1>6
    <2> HIDE DEF T
    <2>2. Through(ends, S \union {m}, r) = SumOver(T, MoveQty)
      BY Zenon, <2>1 DEF Through
    <2>3. QED
      BY <1>4, <1>6, <2>2
  <1>7. QED
    BY <1>5, <1>6

\* A delivery that goes out is summed up.
LEMMA OneMoreGone ==
  ASSUME NEW f \in [Deliveries -> Allocations], NEW g \in [Deliveries -> Allocations],
         IsFiniteSet(Shipped(f)), NEW d \in Deliveries,
         f[d].status # "SHIPPED", g[d].status = "SHIPPED", g[d].pos \in Stock,
         \A x \in Deliveries : x # d => g[x] = f[x],
         NEW r
  PROVE  /\ IsFiniteSet(Shipped(g))
         /\ Gone(f, r) \in Nat
         /\ Gone(g, r) = Gone(f, r) + Share(g[d].qty, g[d].pos, r)
  <1> DEFINE T == {x \in Deliveries : f[x].status = "SHIPPED" /\ Touches(f[x].pos, r)}
             U == {x \in Deliveries : g[x].status = "SHIPPED" /\ Touches(g[x].pos, r)}
             p == [x \in Deliveries |-> f[x].qty]
             q == [x \in Deliveries |-> g[x].qty]
  <1>1. Shipped(g) = Shipped(f) \union {d}
    BY DEF Shipped
  <1>2. IsFiniteSet(Shipped(g))
    BY <1>1, FS_AddElement
  <1>3. T \subseteq Shipped(f) /\ d \notin T /\ T \subseteq Deliveries
    BY DEF Shipped
  <1>4. IsFiniteSet(T)
    BY <1>3, FS_Subset
  <1>5. \A x \in Deliveries : p[x] \in Nat /\ q[x] \in Nat
    BY DEF Allocations
  <1>6. \A x \in T : p[x] = q[x]
    OBVIOUS
  <1>7. q[d] = g[d].qty
    OBVIOUS
  <1>8. SumOver(T, p) \in Nat /\ SumOver(T, q) = SumOver(T, p)
    <2> HIDE DEF T, p, q
    <2>1. \A x \in T : p[x] \in Int
      BY <1>3, <1>5
    <2>2. QED
      BY <1>4, <1>6, <2>1, SumIsNat, SumSame
  <1>9. Gone(f, r) = SumOver(T, p) /\ Gone(g, r) = SumOver(U, q)
    BY DEF Gone
  <1>10. Touches(g[d].pos, r) <=> r \in Touched(g[d].pos)
    BY NoneAssumption DEF Touches
  <1>11. CASE Touches(g[d].pos, r)
    <2>1. U = T \union {d}
      BY <1>11
    <2> HIDE DEF T, U, p, q
    <2>2. SumOver(T \union {d}, q) = SumOver(T, q) + q[d]
      <3>1. \A y \in T : q[y] \in Int
        BY <1>3, <1>5
      <3>2. q[d] \in Nat
        BY <1>5
      <3>3. QED
        BY <1>3, <1>4, <3>1, <3>2, SumAdd
    <2>3. Gone(g, r) = SumOver(T, q) + q[d]
      BY Zenon, <1>9, <2>1, <2>2
    <2>4. QED
      BY <1>2, <1>5, <1>7, <1>8, <1>9, <1>10, <1>11, <2>3 DEF Share
  <1>12. CASE ~Touches(g[d].pos, r)
    <2>1. U = T
      BY <1>12
    <2> HIDE DEF T, U, p, q
    <2>2. Gone(g, r) = SumOver(T, q)
      BY Zenon, <1>9, <2>1
    <2>3. QED
      BY <1>2, <1>8, <1>9, <1>10, <1>12, <2>2 DEF Share
  <1>13. QED
    BY <1>11, <1>12

\* The shipped deliveries stay as they are, and no other is shipped.
LEMMA GoneSame ==
  ASSUME NEW f, NEW g,
         \A d \in Deliveries : f[d].status = "SHIPPED" \/ g[d].status = "SHIPPED" => g[d] = f[d]
  PROVE  /\ Shipped(g) = Shipped(f)
         /\ \A r : Gone(g, r) = Gone(f, r)
  <1>1. Shipped(g) = Shipped(f)
    BY DEF Shipped
  <1>2. ASSUME NEW r PROVE Gone(g, r) = Gone(f, r)
    <2> DEFINE T == {x \in Deliveries : f[x].status = "SHIPPED" /\ Touches(f[x].pos, r)}
               U == {x \in Deliveries : g[x].status = "SHIPPED" /\ Touches(g[x].pos, r)}
               p == [x \in Deliveries |-> f[x].qty]
               q == [x \in Deliveries |-> g[x].qty]
    <2>1. T = U
      OBVIOUS
    <2>2. \A x \in T : p[x] = q[x]
      OBVIOUS
    <2>3. Gone(f, r) = SumOver(T, p) /\ Gone(g, r) = SumOver(U, q)
      BY DEF Gone
    <2> HIDE DEF T, U, p, q
    <2>4. SumOver(T, p) = SumOver(T, q)
      BY <2>2, SumSame
    <2>5. QED
      BY Zenon, <2>1, <2>3, <2>4
  <1>3. QED
    BY <1>1, <1>2

\* Neither total nor movements nor a shipped delivery changes.
LEMMA LedgerSame ==
  ASSUME Ledger, UNCHANGED <<total, posted>>,
         \A d \in Deliveries : delivery[d].status = "SHIPPED" \/ delivery'[d].status = "SHIPPED" =>
             delivery'[d] = delivery[d]
  PROVE  Ledger'
  <1>1. PICK g : g = delivery'
    OBVIOUS
  <1>2. Shipped(g) = Shipped(delivery) /\ \A r : Gone(g, r) = Gone(delivery, r)
    BY <1>1, GoneSame
  <1>3. Shipped(delivery') = Shipped(delivery) /\ \A r : Gone(delivery', r) = Gone(delivery, r)
    BY <1>1, <1>2
  <1>4. QED
    BY <1>3 DEF Ledger

LEMMA PostLedger ==
  ASSUME StockInv, Ledger, NEW t, NEW m, PostDoes(t, m)
  PROVE  Ledger'
  <1>1. /\ m \in Moves /\ m \notin posted /\ IsFiniteSet(posted) /\ posted \subseteq Moves
        /\ total \in [Stock -> Int] /\ total' = Moved(total, m)
        /\ posted' = posted \union {m} /\ delivery' = delivery
    BY DEF PostDoes, StockInv, Types
  <1>2. ASSUME NEW r \in Stock
        PROVE  total'[r] = Initial[r] + Through(MoveTo, posted', r) - Through(MoveFrom, posted', r) - Gone(delivery, r)
    <2>1. /\ Through(MoveTo, posted', r) = Through(MoveTo, posted, r) + (IF Touches(MoveTo[m], r) THEN MoveQty[m] ELSE 0)
          /\ Through(MoveTo, posted, r) \in Nat
      <3>1. /\ Through(MoveTo, posted \union {m}, r)
                   = Through(MoveTo, posted, r) + (IF Touches(MoveTo[m], r) THEN MoveQty[m] ELSE 0)
            /\ Through(MoveTo, posted, r) \in Nat
        BY <1>1, OneMore
      <3>2. QED
        BY Zenon, <1>1, <3>1
    <2>2. /\ Through(MoveFrom, posted', r) = Through(MoveFrom, posted, r) + (IF Touches(MoveFrom[m], r) THEN MoveQty[m] ELSE 0)
          /\ Through(MoveFrom, posted, r) \in Nat
      <3>1. /\ Through(MoveFrom, posted \union {m}, r)
                   = Through(MoveFrom, posted, r) + (IF Touches(MoveFrom[m], r) THEN MoveQty[m] ELSE 0)
            /\ Through(MoveFrom, posted, r) \in Nat
        BY <1>1, OneMore
      <3>2. QED
        BY Zenon, <1>1, <3>1
    <2>3. total'[r] = total[r]
                        - (IF MoveFrom[m] # None /\ r \in Touched(MoveFrom[m]) THEN MoveQty[m] ELSE 0)
                        + (IF MoveTo[m] # None /\ r \in Touched(MoveTo[m]) THEN MoveQty[m] ELSE 0)
      BY <1>1, MovedIs
    <2>4. total'[r] = total[r] - (IF Touches(MoveFrom[m], r) THEN MoveQty[m] ELSE 0)
                               + (IF Touches(MoveTo[m], r) THEN MoveQty[m] ELSE 0)
      BY Zenon, <2>3 DEF Touches
    <2>5. total[r] = Initial[r] + Through(MoveTo, posted, r) - Through(MoveFrom, posted, r) - Gone(delivery, r)
      BY DEF Ledger
    <2>6. PICK a, b : a = (IF Touches(MoveTo[m], r) THEN MoveQty[m] ELSE 0)
                      /\ b = (IF Touches(MoveFrom[m], r) THEN MoveQty[m] ELSE 0)
      OBVIOUS
    <2>7. MoveQty[m] \in Nat /\ Initial[r] \in Nat
      BY <1>1, MoveAssumption, PlaceAssumption
    <2>8. a \in Nat /\ b \in Nat
      BY <2>6, <2>7
    <2>9. Gone(delivery, r) \in Nat
      <3> DEFINE T == {x \in Deliveries : delivery[x].status = "SHIPPED" /\ Touches(delivery[x].pos, r)}
                 p == [x \in Deliveries |-> delivery[x].qty]
      <3>1. delivery \in [Deliveries -> Allocations] /\ IsFiniteSet(Shipped(delivery))
        BY DEF StockInv, Types, Ledger
      <3>2. T \subseteq Shipped(delivery) /\ \A x \in T : p[x] \in Int
        BY <3>1 DEF Shipped, Allocations
      <3>3. IsFiniteSet(T)
        BY <3>1, <3>2, FS_Subset
      <3>4. Gone(delivery, r) = SumOver(T, p)
        BY DEF Gone
      <3> HIDE DEF T, p
      <3>5. QED
        BY <3>2, <3>3, <3>4, SumIsNat
    <2>10. QED
      BY <2>1, <2>2, <2>4, <2>5, <2>6, <2>7, <2>8, <2>9
  <1>3. QED
    BY <1>1, <1>2 DEF Ledger

LEMMA ThroughIsNat ==
  ASSUME StockInv, NEW ends, NEW r
  PROVE  Through(ends, posted, r) \in Nat
  <1> DEFINE S == {m \in posted : Touches(ends[m], r)}
  <1>1. posted \subseteq Moves /\ IsFiniteSet(posted)
    BY DEF StockInv, Types
  <1>2. S \subseteq posted /\ IsFiniteSet(S)
    BY <1>1, FS_Subset
  <1>3. \A x \in S : MoveQty[x] \in Int
    BY <1>1, <1>2, MoveAssumption
  <1>4. Through(ends, posted, r) = SumOver(S, MoveQty)
    BY DEF Through
  <1> HIDE DEF S
  <1>5. QED
    BY <1>2, <1>3, <1>4, SumIsNat

LEMMA ShipLedger ==
  ASSUME StockInv, Ledger, NEW t, NEW d, NEW i, ShipDoes(t, d, i)
  PROVE  Ledger'
  <1>1. PICK f, g : f = delivery /\ g = delivery'
    OBVIOUS
  <1>2. /\ d \in Deliveries /\ i \in DOMAIN resv /\ f[d].status = "READY" /\ f[d].resv = i
        /\ g = Mark(f, d, "SHIPPED") /\ f \in [Deliveries -> Allocations]
        /\ resv \in Seq(Reservations) /\ total \in [Stock -> Int] /\ UNCHANGED posted
    BY <1>1 DEF ShipDoes, StockInv, Types
  <1>3. PICK p, n : p = resv[i].pos /\ n = resv[i].qty
    OBVIOUS
  <1>4. p \in Stock /\ n \in Nat
    BY <1>2, <1>3, Typed, FieldsOf
  <1>5. Holds(d) /\ i # 0
    BY <1>2, Reserved DEF StockInv, DeliveriesHold
  <1>6. f[d].pos = p /\ f[d].qty = n
    BY <1>1, <1>2, <1>3, <1>5 DEF Holds
  <1>7. /\ g \in [Deliveries -> Allocations]
        /\ \A e \in Deliveries : e # d => g[e] = f[e]
        /\ g[d].status = "SHIPPED" /\ g[d].pos = p /\ g[d].qty = n
    <2>1. /\ g \in [Deliveries -> Allocations]
          /\ \A e \in Deliveries : e # d => g[e] = f[e]
          /\ g[d].status = "SHIPPED"
          /\ g[d].pos = f[d].pos /\ g[d].qty = f[d].qty /\ g[d].resv = f[d].resv
      BY <1>2, Marked
    <2>2. QED
      BY <1>6, <2>1
  <1>8. ASSUME NEW r
        PROVE  IsFiniteSet(Shipped(g)) /\ Gone(f, r) \in Nat /\ Gone(g, r) = Gone(f, r) + Share(n, p, r)
    <2>1. IsFiniteSet(Shipped(f)) /\ f[d].status # "SHIPPED" /\ g[d].pos \in Stock
      BY <1>1, <1>2, <1>4, <1>7 DEF Ledger
    <2>2. /\ IsFiniteSet(Shipped(g)) /\ Gone(f, r) \in Nat
          /\ Gone(g, r) = Gone(f, r) + Share(g[d].qty, g[d].pos, r)
      BY <1>2, <1>7, <2>1, OneMoreGone
    <2>3. QED
      BY <1>7, <2>2
  <1>9. \A r \in Stock : total'[r] = total[r] - Share(n, p, r) /\ total[r] \in Int /\ Share(n, p, r) \in Int
    <2>1. total' = Add(total, p, -n)
      BY <1>3 DEF ShipDoes
    <2>2. QED
      BY <1>2, <1>4, <2>1, AddedShare
  <1>10. ASSUME NEW r \in Stock
         PROVE  total'[r] = Initial[r] + Through(MoveTo, posted', r) - Through(MoveFrom, posted', r) - Gone(g, r)
    <2>1. total[r] = Initial[r] + Through(MoveTo, posted, r) - Through(MoveFrom, posted, r) - Gone(f, r)
      BY <1>1 DEF Ledger
    <2>2. /\ Initial[r] \in Nat
          /\ Through(MoveTo, posted, r) \in Nat /\ Through(MoveFrom, posted, r) \in Nat
      BY ThroughIsNat, PlaceAssumption
    <2>3. posted' = posted
      BY <1>2
    <2>4. Gone(f, r) \in Nat /\ Gone(g, r) = Gone(f, r) + Share(n, p, r)
      BY <1>8
    <2>5. total'[r] = Initial[r] + Through(MoveTo, posted, r) - Through(MoveFrom, posted, r) - Gone(g, r)
      BY <1>9, <2>1, <2>2, <2>4
    <2>6. QED
      BY Zenon, <2>3, <2>5
  <1>11. \A r \in Stock : total'[r] = Initial[r] + Through(MoveTo, posted', r) - Through(MoveFrom, posted', r) - Gone(delivery', r)
    BY <1>1, <1>10
  <1>12. IsFiniteSet(Shipped(delivery'))
    BY <1>1, <1>8
  <1>13. QED
    BY <1>11, <1>12 DEF Ledger

LEMMA InitLedger == Init => Ledger
  <1> SUFFICES ASSUME Init PROVE Ledger
    OBVIOUS
  <1>1. Shipped(delivery) = {} /\ IsFiniteSet(Shipped(delivery))
    <2>1. \A d \in Deliveries : delivery[d].status = "NONE"
      BY DEF Init, NoDelivery
    <2>2. Shipped(delivery) = {}
      BY <2>1 DEF Shipped
    <2>3. QED
      BY <2>2, FS_EmptySet
  <1>2. \A r : Through(MoveTo, posted, r) = 0 /\ Through(MoveFrom, posted, r) = 0
    <2>1. posted = {}
      BY DEF Init
    <2>2. \A ends, r : {m \in posted : Touches(ends[m], r)} = {}
      BY <2>1
    <2>3. QED
      BY Zenon, <2>2, SumEmpty DEF Through
  <1>3. ASSUME NEW r PROVE Gone(delivery, r) = 0
    <2>1. {d \in Deliveries : delivery[d].status = "SHIPPED" /\ Touches(delivery[d].pos, r)} = {}
      BY <1>1 DEF Shipped
    <2>2. QED
      BY Zenon, <2>1, SumEmpty DEF Gone
  <1>4. \A r \in Stock : total[r] = Initial[r] /\ Initial[r] \in Nat
    BY PlaceAssumption DEF Init
  <1>5. QED
    BY <1>1, <1>2, <1>3, <1>4 DEF Ledger

\* Marking a delivery other than as shipped.
LEMMA MarkLedger ==
  ASSUME StockInv, Ledger, UNCHANGED <<total, posted>>, NEW d \in Deliveries,
         delivery[d].status # "SHIPPED", NEW s \in {"READY", "CANCELLED"},
         delivery' = Mark(delivery, d, s)
  PROVE  Ledger'
  <1>1. PICK g : g = delivery'
    OBVIOUS
  <1>2. delivery \in [Deliveries -> Allocations] /\ g = Mark(delivery, d, s)
        /\ s \in {"NONE", "DRAFT", "READY", "SHIPPED", "CANCELLED"}
    BY <1>1 DEF StockInv, Types
  <1>3. g[d].status = s /\ \A e \in Deliveries : e # d => g[e] = delivery[e]
    BY <1>2, Marked
  <1>4. \A e \in Deliveries : delivery[e].status = "SHIPPED" \/ g[e].status = "SHIPPED" => g[e] = delivery[e]
    BY <1>3
  <1>5. QED
    BY <1>1, <1>4, LedgerSame

\* A delivery gets an allocation.
LEMMA AllocateLedger ==
  ASSUME StockInv, Ledger, UNCHANGED <<total, posted>>, NEW d \in Deliveries,
         delivery[d].status # "SHIPPED", NEW x, x.status # "SHIPPED",
         delivery' = [delivery EXCEPT ![d] = x]
  PROVE  Ledger'
  <1>1. delivery \in [Deliveries -> Allocations]
    BY DEF StockInv, Types
  <1>2. delivery'[d] = x /\ \A e \in Deliveries : e # d => delivery'[e] = delivery[e]
    BY <1>1
  <1>3. \A e \in Deliveries : delivery[e].status = "SHIPPED" \/ delivery'[e].status = "SHIPPED"
            => delivery'[e] = delivery[e]
    BY <1>2
  <1>4. QED
    BY <1>3, LedgerSame

LEMMA CommitLedger ==
  ASSUME IInv, StockInv, Ledger, NEW t \in Txs, Commits(t)
  PROVE  Ledger'
  <1>1. ASSUME NEW p, NEW n, CreateDoes(t, p, n) PROVE Ledger'
    BY <1>1, LedgerSame DEF CreateDoes
  <1>2. ASSUME NEW i, NEW status, NEW user, EndDoes(t, i, status, user) PROVE Ledger'
    BY <1>2, LedgerSame DEF EndDoes
  <1>3. ASSUME NEW m, PostDoes(t, m) PROVE Ledger'
    BY <1>3, PostLedger
  <1>4. ASSUME NEW line, NEW items, OrderDoes(t, line, items) PROVE Ledger'
    BY <1>4, LedgerSame DEF OrderDoes
  <1>5. ASSUME NEW d, NEW i, AttachWhole(t, d, i) PROVE Ledger'
    <2>1. PICK x : x = [status |-> "DRAFT", pos |-> resv[i].pos, qty |-> resv[i].qty, resv |-> i]
      OBVIOUS
    <2>2. x.status # "SHIPPED"
      BY <2>1
    <2>3. delivery' = [delivery EXCEPT ![d] = x] /\ UNCHANGED <<total, posted>>
          /\ d \in Deliveries /\ delivery[d].status # "SHIPPED"
      BY <1>5, <2>1 DEF AttachWhole, AttachDoes
    <2>4. QED
      BY <2>2, <2>3, AllocateLedger
  <1>6. ASSUME NEW d, NEW i, NEW n, AttachPart(t, d, i, n) PROVE Ledger'
    <2>1. PICK x : x = [status |-> "DRAFT", pos |-> resv[i].pos, qty |-> n, resv |-> Len(resv) + 1]
      OBVIOUS
    <2>2. x.status # "SHIPPED"
      BY <2>1
    <2>3. delivery' = [delivery EXCEPT ![d] = x] /\ UNCHANGED <<total, posted>>
          /\ d \in Deliveries /\ delivery[d].status # "SHIPPED"
      BY <1>6, <2>1 DEF AttachPart, AttachDoes
    <2>4. QED
      BY <2>2, <2>3, AllocateLedger
  <1>7. ASSUME NEW d, NEW p, NEW n, NEW x, PrepareNew(t, d, p, n, x) PROVE Ledger'
    BY <1>7, AllocateLedger DEF PrepareNew, PrepareDoes
  <1>8. ASSUME NEW d, NEW i, PrepareOld(t, d, i) PROVE Ledger'
    BY <1>8, MarkLedger DEF PrepareOld, PrepareDoes
  <1>9. ASSUME NEW d, NEW i, ShipDoes(t, d, i) PROVE Ledger'
    BY <1>9, ShipLedger
  <1>10. ASSUME NEW d, NEW i, CancelBoth(t, d, i) PROVE Ledger'
    BY <1>10, MarkLedger DEF CancelBoth
  <1>11. ASSUME NEW d, CancelAlone(t, d) PROVE Ledger'
    BY <1>11, MarkLedger DEF CancelAlone, stockVars
  <1>12. QED
    BY <1>1, <1>2, <1>3, <1>4, <1>5, <1>6, <1>7, <1>8, <1>9, <1>10, <1>11 DEF Commits

LEMMA NextLedger ==
  ASSUME IInv, StockInv, Ledger, [Next]_vars
  PROVE  Ledger'
  <1>1. CASE Quiet
    BY <1>1, LedgerSame DEF Quiet, stockVars
  <1>2. QED
    BY <1>1, QuietOrCommits, CommitLedger

\* What is in stock is what was there, plus the posted movements, minus the
\* shipped deliveries, each counted once.
THEOREM StockIsTheLedger == Spec => []LedgerMatches
  <1>1. Init => IInv /\ StockInv /\ Ledger
    BY InitIInv, InitStockInv, InitLedger
  <1>2. IInv /\ StockInv /\ Ledger /\ [Next]_vars => IInv' /\ StockInv' /\ Ledger'
    BY NextIInv, NextStockInv, NextLedger
  <1>3. Ledger => LedgerMatches
    BY LedgerIs
  <1>4. QED
    BY <1>1, <1>2, <1>3, PTL DEF Spec

------------------------------------------------------------------------------
(* What is free.                                                            *)

\* Nothing is promised twice in a lot, or in a level without lots.
Sound(A) == \A r \in Leaves : A[r] >= 0

\* A level has as much free as its lots together.
Balanced(A) == \A l \in Levels : SumOver(BatchesOf(l), A) <= A[l]

\* If the article is not lot-tracked, a level may be promised beside its lots.
Healthy(A) == Sound(A) /\ (LotTracked => Balanced(A))

\* A lot, or a level without lots, is touched by no other position.
LEMMA LeafTouched ==
  ASSUME NEW r \in Leaves, NEW p \in Stock
  PROVE  r \in Touched(p) <=> r = p
  <1>1. CASE p \in Batches
    <2>1. Touched(p) = {p, LevelOf[p]} /\ LevelOf[p] \in Levels /\ p \in BatchesOf(LevelOf[p])
      BY <1>1, PlaceAssumption DEF Touched, Level, BatchesOf
    <2>2. r # LevelOf[p]
      BY <2>1, PlaceAssumption DEF Leaves
    <2>3. QED
      BY <2>1, <2>2
  <1>2. CASE p \notin Batches
    BY <1>2 DEF Touched, Level
  <1>3. QED
    BY <1>1, <1>2

LEMMA BatchesFinite ==
  ASSUME NEW l
  PROVE  IsFiniteSet(BatchesOf(l)) /\ BatchesOf(l) \subseteq Leaves /\ BatchesOf(l) \subseteq Stock
  <1>1. BatchesOf(l) \subseteq Stock
    BY DEF BatchesOf, Stock
  <1>2. QED
    BY <1>1, StockFinite, FS_Subset DEF BatchesOf, Leaves

\* Something is taken from a position, or given back there.
LEMMA Shifted ==
  ASSUME NEW A \in [Stock -> Int], NEW B \in [Stock -> Int], NEW p \in Sites, NEW k \in Int,
         \A r \in Stock : B[r] = A[r] + Share(k, p, r),
         p \in Leaves => B[p] >= 0,
         Healthy(A)
  PROVE  Healthy(B)
  <1>1. p \in Stock /\ (LotTracked => p \in Leaves)
    BY DEF Sites
  <1>2. Sound(B)
    <2> SUFFICES ASSUME NEW r \in Leaves PROVE B[r] >= 0
      BY DEF Sound
    <2>1. r \in Stock /\ A[r] >= 0 /\ A[r] \in Int
      BY DEF Leaves, Healthy, Sound
    <2>2. CASE r = p
      BY <2>2
    <2>3. CASE r # p
      <3>1. r \notin Touched(p)
        BY <1>1, <2>3, LeafTouched
      <3>2. B[r] = A[r] + 0
        BY <2>1, <3>1 DEF Share
      <3>3. QED
        BY <2>1, <3>2
    <2>4. QED
      BY <2>2, <2>3
  <1>3. ASSUME LotTracked, NEW l \in Levels
        PROVE  SumOver(BatchesOf(l), B) <= B[l]
    <2>1. p \in Leaves /\ B[p] >= 0
      BY <1>1, <1>3
    <2>2. SumOver(BatchesOf(l), A) <= A[l]
      BY <1>3 DEF Healthy, Balanced
    <2>3. /\ IsFiniteSet(BatchesOf(l)) /\ BatchesOf(l) \subseteq Leaves /\ BatchesOf(l) \subseteq Stock
          /\ l \in Stock
      BY BatchesFinite DEF Stock
    <2>4. \A b \in BatchesOf(l) : A[b] \in Nat /\ B[b] \in Nat
      <3>1. \A r \in Leaves : A[r] >= 0 /\ B[r] >= 0
        BY <1>2 DEF Healthy, Sound
      <3>2. QED
        BY <2>3, <3>1
    <2>5. \A b \in BatchesOf(l) : b # p => B[b] = A[b]
      <3> SUFFICES ASSUME NEW b \in BatchesOf(l), b # p PROVE B[b] = A[b]
        OBVIOUS
      <3>1. b \notin Touched(p) /\ b \in Stock
        BY <1>1, <2>3, LeafTouched
      <3>2. B[b] = A[b] + 0
        BY <3>1 DEF Share
      <3>3. QED
        BY <2>4, <3>2
    <2>6. SumOver(BatchesOf(l), A) \in Nat /\ SumOver(BatchesOf(l), B) \in Nat
      BY <2>3, <2>4, SumIsNat
    <2>7. CASE p \in BatchesOf(l)
      <3>1. p \in Touched(p) /\ l \in Touched(p)
        BY <2>7 DEF Touched, Level, BatchesOf
      <3>2. B[p] = A[p] + k /\ B[l] = A[l] + k
        BY <1>1, <2>3, <3>1 DEF Share
      <3>3. SumOver(BatchesOf(l), B) = SumOver(BatchesOf(l), A) + (B[p] - A[p])
        <4>1. \A y \in BatchesOf(l) : A[y] \in Int /\ B[y] \in Int
          BY <2>4
        <4>2. \A y \in BatchesOf(l) \ {p} : A[y] = B[y]
          BY <2>5
        <4>3. A[p] \in Nat /\ B[p] \in Nat
          BY <2>4, <2>7
        <4>4. QED
          BY <2>3, <2>7, <4>1, <4>2, <4>3, SumChange
      <3>4. A[p] \in Int /\ A[l] \in Int
        BY <1>1, <2>3
      <3>5. QED
        BY <2>2, <2>6, <3>2, <3>3, <3>4
    <2>8. CASE p \notin BatchesOf(l)
      <3>1. SumOver(BatchesOf(l), B) = SumOver(BatchesOf(l), A)
        BY <2>5, <2>8, SumSame
      <3>2. CASE l = p
        <4>1. BatchesOf(l) = {}
          BY <2>1, <3>2, PlaceAssumption DEF Leaves
        <4>2. SumOver(BatchesOf(l), B) = 0
          BY <4>1, SumEmpty
        <4>3. QED
          BY <2>1, <3>2, <4>2
      <3>3. CASE l # p
        <4>1. l \notin Touched(p)
          BY <1>1, <2>8, <3>3, PlaceAssumption DEF Touched, Level, BatchesOf
        <4>2. B[l] = A[l] + 0
          BY <2>3, <4>1 DEF Share
        <4>3. B[l] = A[l]
          BY <2>3, <4>2
        <4>4. QED
          BY <2>2, <3>1, <4>3
      <3>4. QED
        BY <3>2, <3>3
    <2>9. QED
      BY <2>7, <2>8
  <1>4. QED
    BY <1>2, <1>3 DEF Healthy, Balanced

\* What the plan takes from a lot, or from a level without lots.
LEMMA PlannedAt ==
  ASSUME NEW items, DOMAIN items \subseteq Leaves, items \in [DOMAIN items -> Nat \ {0}],
         NEW r \in Leaves
  PROVE  Planned(items, r) = IF r \in DOMAIN items THEN items[r] ELSE 0
  <1> DEFINE S == {p \in DOMAIN items : r \in Touched(p)}
  <1>1. \A p \in DOMAIN items : r \in Touched(p) <=> r = p
    BY LeafTouched DEF Leaves
  <1>2. Planned(items, r) = SumOver(S, items)
    BY DEF Planned
  <1>3. CASE r \in DOMAIN items
    <2>1. S = {r} /\ items[r] \in Nat
      BY <1>1, <1>3
    <2> HIDE DEF S
    <2>2. SumOver(S, items) = items[r]
      BY Zenon, <2>1, SumOne
    <2>3. QED
      BY <1>2, <1>3, <2>2
  <1>4. CASE r \notin DOMAIN items
    <2>1. S = {}
      BY <1>1, <1>4
    <2> HIDE DEF S
    <2>2. SumOver(S, items) = 0
      BY <2>1, SumEmpty
    <2>3. QED
      BY <1>2, <1>4, <2>2
  <1>5. QED
    BY <1>3, <1>4

\* What it takes from a level is what it takes from the lots of it.
LEMMA PlannedLevel ==
  ASSUME NEW items, DOMAIN items \subseteq Leaves, items \in [DOMAIN items -> Nat \ {0}],
         NEW l \in Levels, l \notin Leaves
  PROVE  Planned(items, l) = SumOver(BatchesOf(l), [r \in Stock |-> Planned(items, r)])
  <1> DEFINE S == {p \in DOMAIN items : l \in Touched(p)}
             e == [r \in Stock |-> Planned(items, r)]
             B == BatchesOf(l)
  <1>1. IsFiniteSet(B) /\ B \subseteq Leaves /\ B \subseteq Stock
    BY BatchesFinite
  <1>2. \A b \in B : e[b] = IF b \in DOMAIN items THEN items[b] ELSE 0
    <2> SUFFICES ASSUME NEW b \in B PROVE Planned(items, b) = IF b \in DOMAIN items THEN items[b] ELSE 0
      BY <1>1
    <2>1. b \in Leaves
      BY <1>1
    <2>2. QED
      BY <2>1, PlannedAt
  <1>3. \A p : p \in S <=> p \in B /\ p \in DOMAIN items
    <2>1. \A p \in DOMAIN items : p # l
      OBVIOUS
    <2>2. \A p \in DOMAIN items : l \in Touched(p) <=> p \in Batches /\ LevelOf[p] = l
      BY <2>1 DEF Touched, Level
    <2>3. QED
      BY <2>2 DEF BatchesOf
  <1>4. Planned(items, l) = SumOver(S, items)
    BY DEF Planned
  <1> HIDE DEF S, e, B
  <1>5. S \in SUBSET B /\ \A b \in B \ S : e[b] = 0
    BY <1>2, <1>3
  <1>6. SumOver(B, e) = SumOver(S, e)
    BY <1>5, SumPositive
  <1>7. \A b \in S : e[b] = items[b]
    BY <1>2, <1>3
  <1>8. SumOver(S, e) = SumOver(S, items)
    BY <1>7, SumSame
  <1>9. QED
    BY <1>4, <1>6, <1>8 DEF B, e

\* The plan is taken from what is free.
LEMMA PlanHealthy ==
  ASSUME NEW items, DOMAIN items \subseteq Leaves, items \in [DOMAIN items -> Nat \ {0}],
         NEW A \in [Stock -> Int], NEW B \in [Stock -> Int],
         \A r \in Stock : B[r] = A[r] - Planned(items, r),
         \A r \in Stock : Planned(items, r) > 0 => Planned(items, r) <= A[r],
         Healthy(A)
  PROVE  Healthy(B)
  <1> DEFINE e == [r \in Stock |-> Planned(items, r)]
  <1>1. \A r \in Stock : e[r] = Planned(items, r) /\ e[r] \in Nat
    <2>1. DOMAIN items \subseteq Stock
      BY DEF Leaves
    <2>2. QED
      BY <2>1, PlannedIsNat
  <1>2. \A r \in Stock : A[r] \in Int /\ B[r] = A[r] - e[r] /\ (e[r] > 0 => e[r] <= A[r])
    BY <1>1
  <1>3. ASSUME NEW l \in Levels, l \notin Leaves
        PROVE  e[l] = SumOver(BatchesOf(l), e)
    BY <1>3, PlannedLevel DEF Stock
  <1> HIDE DEF e
  <1>4. Sound(B)
    <2> SUFFICES ASSUME NEW r \in Leaves PROVE B[r] >= 0
      BY DEF Sound
    <2>1. r \in Stock /\ A[r] >= 0
      BY DEF Healthy, Sound, Leaves
    <2>2. QED
      BY <1>1, <1>2, <2>1
  <1>5. ASSUME LotTracked, NEW l \in Levels
        PROVE  SumOver(BatchesOf(l), B) <= B[l]
    <2>1. SumOver(BatchesOf(l), A) <= A[l]
      BY <1>5 DEF Healthy, Balanced
    <2>2. /\ IsFiniteSet(BatchesOf(l)) /\ BatchesOf(l) \subseteq Leaves /\ BatchesOf(l) \subseteq Stock
          /\ l \in Stock
      BY BatchesFinite DEF Stock
    <2>3. CASE l \in Leaves
      <3>1. BatchesOf(l) = {}
        BY <2>3, PlaceAssumption DEF Leaves
      <3>2. SumOver(BatchesOf(l), B) = 0
        BY <3>1, SumEmpty
      <3>3. B[l] >= 0
        BY <1>4, <2>3 DEF Sound
      <3>4. QED
        BY <3>2, <3>3
    <2>4. CASE l \notin Leaves
      <3>1. \A b \in BatchesOf(l) : B[b] \in Nat /\ e[b] \in Nat /\ A[b] = B[b] + e[b]
        BY <1>1, <1>2, <1>4, <2>2 DEF Sound
      <3>2. SumOver(BatchesOf(l), A) = SumOver(BatchesOf(l), B) + SumOver(BatchesOf(l), e)
        BY <2>2, <3>1, SumPlus
      <3>3. SumOver(BatchesOf(l), B) \in Nat /\ SumOver(BatchesOf(l), e) \in Nat
        <4>1. \A b \in BatchesOf(l) : B[b] \in Int /\ e[b] \in Int
          BY <3>1
        <4>2. QED
          BY <2>2, <4>1, SumIsNat
      <3>4. e[l] = SumOver(BatchesOf(l), e)
        BY <1>3, <2>4
      <3>5. A[l] \in Int /\ B[l] = A[l] - e[l]
        BY <1>2, <2>2
      <3>6. QED
        BY <2>1, <3>2, <3>3, <3>4, <3>5
    <2>5. QED
      BY <2>3, <2>4
  <1>6. QED
    BY <1>4, <1>5 DEF Healthy, Balanced

LEMMA FreeIs ==
  ASSUME StockInv
  PROVE  /\ Free \in [Stock -> Int]
         /\ \A r \in Stock : Free[r] = total[r] - reserved[r] /\ total[r] \in Int /\ reserved[r] \in Int
  BY DEF StockInv, Types, Free, Available

\* What is free afterwards.
LEMMA FreeNext ==
  ASSUME StockInv', NEW B, B = Free'
  PROVE  /\ B \in [Stock -> Int]
         /\ \A r \in Stock : B[r] = total'[r] - reserved'[r] /\ total'[r] \in Int /\ reserved'[r] \in Int
  BY DEF StockInv, Types, Free, Available

\* A quantity is reserved, or given back.
LEMMA ReserveHealthy ==
  ASSUME StockInv, StockInv', Healthy(Free), NEW p \in Sites, NEW n \in Int,
         reserved' = Add(reserved, p, n), UNCHANGED total,
         n <= Available(p) \/ n <= 0
  PROVE  Healthy(Free)'
  <1>1. PICK A, B : A = Free /\ B = Free'
    OBVIOUS
  <1>2. PICK k : k = -n
    OBVIOUS
  <1>3. k \in Int /\ p \in Stock /\ reserved \in [Stock -> Int]
    BY <1>2 DEF Sites, StockInv, Types
  <1>4. /\ A \in [Stock -> Int] /\ B \in [Stock -> Int] /\ Healthy(A)
        /\ \A r \in Stock : A[r] = total[r] - reserved[r] /\ total[r] \in Int /\ reserved[r] \in Int
        /\ \A r \in Stock : B[r] = total[r] - reserved'[r]
    BY <1>1, FreeIs, FreeNext
  <1>5. \A r \in Stock : reserved'[r] = reserved[r] + Share(n, p, r)
    BY <1>3, AddedShare
  <1>6. \A r \in Stock : B[r] = A[r] + Share(k, p, r)
    BY <1>2, <1>4, <1>5 DEF Share
  <1>7. p \in Leaves => B[p] >= 0
    <2> SUFFICES ASSUME p \in Leaves PROVE B[p] >= 0
      OBVIOUS
    <2>1. A[p] >= 0 /\ p \in Touched(p)
      BY <1>4 DEF Healthy, Sound, Touched
    <2>2. B[p] = A[p] - n /\ A[p] = Available(p) /\ A[p] \in Int
      BY <1>2, <1>3, <1>4, <1>6, <2>1 DEF Share, Available
    <2>3. QED
      BY <2>1, <2>2
  <1>8. Healthy(B)
    BY <1>3, <1>4, <1>6, <1>7, Shifted
  <1>9. QED
    BY <1>1, <1>8

LEMMA PostHealthy ==
  ASSUME StockInv, StockInv', Healthy(Free), NEW t, NEW m, PostDoes(t, m)
  PROVE  Healthy(Free)'
  <1>1. PICK A, B : A = Free /\ B = Free'
    OBVIOUS
  <1>2. PICK from, to, q : from = MoveFrom[m] /\ to = MoveTo[m] /\ q = MoveQty[m]
    OBVIOUS
  <1>3. /\ m \in Moves /\ total' = Moved(total, m) /\ reserved' = reserved /\ total \in [Stock -> Int]
        /\ from # None => q <= Available(from)
    BY <1>2 DEF PostDoes, StockInv, Types
  <1>4. q \in Nat \ {0} /\ from \in Positions \union {None} /\ to \in Positions \union {None}
    BY <1>2, <1>3, MoveAssumption
  <1>5. /\ A \in [Stock -> Int] /\ B \in [Stock -> Int] /\ Healthy(A)
        /\ \A r \in Stock : A[r] = total[r] - reserved[r] /\ total[r] \in Int /\ reserved[r] \in Int
        /\ \A r \in Stock : B[r] = total'[r] - reserved[r]
    BY <1>1, <1>3, FreeIs, FreeNext
  <1> DEFINE taken(r) == IF from # None /\ r \in Touched(from) THEN q ELSE 0
             put(r) == IF to # None /\ r \in Touched(to) THEN q ELSE 0
             C == [r \in Stock |-> A[r] - taken(r)]
  <1>6. \A r \in Stock : total'[r] = total[r] - taken(r) + put(r)
    BY <1>2, <1>3, MovedIs
  <1>7. C \in [Stock -> Int] /\ \A r \in Stock : C[r] = A[r] - taken(r)
    BY <1>4, <1>5
  <1>8. \A r \in Stock : taken(r) \in Int /\ put(r) \in Int
    BY <1>4
  <1>9. \A r \in Stock : B[r] = C[r] + put(r)
    <2> SUFFICES ASSUME NEW r \in Stock PROVE B[r] = C[r] + put(r)
      OBVIOUS
    <2> HIDE DEF taken, put, C
    <2>1. QED
      BY <1>5, <1>6, <1>7, <1>8
  <1>10. Healthy(C)
    <2>1. CASE from = None
      <3>1. \A r \in Stock : taken(r) = 0
        BY <2>1
      <3> HIDE DEF taken, C
      <3>2. \A r \in Stock : C[r] = A[r]
        BY <1>5, <1>7, <3>1
      <3>3. C = A
        BY <1>5, <1>7, <3>2
      <3>4. QED
        BY <1>5, <3>3
    <2>2. CASE from # None
      <3>1. PICK k : k = -q
        OBVIOUS
      <3>2. from \in Sites /\ from \in Stock /\ k \in Int
        BY <1>4, <2>2, <3>1, SitesAre
      <3>3. \A r \in Stock : C[r] = A[r] + Share(k, from, r)
        BY <1>4, <1>5, <1>7, <2>2, <3>1 DEF Share
      <3>4. C[from] >= 0
        <4>1. from \in Touched(from) /\ A[from] = Available(from)
          BY <1>5, <3>2 DEF Touched, Available
        <4>2. C[from] = A[from] - q
          BY <1>7, <2>2, <3>2, <4>1
        <4>3. QED
          BY <1>3, <1>4, <1>5, <2>2, <3>2, <4>1, <4>2
      <3> HIDE DEF taken, C
      <3>5. QED
        BY <1>5, <1>7, <3>2, <3>3, <3>4, Shifted
    <2>3. QED
      BY <2>1, <2>2
  <1>11. Healthy(B)
    <2>1. CASE to = None
      <3>1. \A r \in Stock : put(r) = 0
        BY <2>1
      <3> HIDE DEF taken, put, C
      <3>2. \A r \in Stock : B[r] = C[r]
        BY <1>7, <1>9, <3>1
      <3>3. B = C
        BY <1>5, <1>7, <3>2
      <3>4. QED
        BY <1>10, <3>3
    <2>2. CASE to # None
      <3>1. to \in Sites /\ to \in Stock /\ q \in Int
        BY <1>4, <2>2, SitesAre
      <3>2. \A r \in Stock : B[r] = C[r] + Share(q, to, r)
        BY <1>9, <2>2 DEF Share
      <3>3. to \in Leaves => B[to] >= 0
        <4>1. to \in Touched(to)
          BY DEF Touched
        <4> HIDE DEF C
        <4>2. to \in Leaves => C[to] >= 0
          BY <1>10 DEF Healthy, Sound
        <4>3. B[to] = C[to] + q
          BY <3>1, <3>2, <4>1 DEF Share
        <4>4. QED
          BY <1>4, <1>7, <3>1, <4>2, <4>3
      <3> HIDE DEF taken, put, C
      <3>4. QED
        BY <1>5, <1>7, <1>10, <3>1, <3>2, <3>3, Shifted
    <2>3. QED
      BY <2>1, <2>2
  <1>12. QED
    BY <1>1, <1>11

LEMMA OrderHealthy ==
  ASSUME StockInv, StockInv', Healthy(Free), NEW t, NEW line, NEW items, OrderDoes(t, line, items)
  PROVE  Healthy(Free)'
  <1>1. PICK A, B : A = Free /\ B = Free'
    OBVIOUS
  <1>2. /\ DOMAIN items \subseteq Leaves /\ items \in [DOMAIN items -> Nat \ {0}]
        /\ PlanHolds(items) /\ UNCHANGED total
        /\ reserved' = [r \in Stock |-> reserved[r] + Planned(items, r)]
    BY DEF OrderDoes
  <1>3. /\ A \in [Stock -> Int] /\ B \in [Stock -> Int] /\ Healthy(A)
        /\ \A r \in Stock : A[r] = total[r] - reserved[r] /\ total[r] \in Int /\ reserved[r] \in Int
        /\ \A r \in Stock : B[r] = total[r] - reserved'[r]
    BY <1>1, <1>2, FreeIs, FreeNext
  <1>4. \A r \in Stock : Planned(items, r) \in Nat
    <2>1. DOMAIN items \subseteq Stock
      BY <1>2 DEF Leaves
    <2>2. QED
      BY <1>2, <2>1, PlannedIsNat
  <1>5. \A r \in Stock : B[r] = A[r] - Planned(items, r)
    BY <1>2, <1>3, <1>4
  <1>6. \A r \in Stock : Planned(items, r) > 0 => Planned(items, r) <= A[r]
    BY <1>2, <1>3 DEF PlanHolds, Available
  <1>7. Healthy(B)
    BY <1>2, <1>3, <1>5, <1>6, PlanHealthy
  <1>8. QED
    BY <1>1, <1>7

\* What goes out was reserved.
LEMMA ShipHealthy ==
  ASSUME StockInv, StockInv', Healthy(Free), NEW t, NEW d, NEW i, ShipDoes(t, d, i)
  PROVE  Healthy(Free)'
  <1>1. PICK A, B : A = Free /\ B = Free'
    OBVIOUS
  <1>2. PICK p, n : p = resv[i].pos /\ n = resv[i].qty
    OBVIOUS
  <1>3. n \in Int
    BY <1>2, Typed, FieldsOf DEF ShipDoes, StockInv, Types
  <1>4. total' = Add(total, p, -n) /\ reserved' = Add(reserved, p, -n)
        /\ total \in [Stock -> Int] /\ reserved \in [Stock -> Int]
    BY <1>2 DEF ShipDoes, StockInv, Types
  <1>5. \A r \in Stock : /\ total'[r] = total[r] - Share(n, p, r) /\ reserved'[r] = reserved[r] - Share(n, p, r)
                         /\ Share(n, p, r) \in Int /\ total[r] \in Int /\ reserved[r] \in Int
    BY <1>3, <1>4, AddedShare
  <1>6. /\ A \in [Stock -> Int] /\ B \in [Stock -> Int]
        /\ \A r \in Stock : A[r] = total[r] - reserved[r]
        /\ \A r \in Stock : B[r] = total'[r] - reserved'[r]
    BY <1>1, FreeIs, FreeNext
  <1>7. \A r \in Stock : B[r] = A[r]
    BY <1>5, <1>6
  <1>8. B = A
    BY <1>6, <1>7
  <1>9. QED
    BY <1>1, <1>8

\* A reservation is given back.
LEMMA EndHealthy ==
  ASSUME StockInv, StockInv', Healthy(Free), NEW i \in DOMAIN resv,
         reserved' = Add(reserved, resv[i].pos, -resv[i].qty), UNCHANGED total
  PROVE  Healthy(Free)'
  <1>1. PICK p, n : p = resv[i].pos /\ n = -resv[i].qty
    OBVIOUS
  <1>2. p \in Sites /\ n \in Int /\ n <= 0
    BY <1>1, Typed, FieldsOf DEF StockInv, Types
  <1>3. reserved' = Add(reserved, p, n)
    BY <1>1
  <1>4. QED
    BY <1>2, <1>3, ReserveHealthy

LEMMA SameHealthy ==
  ASSUME Healthy(Free), UNCHANGED <<total, reserved>>
  PROVE  Healthy(Free)'
  <1>1. Free' = Free
    BY DEF Free, Available
  <1>2. QED
    BY <1>1

LEMMA CommitHealthy ==
  ASSUME IInv, StockInv, StockInv', Healthy(Free), NEW t \in Txs, Commits(t)
  PROVE  Healthy(Free)'
  <1>1. ASSUME NEW p, NEW n, CreateDoes(t, p, n) PROVE Healthy(Free)'
    BY <1>1, ReserveHealthy, SitesAre DEF CreateDoes
  <1>2. ASSUME NEW i, NEW status, NEW user, EndDoes(t, i, status, user) PROVE Healthy(Free)'
    BY <1>2, EndHealthy DEF EndDoes
  <1>3. ASSUME NEW m, PostDoes(t, m) PROVE Healthy(Free)'
    BY <1>3, PostHealthy
  <1>4. ASSUME NEW line, NEW items, OrderDoes(t, line, items) PROVE Healthy(Free)'
    BY <1>4, OrderHealthy
  <1>5. ASSUME NEW d, NEW i, AttachWhole(t, d, i) PROVE Healthy(Free)'
    BY <1>5, SameHealthy DEF AttachWhole, AttachDoes
  <1>6. ASSUME NEW d, NEW i, NEW n, AttachPart(t, d, i, n) PROVE Healthy(Free)'
    BY <1>6, SameHealthy DEF AttachPart, AttachDoes
  <1>7. ASSUME NEW d, NEW p, NEW n, NEW x, PrepareNew(t, d, p, n, x) PROVE Healthy(Free)'
    BY <1>7, ReserveHealthy DEF PrepareNew, PrepareDoes
  <1>8. ASSUME NEW d, NEW i, PrepareOld(t, d, i) PROVE Healthy(Free)'
    BY <1>8, SameHealthy DEF PrepareOld, PrepareDoes
  <1>9. ASSUME NEW d, NEW i, ShipDoes(t, d, i) PROVE Healthy(Free)'
    BY <1>9, ShipHealthy
  <1>10. ASSUME NEW d, NEW i, CancelBoth(t, d, i) PROVE Healthy(Free)'
    BY <1>10, EndHealthy DEF CancelBoth
  <1>11. ASSUME NEW d, CancelAlone(t, d) PROVE Healthy(Free)'
    BY <1>11, SameHealthy DEF CancelAlone, stockVars
  <1>12. QED
    BY <1>1, <1>2, <1>3, <1>4, <1>5, <1>6, <1>7, <1>8, <1>9, <1>10, <1>11 DEF Commits

LEMMA InitHealthy == Init => Healthy(Free)
  <1> SUFFICES ASSUME Init PROVE Healthy(Free)
    OBVIOUS
  <1>1. \A r \in Stock : Free[r] = Initial[r] /\ Initial[r] \in Nat
    BY PlaceAssumption DEF Init, Free, Available
  <1>2. Sound(Free)
    BY <1>1 DEF Sound, Leaves
  <1>3. ASSUME NEW l \in Levels PROVE SumOver(BatchesOf(l), Free) <= Free[l]
    <2>1. \A b \in BatchesOf(l) : Free[b] = Initial[b]
      BY <1>1, BatchesFinite
    <2>2. SumOver(BatchesOf(l), Free) = SumOver(BatchesOf(l), Initial)
      BY <2>1, SumSame
    <2>3. Free[l] = Initial[l]
      BY <1>1 DEF Stock
    <2>4. QED
      BY <2>2, <2>3, PlaceAssumption
  <1>4. QED
    BY <1>2, <1>3 DEF Healthy, Balanced

LEMMA NextHealthy ==
  ASSUME IInv, StockInv, Healthy(Free), [Next]_vars
  PROVE  Healthy(Free)'
  <1>1. StockInv'
    BY NextStockInv
  <1>2. CASE Quiet
    BY <1>2, SameHealthy DEF Quiet, stockVars
  <1>3. QED
    BY <1>1, <1>2, QuietOrCommits, CommitHealthy

\* A row that is reserved from has nothing reserved that is not there.
LEMMA HealthyIs ==
  ASSUME StockInv, Covered, Healthy(Free)
  PROVE  /\ \A r \in Stock : 0 <= reserved[r]
         /\ \A r \in Leaves : reserved[r] <= total[r]
         /\ LotTracked => \A r \in Stock : reserved[r] <= total[r]
  <1>1. \A r \in Stock : Free[r] = total[r] - reserved[r] /\ total[r] \in Int /\ reserved[r] \in Int
    BY FreeIs
  <1>2. \A r \in Stock : 0 <= reserved[r]
    BY HeldIsNat DEF Covered, StockInv, Types
  <1>3. \A r \in Leaves : reserved[r] <= total[r]
    BY <1>1 DEF Healthy, Sound, Leaves
  <1>4. ASSUME LotTracked, NEW r \in Stock
        PROVE  reserved[r] <= total[r]
    <2>1. CASE r \in Batches
      BY <1>3, <2>1 DEF Leaves
    <2>2. CASE r \in Levels
      <3>1. \A b \in BatchesOf(r) : Free[b] \in Int
        BY FreeIs, BatchesFinite
      <3>2. SumOver(BatchesOf(r), Free) \in Nat
        BY <3>1, BatchesFinite, SumIsNat
      <3>3. SumOver(BatchesOf(r), Free) <= Free[r]
        BY <1>4, <2>2 DEF Healthy, Balanced
      <3>4. Free[r] >= 0 /\ Free[r] = total[r] - reserved[r] /\ total[r] \in Int /\ reserved[r] \in Int
        <4>1. Free[r] \in Int
          BY FreeIs
        <4>2. QED
          BY <1>1, <3>2, <3>3, <4>1
      <3>5. QED
        BY <3>4
    <2>3. QED
      BY <2>1, <2>2 DEF Stock
  <1>5. QED
    BY <1>2, <1>3, <1>4

\* Everything that keeps promises within what is there.
StockGuarantees == IInv /\ StockInv /\ Covered /\ Healthy(Free)

LEMMA Guaranteed ==
  /\ Init => StockGuarantees
  /\ StockGuarantees /\ [Next]_vars => StockGuarantees'
  <1>1. Init => StockGuarantees
    BY InitIInv, InitStockInv, InitCovered, InitHealthy DEF StockGuarantees
  <1>2. StockGuarantees /\ [Next]_vars => StockGuarantees'
    BY NextIInv, NextStockInv, NextCovered, NextHealthy DEF StockGuarantees
  <1>3. QED
    BY <1>1, <1>2

\* Of a lot-tracked article nothing is promised that is not there, whatever runs
\* at the same time: a level never has less free than its lots together.
THEOREM NothingIsOvercommitted == ASSUME LotTracked PROVE Spec => []NoOvercommit
  <1>1. Init => StockGuarantees
    BY Guaranteed
  <1>2. StockGuarantees /\ [Next]_vars => StockGuarantees'
    BY Guaranteed
  <1>3. StockGuarantees => NoOvercommit
    BY HealthyIs DEF StockGuarantees, NoOvercommit
  <1>4. QED
    BY <1>1, <1>2, <1>3, PTL DEF Spec

\* Of any article, the rows that the availability view shows (lots, and levels
\* without lots) are never promised beyond what is there; a level of an article
\* that is not lot-tracked may be, since a reservation of one of its lots is only
\* checked against the lot.
THEOREM LeavesAreNeverOvercommitted == Spec => []LeavesHold
  <1>1. Init => StockGuarantees
    BY Guaranteed
  <1>2. StockGuarantees /\ [Next]_vars => StockGuarantees'
    BY Guaranteed
  <1>3. StockGuarantees => LeavesHold
    BY HealthyIs DEF StockGuarantees, LeavesHold, Leaves
  <1>4. QED
    BY <1>1, <1>2, <1>3, PTL DEF Spec

------------------------------------------------------------------------------
(* StockCompensation.                                                        *)

Steps == {"lock", "look", "preview", "create", "link"}
CallsInProgress ==
    [key : CompKeys, body : Bodies, step : Steps, builtAt : Nat, draft : Nat]
Drafts == [key : CompKeys, status : {"DRAFT", "POSTED", "CANCELLED"}, linked : BOOLEAN]

\* The variables that the argument needs have their types.
CompShape ==
    /\ compCall \in [CompCalls -> CallsInProgress \union {NoCompCall}]
    /\ drafts \in Seq(Drafts)
    /\ built \in Nat

\* Whatever becomes of a draft, the receipt that came with it stays.
DraftsHaveReceipts ==
    \A i \in DOMAIN drafts : \E r \in draftReceipts : r.key = drafts[i].key

CompIInv == CompShape /\ DraftsHaveReceipts /\ OneDraftPerKey

LEMMA InitCompIInv == CompInit => CompIInv
  BY DEF CompInit, CompIInv, CompShape, DraftsHaveReceipts, OneDraftPerKey

\* A step that adds no draft and takes away no receipt.
LEMMA KeysKept ==
  ASSUME CompIInv, CompShape',
         Len(drafts') = Len(drafts),
         \A i \in DOMAIN drafts : drafts'[i].key = drafts[i].key,
         draftReceipts \subseteq draftReceipts'
  PROVE  CompIInv'
  <1>1. DOMAIN drafts' = DOMAIN drafts
    BY DEF CompIInv, CompShape
  <1>2. DraftsHaveReceipts'
    BY <1>1 DEF CompIInv, DraftsHaveReceipts
  <1>3. OneDraftPerKey'
    BY <1>1 DEF CompIInv, OneDraftPerKey
  <1>4. QED
    BY <1>2, <1>3 DEF CompIInv

\* The steps of a call that leave the drafts alone.
LEMMA QuietKeeps ==
  ASSUME NEW c \in CompCalls, CompIInv,
         \/ \E k \in CompKeys, b \in Bodies : StartComp(c, k, b)
         \/ TakeSessionLock(c) \/ LookUpReceipt(c) \/ PreviewCompensation(c) \/ FailComp(c)
  PROVE  CompIInv'
  <1>1. UNCHANGED <<drafts, draftReceipts>>
    BY DEF StartComp, TakeSessionLock, LookUpReceipt, PreviewCompensation, FailComp, compStore
  <1>2. CompShape'
    <2>1. CASE \E k \in CompKeys, b \in Bodies : StartComp(c, k, b)
      BY <1>1, <2>1 DEF StartComp, CompIInv, CompShape, CallsInProgress, Steps
    <2>2. CASE TakeSessionLock(c)
      BY <1>1, <2>2 DEF TakeSessionLock, At, GoTo, CompIInv, CompShape, CallsInProgress, Steps
    <2>3. CASE LookUpReceipt(c)
      BY <1>1, <2>3 DEF LookUpReceipt, At, GoTo, EndComp, CompIInv, CompShape, CallsInProgress, Steps
    <2>4. CASE PreviewCompensation(c)
      <3>1. CASE LinkedLive # {}
        BY <1>1, <2>4, <3>1 DEF PreviewCompensation, EndComp, CompIInv, CompShape
      <3>2. CASE LinkedLive = {}
        <4>1. compCall[c] \in CallsInProgress
          BY <2>4 DEF PreviewCompensation, At, CompIInv, CompShape
        <4>2. QED
          BY <1>1, <2>4, <3>2, <4>1 DEF PreviewCompensation, CallsInProgress, Steps, CompIInv, CompShape
      <3>3. QED
        BY <3>1, <3>2
    <2>5. CASE FailComp(c)
      BY <1>1, <2>5 DEF FailComp, EndComp, CompIInv, CompShape
    <2>6. QED
      BY <2>1, <2>2, <2>3, <2>4, <2>5
  <1>3. QED
    BY <1>1, <1>2, KeysKept

LEMMA CreateKeeps ==
  ASSUME NEW c \in CompCalls, CompIInv, CreateDraft(c)
  PROVE  CompIInv'
  <1> DEFINE x == compCall[c]
  <1>1. x \in CallsInProgress /\ built' = built
    BY DEF CreateDraft, At, CompIInv, CompShape
  <1>2. CASE EarlierDraft(x) # {}
    <2>1. UNCHANGED <<drafts, draftReceipts>> /\ compCall' = [compCall EXCEPT ![c] = NoCompCall]
      BY <1>2 DEF CreateDraft, EndComp
    <2>2. CompShape'
      BY <1>1, <2>1 DEF CompIInv, CompShape
    <2>3. QED
      BY <2>1, <2>2, KeysKept
  <1>3. CASE EarlierDraft(x) = {}
    <2> DEFINE new == [key |-> x.key, status |-> "DRAFT", linked |-> FALSE]
    <2>1. /\ drafts' = Append(drafts, new)
          /\ \E p : draftReceipts' = draftReceipts \union
                 {[key |-> x.key, payload |-> p, draft |-> Len(drafts) + 1]}
          /\ compCall' = [compCall EXCEPT ![c] =
                 [key |-> x.key, body |-> x.body, step |-> "link", builtAt |-> x.builtAt,
                  draft |-> Len(drafts) + 1]]
      BY <1>3 DEF CreateDraft
    <2>2. new \in Drafts /\ drafts \in Seq(Drafts) /\ Len(drafts) \in Nat
      BY <1>1 DEF CallsInProgress, Drafts, CompIInv, CompShape
    <2>3. /\ drafts' \in Seq(Drafts)
          /\ DOMAIN drafts' = 1 .. (Len(drafts) + 1)
          /\ DOMAIN drafts = 1 .. Len(drafts)
          /\ drafts'[Len(drafts) + 1] = new
          /\ \A i \in DOMAIN drafts : drafts'[i] = drafts[i]
      BY <2>1, <2>2
    <2>4. compCall' \in [CompCalls -> CallsInProgress \union {NoCompCall}]
      BY <1>1, <2>1, <2>2 DEF CallsInProgress, Steps, CompIInv, CompShape
    <2>5. CompShape'
      BY <1>1, <2>3, <2>4 DEF CompIInv, CompShape
    <2>6. \A i \in DOMAIN drafts : drafts[i].key # x.key
      BY <1>3 DEF EarlierDraft, CompIInv, DraftsHaveReceipts
    <2>7. DraftsHaveReceipts'
      <3> SUFFICES ASSUME NEW i \in DOMAIN drafts'
                   PROVE  \E r \in draftReceipts' : r.key = drafts'[i].key
        BY DEF DraftsHaveReceipts
      <3>1. CASE i \in DOMAIN drafts
        BY <2>1, <2>3, <3>1 DEF CompIInv, DraftsHaveReceipts
      <3>2. CASE i = Len(drafts) + 1
        <4>1. drafts'[i].key = x.key
          BY <2>3, <3>2
        <4>2. PICK p : draftReceipts' = draftReceipts \union
                  {[key |-> x.key, payload |-> p, draft |-> Len(drafts) + 1]}
          BY <2>1
        <4>3. [key |-> x.key, payload |-> p, draft |-> Len(drafts) + 1].key = x.key
          OBVIOUS
        <4>4. [key |-> x.key, payload |-> p, draft |-> Len(drafts) + 1] \in draftReceipts'
          BY <4>2
        <4> HIDE DEF x
        <4>5. QED
          BY <4>1, <4>3, <4>4, Zenon
      <3>3. QED
        BY <2>2, <2>3, <3>1, <3>2
    <2>8. OneDraftPerKey'
      BY <2>2, <2>3, <2>6 DEF CompIInv, OneDraftPerKey
    <2>9. QED
      BY <2>5, <2>7, <2>8 DEF CompIInv
  <1>4. QED
    BY <1>2, <1>3

\* Drafts change, but stay the drafts of their keys.
LEMMA DraftsChange ==
  ASSUME drafts \in Seq(Drafts), NEW n, NEW d \in Drafts,
         n \in DOMAIN drafts => d.key = drafts[n].key,
         NEW changed, changed = [drafts EXCEPT ![n] = d]
  PROVE  /\ changed \in Seq(Drafts)
         /\ Len(changed) = Len(drafts)
         /\ \A i \in DOMAIN drafts : changed[i].key = drafts[i].key
  <1>1. DOMAIN drafts = 1 .. Len(drafts) /\ Len(drafts) \in Nat
    OBVIOUS
  <1>2. drafts \in [1 .. Len(drafts) -> Drafts]
    OBVIOUS
  <1>3. changed \in [1 .. Len(drafts) -> Drafts]
    BY <1>2
  <1>4. changed \in Seq(Drafts) /\ Len(changed) = Len(drafts)
    BY <1>1, <1>3
  <1>5. \A i \in 1 .. Len(drafts) : changed[i] = IF i = n THEN d ELSE drafts[i]
    BY <1>2
  <1>6. QED
    BY <1>1, <1>4, <1>5

LEMMA LinkKeeps ==
  ASSUME NEW c \in CompCalls, CompIInv, LinkDraft(c)
  PROVE  CompIInv'
  <1>1. /\ compCall' = [compCall EXCEPT ![c] = NoCompCall]
        /\ UNCHANGED <<draftReceipts, built>>
    BY DEF LinkDraft, EndComp
  <1>2. PICK n : drafts' = drafts \/ drafts' = [drafts EXCEPT ![n].linked = TRUE]
    BY DEF LinkDraft
  <1>3. /\ drafts' \in Seq(Drafts)
        /\ Len(drafts') = Len(drafts)
        /\ \A i \in DOMAIN drafts : drafts'[i].key = drafts[i].key
    <2>1. CASE drafts' = drafts
      BY <2>1 DEF CompIInv, CompShape
    <2>2. CASE drafts' = [drafts EXCEPT ![n].linked = TRUE]
      <3>1. CASE n \in DOMAIN drafts
        <4>1. drafts[n] \in Drafts
          BY <3>1 DEF CompIInv, CompShape
        <4>2. [drafts[n] EXCEPT !.linked = TRUE] \in Drafts
                  /\ [drafts[n] EXCEPT !.linked = TRUE].key = drafts[n].key
          BY <4>1 DEF Drafts
        <4>3. drafts' = [drafts EXCEPT ![n] = [drafts[n] EXCEPT !.linked = TRUE]]
          BY <2>2
        <4>4. QED
          BY <4>2, <4>3, DraftsChange DEF CompIInv, CompShape
      <3>2. CASE n \notin DOMAIN drafts
        <4>1. drafts' = drafts
          BY <2>2, <3>2 DEF CompIInv, CompShape
        <4>2. QED
          BY <4>1 DEF CompIInv, CompShape
      <3>3. QED
        BY <3>1, <3>2
    <2>3. QED
      BY <1>2, <2>1, <2>2
  <1>4. CompShape'
    BY <1>1, <1>3 DEF CompIInv, CompShape
  <1>5. QED
    BY <1>1, <1>3, <1>4, KeysKept

LEMMA EndKeeps ==
  ASSUME NEW n \in DOMAIN drafts, NEW status \in {"POSTED", "CANCELLED"}, CompIInv,
         EndDraft(n, status)
  PROVE  CompIInv'
  <1>1. UNCHANGED <<compCall, draftReceipts, built>>
    BY DEF EndDraft
  <1>2. drafts' = [drafts EXCEPT ![n].status = status]
    BY DEF EndDraft
  <1>3. /\ drafts' \in Seq(Drafts)
        /\ Len(drafts') = Len(drafts)
        /\ \A i \in DOMAIN drafts : drafts'[i].key = drafts[i].key
    <2>1. drafts[n] \in Drafts
      BY DEF CompIInv, CompShape
    <2>2. [drafts[n] EXCEPT !.status = status] \in Drafts
              /\ [drafts[n] EXCEPT !.status = status].key = drafts[n].key
      BY <2>1 DEF Drafts
    <2>3. drafts' = [drafts EXCEPT ![n] = [drafts[n] EXCEPT !.status = status]]
      BY <1>2
    <2>4. QED
      BY <2>2, <2>3, DraftsChange DEF CompIInv, CompShape
  <1>4. CompShape'
    BY <1>1, <1>3 DEF CompIInv, CompShape
  <1>5. QED
    BY <1>1, <1>3, <1>4, KeysKept

LEMMA NextCompIInv == CompIInv /\ [CompNext]_compVars => CompIInv'
  <1> SUFFICES ASSUME CompIInv, [CompNext]_compVars PROVE CompIInv'
    OBVIOUS
  <1>1. CASE \E c \in CompCalls, k \in CompKeys, b \in Bodies : StartComp(c, k, b)
    BY <1>1, QuietKeeps
  <1>2. CASE \E c \in CompCalls :
               \/ TakeSessionLock(c) \/ LookUpReceipt(c) \/ PreviewCompensation(c)
               \/ CreateDraft(c) \/ LinkDraft(c) \/ FailComp(c)
    BY <1>2, QuietKeeps, CreateKeeps, LinkKeeps
  <1>3. CASE \E i \in DOMAIN drafts, status \in {"POSTED", "CANCELLED"} : EndDraft(i, status)
    BY <1>3, EndKeeps
  <1>4. CASE UNCHANGED compVars
    <2>1. UNCHANGED <<compCall, drafts, draftReceipts, built>>
      BY <1>4 DEF compVars, compStore
    <2>2. CompShape'
      BY <2>1 DEF CompIInv, CompShape
    <2>3. QED
      BY <2>1, <2>2, KeysKept
  <1>5. QED
    BY <1>1, <1>2, <1>3, <1>4 DEF CompNext

\* However often repoCompensateMovement is repeated under a key, by however many
\* callers at once, and wherever it failed between its transactions, it creates
\* one inverse movement (src/src/module/stock/repository/stock.repository.ts).
THEOREM CompensatedOncePerKey == CompSpec => []OneDraftPerKey
  <1>1. CompIInv => OneDraftPerKey
    BY DEF CompIInv
  <1>2. QED
    BY InitCompIInv, NextCompIInv, <1>1, PTL DEF CompSpec
=============================================================================
