-------------------------- MODULE OutboxProjection --------------------------
(* The projection of erp_outbox_events into webhook deliveries.              *)
(*                                                                           *)
(* Business transactions insert outbox rows whose created_at is the start    *)
(* time of the transaction and whose id is random.  A projector reads, under *)
(* one advisory lock, the next rows after the cursor (created_at, id), gives *)
(* each a delivery per active subscription, and moves the cursor to the last *)
(* row it read.  PostgreSQL keeps microseconds; the cursor passes through a  *)
(* JavaScript Date and keeps milliseconds.                                   *)
EXTENDS Integers, FiniteSets

CONSTANTS
    Rows,         \* outbox rows: numbers, ordered as their uuids
    PublicRows,   \* rows whose event type has a public projection
    Writers,      \* database sessions running business transactions
    Projectors,   \* Node processes running the projection
    Subs,         \* webhook subscriptions
    None,         \* no lock holder, no owner
    TicksPerMs,   \* clock ticks in a millisecond (1000 microseconds)
    Limit,        \* rows one projection reads (100 in the code)
    TxRows,       \* bound: rows one transaction inserts
    MaxTime,      \* bound: clock
    MaxAborts,    \* bound: projections that roll back
    AlwaysActive  \* subscriptions no administrator pauses in this instance

ASSUME RowsAssumption == Rows \subseteq Nat \ {0} /\ PublicRows \subseteq Rows
ASSUME NumbersAssumption ==
    /\ TicksPerMs \in Nat \ {0}
    /\ Limit \in Nat \ {0}
    /\ {TxRows, MaxTime, MaxAborts} \subseteq Nat
ASSUME NoneAssumption == None \notin Writers \union Projectors
ASSUME ActiveAssumption == AlwaysActive \subseteq Subs

VARIABLES
    now,           \* the database clock
    txStart,       \* start time of each writer's transaction, 0 if it has none
    txLeft,        \* rows the transaction may still insert
    rState, rStamp, rOwner,           \* erp_outbox_events
    cursor,        \* api_webhook_ingestion_state
    lock,          \* holder of the advisory transaction lock
    pPc, pBatch, pLast, pWrites,      \* the projection transactions
    subActive,     \* subscriptions with status ACTIVE
    deliveries,    \* original deliveries inserted per subscription and row
    projected,     \* rows a committed projection has read
    late,          \* rows committed behind the cursor or behind a batch being projected
    aborts

writerVars == <<now, txStart, txLeft>>
rowVars == <<rState, rStamp, rOwner>>
projectorVars == <<pPc, pBatch, pLast, pWrites, lock>>
deliveryVars == <<subActive, deliveries, projected>>
vars == <<writerVars, rowVars, cursor, projectorVars, deliveryVars, late, aborts>>

Key(r) == [stamp |-> rStamp[r], id |-> r]
Less(a, b) == a.stamp < b.stamp \/ (a.stamp = b.stamp /\ a.id < b.id)

\* The cursor before anything was projected.
Origin == [stamp |-> 0, id |-> 0]
After(a, b) == Less(b, a)

\* new Date(created_at): what is left of a time in milliseconds.
Truncate(time) == (time \div TicksPerMs) * TicksPerMs

Init ==
    /\ now = 1
    /\ txStart = [w \in Writers |-> 0]
    /\ txLeft = [w \in Writers |-> 0]
    /\ rState = [r \in Rows |-> "free"]
    /\ rStamp = [r \in Rows |-> 0]
    /\ rOwner = [r \in Rows |-> None]
    /\ cursor = Origin
    /\ lock = None
    /\ pPc = [p \in Projectors |-> "idle"]
    /\ pBatch = [p \in Projectors |-> {}]
    /\ pLast = [p \in Projectors |-> Origin]
    /\ pWrites = [p \in Projectors |-> {}]
    /\ subActive = Subs
    /\ deliveries = [d \in Subs \X Rows |-> 0]
    /\ projected = {}
    /\ late = {}
    /\ aborts = 0

------------------------------------------------------------------------------
(* Business transactions.                                                    *)

Begin(w) ==
    /\ txStart[w] = 0
    /\ \E r \in Rows : rState[r] = "free"
    /\ txStart' = [txStart EXCEPT ![w] = now]
    /\ txLeft' = [txLeft EXCEPT ![w] = TxRows]
    /\ UNCHANGED <<now, rowVars, cursor, projectorVars, deliveryVars, late, aborts>>

\* created_at DEFAULT now() is the start of the transaction.
Insert(w, r) ==
    /\ txStart[w] # 0
    /\ txLeft[w] > 0
    /\ rState[r] = "free"
    /\ txLeft' = [txLeft EXCEPT ![w] = @ - 1]
    /\ rState' = [rState EXCEPT ![r] = "open"]
    /\ rStamp' = [rStamp EXCEPT ![r] = txStart[w]]
    /\ rOwner' = [rOwner EXCEPT ![r] = w]
    /\ UNCHANGED <<now, txStart, cursor, projectorVars, deliveryVars, late, aborts>>

\* A transaction takes at least one tick, so the next one starts later.
End(w, state, stamp) ==
    /\ txStart[w] # 0
    /\ txStart[w] < now
    /\ txStart' = [txStart EXCEPT ![w] = 0]
    /\ txLeft' = [txLeft EXCEPT ![w] = 0]
    /\ rState' = [r \in Rows |-> IF rOwner[r] = w THEN state ELSE rState[r]]
    /\ rStamp' = [r \in Rows |-> IF rOwner[r] = w THEN stamp ELSE rStamp[r]]
    /\ rOwner' = [r \in Rows |-> IF rOwner[r] = w THEN None ELSE rOwner[r]]
    /\ UNCHANGED <<now, cursor, projectorVars, deliveryVars, aborts>>

\* A committed row is late if a projection has already passed its place in the order.
Commit(w) ==
    /\ End(w, "committed", txStart[w])
    /\ late' = late \union
          {r \in Rows : /\ rOwner[r] = w
                        /\ \/ ~After(Key(r), cursor)
                           \/ \E p \in Projectors : pPc[p] = "rows" /\ ~After(Key(r), pLast[p])}

Rollback(w) == End(w, "free", 0) /\ UNCHANGED late

Advance ==
    /\ now < MaxTime
    /\ now' = now + 1
    /\ UNCHANGED <<txStart, txLeft, rowVars, cursor, projectorVars, deliveryVars, late, aborts>>

------------------------------------------------------------------------------
(* The projection: one transaction of a projector.                           *)

\* Defect: every row is read, whatever the cursor says.
UnreadFromStart == {r \in Rows : rState[r] = "committed"}

\* Defect: the cursor starts after rows of the same millisecond.
UnreadNextMs ==
    {r \in Rows : rState[r] = "committed" /\ Truncate(rStamp[r]) > cursor.stamp}

Unread == {r \in Rows : rState[r] = "committed" /\ After(Key(r), cursor)}

\* The first Limit unread rows in (created_at, id) order.
NextBatch ==
    {r \in Unread : Cardinality({q \in Unread : Less(Key(q), Key(r))}) < Limit}

\* Defect: projections of two processes overlap.
LockIgnored == TRUE

\* pg_advisory_xact_lock: one projection transaction at a time.
LockFree == lock = None

ReadBatch(p) ==
    /\ pPc[p] = "idle"
    /\ LockFree
    /\ lock' = p
    /\ pBatch' = [pBatch EXCEPT ![p] = NextBatch]
    /\ pLast' = [pLast EXCEPT ![p] =
                    IF NextBatch = {} THEN cursor
                    ELSE LET last == CHOOSE r \in NextBatch :
                                        \A q \in NextBatch : ~Less(Key(r), Key(q))
                         IN  [stamp |-> Truncate(rStamp[last]), id |-> last]]
    /\ pPc' = [pPc EXCEPT ![p] = "rows"]
    /\ UNCHANGED <<writerVars, rowVars, cursor, pWrites, deliveryVars, late, aborts>>

\* Rows are projected in order; each reads the subscriptions as they are then.
ProjectRow(p, r) ==
    /\ pPc[p] = "rows"
    /\ r \in pBatch[p]
    /\ \A q \in pBatch[p] : ~Less(Key(q), Key(r))
    /\ pBatch' = [pBatch EXCEPT ![p] = @ \ {r}]
    /\ pWrites' = [pWrites EXCEPT ![p] =
                      @ \union {[row |-> r, subs |-> IF r \in PublicRows THEN subActive ELSE {}]}]
    /\ UNCHANGED <<writerVars, rowVars, cursor, lock, pPc, pLast, deliveryVars, late, aborts>>

\* Defect: ON CONFLICT DO NOTHING is missing and nothing is unique.
InsertAlways(old) == old + 1

\* INSERT ... ON CONFLICT DO NOTHING on (subscription_id, event_id).
InsertOnce(old) == IF old = 0 THEN 1 ELSE old

CommitBatch(p) ==
    /\ pPc[p] = "rows"
    /\ pBatch[p] = {}
    /\ deliveries' = [d \in Subs \X Rows |->
                        IF \E write \in pWrites[p] : d[2] = write.row /\ d[1] \in write.subs
                        THEN InsertOnce(deliveries[d]) ELSE deliveries[d]]
    /\ projected' = projected \union {write.row : write \in pWrites[p]}
    /\ cursor' = pLast[p]
    /\ lock' = None
    /\ pPc' = [pPc EXCEPT ![p] = "idle"]
    /\ pLast' = [pLast EXCEPT ![p] = Origin]
    /\ pWrites' = [pWrites EXCEPT ![p] = {}]
    /\ UNCHANGED <<writerVars, rowVars, pBatch, subActive, late, aborts>>

\* A crash or a database error rolls the projection back.
AbortBatch(p) ==
    /\ pPc[p] = "rows"
    /\ aborts < MaxAborts
    /\ aborts' = aborts + 1
    /\ lock' = None
    /\ pPc' = [pPc EXCEPT ![p] = "idle"]
    /\ pBatch' = [pBatch EXCEPT ![p] = {}]
    /\ pLast' = [pLast EXCEPT ![p] = Origin]
    /\ pWrites' = [pWrites EXCEPT ![p] = {}]
    /\ UNCHANGED <<writerVars, rowVars, cursor, deliveryVars, late>>

\* An administrator pauses or activates a subscription.
Toggle(s) ==
    /\ s \notin AlwaysActive
    /\ subActive' = IF s \in subActive THEN subActive \ {s} ELSE subActive \union {s}
    /\ UNCHANGED <<writerVars, rowVars, cursor, projectorVars, deliveries, projected, late,
                   aborts>>

WriterStep(w) ==
    \/ Begin(w)
    \/ \E r \in Rows : Insert(w, r)
    \/ Commit(w)
    \/ Rollback(w)

ProjectorStep(p) ==
    \/ ReadBatch(p)
    \/ \E r \in Rows : ProjectRow(p, r)
    \/ CommitBatch(p)

Next ==
    \/ Advance
    \/ \E w \in Writers : WriterStep(w)
    \/ \E p \in Projectors : ProjectorStep(p) \/ AbortBatch(p)
    \/ \E s \in Subs : Toggle(s)

(* Every process projects again and again, and no projection transaction     *)
(* stays open for ever.                                                      *)
Fairness == \A p \in Projectors : SF_vars(ReadBatch(p)) /\ WF_vars(ProjectorStep(p))

Spec == Init /\ [][Next]_vars
FairSpec == Spec /\ Fairness

------------------------------------------------------------------------------
(* Properties                                                                *)

Position == [stamp : Nat, id : Nat]

\* Every variable has its type.
TypeOK ==
    /\ now \in Nat
    /\ txStart \in [Writers -> Nat]
    /\ txLeft \in [Writers -> Nat]
    /\ rState \in [Rows -> {"free", "open", "committed"}]
    /\ rStamp \in [Rows -> Nat]
    /\ rOwner \in [Rows -> Writers \union {None}]
    /\ cursor \in Position
    /\ lock \in Projectors \union {None}
    /\ pPc \in [Projectors -> {"idle", "rows"}]
    /\ pBatch \in [Projectors -> SUBSET Rows]
    /\ pLast \in [Projectors -> Position]
    /\ pWrites \in [Projectors -> SUBSET [row : Rows, subs : SUBSET Subs]]
    /\ subActive \subseteq Subs
    /\ deliveries \in [Subs \X Rows -> Nat]
    /\ projected \subseteq Rows
    /\ late \subseteq Rows
    /\ aborts \in Nat

\* A subscription gets at most one original delivery of an event, although the
\* millisecond cursor makes the projection read rows again and again.
OneDeliveryPerEvent == \A d \in Subs \X Rows : deliveries[d] <= 1

\* No committed event is left behind by the cursor without having been read.
NoEventSkipped ==
    \A r \in Rows : rState[r] = "committed" /\ ~After(Key(r), cursor) => r \in projected

\* The cursor leaves an event unread only if it was committed late: neither the page
\* size, nor the millisecond cursor, nor a rolled back projection loses one.
OnlyLateEventsAreSkipped ==
    \A r \in Rows :
        rState[r] = "committed" /\ ~After(Key(r), cursor) => r \in projected \union late

\* The cursor never moves back to an earlier millisecond, whichever projector moves it.
CursorNeverRewinds == [][cursor'.stamp >= cursor.stamp]_vars

\* A subscription that is activated late gets no event from before the cursor's
\* millisecond.
OldEventsAreNotDelivered ==
    [][\A d \in Subs \X Rows :
          deliveries'[d] > deliveries[d] => Truncate(rStamp[d[2]]) >= cursor.stamp]_vars

\* A whole page of events of one millisecond comes before r: reading it may leave
\* the cursor where it was.
BehindFullPage(r) ==
    \E m \in Rows :
        Cardinality({q \in Rows : /\ rState[q] = "committed"
                                 /\ Truncate(rStamp[q]) = Truncate(rStamp[m])
                                 /\ Less(Key(q), Key(r))}) >= Limit

\* Delivery is at-least-once: a committed public event reaches every subscription
\* that was active all along, unless it was committed late or is behind a full page
\* of one millisecond.
EveryEventIsDelivered ==
    \A s \in AlwaysActive, r \in PublicRows :
        rState[r] = "committed" ~>
            deliveries[<<s, r>>] > 0 \/ r \in late \/ BehindFullPage(r)
=============================================================================
