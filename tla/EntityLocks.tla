----------------------------- MODULE EntityLocks -----------------------------
(* Edit locks: one row per entity, held by a user until it expires.         *)
(*                                                                          *)
(* Acquiring (which is also the heartbeat) and releasing are transactions of *)
(* users, sweeping is one of every process.  now() is the time at which a    *)
(* transaction began, which may be long before it gets at the row.  The      *)
(* event lock:updated is enqueued in the same transaction under a key that   *)
(* deduplicates it; row and outbox are locked until the COMMIT, so events    *)
(* are in the order of the rows' changes.                                    *)
EXTENDS Integers, FiniteSets, FiniteSetsExt

CONSTANTS
    Entities,
    Holders,        \* users who ask for locks
    LockTxs,        \* their transactions
    Sweepers,       \* processes, each with a maintenance timer
    Absent,         \* no lockRow, no transaction
    Ttl,            \* how long a lock lasts
    SweepBatch,     \* LIMIT of the sweep
    MaxClock,       \* bound: time
    MaxIds,         \* bound: rows ever inserted
    MaxLockFaults   \* bound: sweeps and transactions that fail

ASSUME LockBoundAssumption ==
    /\ {Ttl, SweepBatch} \subseteq Nat \ {0}
    /\ {MaxClock, MaxIds, MaxLockFaults} \subseteq Nat
ASSUME AbsentAssumption ==
    /\ Absent \notin LockTxs \union Sweepers \union Holders
    /\ LockTxs \intersect Sweepers = {}

VARIABLES
    clock,
    lockRow,         \* entity_locks, as committed
    rowTx,       \* the transaction that has the row of an entity locked
    lockTx,      \* transactions of users
    sweeper,     \* sweeps: the time they began, and what they delete
    ids,         \* rows ever inserted
    eventKeys,   \* deduplication keys of all events
    told,        \* the last lock:updated event of each entity
    grant,       \* until when each holder was last granted it
    lockFaults

tableVars == <<lockRow, rowTx, ids>>
eventVars == <<eventKeys, told, grant>>
lockVars == <<clock, tableVars, lockTx, sweeper, eventVars, lockFaults>>

Unlocked == [by |-> Absent, until |-> 0]
IdleSweep == [running |-> FALSE, step |-> "idle", now |-> 0, took |-> {}]

LockInit ==
    /\ clock = 0
    /\ lockRow = [e \in Entities |-> Absent]
    /\ rowTx = [e \in Entities |-> Absent]
    /\ lockTx = [t \in LockTxs |-> Absent]
    /\ sweeper = [p \in Sweepers |-> IdleSweep]
    /\ ids = 0
    /\ eventKeys = {}
    /\ told = [e \in Entities |-> Unlocked]
    /\ grant = [e \in Entities |-> [u \in Holders |-> 0]]
    /\ lockFaults = 0

PassTime ==
    /\ clock < MaxClock
    /\ clock' = clock + 1
    /\ UNCHANGED <<tableVars, lockTx, sweeper, eventVars, lockFaults>>

Held(e) == lockRow[e] # Absent

\* enqueueLockUpdated: an event whose key is known is not enqueued again.
Enqueued(key, e, event) ==
    IF key \in eventKeys THEN told ELSE [told EXCEPT ![e] = event]

------------------------------------------------------------------------------
(* Users                                                                    *)

\* BEGIN of an acquisition takes now(), in microseconds: no two share it.
BeginLockTx(t, u, e) ==
    /\ lockTx[t] = Absent
    /\ clock < MaxClock
    /\ clock' = clock + 1
    /\ lockTx' = [lockTx EXCEPT ![t] =
           [user |-> u, entity |-> e, now |-> clock', write |-> Absent]]
    /\ UNCHANGED <<tableVars, sweeper, eventVars, lockFaults>>

\* Defect: whose lock it is, is not asked.
MayTakeAlways(r, u, now) == TRUE

\* The WHERE of the upsert, evaluated on the locked row.
MayTake(r, u, now) == r.until <= now \/ r.by = u

\* INSERT ... ON CONFLICT DO UPDATE ... WHERE: waits for whoever has the row.
Upsert(t) ==
    LET x == lockTx[t]
        e == x.entity
    IN  /\ x # Absent /\ x.write = Absent
        /\ rowTx[e] = Absent
        /\ IF Held(e)
           THEN /\ MayTake(lockRow[e], x.user, x.now)
                /\ lockTx' = [lockTx EXCEPT ![t].write =
                       [id |-> lockRow[e].id, by |-> x.user, until |-> x.now + Ttl]]
                /\ UNCHANGED ids
           ELSE /\ ids < MaxIds
                /\ ids' = ids + 1
                /\ lockTx' = [lockTx EXCEPT ![t].write =
                       [id |-> ids + 1, by |-> x.user, until |-> x.now + Ttl]]
        /\ rowTx' = [rowTx EXCEPT ![e] = t]
        /\ UNCHANGED <<clock, lockRow, sweeper, eventVars, lockFaults>>

\* COMMIT of a lock with its event, and the answer.
GrantLock(t) ==
    LET x == lockTx[t]
        e == x.entity
        w == x.write
        key == <<"held", w.id, w.until>>
    IN  /\ x # Absent /\ w # Absent
        /\ lockRow' = [lockRow EXCEPT ![e] = w]
        /\ rowTx' = [rowTx EXCEPT ![e] = Absent]
        /\ lockTx' = [lockTx EXCEPT ![t] = Absent]
        /\ told' = Enqueued(key, e, [by |-> w.by, until |-> w.until])
        /\ eventKeys' = eventKeys \union {key}
        /\ grant' = [grant EXCEPT ![e][x.user] = w.until]
        /\ UNCHANGED <<clock, ids, sweeper, lockFaults>>

\* Defect: all releases of an entity share a key.
ReleaseKeyOfEntity(id) == <<"released", 0>>

ReleaseKey(id) == <<"released", id>>

\* A release, from BEGIN to COMMIT: DELETE ... WHERE locked_by, and its event.
\* It reads no clock, and nobody else gets at the row in between.
ReleaseLock(u, e) ==
    /\ Held(e) /\ lockRow[e].by = u
    /\ rowTx[e] = Absent
    /\ lockRow' = [lockRow EXCEPT ![e] = Absent]
    /\ told' = Enqueued(ReleaseKey(lockRow[e].id), e, Unlocked)
    /\ eventKeys' = eventKeys \union {ReleaseKey(lockRow[e].id)}
    /\ grant' = [grant EXCEPT ![e][u] = 0]
    /\ UNCHANGED <<clock, rowTx, ids, lockTx, sweeper, lockFaults>>

\* Nothing was acquired; the answer is the lock as it is.
LeaveLockTx(t) ==
    /\ lockTx[t] # Absent /\ lockTx[t].write = Absent
    /\ lockTx' = [lockTx EXCEPT ![t] = Absent]
    /\ UNCHANGED <<clock, tableVars, sweeper, eventVars, lockFaults>>

\* ROLLBACK of an upsert, its event included.
FailLockTx(t) ==
    /\ lockTx[t] # Absent /\ lockTx[t].write # Absent
    /\ lockFaults < MaxLockFaults
    /\ lockFaults' = lockFaults + 1
    /\ lockTx' = [lockTx EXCEPT ![t] = Absent]
    /\ rowTx' = [rowTx EXCEPT ![lockTx[t].entity] = Absent]
    /\ UNCHANGED <<clock, lockRow, ids, sweeper, eventVars>>

------------------------------------------------------------------------------
(* The sweep                                                                *)

\* Not while the one before is still running.
BeginLockSweep(p) ==
    /\ ~sweeper[p].running
    /\ sweeper' = [sweeper EXCEPT ![p] =
           [running |-> TRUE, step |-> "sweep", now |-> clock, took |-> {}]]
    /\ UNCHANGED <<clock, tableVars, lockTx, eventVars, lockFaults>>

Expired(r, now) == r.until <= now

\* Rows that nobody has locked, oldest expiry first, as many as the LIMIT allows.
Chosen(now, S) ==
    LET all == {e \in Entities : Held(e) /\ rowTx[e] = Absent /\ Expired(lockRow[e], now)}
    IN  /\ S \subseteq all
        /\ Cardinality(S) = IF Cardinality(all) < SweepBatch THEN Cardinality(all) ELSE SweepBatch
        /\ \A e \in S, f \in all \ S : lockRow[e].until <= lockRow[f].until

DeleteExpired(p) ==
    /\ sweeper[p].step = "sweep" /\ sweeper[p].took = {}
    /\ \E S \in SUBSET Entities :
           /\ S # {} /\ Chosen(sweeper[p].now, S)
           /\ sweeper' = [sweeper EXCEPT ![p].took = S]
           /\ rowTx' = [e \in Entities |-> IF e \in S THEN p ELSE rowTx[e]]
    /\ UNCHANGED <<clock, lockRow, ids, lockTx, eventVars, lockFaults>>

\* Defect: the guard against overlapping sweeps is not reset by an error.
StuckSweep(p) == [IdleSweep EXCEPT !.running = TRUE]

EndedSweep(p) == IdleSweep

\* COMMIT, with an unlock event for every row.
CommitLockSweep(p) ==
    LET S == sweeper[p].took
        key(e) == <<"expired", lockRow[e].id, lockRow[e].until>>
    IN  /\ S # {}
        /\ lockRow' = [e \in Entities |-> IF e \in S THEN Absent ELSE lockRow[e]]
        /\ rowTx' = [e \in Entities |-> IF e \in S THEN Absent ELSE rowTx[e]]
        /\ told' = [e \in Entities |->
               IF e \in S /\ key(e) \notin eventKeys THEN Unlocked ELSE told[e]]
        /\ eventKeys' = eventKeys \union {key(e) : e \in S}
        /\ sweeper' = [sweeper EXCEPT ![p] = IdleSweep]
        /\ UNCHANGED <<clock, ids, lockTx, grant, lockFaults>>

EmptySweep(p) ==
    /\ sweeper[p].step = "sweep" /\ sweeper[p].took = {}
    /\ Chosen(sweeper[p].now, {})
    /\ sweeper' = [sweeper EXCEPT ![p] = IdleSweep]
    /\ UNCHANGED <<clock, tableVars, lockTx, eventVars, lockFaults>>

FailSweepOf(p) ==
    /\ sweeper[p].step = "sweep"
    /\ lockFaults < MaxLockFaults
    /\ lockFaults' = lockFaults + 1
    /\ sweeper' = [sweeper EXCEPT ![p] = EndedSweep(p)]
    /\ rowTx' = [e \in Entities |-> IF rowTx[e] = p THEN Absent ELSE rowTx[e]]
    /\ UNCHANGED <<clock, lockRow, ids, lockTx, eventVars>>

LockSweep(p) == BeginLockSweep(p) \/ DeleteExpired(p) \/ CommitLockSweep(p) \/ EmptySweep(p)

LockTxStep(t) == Upsert(t) \/ GrantLock(t) \/ LeaveLockTx(t)

LockNext ==
    \/ PassTime
    \/ \E u \in Holders, e \in Entities :
           ReleaseLock(u, e) \/ \E t \in LockTxs : BeginLockTx(t, u, e)
    \/ \E t \in LockTxs : LockTxStep(t) \/ FailLockTx(t)
    \/ \E p \in Sweepers : LockSweep(p) \/ FailSweepOf(p)

(* Sweeps have timers, and every transaction ends.                           *)
LockFairness ==
    /\ \A t \in LockTxs : WF_lockVars(LockTxStep(t))
    /\ \A p \in Sweepers : WF_lockVars(LockSweep(p))

LockSpec == LockInit /\ [][LockNext]_lockVars /\ LockFairness

------------------------------------------------------------------------------
(* Properties                                                               *)

\* Every variable has its type.
LockTypeOK ==
    /\ clock \in 0 .. MaxClock
    /\ \A e \in Entities :
           /\ Held(e) => lockRow[e].by \in Holders /\ lockRow[e].until \in Nat /\ lockRow[e].id \in 1 .. ids
           /\ rowTx[e] \in LockTxs \union Sweepers \union {Absent}
           /\ told[e] \in [by : Holders \union {Absent}, until : Nat]
           /\ grant[e] \in [Holders -> Nat]
    /\ sweeper \in [Sweepers -> [running : BOOLEAN, step : {"idle", "sweep"}, now : Nat, took : SUBSET Entities]]
    /\ lockFaults \in 0 .. MaxLockFaults

\* No two users have, at one time, a grant that has not expired, whatever is
\* delayed between a transaction's now() and its turn at the row, and whatever
\* the sweep takes away in between.
GrantsAreExclusive ==
    \A e \in Entities : Cardinality({u \in Holders : grant[e][u] > clock}) <= 1

\* What the events say of an entity is what the table says: deduplication
\* swallows no event that is news.
EventsMatchRows ==
    \A e \in Entities :
        told[e] = IF Held(e) THEN [by |-> lockRow[e].by, until |-> lockRow[e].until]
                  ELSE Unlocked

\* "A client can never retain an expired lock merely because no user happened
\* to retry/release it": an expired row is renewed, taken or deleted, whatever
\* fails and whoever has it locked when a sweep comes by.
ExpiredLocksEnd ==
    \A e \in Entities :
        (Held(e) /\ lockRow[e].until <= clock) ~> ~(Held(e) /\ lockRow[e].until <= clock)
==============================================================================
