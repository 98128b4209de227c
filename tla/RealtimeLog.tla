---------------------------- MODULE RealtimeLog ----------------------------
(* The durable side of the realtime control plane.                          *)
(*                                                                          *)
(* Business transactions enqueue events into erp_outbox_events under one    *)
(* advisory lock, which gives every stream consecutive ordinals.  The       *)
(* processes flush the outbox: a flush takes one candidate row, locks the   *)
(* singleton sequence row, appends the event and marks the row PUBLISHED in *)
(* one transaction.  A row that does not parse is quarantined, and a burnt  *)
(* sequence number forces every reader to resynchronise.  Events may also   *)
(* be published directly, with retries under one key; events expire, are    *)
(* pruned, and a stored event may turn out to be unreadable.                *)
EXTENDS Integers, FiniteSets

CONSTANTS
    OutboxKeys,    \* events that go through the outbox
    DirectKeys,    \* events published directly
    Poisoned,      \* outbox rows whose payload does not parse
    Streams,
    StreamOf,      \* the stream of each outbox event
    Txs,           \* business transactions
    Flushers,      \* Node processes flushing the outbox
    None,          \* no key, no lock holder
    MaxSeq,        \* bound: sequence numbers
    PruneBatch,    \* events one pruning deletes (1000 in the code)
    MaxTries,      \* attempts of a direct publish (3 in the code)
    MaxFaults,     \* bound: crashes, errors and lost answers
    MaxCorruptions \* bound: stored events that become unreadable

Keys == OutboxKeys \union DirectKeys
Seqs == 1 .. MaxSeq

ASSUME KeyAssumption ==
    /\ Poisoned \subseteq OutboxKeys
    /\ OutboxKeys \intersect DirectKeys = {}
    /\ StreamOf \in [OutboxKeys -> Streams]
ASSUME NoneAssumption == None \notin Keys \union Txs \union Flushers
ASSUME HolderAssumption == Flushers \intersect DirectKeys = {}
ASSUME BoundAssumption ==
    /\ MaxSeq \in Nat
    /\ PruneBatch \in Nat \ {0}
    /\ MaxTries \in Nat \ {0}
    /\ {MaxFaults, MaxCorruptions} \subseteq Nat

VARIABLES
    advisory,                       \* holder of the enqueue advisory lock
    streamLock, nextOrdinal,        \* realtime_stream_enqueue_state
    tPc, tWant,                     \* the business transactions
    oState, oTx, oOrdinal, oDue,    \* erp_outbox_events
    rowLock,                        \* outbox rows locked by a flush
    last, prunedThrough, seqLock,   \* realtime_event_sequence_state
    log, expired, corrupt,          \* realtime_event_log
    fPc, fKey, fSeq,                \* the flushes
    pPc, pSeq, pTries,              \* the direct publications, one per key
    seqOf, times,                   \* first number and count of each key's log entries
    faults, corruptions

txVars == <<advisory, streamLock, nextOrdinal, tPc, tWant>>
outboxVars == <<oState, oTx, oOrdinal, oDue>>
stateVars == <<last, prunedThrough>>
storeVars == <<log, expired, corrupt>>
flushVars == <<fPc, fKey, fSeq, rowLock>>
publishVars == <<pPc, pSeq, pTries>>
ghostVars == <<seqOf, times>>
boundVars == <<faults, corruptions>>
vars == <<txVars, outboxVars, stateVars, seqLock, storeVars, flushVars, publishVars,
          ghostVars, boundVars>>

Highest(S) == CHOOSE s \in S : \A t \in S : t <= s

Init ==
    /\ advisory = None
    /\ streamLock = [s \in Streams |-> None]
    /\ nextOrdinal = [s \in Streams |-> 1]
    /\ tPc = [t \in Txs |-> "open"]
    /\ tWant = [t \in Txs |-> None]
    /\ oState = [k \in OutboxKeys |-> "none"]
    /\ oTx = [k \in OutboxKeys |-> None]
    /\ oOrdinal = [k \in OutboxKeys |-> 0]
    /\ oDue = [k \in OutboxKeys |-> FALSE]
    /\ rowLock = [k \in OutboxKeys |-> None]
    /\ last = 0
    /\ prunedThrough = 0
    /\ seqLock = None
    /\ log = [s \in Seqs |-> None]
    /\ expired = {}
    /\ corrupt = {}
    /\ fPc = [f \in Flushers |-> "idle"]
    /\ fKey = [f \in Flushers |-> None]
    /\ fSeq = [f \in Flushers |-> 0]
    /\ pPc = [d \in DirectKeys |-> "idle"]
    /\ pSeq = [d \in DirectKeys |-> 0]
    /\ pTries = [d \in DirectKeys |-> 0]
    /\ seqOf = [k \in Keys |-> 0]
    /\ times = [k \in Keys |-> 0]
    /\ faults = 0
    /\ corruptions = 0

------------------------------------------------------------------------------
(* enqueueRealtimeEvent, inside a business transaction.                     *)

\* The transaction asks for the advisory lock on behalf of event k.
Ask(t, k) ==
    /\ tPc[t] = "open"
    /\ oTx[k] # t
    /\ tPc' = [tPc EXCEPT ![t] = "asking"]
    /\ tWant' = [tWant EXCEPT ![t] = k]
    /\ UNCHANGED <<advisory, streamLock, nextOrdinal, outboxVars, stateVars, seqLock,
                   storeVars, flushVars, publishVars, ghostVars, boundVars>>

\* Defect: enqueues of different transactions do not exclude each other.
AdvisoryIgnored(t) == TRUE

\* pg_advisory_xact_lock, held until the transaction ends.
AdvisoryFree(t) == advisory \in {None, t}

\* The lock is granted, and the key has no row yet.
Lock(t) ==
    /\ tPc[t] = "asking"
    /\ AdvisoryFree(t)
    /\ advisory' = t
    /\ tPc' = [tPc EXCEPT ![t] = IF oState[tWant[t]] = "none" THEN "locked" ELSE "open"]
    /\ tWant' = IF oState[tWant[t]] = "none" THEN tWant ELSE [tWant EXCEPT ![t] = None]
    /\ UNCHANGED <<streamLock, nextOrdinal, outboxVars, stateVars, seqLock, storeVars,
                   flushVars, publishVars, ghostVars, boundVars>>

\* The ordinal is taken from the stream's row, which stays locked, and the
\* outbox row is inserted.
Enqueue(t) ==
    LET k == tWant[t]
        s == StreamOf[k]
    IN  /\ tPc[t] = "locked"
        /\ streamLock[s] \in {None, t}
        /\ oState[k] = "none"
        /\ streamLock' = [streamLock EXCEPT ![s] = t]
        /\ nextOrdinal' = [nextOrdinal EXCEPT ![s] = @ + 1]
        /\ oState' = [oState EXCEPT ![k] = "open"]
        /\ oTx' = [oTx EXCEPT ![k] = t]
        /\ oOrdinal' = [oOrdinal EXCEPT ![k] = nextOrdinal[s]]
        /\ oDue' = [oDue EXCEPT ![k] = TRUE]
        /\ tPc' = [tPc EXCEPT ![t] = "open"]
        /\ tWant' = [tWant EXCEPT ![t] = None]
        /\ UNCHANGED <<advisory, stateVars, seqLock, storeVars, flushVars, publishVars,
                       ghostVars, boundVars>>

ReleaseTx(t) ==
    /\ advisory' = IF advisory = t THEN None ELSE advisory
    /\ streamLock' = [s \in Streams |-> IF streamLock[s] = t THEN None ELSE streamLock[s]]
    /\ tPc' = [tPc EXCEPT ![t] = "open"]
    /\ tWant' = [tWant EXCEPT ![t] = None]

Commit(t) ==
    /\ tPc[t] = "open"
    /\ \E k \in OutboxKeys : oTx[k] = t
    /\ ReleaseTx(t)
    /\ oState' = [k \in OutboxKeys |-> IF oTx[k] = t THEN "PENDING" ELSE oState[k]]
    /\ oTx' = [k \in OutboxKeys |-> IF oTx[k] = t THEN None ELSE oTx[k]]
    /\ UNCHANGED <<nextOrdinal, oOrdinal, oDue, stateVars, seqLock, storeVars, flushVars,
                   publishVars, ghostVars, boundVars>>

\* Defect: ordinals come from a sequence, which no rollback restores.
RestoredNever(t, s) == nextOrdinal[s]

\* The next ordinal of a stream before the transaction took its own.
Restored(t, s) ==
    nextOrdinal[s] - Cardinality({k \in OutboxKeys : oTx[k] = t /\ StreamOf[k] = s})

\* Rows and ordinals of the transaction are gone.
Rollback(t) ==
    /\ ReleaseTx(t)
    /\ nextOrdinal' = [s \in Streams |-> Restored(t, s)]
    /\ oState' = [k \in OutboxKeys |-> IF oTx[k] = t THEN "none" ELSE oState[k]]
    /\ oTx' = [k \in OutboxKeys |-> IF oTx[k] = t THEN None ELSE oTx[k]]
    /\ oOrdinal' = [k \in OutboxKeys |-> IF oTx[k] = t THEN 0 ELSE oOrdinal[k]]
    /\ oDue' = [k \in OutboxKeys |-> IF oTx[k] = t THEN FALSE ELSE oDue[k]]
    /\ UNCHANGED <<stateVars, seqLock, storeVars, flushVars, publishVars, ghostVars, boundVars>>

------------------------------------------------------------------------------
(* insertEventInTransaction, shared by flushes and direct publications.     *)

\* Defect: the sequence row is read without FOR UPDATE.
SequenceUnlocked == TRUE

SequenceFree == seqLock = None

\* Defect: the deduplication key is not looked up.
StoredNever(k) == FALSE

\* findStoredEvent: the key is in the log.
Stored(k) == \E s \in Seqs : log[s] = k

\* The number the transaction gives to k, 0 if k has one already.
NumberFor(k) == IF Stored(k) THEN 0 ELSE last + 1

\* COMMIT of a transaction that gave number s to k.
AppendEvent(k, s) ==
    IF s = 0 THEN UNCHANGED <<last, log, seqOf, times>>
    ELSE /\ last' = s
         /\ log' = [log EXCEPT ![s] = k]
         /\ seqOf' = [seqOf EXCEPT ![k] = IF @ = 0 THEN s ELSE @]
         /\ times' = [times EXCEPT ![k] = @ + 1]

------------------------------------------------------------------------------
(* flushOutbox: one iteration of a process.                                 *)

\* Defect: a failed row is not tried again.
WaitingPending == {"PENDING"}

Waiting == {"PENDING", "FAILED"}

\* Defect: rows of one stream overtake each other.
NoPredecessor(k) == TRUE

\* No earlier row of the stream is still unpublished.
InTurn(k) ==
    ~ \E p \in OutboxKeys :
        /\ StreamOf[p] = StreamOf[k]
        /\ oOrdinal[p] < oOrdinal[k]
        /\ oState[p] \in Waiting

\* The code takes the oldest candidate; nothing here depends on which one.
Select(f, k) ==
    /\ fPc[f] = "idle"
    /\ oState[k] \in Waiting
    /\ oDue[k]
    /\ InTurn(k)
    /\ rowLock[k] = None
    /\ rowLock' = [rowLock EXCEPT ![k] = f]
    /\ fPc' = [fPc EXCEPT ![f] = "selected"]
    /\ fKey' = [fKey EXCEPT ![f] = k]
    /\ UNCHANGED <<txVars, outboxVars, stateVars, seqLock, storeVars, fSeq, publishVars,
                   ghostVars, boundVars>>

\* The event, or the barrier of a quarantined row, gets its number.
Number(f) ==
    /\ fPc[f] = "selected"
    /\ SequenceFree
    /\ last < MaxSeq
    /\ seqLock' = f
    /\ fSeq' = [fSeq EXCEPT ![f] =
                   IF fKey[f] \in Poisoned THEN last + 1 ELSE NumberFor(fKey[f])]
    /\ fPc' = [fPc EXCEPT ![f] = "numbered"]
    /\ UNCHANGED <<txVars, outboxVars, stateVars, storeVars, fKey, rowLock, publishVars,
                   ghostVars, boundVars>>

\* The transaction of the flush is over; next is where its process goes on.
EndFlush(f, next) ==
    /\ seqLock' = IF seqLock = f THEN None ELSE seqLock
    /\ rowLock' = [k \in OutboxKeys |-> IF rowLock[k] = f THEN None ELSE rowLock[k]]
    /\ fPc' = [fPc EXCEPT ![f] = next]
    /\ fKey' = [fKey EXCEPT ![f] = IF next = "idle" THEN None ELSE @]
    /\ fSeq' = [fSeq EXCEPT ![f] = 0]

\* COMMIT.  If the answer is lost, the process takes it for a failure.
Publish(f, answered) ==
    LET k == fKey[f]
    IN  /\ fPc[f] = "numbered"
        /\ answered \/ faults < MaxFaults
        /\ faults' = IF answered THEN faults ELSE faults + 1
        /\ IF k \in Poisoned
           THEN /\ last' = fSeq[f]
                /\ prunedThrough' = fSeq[f]
                /\ UNCHANGED <<log, ghostVars>>
           ELSE /\ AppendEvent(k, fSeq[f])
                /\ UNCHANGED prunedThrough
        /\ oState' = [oState EXCEPT ![k] = "PUBLISHED"]
        /\ EndFlush(f, IF answered THEN "idle" ELSE "failing")
        /\ UNCHANGED <<txVars, oTx, oOrdinal, oDue, expired, corrupt, publishVars, corruptions>>

\* An error before the COMMIT: the transaction rolls back.
FlushError(f) ==
    /\ fPc[f] \in {"selected", "numbered"}
    /\ faults < MaxFaults
    /\ faults' = faults + 1
    /\ EndFlush(f, "failing")
    /\ UNCHANGED <<txVars, outboxVars, stateVars, storeVars, publishVars, ghostVars, corruptions>>

\* Defect: a failure is recorded whatever the status of the row is.
MayFailAlways(k) == TRUE

\* WHERE status <> 'PUBLISHED'.
MayFail(k) == oState[k] # "PUBLISHED"

\* The failure is recorded outside the transaction, once the row is unlocked.
MarkFailed(f) ==
    LET k == fKey[f]
    IN  /\ fPc[f] = "failing"
        /\ rowLock[k] = None
        /\ IF MayFail(k)
           THEN /\ oState' = [oState EXCEPT ![k] = "FAILED"]
                /\ oDue' = [oDue EXCEPT ![k] = FALSE]
           ELSE UNCHANGED <<oState, oDue>>
        /\ fPc' = [fPc EXCEPT ![f] = "idle"]
        /\ fKey' = [fKey EXCEPT ![f] = None]
        /\ UNCHANGED <<txVars, oTx, oOrdinal, stateVars, seqLock, storeVars, fSeq, rowLock,
                       publishVars, ghostVars, boundVars>>

\* The process dies.
Crash(f) ==
    /\ fPc[f] # "idle"
    /\ faults < MaxFaults
    /\ faults' = faults + 1
    /\ EndFlush(f, "idle")
    /\ UNCHANGED <<txVars, outboxVars, stateVars, storeVars, publishVars, ghostVars, corruptions>>

\* available_at is reached.
BecomeDue(k) ==
    /\ oState[k] \in Waiting
    /\ ~oDue[k]
    /\ oDue' = [oDue EXCEPT ![k] = TRUE]
    /\ UNCHANGED <<txVars, oState, oTx, oOrdinal, stateVars, seqLock, storeVars, flushVars,
                   publishVars, ghostVars, boundVars>>

------------------------------------------------------------------------------
(* publish: direct publication with retries under one key.                  *)

DirectNumber(d) ==
    /\ pPc[d] = "idle"
    /\ SequenceFree
    /\ last < MaxSeq
    /\ seqLock' = d
    /\ pSeq' = [pSeq EXCEPT ![d] = NumberFor(d)]
    /\ pTries' = [pTries EXCEPT ![d] = @ + 1]
    /\ pPc' = [pPc EXCEPT ![d] = "numbered"]
    /\ UNCHANGED <<txVars, outboxVars, stateVars, storeVars, flushVars, ghostVars, boundVars>>

\* After a failure: another attempt, or the error goes to the caller.
Retry(d) == IF pTries[d] < MaxTries THEN {"idle", "error"} ELSE {"error"}

DirectCommit(d, answered) ==
    /\ pPc[d] = "numbered"
    /\ answered \/ faults < MaxFaults
    /\ faults' = IF answered THEN faults ELSE faults + 1
    /\ AppendEvent(d, pSeq[d])
    /\ seqLock' = None
    /\ pSeq' = [pSeq EXCEPT ![d] = 0]
    /\ \E next \in IF answered THEN {"ok"} ELSE Retry(d) : pPc' = [pPc EXCEPT ![d] = next]
    /\ UNCHANGED <<txVars, outboxVars, prunedThrough, expired, corrupt, flushVars, pTries,
                   corruptions>>

DirectError(d) ==
    /\ pPc[d] = "numbered"
    /\ faults < MaxFaults
    /\ faults' = faults + 1
    /\ seqLock' = None
    /\ pSeq' = [pSeq EXCEPT ![d] = 0]
    /\ \E next \in Retry(d) : pPc' = [pPc EXCEPT ![d] = next]
    /\ UNCHANGED <<txVars, outboxVars, stateVars, storeVars, flushVars, pTries, ghostVars,
                   corruptions>>

------------------------------------------------------------------------------
(* Retention and validation.                                                *)

\* Retries take a fraction of a second and retention is hours long: no event
\* expires or becomes unreadable while its publication is still retried.
Settled(s) == \A d \in DirectKeys : log[s] = d => pPc[d] \in {"ok", "error"}

Expire(s) ==
    /\ log[s] # None
    /\ s \notin expired
    /\ Settled(s)
    /\ expired' = expired \union {s}
    /\ UNCHANGED <<txVars, outboxVars, stateVars, seqLock, log, corrupt, flushVars,
                   publishVars, ghostVars, boundVars>>

Expired == {s \in expired : log[s] # None}

\* The expired events one pruning deletes: the lowest numbers.
PruneSet == {s \in Expired : Cardinality({r \in Expired : r < s}) < PruneBatch}

\* GREATEST(pruned_through, s).
Raised(s) == IF prunedThrough < s THEN s ELSE prunedThrough

\* pruneExpired: deletion and watermark in one transaction.
Prune ==
    /\ PruneSet # {}
    /\ SequenceFree
    /\ log' = [s \in Seqs |-> IF s \in PruneSet THEN None ELSE log[s]]
    /\ prunedThrough' = Raised(Highest(PruneSet))
    /\ UNCHANGED <<txVars, outboxVars, last, seqLock, expired, corrupt, flushVars, publishVars,
                   ghostVars, boundVars>>

\* readRetentionState: pruned_through, counting what has expired as pruned.
Watermark == Highest({prunedThrough} \union Expired)

\* A stored event no longer parses.
Corrupt(s) ==
    /\ log[s] # None
    /\ Settled(s)
    /\ corruptions < MaxCorruptions
    /\ s \notin corrupt
    /\ corrupt' = corrupt \union {s}
    /\ corruptions' = corruptions + 1
    /\ UNCHANGED <<txVars, outboxVars, stateVars, seqLock, log, expired, flushVars, publishVars,
                   ghostVars, faults>>

Missing == {s \in Watermark + 1 .. last : log[s] = None}
Unreadable == {s \in Watermark + 1 .. last : log[s] # None /\ s \in corrupt}

\* validatedLatestSequence: the first event that is missing or unreadable makes
\* every reader start afresh behind a burnt number; an unreadable one is deleted.
Remedy(s) ==
    /\ s \in Missing \union Unreadable
    /\ \A r \in Missing \union Unreadable : s <= r
    /\ SequenceFree
    /\ last < MaxSeq
    /\ log' = [log EXCEPT ![s] = None]
    /\ last' = last + 1
    /\ prunedThrough' = last + 1
    /\ UNCHANGED <<txVars, outboxVars, seqLock, expired, corrupt, flushVars, publishVars,
                   ghostVars, boundVars>>

TxStep(t) ==
    \/ \E k \in OutboxKeys : Ask(t, k)
    \/ Lock(t)
    \/ Enqueue(t)
    \/ Commit(t)
    \/ Rollback(t)

FlushStep(f) ==
    \/ \E k \in OutboxKeys : Select(f, k)
    \/ Number(f)
    \/ Publish(f, TRUE)
    \/ MarkFailed(f)

FaultStep(f) == Publish(f, FALSE) \/ FlushError(f) \/ Crash(f)

DirectStep(d) ==
    \/ DirectNumber(d)
    \/ DirectCommit(d, TRUE)

DirectFault(d) == DirectCommit(d, FALSE) \/ DirectError(d)

Next ==
    \/ \E t \in Txs : TxStep(t)
    \/ \E f \in Flushers : FlushStep(f) \/ FaultStep(f)
    \/ \E d \in DirectKeys : DirectStep(d) \/ DirectFault(d)
    \/ \E k \in OutboxKeys : BecomeDue(k)
    \/ \E s \in Seqs : Expire(s) \/ Corrupt(s) \/ Remedy(s)
    \/ Prune

(* Every process polls, so it flushes again and again; database calls return; *)
(* time passes.                                                               *)
Fairness ==
    /\ \A f \in Flushers : WF_vars(FlushStep(f)) /\ SF_vars(Number(f))
    /\ \A d \in DirectKeys : WF_vars(DirectStep(d))
    /\ \A k \in OutboxKeys : WF_vars(BecomeDue(k))

Spec == Init /\ [][Next]_vars
FairSpec == Spec /\ Fairness

------------------------------------------------------------------------------
(* Properties                                                               *)

OutboxStates == {"none", "open", "PENDING", "FAILED", "PUBLISHED"}

\* Every variable has its type.
TypeOK ==
    /\ advisory \in Txs \union {None}
    /\ streamLock \in [Streams -> Txs \union {None}]
    /\ nextOrdinal \in [Streams -> Nat \ {0}]
    /\ tPc \in [Txs -> {"open", "asking", "locked"}]
    /\ tWant \in [Txs -> OutboxKeys \union {None}]
    /\ oState \in [OutboxKeys -> OutboxStates]
    /\ oTx \in [OutboxKeys -> Txs \union {None}]
    /\ oOrdinal \in [OutboxKeys -> Nat]
    /\ oDue \in [OutboxKeys -> BOOLEAN]
    /\ rowLock \in [OutboxKeys -> Flushers \union {None}]
    /\ last \in Nat
    /\ prunedThrough \in 0 .. last
    /\ seqLock \in Flushers \union DirectKeys \union {None}
    /\ log \in [Seqs -> Keys \union {None}]
    /\ expired \subseteq Seqs
    /\ corrupt \subseteq Seqs
    /\ fPc \in [Flushers -> {"idle", "selected", "numbered", "failing"}]
    /\ fKey \in [Flushers -> OutboxKeys \union {None}]
    /\ fSeq \in [Flushers -> Nat]
    /\ pPc \in [DirectKeys -> {"idle", "numbered", "ok", "error"}]
    /\ pSeq \in [DirectKeys -> Nat]
    /\ pTries \in [DirectKeys -> 0 .. MaxTries]
    /\ seqOf \in [Keys -> Nat]
    /\ times \in [Keys -> Nat]
    /\ {faults, corruptions} \subseteq Nat

\* Two transactions never wait for each other's streams, whatever order they
\* publish in: the advisory lock removes that deadlock.
WaitsFor(t, u) == tPc[t] = "locked" /\ streamLock[StreamOf[tWant[t]]] = u
NoLockCycle == \A t, u \in Txs : t # u => ~(WaitsFor(t, u) /\ WaitsFor(u, t))

\* The ordinals of a stream number its rows without a gap, so that no row waits
\* for a predecessor that does not exist.
OrdinalsAreDense ==
    \A s \in Streams :
        LET rows == {k \in OutboxKeys : StreamOf[k] = s /\ oState[k] # "none"}
        IN  {oOrdinal[k] : k \in rows} = 1 .. Cardinality(rows)

\* Events of a stream are logged in the order in which they were enqueued; an
\* event is only passed over if it was quarantined.
StreamOrder ==
    \A j, k \in OutboxKeys :
        StreamOf[j] = StreamOf[k] /\ oOrdinal[j] < oOrdinal[k] /\ oOrdinal[j] > 0 /\ seqOf[k] > 0
            => j \in Poisoned \/ seqOf[j] \in 1 .. seqOf[k] - 1

\* Log and outbox agree: exactly the published rows that were not quarantined
\* have an event in the log.
PublishedIsLogged ==
    \A k \in OutboxKeys : seqOf[k] > 0 <=> oState[k] = "PUBLISHED" /\ k \notin Poisoned

\* Every committed event leaves the outbox, unless the numbers run out.
EveryEventIsPublished ==
    \A k \in OutboxKeys :
        oState[k] = "PENDING" ~> oState[k] = "PUBLISHED" \/ last = MaxSeq

\* The log keeps the promises of module EventLog: a key is logged once, however
\* often it is flushed or retried, numbers become visible in order, and nothing
\* disappears above the watermark.
Contract == INSTANCE EventLog WITH
    Numbers <- Seqs,
    NoKey <- None,
    stored <- log,
    logged <- {k \in Keys : times[k] > 0},
    watermark <- Watermark
ImplementsEventLog == Contract!Spec
=============================================================================
