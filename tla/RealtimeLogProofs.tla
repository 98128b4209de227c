-------------------------- MODULE RealtimeLogProofs --------------------------
(* Proofs about RealtimeLog, for any events, streams, transactions,          *)
(* processes, page sizes, retries, faults and numbers.                       *)
EXTENDS RealtimeLog, FiniteSetTheorems, WellFoundedInduction, TLAPS

------------------------------------------------------------------------------
(* The strengthening: enqueues.                                              *)

Enqueued == {k \in OutboxKeys : oState[k] # "none"}
RowsOf(s) == {k \in OutboxKeys : StreamOf[k] = s /\ oState[k] # "none"}
OpenIn(s) == {k \in OutboxKeys : StreamOf[k] = s /\ oTx[k] # None}

\* The outbox is finite at any time.
OutboxIsFinite == IsFiniteSet(Enqueued)

\* A transaction in the critical section holds the advisory lock.
EnqueuersAreAlone ==
    \A t \in Txs :
        /\ tPc[t] # "open" => tWant[t] \in OutboxKeys
        /\ tPc[t] = "locked" => advisory = t

\* An uncommitted row is its transaction's, which holds the lock of the stream.
OpenRowsAreLocked ==
    \A k \in OutboxKeys :
        /\ oTx[k] # None <=> oState[k] = "open"
        /\ oTx[k] # None => streamLock[StreamOf[k]] = oTx[k]

\* A stream has as many rows as ordinals were taken, all different, and those of
\* uncommitted rows are the highest.
OrdinalsAreCounted ==
    /\ \A s \in Streams : nextOrdinal[s] = Cardinality(RowsOf(s)) + 1
    /\ \A s \in Streams : \A j, k \in RowsOf(s) : oOrdinal[j] = oOrdinal[k] => j = k
    /\ \A s \in Streams : \A k \in RowsOf(s) :
           /\ oOrdinal[k] \in 1 .. nextOrdinal[s] - 1
           /\ oTx[k] # None <=> oOrdinal[k] > nextOrdinal[s] - 1 - Cardinality(OpenIn(s))
    /\ \A k \in OutboxKeys : oState[k] = "none" => oOrdinal[k] = 0

EnqueueInv ==
    /\ OutboxIsFinite
    /\ EnqueuersAreAlone
    /\ OpenRowsAreLocked
    /\ OrdinalsAreCounted

------------------------------------------------------------------------------
(* The strengthening: numbers.                                               *)

\* A flush has its row locked, which waits meanwhile, and nobody else does.
FlushesHoldRows ==
    \A f \in Flushers :
        /\ fPc[f] \in {"selected", "numbered"} =>
               /\ fKey[f] \in OutboxKeys
               /\ rowLock[fKey[f]] = f
               /\ oState[fKey[f]] \in Waiting
        /\ fPc[f] = "failing" =>
               fKey[f] \in OutboxKeys /\ oState[fKey[f]] \notin {"none", "open"}
        /\ \A k \in OutboxKeys :
               rowLock[k] = f => fKey[f] = k /\ fPc[f] \in {"selected", "numbered"}

\* Whoever has a number has the sequence row, and the number is the next one.
NumbersAreNext ==
    /\ last <= MaxSeq
    /\ \A f \in Flushers :
           /\ fPc[f] = "numbered" <=> seqLock = f
           /\ fPc[f] = "numbered" => fSeq[f] = last + 1 /\ last < MaxSeq
    /\ \A d \in DirectKeys :
           /\ pPc[d] = "numbered" <=> seqLock = d
           /\ pPc[d] = "numbered" => pSeq[d] = NumberFor(d) /\ last < MaxSeq
           /\ pPc[d] = "idle" => pTries[d] < MaxTries

\* What is in the log was given its number, and lies behind the last one.
LogIsPast ==
    /\ \A s \in Seqs : log[s] # None => s <= last /\ times[log[s]] > 0
    /\ \A k \in Keys : times[k] > 0 <=> seqOf[k] > 0
    /\ \A k \in Keys : seqOf[k] <= last
    /\ expired \union corrupt \subseteq 1 .. last

\* As long as its publication is being retried, a direct event stays in the log.
RetriedStays ==
    \A d \in DirectKeys :
        times[d] > 0 /\ pPc[d] \notin {"ok", "error"} =>
            \E s \in Seqs : log[s] = d /\ s \notin expired \union corrupt

\* The predecessors of a row that is being flushed were published before.
FlushesAreInTurn ==
    \A f \in Flushers : fPc[f] \in {"selected", "numbered"} =>
        \A j \in OutboxKeys :
            /\ StreamOf[j] = StreamOf[fKey[f]]
            /\ oOrdinal[j] > 0 /\ oOrdinal[j] < oOrdinal[fKey[f]]
            => oState[j] = "PUBLISHED"

LogInv ==
    /\ FlushesHoldRows
    /\ NumbersAreNext
    /\ LogIsPast
    /\ RetriedStays
    /\ FlushesAreInTurn
    /\ PublishedIsLogged
    /\ StreamOrder

RealtimeInv == TypeOK /\ EnqueueInv /\ LogInv
------------------------------------------------------------------------------
(* Rows of a stream.                                                         *)

LEMMA StreamsAreFinite ==
  ASSUME EnqueueInv, NEW s \in Streams
  PROVE  /\ IsFiniteSet(RowsOf(s)) /\ Cardinality(RowsOf(s)) \in Nat
         /\ IsFiniteSet(OpenIn(s)) /\ Cardinality(OpenIn(s)) \in Nat
         /\ OpenIn(s) \subseteq RowsOf(s)
  <1>1. OpenIn(s) \subseteq RowsOf(s) /\ RowsOf(s) \subseteq Enqueued
    BY DEF EnqueueInv, OpenRowsAreLocked, OpenIn, RowsOf, Enqueued
  <1>2. IsFiniteSet(RowsOf(s)) /\ IsFiniteSet(OpenIn(s))
    BY <1>1, FS_Subset DEF EnqueueInv, OutboxIsFinite
  <1>3. QED
    BY <1>1, <1>2, FS_CardinalityType

\* Steps that leave transactions, ordinals and the existence of rows alone.
LEMMA QuietEnqueues ==
  ASSUME EnqueueInv, UNCHANGED <<txVars, oTx, oOrdinal>>,
         \A k \in OutboxKeys : (oState'[k] = "none") = (oState[k] = "none"),
         \A k \in OutboxKeys : (oState'[k] = "open") = (oState[k] = "open")
  PROVE  EnqueueInv'
  <1>1. Enqueued' = Enqueued
    BY DEF Enqueued
  <1>2. \A s \in Streams : RowsOf(s)' = RowsOf(s) /\ OpenIn(s)' = OpenIn(s)
    BY DEF RowsOf, OpenIn
  <1>3. OrdinalsAreCounted'
    BY <1>2 DEF EnqueueInv, OrdinalsAreCounted, txVars
  <1>4. QED
    BY <1>1, <1>3 DEF EnqueueInv, OutboxIsFinite, EnqueuersAreAlone, OpenRowsAreLocked, txVars

\* Steps of transactions: they touch no committed row, and new ordinals are high.
LEMMA QuietLog ==
  ASSUME RealtimeInv,
         UNCHANGED <<stateVars, seqLock, storeVars, flushVars, publishVars, ghostVars>>,
         \A k \in OutboxKeys :
            /\ oState[k] \notin {"none", "open"} => UNCHANGED <<oState[k], oOrdinal[k]>>
            /\ oState[k] \in {"none", "open"} => oState'[k] # "PUBLISHED"
            /\ oOrdinal'[k] \in {0, oOrdinal[k], nextOrdinal[StreamOf[k]]}
  PROVE  LogInv'
  <1> USE DEF RealtimeInv, LogInv, stateVars, storeVars, flushVars, publishVars, ghostVars
  <1>1. FlushesHoldRows'
    BY DEF FlushesHoldRows, Waiting
  <1>2. NumbersAreNext' /\ LogIsPast' /\ RetriedStays'
    BY DEF NumbersAreNext, NumberFor, Stored, LogIsPast, RetriedStays
  <1>3. PublishedIsLogged'
    BY DEF PublishedIsLogged
  <1>4. ASSUME NEW j \in OutboxKeys, NEW k \in OutboxKeys, StreamOf[j] = StreamOf[k],
               oState[k] \notin {"none", "open"}, oOrdinal'[j] > 0, oOrdinal'[j] < oOrdinal'[k]
        PROVE  oOrdinal'[k] = oOrdinal[k] /\ oOrdinal'[j] = oOrdinal[j]
    <2>1. oOrdinal'[k] = oOrdinal[k]
      BY <1>4
    <2>2. StreamOf[k] \in Streams /\ k \in RowsOf(StreamOf[k])
      BY <1>4, KeyAssumption DEF RowsOf
    <2>3. oOrdinal[k] < nextOrdinal[StreamOf[k]]
      BY <2>2 DEF EnqueueInv, OrdinalsAreCounted, TypeOK
    <2>4. QED
      BY <1>4, <2>1, <2>2, <2>3 DEF TypeOK
  <1>5. FlushesAreInTurn'
    <2> SUFFICES ASSUME NEW f \in Flushers, fPc[f] \in {"selected", "numbered"},
                        NEW j \in OutboxKeys, StreamOf[j] = StreamOf[fKey[f]],
                        oOrdinal'[j] > 0, oOrdinal'[j] < oOrdinal'[fKey[f]]
                 PROVE  oState'[j] = "PUBLISHED"
      BY DEF FlushesAreInTurn
    <2>1. fKey[f] \in OutboxKeys /\ oState[fKey[f]] \notin {"none", "open"}
      BY DEF FlushesHoldRows, Waiting
    <2>2. oOrdinal'[fKey[f]] = oOrdinal[fKey[f]] /\ oOrdinal'[j] = oOrdinal[j]
      BY <1>4, <2>1
    <2>3. oState[j] = "PUBLISHED"
      BY <2>2 DEF FlushesAreInTurn
    <2>4. QED
      BY <2>3
  <1>6. StreamOrder'
    <2> SUFFICES ASSUME NEW j \in OutboxKeys, NEW k \in OutboxKeys,
                        StreamOf[j] = StreamOf[k], oOrdinal'[j] < oOrdinal'[k], oOrdinal'[j] > 0,
                        seqOf[k] > 0
                 PROVE  j \in Poisoned \/ seqOf[j] \in 1 .. seqOf[k] - 1
      BY DEF StreamOrder
    <2>1. oState[k] \notin {"none", "open"}
      BY DEF PublishedIsLogged
    <2>2. oOrdinal'[k] = oOrdinal[k] /\ oOrdinal'[j] = oOrdinal[j]
      BY <1>4, <2>1
    <2>3. QED
      BY <2>2 DEF StreamOrder
  <1>7. QED
    BY <1>1, <1>2, <1>3, <1>5, <1>6

------------------------------------------------------------------------------
(* Business transactions.                                                    *)

LEMMA AskKeeps ==
  ASSUME RealtimeInv, NEW t \in Txs, NEW k \in OutboxKeys, Ask(t, k)
  PROVE  RealtimeInv'
  <1> USE DEF RealtimeInv
  <1>1. TypeOK'
    BY DEF Ask, TypeOK, outboxVars, stateVars, storeVars, flushVars, publishVars, ghostVars, boundVars
  <1>2. LogInv'
    BY QuietLog DEF Ask, outboxVars
  <1>3. EnqueuersAreAlone'
    BY DEF Ask, EnqueueInv, EnqueuersAreAlone, TypeOK
  <1>4. \A s \in Streams : RowsOf(s)' = RowsOf(s) /\ OpenIn(s)' = OpenIn(s)
    BY DEF Ask, RowsOf, OpenIn, outboxVars
  <1>5. OrdinalsAreCounted'
    BY <1>4 DEF Ask, EnqueueInv, OrdinalsAreCounted, outboxVars
  <1>6. OutboxIsFinite' /\ OpenRowsAreLocked'
    BY DEF Ask, EnqueueInv, OutboxIsFinite, Enqueued, OpenRowsAreLocked, outboxVars
  <1>7. QED
    BY <1>1, <1>2, <1>3, <1>5, <1>6 DEF EnqueueInv

LEMMA LockKeeps ==
  ASSUME RealtimeInv, NEW t \in Txs, Lock(t)
  PROVE  RealtimeInv'
  <1> USE DEF RealtimeInv
  <1>1. TypeOK'
    BY DEF Lock, TypeOK, outboxVars, stateVars, storeVars, flushVars, publishVars, ghostVars, boundVars
  <1>2. LogInv'
    BY QuietLog DEF Lock, outboxVars
  <1>3. EnqueuersAreAlone'
    BY NoneAssumption DEF Lock, AdvisoryFree, EnqueueInv, EnqueuersAreAlone, TypeOK
  <1>4. \A s \in Streams : RowsOf(s)' = RowsOf(s) /\ OpenIn(s)' = OpenIn(s)
    BY DEF Lock, RowsOf, OpenIn, outboxVars
  <1>5. OrdinalsAreCounted'
    BY <1>4 DEF Lock, EnqueueInv, OrdinalsAreCounted, outboxVars
  <1>6. OutboxIsFinite' /\ OpenRowsAreLocked'
    BY DEF Lock, EnqueueInv, OutboxIsFinite, Enqueued, OpenRowsAreLocked, outboxVars
  <1>7. QED
    BY <1>1, <1>2, <1>3, <1>5, <1>6 DEF EnqueueInv

\* The new row takes the next ordinal, above all others.
LEMMA EnqueueKeeps ==
  ASSUME RealtimeInv, NEW t \in Txs, Enqueue(t)
  PROVE  RealtimeInv'
  <1> PICK k : k = tWant[t]
    OBVIOUS
  <1> PICK s : s = StreamOf[k]
    OBVIOUS
  <1> USE DEF RealtimeInv
  <1>1. k \in OutboxKeys /\ s \in Streams /\ t # None
    BY KeyAssumption, NoneAssumption DEF Enqueue, EnqueueInv, EnqueuersAreAlone
  <1>2. /\ streamLock[s] \in {None, t} /\ oState[k] = "none"
        /\ streamLock' = [streamLock EXCEPT ![s] = t]
        /\ nextOrdinal' = [nextOrdinal EXCEPT ![s] = @ + 1]
        /\ oState' = [oState EXCEPT ![k] = "open"]
        /\ oTx' = [oTx EXCEPT ![k] = t]
        /\ oOrdinal' = [oOrdinal EXCEPT ![k] = nextOrdinal[s]]
        /\ oDue' = [oDue EXCEPT ![k] = TRUE]
        /\ tPc' = [tPc EXCEPT ![t] = "open"]
        /\ tWant' = [tWant EXCEPT ![t] = None]
        /\ UNCHANGED <<advisory, stateVars, seqLock, storeVars, flushVars, publishVars,
                       ghostVars, boundVars>>
    BY DEF Enqueue
  <1>3. TypeOK'
    BY <1>1, <1>2 DEF TypeOK, OutboxStates, stateVars, storeVars, flushVars, publishVars, ghostVars,
                      boundVars
  <1>4. \A j \in OutboxKeys :
            /\ j # k => UNCHANGED <<oState[j], oTx[j], oOrdinal[j]>>
            /\ oState'[k] = "open" /\ oTx'[k] = t /\ oOrdinal'[k] = nextOrdinal[s]
    BY <1>1, <1>2 DEF TypeOK
  <1>a. /\ streamLock'[s] = t /\ nextOrdinal'[s] = nextOrdinal[s] + 1 /\ nextOrdinal[s] \in Nat \ {0}
        /\ \A x \in Streams : x # s => UNCHANGED <<streamLock[x], nextOrdinal[x]>>
    <2>1. streamLock \in [Streams -> Txs \union {None}] /\ nextOrdinal \in [Streams -> Nat \ {0}]
      BY DEF TypeOK
    <2>2. QED
      BY <1>1, <1>2, <2>1
  <1>b. oTx[k] = None /\ \A j \in OutboxKeys : StreamOf[j] = s /\ oTx[j] # None => oTx[j] = t
    <2>1. oTx[k] = None
      BY <1>1, <1>2 DEF EnqueueInv, OpenRowsAreLocked
    <2>2. ASSUME NEW j \in OutboxKeys, StreamOf[j] = s, oTx[j] # None PROVE oTx[j] = t
      BY <1>2, <2>2 DEF EnqueueInv, OpenRowsAreLocked
    <2>3. QED
      BY <2>1, <2>2
  <1>5. LogInv'
    BY <1>1, <1>2, <1>4, QuietLog
  <1>6. OutboxIsFinite'
    <2>1. Enqueued' = Enqueued \union {k}
      BY <1>1, <1>2, <1>4 DEF Enqueued
    <2>2. QED
      BY <2>1, FS_AddElement DEF EnqueueInv, OutboxIsFinite
  <1>7. EnqueuersAreAlone'
    BY <1>1, <1>2 DEF EnqueueInv, EnqueuersAreAlone, TypeOK
  <1>8. OpenRowsAreLocked'
    <2> SUFFICES ASSUME NEW j \in OutboxKeys
                 PROVE  /\ oTx'[j] # None <=> oState'[j] = "open"
                        /\ oTx'[j] # None => streamLock'[StreamOf[j]] = oTx'[j]
      BY DEF OpenRowsAreLocked
    <2>1. StreamOf[j] \in Streams
      BY KeyAssumption
    <2>2. CASE j = k
      BY <1>1, <1>4, <1>a, <2>1, <2>2
    <2>3. CASE j # k /\ StreamOf[j] = s
      <3>1. oTx[j] # None <=> oState[j] = "open"
        BY DEF EnqueueInv, OpenRowsAreLocked
      <3>2. QED
        BY <1>4, <1>a, <1>b, <2>3, <3>1
    <2>4. CASE j # k /\ StreamOf[j] # s
      <3>1. /\ oTx[j] # None <=> oState[j] = "open"
            /\ oTx[j] # None => streamLock[StreamOf[j]] = oTx[j]
        BY DEF EnqueueInv, OpenRowsAreLocked
      <3>2. QED
        BY <1>4, <1>a, <2>1, <2>4, <3>1
    <2>5. QED
      BY <2>2, <2>3, <2>4
  <1>9. OrdinalsAreCounted'
    <2>1. /\ RowsOf(s)' = RowsOf(s) \union {k} /\ k \notin RowsOf(s)
          /\ OpenIn(s)' = OpenIn(s) \union {k} /\ k \notin OpenIn(s)
      <3>1. StreamOf[k] = s /\ oState'[k] # "none" /\ oState[k] = "none" /\ oTx'[k] # None
        BY <1>1, <1>2, <1>4
      <3>2. \A j \in OutboxKeys : j # k => oState'[j] = oState[j] /\ oTx'[j] = oTx[j]
        BY <1>4
      <3>3. RowsOf(s)' = RowsOf(s) \union {k} /\ k \notin RowsOf(s)
        BY <1>1, <3>1, <3>2 DEF RowsOf
      <3>4. OpenIn(s)' = OpenIn(s) \union {k} /\ k \notin OpenIn(s)
        BY <1>1, <1>b, <3>1, <3>2 DEF OpenIn
      <3>5. QED
        BY <3>3, <3>4
    <2>2. /\ Cardinality(RowsOf(s)') = Cardinality(RowsOf(s)) + 1
          /\ Cardinality(OpenIn(s)') = Cardinality(OpenIn(s)) + 1
      <3>1. IsFiniteSet(RowsOf(s)) /\ IsFiniteSet(OpenIn(s))
        BY <1>1, StreamsAreFinite
      <3>2. /\ Cardinality(RowsOf(s) \union {k}) = Cardinality(RowsOf(s)) + 1
            /\ Cardinality(OpenIn(s) \union {k}) = Cardinality(OpenIn(s)) + 1
        BY <2>1, <3>1, FS_AddElement
      <3>3. QED
        BY <2>1, <3>2
    <2>3. ASSUME NEW x \in Streams, x # s
          PROVE  /\ RowsOf(x)' = RowsOf(x) /\ OpenIn(x)' = OpenIn(x) /\ k \notin RowsOf(x)
                 /\ nextOrdinal'[x] = nextOrdinal[x]
      BY <1>4, <1>a, <2>3 DEF RowsOf, OpenIn
    <2>4. nextOrdinal'[s] = nextOrdinal[s] + 1 /\ nextOrdinal[s] \in Nat \ {0}
      BY <1>a
    <2>5. \A x \in Streams : nextOrdinal'[x] = Cardinality(RowsOf(x)') + 1
      BY <1>1, <2>2, <2>3, <2>4, StreamsAreFinite DEF EnqueueInv, OrdinalsAreCounted
    <2>6. ASSUME NEW x \in Streams, NEW i \in RowsOf(x)', NEW j \in RowsOf(x)',
                 oOrdinal'[i] = oOrdinal'[j]
          PROVE  i = j
      <3>1. \A y \in RowsOf(x) : y \in OutboxKeys /\ oOrdinal[y] < nextOrdinal[x] /\ oOrdinal[y] \in Nat
        BY DEF EnqueueInv, OrdinalsAreCounted, RowsOf, TypeOK
      <3>2. CASE x = s
        BY <1>1, <1>4, <2>1, <2>4, <2>6, <3>1, <3>2 DEF EnqueueInv, OrdinalsAreCounted
      <3>3. CASE x # s
        BY <1>4, <2>3, <2>6, <3>1, <3>3 DEF EnqueueInv, OrdinalsAreCounted
      <3>4. QED
        BY <3>2, <3>3
    <2>7. ASSUME NEW x \in Streams, NEW j \in RowsOf(x)'
          PROVE  /\ oOrdinal'[j] \in 1 .. nextOrdinal'[x] - 1
                 /\ oTx'[j] # None <=>
                        oOrdinal'[j] > nextOrdinal'[x] - 1 - Cardinality(OpenIn(x)')
      <3>1. j \in OutboxKeys /\ oOrdinal[j] \in Nat
        BY DEF RowsOf, TypeOK
      <3>2. CASE x # s
        BY <1>4, <2>3, <3>1, <3>2 DEF EnqueueInv, OrdinalsAreCounted
      <3>3. CASE x = s /\ j = k
        BY <1>1, <1>4, <2>2, <2>4, <3>3, StreamsAreFinite
      <3>4. CASE x = s /\ j # k
        <4>1. /\ oOrdinal[j] \in 1 .. nextOrdinal[s] - 1
              /\ oTx[j] # None <=> oOrdinal[j] > nextOrdinal[s] - 1 - Cardinality(OpenIn(s))
          BY <2>1, <3>4 DEF EnqueueInv, OrdinalsAreCounted
        <4>2. oTx'[j] = oTx[j] /\ oOrdinal'[j] = oOrdinal[j]
          BY <1>4, <3>1, <3>4
        <4>3. Cardinality(OpenIn(s)) \in Nat
          BY <1>1, StreamsAreFinite
        <4>4. QED
          BY <2>2, <2>4, <3>1, <3>4, <4>1, <4>2, <4>3
      <3>5. QED
        BY <3>2, <3>3, <3>4
    <2>8. \A j \in OutboxKeys : oState'[j] = "none" => oOrdinal'[j] = 0
      BY <1>1, <1>4 DEF EnqueueInv, OrdinalsAreCounted
    <2>9. QED
      BY <2>5, <2>6, <2>7, <2>8 DEF OrdinalsAreCounted
  <1>10. QED
    BY <1>3, <1>5, <1>6, <1>7, <1>8, <1>9 DEF EnqueueInv

\* All uncommitted rows of a stream are those of the transaction that locks it.
LEMMA RowsOfLockHolder ==
  ASSUME RealtimeInv, NEW t \in Txs, NEW s \in Streams
  PROVE  /\ streamLock[s] = t =>
                /\ OpenIn(s) = {k \in OutboxKeys : oTx[k] = t /\ StreamOf[k] = s}
                /\ \A k \in RowsOf(s) : oTx[k] \in {t, None}
         /\ streamLock[s] # t =>
                /\ {k \in OutboxKeys : oTx[k] = t /\ StreamOf[k] = s} = {}
                /\ \A k \in RowsOf(s) : oTx[k] # t
  <1>1. t # None
    BY NoneAssumption
  <1>2. \A k \in OutboxKeys : oTx[k] # None => streamLock[StreamOf[k]] = oTx[k]
    BY DEF RealtimeInv, EnqueueInv, OpenRowsAreLocked
  <1>3. QED
    BY <1>1, <1>2 DEF OpenIn, RowsOf

LEMMA ReleaseKeeps ==
  ASSUME RealtimeInv, NEW t \in Txs, ReleaseTx(t)
  PROVE  /\ EnqueuersAreAlone'
         /\ advisory' \in Txs \union {None}
         /\ streamLock' \in [Streams -> Txs \union {None}]
         /\ tPc' \in [Txs -> {"open", "asking", "locked"}]
         /\ tWant' \in [Txs -> OutboxKeys \union {None}]
  <1>1. EnqueuersAreAlone'
    BY DEF RealtimeInv, EnqueueInv, EnqueuersAreAlone, ReleaseTx, TypeOK
  <1>2. QED
    BY <1>1 DEF RealtimeInv, ReleaseTx, TypeOK

\* A commit turns the open rows of its streams into pending ones.
LEMMA CommitKeeps ==
  ASSUME RealtimeInv, NEW t \in Txs, Commit(t)
  PROVE  RealtimeInv'
  <1> USE DEF RealtimeInv
  <1>1. /\ t # None /\ ReleaseTx(t)
        /\ streamLock' = [s \in Streams |-> IF streamLock[s] = t THEN None ELSE streamLock[s]]
        /\ oState' = [k \in OutboxKeys |-> IF oTx[k] = t THEN "PENDING" ELSE oState[k]]
        /\ oTx' = [k \in OutboxKeys |-> IF oTx[k] = t THEN None ELSE oTx[k]]
        /\ UNCHANGED <<nextOrdinal, oOrdinal, oDue, stateVars, seqLock, storeVars, flushVars,
                       publishVars, ghostVars, boundVars>>
    BY NoneAssumption DEF Commit, ReleaseTx
  <1>2. \A k \in OutboxKeys : oTx[k] # None <=> oState[k] = "open"
    BY DEF EnqueueInv, OpenRowsAreLocked
  <1>3. TypeOK'
    <2>1. oState' \in [OutboxKeys -> OutboxStates] /\ oTx' \in [OutboxKeys -> Txs \union {None}]
      BY <1>1 DEF TypeOK, OutboxStates
    <2>2. QED
      BY <1>1, <2>1, ReleaseKeeps
         DEF TypeOK, stateVars, storeVars, flushVars, publishVars, ghostVars, boundVars
  <1>4. LogInv'
    BY <1>1, <1>2, QuietLog
  <1>5. OutboxIsFinite'
    <2>1. Enqueued' = Enqueued
      BY <1>1, <1>2 DEF Enqueued
    <2>2. QED
      BY <2>1 DEF EnqueueInv, OutboxIsFinite
  <1>6. EnqueuersAreAlone'
    BY <1>1, ReleaseKeeps
  <1>7. OpenRowsAreLocked'
    BY <1>1, KeyAssumption DEF EnqueueInv, OpenRowsAreLocked, TypeOK
  <1>8. OrdinalsAreCounted'
    <2>1. \A s \in Streams : RowsOf(s)' = RowsOf(s)
      BY <1>1, <1>2 DEF RowsOf
    <2>2. ASSUME NEW s \in Streams, NEW k \in RowsOf(s)
          PROVE  oTx'[k] # None <=> oOrdinal[k] > nextOrdinal[s] - 1 - Cardinality(OpenIn(s)')
      <3>1. /\ oOrdinal[k] \in 1 .. nextOrdinal[s] - 1 /\ nextOrdinal[s] \in Nat
            /\ oTx[k] # None <=> oOrdinal[k] > nextOrdinal[s] - 1 - Cardinality(OpenIn(s))
        BY DEF EnqueueInv, OrdinalsAreCounted, TypeOK
      <3>2. CASE streamLock[s] = t
        <4>1. OpenIn(s)' = {}
          BY <1>1, <3>2, RowsOfLockHolder DEF OpenIn
        <4>2. oTx'[k] = None
          BY <1>1, <3>2, RowsOfLockHolder DEF RowsOf
        <4>3. QED
          BY <3>1, <4>1, <4>2, FS_EmptySet
      <3>3. CASE streamLock[s] # t
        <4>1. OpenIn(s)' = OpenIn(s)
          BY <1>1, <3>3, RowsOfLockHolder DEF OpenIn
        <4>2. oTx'[k] = oTx[k]
          BY <1>1, <3>3, RowsOfLockHolder DEF RowsOf
        <4>3. QED
          BY <3>1, <4>1, <4>2
      <3>4. QED
        BY <3>2, <3>3
    <2>3. \A k \in OutboxKeys : oState'[k] = "none" => oOrdinal'[k] = 0
      BY <1>1 DEF EnqueueInv, OrdinalsAreCounted
    <2>4. QED
      BY <1>1, <2>1, <2>2, <2>3 DEF EnqueueInv, OrdinalsAreCounted
  <1>9. QED
    BY <1>3, <1>4, <1>5, <1>6, <1>7, <1>8 DEF EnqueueInv

\* A rollback takes away the highest ordinals of its streams.
LEMMA RollbackKeeps ==
  ASSUME RealtimeInv, NEW t \in Txs, Rollback(t)
  PROVE  RealtimeInv'
  <1> USE DEF RealtimeInv
  <1>1. /\ t # None /\ ReleaseTx(t)
        /\ streamLock' = [s \in Streams |-> IF streamLock[s] = t THEN None ELSE streamLock[s]]
        /\ nextOrdinal' = [s \in Streams |-> Restored(t, s)]
        /\ oState' = [k \in OutboxKeys |-> IF oTx[k] = t THEN "none" ELSE oState[k]]
        /\ oTx' = [k \in OutboxKeys |-> IF oTx[k] = t THEN None ELSE oTx[k]]
        /\ oOrdinal' = [k \in OutboxKeys |-> IF oTx[k] = t THEN 0 ELSE oOrdinal[k]]
        /\ oDue' = [k \in OutboxKeys |-> IF oTx[k] = t THEN FALSE ELSE oDue[k]]
        /\ UNCHANGED <<stateVars, seqLock, storeVars, flushVars, publishVars, ghostVars, boundVars>>
    BY NoneAssumption DEF Rollback, ReleaseTx
  <1>2. \A k \in OutboxKeys : oTx[k] # None <=> oState[k] = "open"
    BY DEF EnqueueInv, OpenRowsAreLocked
  <1>3. \A k \in OutboxKeys :
            /\ oTx[k] = t => oState'[k] = "none" /\ oTx'[k] = None /\ oOrdinal'[k] = 0
            /\ oTx[k] # t => UNCHANGED <<oState[k], oTx[k], oOrdinal[k]>>
    BY <1>1
  <1>4. ASSUME NEW s \in Streams, streamLock[s] = t
        PROVE  /\ RowsOf(s)' = RowsOf(s) \ OpenIn(s)
               /\ OpenIn(s)' = {}
               /\ nextOrdinal'[s] = nextOrdinal[s] - Cardinality(OpenIn(s))
               /\ nextOrdinal'[s] = Cardinality(RowsOf(s)') + 1
               /\ Cardinality(RowsOf(s)') \in Nat
    <2>1. /\ OpenIn(s) = {k \in OutboxKeys : oTx[k] = t /\ StreamOf[k] = s}
          /\ \A k \in RowsOf(s) : oTx[k] \in {t, None}
      BY <1>4, RowsOfLockHolder
    <2>2. RowsOf(s)' = RowsOf(s) \ OpenIn(s)
      BY <1>2, <1>3, <2>1 DEF RowsOf, OpenIn
    <2>3. OpenIn(s)' = {}
      BY <1>1, <1>3, <2>1 DEF OpenIn
    <2>4. nextOrdinal'[s] = nextOrdinal[s] - Cardinality(OpenIn(s))
      BY <1>1, <2>1 DEF Restored
    <2>5. /\ IsFiniteSet(RowsOf(s)) /\ Cardinality(RowsOf(s)) \in Nat
          /\ IsFiniteSet(OpenIn(s)) /\ Cardinality(OpenIn(s)) \in Nat
          /\ OpenIn(s) \subseteq RowsOf(s)
      BY StreamsAreFinite
    <2>6. /\ IsFiniteSet(RowsOf(s) \ OpenIn(s))
          /\ Cardinality(RowsOf(s) \ OpenIn(s)) = Cardinality(RowsOf(s)) - Cardinality(OpenIn(s))
      <3>1. RowsOf(s) \intersect OpenIn(s) = OpenIn(s)
        BY <2>5
      <3>2. QED
        BY <2>5, <3>1, FS_Difference
    <2>7. Cardinality(RowsOf(s) \ OpenIn(s)) \in Nat
      BY <2>6, FS_CardinalityType
    <2>8. nextOrdinal[s] = Cardinality(RowsOf(s)) + 1
      BY DEF EnqueueInv, OrdinalsAreCounted
    <2>9. QED
      BY <2>2, <2>3, <2>4, <2>5, <2>6, <2>7, <2>8
  <1>5. ASSUME NEW s \in Streams, streamLock[s] # t
        PROVE  /\ RowsOf(s)' = RowsOf(s)
               /\ OpenIn(s)' = OpenIn(s)
               /\ nextOrdinal'[s] = nextOrdinal[s]
    <2>1. /\ {k \in OutboxKeys : oTx[k] = t /\ StreamOf[k] = s} = {}
          /\ \A k \in RowsOf(s) : oTx[k] # t
      BY <1>5, RowsOfLockHolder
    <2>2. RowsOf(s)' = RowsOf(s)
      BY <1>3, <2>1 DEF RowsOf
    <2>3. OpenIn(s)' = OpenIn(s)
      BY <1>3, <2>1 DEF OpenIn
    <2>4. nextOrdinal'[s] = nextOrdinal[s] - 0 /\ nextOrdinal[s] \in Nat
      BY <1>1, <2>1, FS_EmptySet DEF Restored, TypeOK
    <2>5. QED
      BY <2>2, <2>3, <2>4
  <1>6. nextOrdinal' \in [Streams -> Nat \ {0}]
    <2>1. \A s \in Streams : nextOrdinal'[s] \in Nat \ {0}
      BY <1>4, <1>5 DEF TypeOK
    <2>2. QED
      BY <1>1, <2>1
  <1>7. TypeOK'
    <2>1. /\ oState' \in [OutboxKeys -> OutboxStates] /\ oTx' \in [OutboxKeys -> Txs \union {None}]
          /\ oOrdinal' \in [OutboxKeys -> Nat] /\ oDue' \in [OutboxKeys -> BOOLEAN]
      BY <1>1 DEF TypeOK, OutboxStates
    <2>2. QED
      BY <1>1, <1>6, <2>1, ReleaseKeeps
         DEF TypeOK, stateVars, storeVars, flushVars, publishVars, ghostVars, boundVars
  <1>8. LogInv'
    BY <1>1, <1>2, <1>3, QuietLog
  <1>9. OutboxIsFinite'
    <2>1. Enqueued' \subseteq Enqueued
      BY <1>3 DEF Enqueued
    <2>2. QED
      BY <2>1, FS_Subset DEF EnqueueInv, OutboxIsFinite
  <1>10. EnqueuersAreAlone'
    BY <1>1, ReleaseKeeps
  <1>11. OpenRowsAreLocked'
    <2> SUFFICES ASSUME NEW k \in OutboxKeys
                 PROVE  /\ oTx'[k] # None <=> oState'[k] = "open"
                        /\ oTx'[k] # None => streamLock'[StreamOf[k]] = oTx'[k]
      BY DEF OpenRowsAreLocked
    <2>1. StreamOf[k] \in Streams
      BY KeyAssumption
    <2>2. oTx[k] # None => streamLock[StreamOf[k]] = oTx[k]
      BY DEF EnqueueInv, OpenRowsAreLocked
    <2>3. QED
      BY <1>1, <1>2, <1>3, <2>1, <2>2
  <1>12. OrdinalsAreCounted'
    <2>1. \A s \in Streams : nextOrdinal'[s] = Cardinality(RowsOf(s)') + 1
      BY <1>4, <1>5 DEF EnqueueInv, OrdinalsAreCounted
    <2>2. ASSUME NEW s \in Streams, NEW k \in RowsOf(s)'
          PROVE  /\ k \in RowsOf(s) /\ oOrdinal'[k] = oOrdinal[k]
                 /\ oOrdinal'[k] \in 1 .. nextOrdinal'[s] - 1
                 /\ oTx'[k] # None <=>
                        oOrdinal'[k] > nextOrdinal'[s] - 1 - Cardinality(OpenIn(s)')
      <3>1. k \in OutboxKeys /\ StreamOf[k] = s /\ oState'[k] # "none"
        BY DEF RowsOf
      <3>2. /\ k \in RowsOf(s) /\ oOrdinal'[k] = oOrdinal[k] /\ oTx'[k] = oTx[k]
        BY <1>3, <3>1 DEF RowsOf
      <3>3. /\ oOrdinal[k] \in 1 .. nextOrdinal[s] - 1 /\ nextOrdinal[s] \in Nat
            /\ oTx[k] # None <=> oOrdinal[k] > nextOrdinal[s] - 1 - Cardinality(OpenIn(s))
        BY <3>2 DEF EnqueueInv, OrdinalsAreCounted, TypeOK
      <3>4. CASE streamLock[s] = t
        <4>1. oTx[k] = None
          <5>1. oTx[k] # t /\ oTx[k] \in {t, None}
            BY <1>1, <1>3, <3>1, <3>2, <3>4, RowsOfLockHolder
          <5>2. QED
            BY <5>1
        <4>2. Cardinality(OpenIn(s)) \in Nat
          BY StreamsAreFinite
        <4>3. oOrdinal[k] <= nextOrdinal'[s] - 1
          <5>1. nextOrdinal'[s] = nextOrdinal[s] - Cardinality(OpenIn(s))
            BY <1>4, <3>4
          <5>2. QED
            BY <3>3, <4>1, <4>2, <5>1
        <4>4. Cardinality(OpenIn(s)') = 0 /\ nextOrdinal'[s] \in Nat
          <5>1. OpenIn(s)' = {} /\ nextOrdinal'[s] \in Nat
            BY <1>4, <1>6, <3>4
          <5>2. QED
            BY <5>1, FS_EmptySet
        <4>5. QED
          BY <3>2, <3>3, <4>1, <4>3, <4>4
      <3>5. CASE streamLock[s] # t
        BY <1>5, <3>2, <3>3, <3>5
      <3>6. QED
        BY <3>4, <3>5
    <2>3. \A k \in OutboxKeys : oState'[k] = "none" => oOrdinal'[k] = 0
      BY <1>3 DEF EnqueueInv, OrdinalsAreCounted
    <2>4. QED
      BY <2>1, <2>2, <2>3 DEF EnqueueInv, OrdinalsAreCounted
  <1>13. QED
    BY <1>7, <1>8, <1>9, <1>10, <1>11, <1>12 DEF EnqueueInv

------------------------------------------------------------------------------
(* Flushes.                                                                  *)

\* In a stream, the rows before a committed one are committed.
LEMMA CommittedBeforeOpen ==
  ASSUME RealtimeInv, NEW j \in OutboxKeys, NEW k \in OutboxKeys, StreamOf[j] = StreamOf[k],
         oState[k] \notin {"none", "open"}, oOrdinal[j] > 0, oOrdinal[j] < oOrdinal[k]
  PROVE  oState[j] \in {"PENDING", "FAILED", "PUBLISHED"}
  <1> DEFINE s == StreamOf[k]
             N == nextOrdinal[s] - 1 - Cardinality(OpenIn(s))
  <1> USE DEF RealtimeInv
  <1>1. s \in Streams /\ N \in Int /\ oOrdinal[j] \in Nat /\ oOrdinal[k] \in Nat
    BY KeyAssumption, StreamsAreFinite DEF TypeOK
  <1>2. j \in RowsOf(s) /\ k \in RowsOf(s)
    BY DEF RowsOf, EnqueueInv, OrdinalsAreCounted
  <1>3. oTx[k] = None /\ (oTx[j] # None <=> oState[j] = "open")
    BY DEF EnqueueInv, OpenRowsAreLocked
  <1>4. (oTx[j] # None <=> oOrdinal[j] > N) /\ (oTx[k] # None <=> oOrdinal[k] > N)
    BY <1>1, <1>2 DEF EnqueueInv, OrdinalsAreCounted
  <1>5. oState[j] \notin {"none", "open"}
    <2> HIDE DEF N, s
    <2>1. oOrdinal[j] <= N
      BY <1>1, <1>3, <1>4
    <2>2. oState[j] # "none"
      BY <1>2 DEF RowsOf
    <2>3. QED
      BY <1>1, <1>3, <1>4, <2>1, <2>2
  <1>6. QED
    BY <1>5 DEF TypeOK, OutboxStates

\* What is stored under an outbox key was published.
LEMMA WaitingIsNotStored ==
  ASSUME RealtimeInv, NEW k \in OutboxKeys, oState[k] \in Waiting
  PROVE  ~Stored(k) /\ NumberFor(k) = last + 1 /\ seqOf[k] = 0 /\ times[k] = 0
  <1>1. k \in Keys /\ k # None
    BY NoneAssumption DEF Keys
  <1>2. seqOf[k] = 0
    BY <1>1 DEF RealtimeInv, LogInv, PublishedIsLogged, Waiting, TypeOK
  <1>3. times[k] = 0
    BY <1>1, <1>2 DEF RealtimeInv, LogInv, LogIsPast, TypeOK
  <1>4. ~Stored(k)
    BY <1>1, <1>3 DEF RealtimeInv, LogInv, LogIsPast, Stored
  <1>5. QED
    BY <1>2, <1>3, <1>4 DEF NumberFor

LEMMA SelectKeeps ==
  ASSUME RealtimeInv, NEW f \in Flushers, NEW k \in OutboxKeys, Select(f, k)
  PROVE  RealtimeInv'
  <1> USE DEF RealtimeInv
  <1>1. /\ fPc[f] = "idle" /\ oState[k] \in Waiting /\ InTurn(k) /\ rowLock[k] = None
        /\ rowLock' = [rowLock EXCEPT ![k] = f]
        /\ fPc' = [fPc EXCEPT ![f] = "selected"]
        /\ fKey' = [fKey EXCEPT ![f] = k]
        /\ UNCHANGED <<txVars, outboxVars, stateVars, seqLock, storeVars, fSeq, publishVars,
                       ghostVars, boundVars>>
    BY DEF Select
  <1>2. TypeOK'
    BY <1>1 DEF TypeOK, txVars, outboxVars, stateVars, storeVars, publishVars, ghostVars, boundVars
  <1>3. EnqueueInv'
    BY <1>1, QuietEnqueues DEF outboxVars
  <1>4. \A g \in Flushers : fPc'[g] = (IF g = f THEN "selected" ELSE fPc[g])
                         /\ fKey'[g] = (IF g = f THEN k ELSE fKey[g])
    BY <1>1 DEF TypeOK
  <1>5. \A i \in OutboxKeys : rowLock'[i] = (IF i = k THEN f ELSE rowLock[i])
    BY <1>1 DEF TypeOK
  <1>6. FlushesHoldRows'
    <2>1. UNCHANGED oState /\ \A g \in Flushers : g # None
      BY <1>1, NoneAssumption DEF outboxVars
    <2>2. ASSUME NEW g \in Flushers, g # f
          PROVE  /\ fPc[g] \in {"selected", "numbered"} => fKey[g] # k
                 /\ \A i \in OutboxKeys : rowLock'[i] = g => rowLock[i] = g
      BY <1>1, <1>5, <2>1, <2>2 DEF LogInv, FlushesHoldRows
    <2>3. \A i \in OutboxKeys : rowLock'[i] = f => i = k
      BY <1>1, <1>5 DEF LogInv, FlushesHoldRows
    <2>4. QED
      BY <1>1, <1>4, <1>5, <2>1, <2>2, <2>3 DEF LogInv, FlushesHoldRows
  <1>7. NumbersAreNext'
    BY <1>1, <1>4 DEF LogInv, NumbersAreNext, NumberFor, Stored, stateVars, storeVars, publishVars
  <1>8. LogIsPast' /\ RetriedStays'
    BY <1>1 DEF LogInv, LogIsPast, RetriedStays, stateVars, storeVars, publishVars, ghostVars
  <1>9. PublishedIsLogged' /\ StreamOrder'
    BY <1>1 DEF LogInv, PublishedIsLogged, StreamOrder, outboxVars, ghostVars
  <1>10. FlushesAreInTurn'
    <2> SUFFICES ASSUME NEW g \in Flushers, fPc'[g] \in {"selected", "numbered"},
                        NEW j \in OutboxKeys, StreamOf[j] = StreamOf[fKey'[g]],
                        oOrdinal[j] > 0, oOrdinal[j] < oOrdinal[fKey'[g]]
                 PROVE  oState[j] = "PUBLISHED"
      BY <1>1 DEF FlushesAreInTurn, outboxVars
    <2>1. CASE g = f
      <3>1. oState[j] \in {"PENDING", "FAILED", "PUBLISHED"}
        BY <1>1, <1>4, <2>1, CommittedBeforeOpen DEF Waiting
      <3>2. oState[j] \notin Waiting
        BY <1>1, <1>4, <2>1 DEF InTurn
      <3>3. QED
        BY <3>1, <3>2 DEF Waiting
    <2>2. CASE g # f
      BY <1>4, <2>2 DEF LogInv, FlushesAreInTurn
    <2>3. QED
      BY <2>1, <2>2
  <1>11. QED
    BY <1>2, <1>3, <1>6, <1>7, <1>8, <1>9, <1>10 DEF LogInv

LEMMA NumberKeeps ==
  ASSUME RealtimeInv, NEW f \in Flushers, Number(f)
  PROVE  RealtimeInv'
  <1> USE DEF RealtimeInv
  <1>1. /\ fPc[f] = "selected" /\ seqLock = None /\ last < MaxSeq
        /\ seqLock' = f
        /\ fSeq' = [fSeq EXCEPT ![f] =
                       IF fKey[f] \in Poisoned THEN last + 1 ELSE NumberFor(fKey[f])]
        /\ fPc' = [fPc EXCEPT ![f] = "numbered"]
        /\ UNCHANGED <<txVars, outboxVars, stateVars, storeVars, fKey, rowLock, publishVars,
                       ghostVars, boundVars>>
    BY DEF Number, SequenceFree
  <1>2. fKey[f] \in OutboxKeys /\ oState[fKey[f]] \in Waiting
    BY <1>1 DEF LogInv, FlushesHoldRows
  <1>3. fSeq' = [fSeq EXCEPT ![f] = last + 1]
    BY <1>1, <1>2, WaitingIsNotStored
  <1>4. TypeOK'
    BY <1>1, <1>3 DEF TypeOK, txVars, outboxVars, stateVars, storeVars, publishVars, ghostVars,
                      boundVars
  <1>5. EnqueueInv'
    BY <1>1, QuietEnqueues DEF outboxVars
  <1>6. \A g \in Flushers : fPc'[g] = (IF g = f THEN "numbered" ELSE fPc[g])
                         /\ fSeq'[g] = (IF g = f THEN last + 1 ELSE fSeq[g])
    BY <1>1, <1>3 DEF TypeOK
  <1>7. FlushesHoldRows'
    BY <1>1, <1>6 DEF LogInv, FlushesHoldRows, outboxVars
  <1>8. NumbersAreNext'
    <2>1. UNCHANGED <<last, log, pPc, pSeq, pTries>>
      BY <1>1 DEF stateVars, storeVars, publishVars
    <2>2. (\A g \in Flushers : fPc[g] # "numbered") /\ (\A d \in DirectKeys : pPc[d] # "numbered")
      BY <1>1, NoneAssumption DEF LogInv, NumbersAreNext, Keys
    <2>3. \A d \in DirectKeys : d # f
      BY HolderAssumption
    <2>4. QED
      BY <1>1, <1>6, <2>1, <2>2, <2>3 DEF LogInv, NumbersAreNext
  <1>9. LogIsPast' /\ RetriedStays'
    BY <1>1 DEF LogInv, LogIsPast, RetriedStays, stateVars, storeVars, publishVars, ghostVars
  <1>10. PublishedIsLogged' /\ StreamOrder'
    BY <1>1 DEF LogInv, PublishedIsLogged, StreamOrder, outboxVars, ghostVars
  <1>11. FlushesAreInTurn'
    BY <1>1, <1>6 DEF LogInv, FlushesAreInTurn, outboxVars
  <1>12. QED
    BY <1>4, <1>5, <1>7, <1>8, <1>9, <1>10, <1>11 DEF LogInv

\* The end of a flush releases its locks.
LEMMA EndFlushKeeps ==
  ASSUME RealtimeInv, NEW f \in Flushers, NEW next \in {"idle", "failing"}, EndFlush(f, next),
         fPc[f] # "idle",
         \A k \in OutboxKeys : oState'[k] # oState[k] => k = fKey[f] /\ oState'[k] = "PUBLISHED",
         oState'[fKey[f]] # oState[fKey[f]] => fPc[f] = "numbered",
         UNCHANGED oOrdinal
  PROVE  /\ FlushesHoldRows' /\ FlushesAreInTurn'
         /\ seqLock' \in Flushers \union DirectKeys \union {None}
         /\ rowLock' \in [OutboxKeys -> Flushers \union {None}]
         /\ fPc' \in [Flushers -> {"idle", "selected", "numbered", "failing"}]
         /\ fKey' \in [Flushers -> OutboxKeys \union {None}]
         /\ fSeq' \in [Flushers -> Nat]
         /\ \A g \in Flushers : fPc'[g] = (IF g = f THEN next ELSE fPc[g])
         /\ \A g \in Flushers \ {f} : fSeq'[g] = fSeq[g]
         /\ seqLock' = IF seqLock = f THEN None ELSE seqLock
  <1> USE DEF RealtimeInv
  <1>1. /\ seqLock' \in Flushers \union DirectKeys \union {None}
        /\ rowLock' \in [OutboxKeys -> Flushers \union {None}]
        /\ fPc' \in [Flushers -> {"idle", "selected", "numbered", "failing"}]
        /\ fKey' \in [Flushers -> OutboxKeys \union {None}]
        /\ fSeq' \in [Flushers -> Nat]
        /\ seqLock' = IF seqLock = f THEN None ELSE seqLock
    BY DEF EndFlush, TypeOK
  <1>2. \A g \in Flushers :
            /\ fPc'[g] = (IF g = f THEN next ELSE fPc[g])
            /\ g # f => fSeq'[g] = fSeq[g] /\ fKey'[g] = fKey[g]
            /\ next = "failing" => fKey'[g] = fKey[g]
    BY DEF EndFlush, TypeOK
  <1>3. \A k \in OutboxKeys : rowLock'[k] = (IF rowLock[k] = f THEN None ELSE rowLock[k])
    BY DEF EndFlush
  <1>4. ASSUME NEW g \in Flushers, g # f, fPc[g] \in {"selected", "numbered"}
        PROVE  fKey[g] \in OutboxKeys /\ rowLock'[fKey[g]] = g /\ oState'[fKey[g]] = oState[fKey[g]]
    <2>1. fKey[g] \in OutboxKeys /\ rowLock[fKey[g]] = g
      BY <1>4 DEF LogInv, FlushesHoldRows
    <2>2. fPc[f] = "numbered" => rowLock[fKey[f]] = f
      BY DEF LogInv, FlushesHoldRows
    <2>3. QED
      BY <1>3, <1>4, <2>1, <2>2
  <1>5. FlushesHoldRows'
    <2>1. ASSUME NEW g \in Flushers, fPc'[g] \in {"selected", "numbered"}
          PROVE  fKey'[g] \in OutboxKeys /\ rowLock'[fKey'[g]] = g /\ oState'[fKey'[g]] \in Waiting
      BY <1>2, <1>4, <2>1 DEF LogInv, FlushesHoldRows
    <2>2. ASSUME NEW g \in Flushers, fPc'[g] = "failing"
          PROVE  fKey'[g] \in OutboxKeys /\ oState'[fKey'[g]] \notin {"none", "open"}
      <3>1. fPc[g] \in {"selected", "numbered", "failing"} /\ fKey'[g] = fKey[g]
        BY <1>2, <2>2 DEF TypeOK
      <3>2. fKey[g] \in OutboxKeys /\ oState[fKey[g]] \notin {"none", "open"}
        BY <3>1 DEF LogInv, FlushesHoldRows, Waiting
      <3>3. QED
        BY <3>1, <3>2
    <2>3. ASSUME NEW g \in Flushers, NEW k \in OutboxKeys, rowLock'[k] = g
          PROVE  fKey'[g] = k /\ fPc'[g] \in {"selected", "numbered"}
      BY <1>2, <1>3, <2>3, NoneAssumption DEF LogInv, FlushesHoldRows
    <2>4. QED
      BY <2>1, <2>2, <2>3 DEF FlushesHoldRows
  <1>6. FlushesAreInTurn'
    <2> SUFFICES ASSUME NEW g \in Flushers, fPc'[g] \in {"selected", "numbered"},
                        NEW j \in OutboxKeys, StreamOf[j] = StreamOf[fKey'[g]],
                        oOrdinal[j] > 0, oOrdinal[j] < oOrdinal[fKey'[g]]
                 PROVE  oState'[j] = "PUBLISHED"
      BY DEF FlushesAreInTurn
    <2>1. g # f /\ fPc[g] \in {"selected", "numbered"} /\ fKey'[g] = fKey[g]
      BY <1>2
    <2>2. oState[j] = "PUBLISHED"
      BY <2>1 DEF LogInv, FlushesAreInTurn
    <2>3. QED
      BY <2>2
  <1>7. QED
    BY <1>1, <1>2, <1>5, <1>6

\* A flush that ends without having published anything.
LEMMA AbandonKeeps ==
  ASSUME RealtimeInv, NEW f \in Flushers, NEW next \in {"idle", "failing"}, EndFlush(f, next),
         fPc[f] # "idle", faults' = faults + 1,
         UNCHANGED <<txVars, outboxVars, stateVars, storeVars, publishVars, ghostVars, corruptions>>
  PROVE  RealtimeInv'
  <1> USE DEF RealtimeInv
  <1>1. EnqueueInv'
    BY QuietEnqueues DEF outboxVars
  <1>2. /\ FlushesHoldRows' /\ FlushesAreInTurn'
        /\ seqLock' \in Flushers \union DirectKeys \union {None}
        /\ rowLock' \in [OutboxKeys -> Flushers \union {None}]
        /\ fPc' \in [Flushers -> {"idle", "selected", "numbered", "failing"}]
        /\ fKey' \in [Flushers -> OutboxKeys \union {None}]
        /\ fSeq' \in [Flushers -> Nat]
        /\ \A g \in Flushers : fPc'[g] = (IF g = f THEN next ELSE fPc[g])
        /\ \A g \in Flushers \ {f} : fSeq'[g] = fSeq[g]
        /\ seqLock' = IF seqLock = f THEN None ELSE seqLock
    BY EndFlushKeeps DEF outboxVars
  <1>3. TypeOK'
    BY <1>2 DEF TypeOK, txVars, outboxVars, stateVars, storeVars, publishVars, ghostVars
  <1>4. NumbersAreNext'
    <2>1. UNCHANGED <<last, log, pPc, pSeq, pTries>>
      BY DEF stateVars, storeVars, publishVars
    <2>2. /\ \A d \in DirectKeys : d # f /\ d # None
          /\ \A g \in Flushers : g # None
      BY HolderAssumption, NoneAssumption DEF Keys
    <2>3. QED
      BY <1>2, <2>1, <2>2 DEF LogInv, NumbersAreNext, NumberFor, Stored
  <1>5. LogIsPast' /\ RetriedStays'
    BY DEF LogInv, LogIsPast, RetriedStays, stateVars, storeVars, publishVars, ghostVars
  <1>6. PublishedIsLogged' /\ StreamOrder'
    BY DEF LogInv, PublishedIsLogged, StreamOrder, outboxVars, ghostVars
  <1>7. QED
    BY <1>1, <1>2, <1>3, <1>4, <1>5, <1>6 DEF LogInv

LEMMA FlushErrorKeeps ==
  ASSUME RealtimeInv, NEW f \in Flushers, FlushError(f)
  PROVE  RealtimeInv'
  BY AbandonKeeps DEF FlushError

LEMMA CrashKeeps ==
  ASSUME RealtimeInv, NEW f \in Flushers, Crash(f)
  PROVE  RealtimeInv'
  BY AbandonKeeps DEF Crash

\* An event is appended behind the log, or quarantined behind a burnt number.
LEMMA PublishKeeps ==
  ASSUME RealtimeInv, NEW f \in Flushers, NEW answered \in BOOLEAN, Publish(f, answered)
  PROVE  RealtimeInv'
  <1> PICK k : k = fKey[f]
    OBVIOUS
  <1> PICK next \in {"idle", "failing"} : next = IF answered THEN "idle" ELSE "failing"
    OBVIOUS
  <1> USE DEF RealtimeInv
  <1>1. /\ fPc[f] = "numbered" /\ EndFlush(f, next)
        /\ faults' \in {faults, faults + 1}
        /\ k \in Poisoned => /\ last' = fSeq[f]
                             /\ prunedThrough' = fSeq[f]
                             /\ UNCHANGED <<log, ghostVars>>
        /\ k \notin Poisoned => AppendEvent(k, fSeq[f]) /\ UNCHANGED prunedThrough
        /\ oState' = [oState EXCEPT ![k] = "PUBLISHED"]
        /\ UNCHANGED <<txVars, oTx, oOrdinal, oDue, expired, corrupt, publishVars, corruptions>>
    BY DEF Publish
  <1>2. /\ k \in OutboxKeys /\ k \in Keys /\ k # None /\ k \notin DirectKeys
        /\ oState[k] \in Waiting
        /\ seqLock = f /\ fSeq[f] = last + 1 /\ last < MaxSeq
    BY <1>1, KeyAssumption, NoneAssumption DEF LogInv, FlushesHoldRows, NumbersAreNext, Keys
  <1>3. seqOf[k] = 0 /\ times[k] = 0
    BY <1>2, WaitingIsNotStored
  <1>4. last \in Nat /\ last + 1 \in Seqs /\ last + 1 # 0
    BY <1>2, BoundAssumption DEF TypeOK, Seqs
  <1>5. /\ last' = last + 1
        /\ k \in Poisoned => prunedThrough' = last + 1 /\ UNCHANGED <<log, seqOf, times>>
        /\ k \notin Poisoned => /\ prunedThrough' = prunedThrough
                                /\ log' = [log EXCEPT ![last + 1] = k]
                                /\ seqOf' = [seqOf EXCEPT ![k] = last + 1]
                                /\ times' = [times EXCEPT ![k] = @ + 1]
    <2>1. CASE k \in Poisoned
      BY <1>1, <1>2, <2>1 DEF ghostVars
    <2>2. CASE k \notin Poisoned
      BY <1>1, <1>2, <1>3, <1>4, <2>2 DEF AppendEvent
    <2>3. QED
      BY <2>1, <2>2
  <1>6. \A j \in OutboxKeys : oState'[j] = (IF j = k THEN "PUBLISHED" ELSE oState[j])
    BY <1>1 DEF TypeOK
  <1>7. EnqueueInv'
    BY <1>1, <1>2, <1>6, QuietEnqueues DEF Waiting
  <1>8. /\ FlushesHoldRows' /\ FlushesAreInTurn'
        /\ seqLock' \in Flushers \union DirectKeys \union {None}
        /\ rowLock' \in [OutboxKeys -> Flushers \union {None}]
        /\ fPc' \in [Flushers -> {"idle", "selected", "numbered", "failing"}]
        /\ fKey' \in [Flushers -> OutboxKeys \union {None}]
        /\ fSeq' \in [Flushers -> Nat]
        /\ \A g \in Flushers : fPc'[g] = (IF g = f THEN next ELSE fPc[g])
        /\ seqLock' = None
    BY <1>1, <1>2, <1>6, EndFlushKeeps
  <1>9. TypeOK'
    <2>1. prunedThrough' \in 0 .. last' /\ last' \in Nat
      BY <1>4, <1>5 DEF TypeOK
    <2>2. log' \in [Seqs -> Keys \union {None}] /\ seqOf' \in [Keys -> Nat] /\ times' \in [Keys -> Nat]
      BY <1>2, <1>4, <1>5 DEF TypeOK
    <2>3. oState' \in [OutboxKeys -> OutboxStates]
      BY <1>1 DEF TypeOK, OutboxStates
    <2>4. {faults', corruptions'} \subseteq Nat
      <3>1. faults \in Nat /\ corruptions \in Nat
        BY DEF TypeOK
      <3>2. QED
        BY <1>1, <3>1
    <2>5. QED
      BY <1>1, <1>8, <2>1, <2>2, <2>3, <2>4 DEF TypeOK, txVars, publishVars
  <1>10. NumbersAreNext'
    <2>1. /\ \A g \in Flushers : fPc[g] = "numbered" => g = f
          /\ \A d \in DirectKeys : pPc[d] # "numbered"
      BY <1>2, HolderAssumption DEF LogInv, NumbersAreNext
    <2>2. \A g \in Flushers \union DirectKeys : g # None
      BY NoneAssumption DEF Keys
    <2>3. last' <= MaxSeq
      BY <1>2, <1>4, <1>5, BoundAssumption
    <2>4. \A g \in Flushers : fPc'[g] # "numbered"
      BY <1>8, <2>1
    <2>5. UNCHANGED <<pPc, pSeq, pTries>>
      BY <1>1 DEF publishVars
    <2>6. QED
      BY <1>8, <2>1, <2>2, <2>3, <2>4, <2>5 DEF LogInv, NumbersAreNext
  <1>11. \A s \in Seqs : log[s] # None => s <= last /\ log'[s] = log[s] /\ s # last + 1
    <2>1. log \in [Seqs -> Keys \union {None}] /\ last \in Nat
      BY DEF TypeOK
    <2>2. \A s \in Seqs : log[s] # None => s <= last
      BY DEF LogInv, LogIsPast
    <2>3. \A s \in Seqs : s \in Int /\ (s <= last => s # last + 1)
      BY <2>1 DEF Seqs
    <2>4. \A s \in Seqs : s # last + 1 => log'[s] = log[s]
      BY <1>4, <1>5, <2>1
    <2>5. QED
      BY <2>2, <2>3, <2>4
  <1>12. LogIsPast'
    <2>1. expired' \union corrupt' \subseteq 1 .. last'
      BY <1>1, <1>4, <1>5 DEF LogInv, LogIsPast
    <2>2. CASE k \in Poisoned
      BY <1>4, <1>5, <2>1, <2>2 DEF LogInv, LogIsPast, TypeOK, Seqs
    <2>3. CASE k \notin Poisoned
      <3>1. \A i \in Keys : /\ seqOf'[i] = (IF i = k THEN last + 1 ELSE seqOf[i])
                            /\ times'[i] = (IF i = k THEN 1 ELSE times[i])
        BY <1>2, <1>3, <1>5, <2>3 DEF TypeOK
      <3>2. \A i \in Keys : (times'[i] > 0 <=> seqOf'[i] > 0) /\ seqOf'[i] <= last'
        BY <1>4, <1>5, <3>1 DEF LogInv, LogIsPast, TypeOK
      <3>3. ASSUME NEW s \in Seqs, log'[s] # None
            PROVE  s <= last' /\ times'[log'[s]] > 0
        <4>1. log'[s] = (IF s = last + 1 THEN k ELSE log[s])
          BY <1>4, <1>5, <2>3 DEF TypeOK
        <4>2. CASE s = last + 1
          BY <1>2, <1>4, <1>5, <3>1, <4>1, <4>2
        <4>3. CASE s # last + 1
          <5>1. log[s] \in Keys /\ s <= last /\ times[log[s]] > 0
            BY <3>3, <4>1, <4>3 DEF LogInv, LogIsPast, TypeOK
          <5>2. QED
            BY <1>4, <1>5, <3>1, <4>1, <4>3, <5>1 DEF Seqs
        <4>4. QED
          BY <4>2, <4>3
      <3>4. QED
        BY <2>1, <3>2, <3>3 DEF LogIsPast
    <2>4. QED
      BY <2>2, <2>3
  <1>13. RetriedStays'
    <2>1. \A d \in DirectKeys : times'[d] = times[d] /\ d # None
      BY <1>2, <1>5, NoneAssumption DEF TypeOK, Keys
    <2>2. QED
      BY <1>1, <1>11, <2>1 DEF LogInv, RetriedStays, publishVars
  <1>14. \A j \in OutboxKeys :
             seqOf'[j] = (IF j = k /\ k \notin Poisoned THEN last + 1 ELSE seqOf[j])
    BY <1>5 DEF TypeOK, Keys
  <1>15. PublishedIsLogged'
    BY <1>3, <1>4, <1>6, <1>14 DEF LogInv, PublishedIsLogged
  <1>16. StreamOrder'
    <2> SUFFICES ASSUME NEW j \in OutboxKeys, NEW i \in OutboxKeys, StreamOf[j] = StreamOf[i],
                        oOrdinal[j] < oOrdinal[i], oOrdinal[j] > 0, seqOf'[i] > 0, j \notin Poisoned
                 PROVE  seqOf'[j] \in 1 .. seqOf'[i] - 1
      BY <1>1 DEF StreamOrder
    <2>1. oOrdinal[j] \in Nat /\ oOrdinal[i] \in Nat /\ j # i
      BY DEF TypeOK
    <2>2. CASE i = k /\ k \notin Poisoned
      <3>1. oState[j] = "PUBLISHED"
        BY <1>1, <1>2, <2>2 DEF LogInv, FlushesAreInTurn
      <3>2. seqOf[j] > 0 /\ j \in Keys
        BY <3>1 DEF LogInv, PublishedIsLogged, Keys
      <3>3. seqOf[j] <= last /\ seqOf[j] \in Nat
        BY <3>2 DEF LogInv, LogIsPast, TypeOK
      <3>4. QED
        BY <1>4, <1>14, <2>1, <2>2, <3>2, <3>3
    <2>3. CASE ~(i = k /\ k \notin Poisoned)
      <3>1. seqOf[i] > 0 /\ seqOf'[i] = seqOf[i]
        BY <1>14, <2>3
      <3>2. seqOf[j] \in 1 .. seqOf[i] - 1
        BY <3>1 DEF LogInv, StreamOrder
      <3>3. j # k
        BY <1>3, <3>2
      <3>4. QED
        BY <1>14, <3>1, <3>2, <3>3
    <2>4. QED
      BY <2>2, <2>3
  <1>17. QED
    BY <1>7, <1>8, <1>9, <1>10, <1>12, <1>13, <1>15, <1>16 DEF LogInv

\* A failure is only recorded for a row that is still to be published.
LEMMA MarkFailedKeeps ==
  ASSUME RealtimeInv, NEW f \in Flushers, MarkFailed(f)
  PROVE  RealtimeInv'
  <1> PICK k : k = fKey[f]
    OBVIOUS
  <1> USE DEF RealtimeInv
  <1>1. /\ fPc[f] = "failing" /\ rowLock[k] = None
        /\ oState[k] # "PUBLISHED" => /\ oState' = [oState EXCEPT ![k] = "FAILED"]
                                      /\ oDue' = [oDue EXCEPT ![k] = FALSE]
        /\ oState[k] = "PUBLISHED" => UNCHANGED <<oState, oDue>>
        /\ fPc' = [fPc EXCEPT ![f] = "idle"]
        /\ fKey' = [fKey EXCEPT ![f] = None]
        /\ UNCHANGED <<txVars, oTx, oOrdinal, stateVars, seqLock, storeVars, fSeq, rowLock,
                       publishVars, ghostVars, boundVars>>
    BY DEF MarkFailed, MayFail
  <1>2. k \in OutboxKeys /\ oState[k] \in {"PENDING", "FAILED", "PUBLISHED"}
    BY <1>1 DEF LogInv, FlushesHoldRows, TypeOK, OutboxStates
  <1>3. \A j \in OutboxKeys :
            oState'[j] = (IF j = k /\ oState[k] # "PUBLISHED" THEN "FAILED" ELSE oState[j])
    BY <1>1 DEF TypeOK
  <1>4. EnqueueInv'
    BY <1>1, <1>2, <1>3, QuietEnqueues
  <1>5. \A g \in Flushers : fPc'[g] = (IF g = f THEN "idle" ELSE fPc[g])
                         /\ fKey'[g] = (IF g = f THEN None ELSE fKey[g])
    BY <1>1 DEF TypeOK
  <1>6. TypeOK'
    <2>1. oState' \in [OutboxKeys -> OutboxStates] /\ oDue' \in [OutboxKeys -> BOOLEAN]
      BY <1>1 DEF TypeOK, OutboxStates
    <2>2. QED
      BY <1>1, <2>1 DEF TypeOK, txVars, stateVars, storeVars, publishVars, ghostVars, boundVars
  <1>7. FlushesHoldRows'
    <2>1. \A j \in OutboxKeys : oState[j] \in Waiting => oState'[j] \in Waiting
      BY <1>3 DEF Waiting
    <2>2. \A j \in OutboxKeys : oState[j] \notin {"none", "open"} => oState'[j] \notin {"none", "open"}
      BY <1>3
    <2>3. \A j \in OutboxKeys : rowLock[j] # f
      BY <1>1 DEF LogInv, FlushesHoldRows
    <2>4. QED
      BY <1>1, <1>5, <2>1, <2>2, <2>3 DEF LogInv, FlushesHoldRows
  <1>8. NumbersAreNext'
    BY <1>1, <1>5 DEF LogInv, NumbersAreNext, NumberFor, Stored, stateVars, storeVars, publishVars
  <1>9. LogIsPast' /\ RetriedStays'
    BY <1>1 DEF LogInv, LogIsPast, RetriedStays, stateVars, storeVars, publishVars, ghostVars
  <1>10. PublishedIsLogged' /\ StreamOrder'
    BY <1>1, <1>3 DEF LogInv, PublishedIsLogged, StreamOrder, ghostVars
  <1>11. FlushesAreInTurn'
    BY <1>1, <1>3, <1>5 DEF LogInv, FlushesAreInTurn
  <1>12. QED
    BY <1>4, <1>6, <1>7, <1>8, <1>9, <1>10, <1>11 DEF LogInv

LEMMA BecomeDueKeeps ==
  ASSUME RealtimeInv, NEW k \in OutboxKeys, BecomeDue(k)
  PROVE  RealtimeInv'
  <1> USE DEF RealtimeInv
  <1>1. TypeOK'
    BY DEF BecomeDue, TypeOK, txVars, stateVars, storeVars, flushVars, publishVars, ghostVars, boundVars
  <1>2. EnqueueInv'
    BY QuietEnqueues DEF BecomeDue
  <1>3. FlushesHoldRows' /\ FlushesAreInTurn'
    BY DEF BecomeDue, LogInv, FlushesHoldRows, FlushesAreInTurn, flushVars
  <1>4. NumbersAreNext' /\ LogIsPast' /\ RetriedStays'
    BY DEF BecomeDue, LogInv, NumbersAreNext, NumberFor, Stored, LogIsPast, RetriedStays, stateVars,
           storeVars, flushVars, publishVars, ghostVars
  <1>5. PublishedIsLogged' /\ StreamOrder'
    BY DEF BecomeDue, LogInv, PublishedIsLogged, StreamOrder, ghostVars
  <1>6. QED
    BY <1>1, <1>2, <1>3, <1>4, <1>5 DEF LogInv

------------------------------------------------------------------------------
(* Direct publications.                                                      *)

LEMMA DirectNumberKeeps ==
  ASSUME RealtimeInv, NEW d \in DirectKeys, DirectNumber(d)
  PROVE  RealtimeInv'
  <1> USE DEF RealtimeInv
  <1>1. /\ pPc[d] = "idle" /\ seqLock = None /\ last < MaxSeq
        /\ seqLock' = d
        /\ pSeq' = [pSeq EXCEPT ![d] = NumberFor(d)]
        /\ pTries' = [pTries EXCEPT ![d] = @ + 1]
        /\ pPc' = [pPc EXCEPT ![d] = "numbered"]
        /\ UNCHANGED <<txVars, outboxVars, stateVars, storeVars, flushVars, ghostVars, boundVars>>
    BY DEF DirectNumber, SequenceFree
  <1>2. \A c \in DirectKeys : /\ pPc'[c] = (IF c = d THEN "numbered" ELSE pPc[c])
                              /\ pSeq'[c] = (IF c = d THEN NumberFor(d) ELSE pSeq[c])
                              /\ pTries'[c] = (IF c = d THEN pTries[d] + 1 ELSE pTries[c])
    BY <1>1 DEF TypeOK
  <1>3. pTries[d] \in Nat /\ pTries[d] < MaxTries /\ MaxTries \in Nat
    BY <1>1, BoundAssumption DEF LogInv, NumbersAreNext, TypeOK
  <1>4. TypeOK'
    <2>1. NumberFor(d) \in Nat
      BY DEF NumberFor, TypeOK
    <2>2. pTries' \in [DirectKeys -> 0 .. MaxTries]
      BY <1>1, <1>3 DEF TypeOK
    <2>3. pSeq' \in [DirectKeys -> Nat]
      BY <1>1, <2>1 DEF TypeOK
    <2>4. QED
      BY <1>1, <2>2, <2>3 DEF TypeOK, txVars, outboxVars, stateVars, storeVars, flushVars, ghostVars,
                              boundVars
  <1>5. EnqueueInv'
    BY <1>1, QuietEnqueues DEF outboxVars
  <1>6. NumbersAreNext'
    <2>1. UNCHANGED <<last, log, fPc, fSeq>>
      BY <1>1 DEF stateVars, storeVars, flushVars
    <2>2. NumberFor(d)' = NumberFor(d) /\ \A c \in DirectKeys : NumberFor(c)' = NumberFor(c)
      BY <2>1 DEF NumberFor, Stored
    <2>3. (\A g \in Flushers : fPc[g] # "numbered") /\ (\A c \in DirectKeys : pPc[c] # "numbered")
      BY <1>1, NoneAssumption DEF LogInv, NumbersAreNext, Keys
    <2>4. \A g \in Flushers : g # d
      BY HolderAssumption
    <2>5. /\ last' <= MaxSeq
          /\ \A f \in Flushers :
                 /\ fPc'[f] = "numbered" <=> seqLock' = f
                 /\ fPc'[f] = "numbered" => fSeq'[f] = last' + 1 /\ last' < MaxSeq
      BY <1>1, <2>1, <2>3, <2>4 DEF LogInv, NumbersAreNext
    <2>6. \A c \in DirectKeys :
              /\ pPc'[c] = "numbered" <=> seqLock' = c
              /\ pPc'[c] = "numbered" => pSeq'[c] = NumberFor(c)' /\ last' < MaxSeq
              /\ pPc'[c] = "idle" => pTries'[c] < MaxTries
      BY <1>1, <1>2, <2>1, <2>2, <2>3 DEF LogInv, NumbersAreNext
    <2>7. QED
      BY <2>5, <2>6 DEF NumbersAreNext
  <1>7. LogIsPast'
    BY <1>1 DEF LogInv, LogIsPast, stateVars, storeVars, ghostVars
  <1>8. RetriedStays'
    <2>1. UNCHANGED <<times, log, expired, corrupt>>
      BY <1>1 DEF storeVars, ghostVars
    <2>2. \A c \in DirectKeys : pPc'[c] \notin {"ok", "error"} => pPc[c] \notin {"ok", "error"}
      BY <1>1, <1>2
    <2>3. QED
      BY <2>1, <2>2 DEF LogInv, RetriedStays
  <1>9. PublishedIsLogged' /\ StreamOrder' /\ FlushesAreInTurn' /\ FlushesHoldRows'
    BY <1>1 DEF LogInv, PublishedIsLogged, StreamOrder, FlushesAreInTurn, FlushesHoldRows, outboxVars,
                ghostVars, flushVars
  <1>10. QED
    BY <1>4, <1>5, <1>6, <1>7, <1>8, <1>9 DEF LogInv

\* A direct publication that gives up its number.
LEMMA DirectErrorKeeps ==
  ASSUME RealtimeInv, NEW d \in DirectKeys, DirectError(d)
  PROVE  RealtimeInv'
  <1> USE DEF RealtimeInv
  <1>1. PICK next \in Retry(d) :
            /\ pPc[d] = "numbered" /\ faults' = faults + 1
            /\ seqLock' = None
            /\ pSeq' = [pSeq EXCEPT ![d] = 0]
            /\ pPc' = [pPc EXCEPT ![d] = next]
            /\ UNCHANGED <<txVars, outboxVars, stateVars, storeVars, flushVars, pTries, ghostVars,
                           corruptions>>
    BY DEF DirectError
  <1>2. next \in {"idle", "error"} /\ (next = "idle" => pTries[d] < MaxTries)
    BY DEF Retry
  <1>3. \A c \in DirectKeys : pPc'[c] = (IF c = d THEN next ELSE pPc[c])
    BY <1>1 DEF TypeOK
  <1>4. TypeOK'
    <2>1. {faults', corruptions'} \subseteq Nat
      <3>1. faults \in Nat /\ corruptions \in Nat
        BY DEF TypeOK
      <3>2. QED
        BY <1>1, <3>1
    <2>2. QED
      BY <1>1, <1>2, <2>1 DEF TypeOK, txVars, outboxVars, stateVars, storeVars, flushVars, ghostVars
  <1>5. EnqueueInv'
    BY <1>1, QuietEnqueues DEF outboxVars
  <1>6. NumbersAreNext'
    <2>1. UNCHANGED <<last, fPc, fSeq, pTries>>
      BY <1>1 DEF stateVars, flushVars
    <2>2. /\ \A g \in Flushers : fPc[g] # "numbered" /\ g # None
          /\ \A c \in DirectKeys : c # None /\ (pPc[c] = "numbered" => c = d)
      BY <1>1, NoneAssumption, HolderAssumption DEF LogInv, NumbersAreNext, Keys
    <2>3. QED
      BY <1>1, <1>2, <1>3, <2>1, <2>2 DEF LogInv, NumbersAreNext
  <1>7. LogIsPast'
    BY <1>1 DEF LogInv, LogIsPast, stateVars, storeVars, ghostVars
  <1>8. RetriedStays'
    <2>1. UNCHANGED <<times, log, expired, corrupt>>
      BY <1>1 DEF storeVars, ghostVars
    <2>2. \A c \in DirectKeys : pPc'[c] \notin {"ok", "error"} => pPc[c] \notin {"ok", "error"}
      BY <1>1, <1>3
    <2>3. QED
      BY <2>1, <2>2 DEF LogInv, RetriedStays
  <1>9. PublishedIsLogged' /\ StreamOrder' /\ FlushesAreInTurn' /\ FlushesHoldRows'
    BY <1>1 DEF LogInv, PublishedIsLogged, StreamOrder, FlushesAreInTurn, FlushesHoldRows, outboxVars,
                ghostVars, flushVars
  <1>10. QED
    BY <1>4, <1>5, <1>6, <1>7, <1>8, <1>9 DEF LogInv

\* A direct publication appends its event, or finds it in the log.
LEMMA DirectCommitKeeps ==
  ASSUME RealtimeInv, NEW d \in DirectKeys, NEW answered \in BOOLEAN, DirectCommit(d, answered)
  PROVE  RealtimeInv'
  <1> USE DEF RealtimeInv
  <1>1. PICK next \in IF answered THEN {"ok"} ELSE Retry(d) :
            /\ pPc[d] = "numbered"
            /\ faults' \in {faults, faults + 1}
            /\ AppendEvent(d, pSeq[d])
            /\ seqLock' = None
            /\ pSeq' = [pSeq EXCEPT ![d] = 0]
            /\ pPc' = [pPc EXCEPT ![d] = next]
            /\ UNCHANGED <<txVars, outboxVars, prunedThrough, expired, corrupt, flushVars, pTries,
                           corruptions>>
    BY DEF DirectCommit
  <1>2. next \in {"ok", "idle", "error"} /\ (next = "idle" => pTries[d] < MaxTries)
    BY DEF Retry
  <1>3. /\ d \in Keys /\ d # None /\ d \notin OutboxKeys
        /\ pSeq[d] = NumberFor(d) /\ last < MaxSeq
        /\ last \in Nat /\ last + 1 \in Seqs
    BY <1>1, KeyAssumption, NoneAssumption, BoundAssumption DEF LogInv, NumbersAreNext, Keys, Seqs, TypeOK
  <1>4. \A c \in DirectKeys : pPc'[c] = (IF c = d THEN next ELSE pPc[c])
    BY <1>1 DEF TypeOK
  <1>5. {faults', corruptions'} \subseteq Nat
    <2>1. faults \in Nat /\ corruptions \in Nat
      BY DEF TypeOK
    <2>2. QED
      BY <1>1, <2>1
  <1>6. EnqueueInv'
    BY <1>1, QuietEnqueues DEF outboxVars
  <1>7. /\ \A g \in Flushers : fPc[g] # "numbered" /\ g # None
        /\ \A c \in DirectKeys : c # None /\ (pPc[c] = "numbered" => c = d)
    BY <1>1, NoneAssumption, HolderAssumption DEF LogInv, NumbersAreNext, Keys
  <1>8. FlushesAreInTurn' /\ FlushesHoldRows'
    BY <1>1 DEF LogInv, FlushesAreInTurn, FlushesHoldRows, outboxVars, flushVars
  <1>9. ASSUME last' \in Nat, last' <= MaxSeq PROVE NumbersAreNext'
    <2>1. UNCHANGED <<fPc, fSeq, pTries>>
      BY <1>1 DEF flushVars
    <2>2. QED
      <3>1. \A c \in DirectKeys : pPc'[c] # "numbered" /\ (pPc'[c] = "idle" => pTries'[c] < MaxTries)
        BY <1>2, <1>4, <1>7, <2>1 DEF LogInv, NumbersAreNext
      <3>2. QED
        BY <1>1, <1>7, <1>9, <2>1, <3>1 DEF NumbersAreNext
  <1>10. CASE Stored(d)
    <2>1. UNCHANGED <<last, log, seqOf, times>>
      BY <1>1, <1>3, <1>10 DEF AppendEvent, NumberFor
    <2>2. TypeOK'
      BY <1>1, <1>2, <1>5, <2>1 DEF TypeOK, txVars, outboxVars, flushVars
    <2>3. NumbersAreNext'
      <3>1. last' \in Nat /\ last' <= MaxSeq
        BY <1>3, <2>1 DEF LogInv, NumbersAreNext
      <3>2. QED
        BY <1>9, <3>1
    <2>4. LogIsPast'
      BY <1>1, <2>1 DEF LogInv, LogIsPast
    <2>5. RetriedStays'
      <3>1. \A c \in DirectKeys : pPc'[c] \notin {"ok", "error"} => pPc[c] \notin {"ok", "error"}
        BY <1>1, <1>4
      <3>2. QED
        BY <1>1, <2>1, <3>1 DEF LogInv, RetriedStays
    <2>6. PublishedIsLogged' /\ StreamOrder'
      BY <1>1, <2>1 DEF LogInv, PublishedIsLogged, StreamOrder, outboxVars
    <2>7. QED
      BY <1>6, <1>8, <2>2, <2>3, <2>4, <2>5, <2>6 DEF LogInv
  <1>11. CASE ~Stored(d)
    <2>1. /\ last' = last + 1
          /\ log' = [log EXCEPT ![last + 1] = d]
          /\ seqOf' = [seqOf EXCEPT ![d] = IF @ = 0 THEN last + 1 ELSE @]
          /\ times' = [times EXCEPT ![d] = @ + 1]
      BY <1>1, <1>3, <1>11 DEF AppendEvent, NumberFor
    <2>2. /\ \A s \in Seqs : log'[s] = (IF s = last + 1 THEN d ELSE log[s])
          /\ \A k \in Keys : /\ seqOf'[k] = (IF k = d /\ seqOf[k] = 0 THEN last + 1 ELSE seqOf[k])
                             /\ times'[k] = (IF k = d THEN times[k] + 1 ELSE times[k])
      BY <1>3, <2>1 DEF TypeOK
    <2>3. TypeOK'
      <3>1. prunedThrough' \in 0 .. last' /\ last' \in Nat
        BY <1>1, <1>3, <2>1 DEF TypeOK
      <3>2. log' \in [Seqs -> Keys \union {None}] /\ times' \in [Keys -> Nat]
        BY <1>3, <2>1 DEF TypeOK
      <3>3. seqOf' \in [Keys -> Nat]
        BY <1>3, <2>1 DEF TypeOK
      <3>4. QED
        BY <1>1, <1>2, <1>5, <3>1, <3>2, <3>3 DEF TypeOK, txVars, outboxVars, flushVars
    <2>4. NumbersAreNext'
      BY <1>3, <1>9, <2>1, BoundAssumption
    <2>5. LogIsPast'
      <3>1. expired' \union corrupt' \subseteq 1 .. last'
        BY <1>1, <1>3, <2>1 DEF LogInv, LogIsPast
      <3>2. \A k \in Keys : (times'[k] > 0 <=> seqOf'[k] > 0) /\ seqOf'[k] <= last'
        BY <1>3, <2>1, <2>2 DEF LogInv, LogIsPast, TypeOK
      <3>3. ASSUME NEW s \in Seqs, log'[s] # None
            PROVE  s <= last' /\ times'[log'[s]] > 0
        <4>1. CASE s = last + 1
          BY <1>3, <2>1, <2>2, <4>1 DEF TypeOK
        <4>2. CASE s # last + 1
          <5>1. log[s] \in Keys /\ s <= last /\ times[log[s]] > 0 /\ times[log[s]] \in Nat
            BY <2>2, <3>3, <4>2 DEF LogInv, LogIsPast, TypeOK
          <5>2. QED
            BY <1>3, <2>1, <2>2, <4>2, <5>1 DEF Seqs
        <4>3. QED
          BY <4>1, <4>2
      <3>4. QED
        BY <3>1, <3>2, <3>3 DEF LogIsPast
    <2>6. RetriedStays'
      <3> SUFFICES ASSUME NEW c \in DirectKeys, times'[c] > 0, pPc'[c] \notin {"ok", "error"}
                   PROVE  \E s \in Seqs : log'[s] = c /\ s \notin expired' \union corrupt'
        BY DEF RetriedStays
      <3>1. CASE c = d
        <4>1. last + 1 \notin expired' \union corrupt'
          BY <1>1, <1>3 DEF LogInv, LogIsPast
        <4>2. QED
          BY <1>3, <2>2, <3>1, <4>1
      <3>2. CASE c # d
        <4>1. c \in Keys /\ c # None
          BY NoneAssumption DEF Keys
        <4>2. PICK s \in Seqs : log[s] = c /\ s \notin expired \union corrupt
          BY <1>4, <2>2, <3>2, <4>1 DEF LogInv, RetriedStays
        <4>3. s # last + 1
          BY <1>3, <4>1, <4>2 DEF LogInv, LogIsPast, Seqs
        <4>4. QED
          BY <1>1, <2>2, <4>2, <4>3
      <3>3. QED
        BY <3>1, <3>2
    <2>7. PublishedIsLogged' /\ StreamOrder'
      <3>1. \A k \in OutboxKeys : seqOf'[k] = seqOf[k]
        BY <1>3, <2>2 DEF Keys
      <3>2. QED
        BY <1>1, <3>1 DEF LogInv, PublishedIsLogged, StreamOrder, outboxVars
    <2>8. QED
      BY <1>6, <1>8, <2>3, <2>4, <2>5, <2>6, <2>7 DEF LogInv
  <1>12. QED
    BY <1>10, <1>11

------------------------------------------------------------------------------
(* Retention and validation.                                                 *)

LEMMA SmallestOf ==
  ASSUME NEW S \in SUBSET Nat, S # {}
  PROVE  \E n \in S : \A m \in S : n <= m
  <1>1. \E n \in S : \A m \in S : ~(<<m, n>> \in OpToRel(<, Nat))
    BY WFMin, NatLessThanWellFounded, Zenon
  <1>2. PICK n \in S : \A m \in S : ~(<<m, n>> \in OpToRel(<, Nat))
    BY <1>1
  <1>3. \A m \in S : ~(m < n)
    BY <1>2 DEF OpToRel
  <1>4. QED
    BY <1>3

\* Highest finds the greatest of finitely many numbers.
LEMMA HighestOf ==
  ASSUME NEW n \in Nat, NEW S \in SUBSET (0 .. n), S # {}
  PROVE  Highest(S) \in S /\ \A t \in S : t <= Highest(S)
  <1> DEFINE D == {n - s : s \in S}
  <1>1. D \in SUBSET Nat /\ D # {}
    <2>1. \A s \in S : n - s \in Nat
      OBVIOUS
    <2>2. QED
      BY <2>1
  <1>2. PICK m \in D : \A x \in D : m <= x
    <2> HIDE DEF D
    <2> QED
      BY <1>1, SmallestOf
  <1>3. PICK h \in S : m = n - h
    OBVIOUS
  <1>4. ASSUME NEW t \in S PROVE t <= h
    <2>1. n - t \in D
      OBVIOUS
    <2>2. n - h <= n - t
      BY <1>2, <1>3, <2>1
    <2>3. QED
      BY <2>2
  <1>5. \E s \in S : \A t \in S : t <= s
    BY <1>4
  <1>6. QED
    BY <1>5 DEF Highest

\* A watermark is as high as pruning and expiry, and no higher.
LEMMA WatermarkOf ==
  ASSUME NEW n \in Nat, NEW p \in 0 .. n, NEW E \in SUBSET (1 .. n)
  PROVE  /\ Highest({p} \union E) \in 0 .. n
         /\ Highest({p} \union E) \in {p} \union E
         /\ \A s \in {p} \union E : s <= Highest({p} \union E)
  <1>1. {p} \union E \in SUBSET (0 .. n) /\ {p} \union E # {}
    OBVIOUS
  <1>2. QED
    BY <1>1, HighestOf

\* Steps after which a direct event is stored as soundly as before.
LEMMA RetentionKeeps ==
  ASSUME RealtimeInv, TypeOK',
         UNCHANGED <<txVars, outboxVars, seqLock, flushVars, publishVars, ghostVars>>,
         last' = last \/ (last' = last + 1 /\ last < MaxSeq),
         seqLock = None \/ UNCHANGED <<last, log>>,
         \A s \in Seqs : log'[s] \in {log[s], None},
         expired' \union corrupt' \subseteq 1 .. last',
         \A d \in DirectKeys, s \in Seqs :
             /\ pPc[d] \notin {"ok", "error"}
             /\ log[s] = d
             /\ s \notin expired \union corrupt
             => log'[s] = d /\ s \notin expired' \union corrupt'
  PROVE  RealtimeInv'
  <1> USE DEF RealtimeInv
  <1>1. EnqueueInv'
    BY QuietEnqueues DEF outboxVars
  <1>2. last \in Nat /\ last' \in Nat /\ last <= last' /\ last' <= MaxSeq
    BY BoundAssumption DEF TypeOK, LogInv, NumbersAreNext
  <1>3. FlushesHoldRows' /\ FlushesAreInTurn' /\ PublishedIsLogged' /\ StreamOrder'
    BY DEF LogInv, FlushesHoldRows, FlushesAreInTurn, PublishedIsLogged, StreamOrder, outboxVars,
           flushVars, ghostVars
  <1>4. NumbersAreNext'
    <2>1. UNCHANGED <<fPc, fSeq, pPc, pSeq, pTries>>
      BY DEF flushVars, publishVars
    <2>2. CASE seqLock = None
      <3>1. /\ \A g \in Flushers : g # None /\ fPc[g] # "numbered"
            /\ \A d \in DirectKeys : d # None /\ pPc[d] # "numbered"
        BY <2>2, NoneAssumption DEF LogInv, NumbersAreNext, Keys
      <3>2. \A d \in DirectKeys : pPc[d] = "idle" => pTries[d] < MaxTries
        BY DEF LogInv, NumbersAreNext
      <3>3. QED
        BY <1>2, <2>1, <2>2, <3>1, <3>2 DEF NumbersAreNext
    <2>3. CASE UNCHANGED <<last, log>>
      BY <2>1, <2>3 DEF LogInv, NumbersAreNext, NumberFor, Stored
    <2>4. QED
      BY <2>2, <2>3
  <1>5. LogIsPast'
    <2>1. UNCHANGED <<seqOf, times>>
      BY DEF ghostVars
    <2>2. ASSUME NEW s \in Seqs, log'[s] # None
          PROVE  s <= last' /\ times'[log'[s]] > 0
      <3>1. log'[s] = log[s] /\ s <= last /\ times[log[s]] > 0
        BY <2>2 DEF LogInv, LogIsPast
      <3>2. QED
        BY <1>2, <2>1, <3>1 DEF Seqs
    <2>3. \A k \in Keys : seqOf'[k] <= last' /\ (times'[k] > 0 <=> seqOf'[k] > 0)
      BY <1>2, <2>1 DEF LogInv, LogIsPast, TypeOK
    <2>4. QED
      BY <2>2, <2>3 DEF LogIsPast
  <1>6. RetriedStays'
    <2>1. UNCHANGED <<times, pPc>>
      BY DEF ghostVars, publishVars
    <2>2. QED
      BY <2>1 DEF LogInv, RetriedStays
  <1>7. QED
    BY <1>1, <1>3, <1>4, <1>5, <1>6 DEF LogInv

\* Expiry spares what is still being retried.
LEMMA ExpireKeeps ==
  ASSUME RealtimeInv, NEW s \in Seqs, Expire(s)
  PROVE  RealtimeInv'
  <1>1. s <= last
    BY DEF Expire, RealtimeInv, LogInv, LogIsPast
  <1>2. TypeOK'
    BY DEF Expire, RealtimeInv, TypeOK, txVars, outboxVars, stateVars, flushVars, publishVars, ghostVars,
           boundVars
  <1>3. expired' \union corrupt' \subseteq 1 .. last'
    BY <1>1 DEF Expire, RealtimeInv, LogInv, LogIsPast, stateVars, Seqs, TypeOK
  <1>4. QED
    BY <1>2, <1>3, RetentionKeeps DEF Expire, Settled, stateVars

LEMMA CorruptKeeps ==
  ASSUME RealtimeInv, NEW s \in Seqs, Corrupt(s)
  PROVE  RealtimeInv'
  <1>1. s <= last
    BY DEF Corrupt, RealtimeInv, LogInv, LogIsPast
  <1>2. TypeOK'
    <2>1. {faults', corruptions'} \subseteq Nat
      <3>1. faults \in Nat /\ corruptions \in Nat
        BY DEF RealtimeInv, TypeOK
      <3>2. QED
        BY <3>1 DEF Corrupt
    <2>2. QED
      BY <2>1 DEF Corrupt, RealtimeInv, TypeOK, txVars, outboxVars, stateVars, flushVars, publishVars,
                  ghostVars
  <1>3. expired' \union corrupt' \subseteq 1 .. last'
    BY <1>1 DEF Corrupt, RealtimeInv, LogInv, LogIsPast, stateVars, Seqs, TypeOK
  <1>4. QED
    BY <1>2, <1>3, RetentionKeeps DEF Corrupt, Settled, stateVars

\* What is stored of an event that is not retried may be deleted.
LEMMA RemedyKeeps ==
  ASSUME RealtimeInv, NEW s \in Seqs, Remedy(s)
  PROVE  RealtimeInv'
  <1>1. /\ seqLock = None /\ last < MaxSeq
        /\ log' = [log EXCEPT ![s] = None]
        /\ last' = last + 1 /\ prunedThrough' = last + 1
        /\ log[s] = None \/ s \in corrupt
        /\ UNCHANGED <<txVars, outboxVars, seqLock, expired, corrupt, flushVars, publishVars,
                       ghostVars, boundVars>>
    BY DEF Remedy, SequenceFree, Missing, Unreadable
  <1>2. TypeOK'
    <2>1. last \in Nat /\ last' \in Nat /\ prunedThrough' \in 0 .. last'
      BY <1>1 DEF RealtimeInv, TypeOK
    <2>2. log' \in [Seqs -> Keys \union {None}]
      BY <1>1 DEF RealtimeInv, TypeOK
    <2>3. QED
      BY <1>1, <2>1, <2>2 DEF RealtimeInv, TypeOK, txVars, outboxVars, flushVars, publishVars, ghostVars,
                              boundVars
  <1>3. \A r \in Seqs : log'[r] = (IF r = s THEN None ELSE log[r])
    BY <1>1 DEF RealtimeInv, TypeOK
  <1>4. expired' \union corrupt' \subseteq 1 .. last'
    BY <1>1 DEF RealtimeInv, LogInv, LogIsPast, TypeOK
  <1>5. \A d \in DirectKeys : d # None
    BY NoneAssumption DEF Keys
  <1>6. QED
    BY <1>1, <1>2, <1>3, <1>4, <1>5, RetentionKeeps

\* Pruning deletes expired events, behind the watermark it raises.
LEMMA PruneRaises ==
  ASSUME RealtimeInv, Prune
  PROVE  /\ prunedThrough' \in 0 .. last
         /\ prunedThrough <= prunedThrough'
         /\ \A s \in PruneSet : s <= prunedThrough'
  <1>1. PruneSet \subseteq 1 .. last /\ PruneSet # {} /\ last \in Nat
    BY DEF Prune, PruneSet, Expired, RealtimeInv, LogInv, LogIsPast, TypeOK
  <1>2. Highest(PruneSet) \in PruneSet /\ \A s \in PruneSet : s <= Highest(PruneSet)
    <2>1. PruneSet \in SUBSET (0 .. last)
      BY <1>1
    <2>2. QED
      BY <1>1, <2>1, HighestOf
  <1>3. prunedThrough' = Raised(Highest(PruneSet)) /\ prunedThrough \in 0 .. last
    BY DEF Prune, RealtimeInv, TypeOK
  <1>4. Highest(PruneSet) \in 1 .. last /\ \A s \in PruneSet : s \in Int
    <2>1. \A s \in PruneSet : s \in 1 .. last
      BY <1>1
    <2>2. \A s \in 1 .. last : s \in Int
      BY <1>1
    <2>3. QED
      BY <1>2, <2>1, <2>2, Zenon
  <1> DEFINE h == Highest(PruneSet)
  <1>5. h \in 1 .. last /\ prunedThrough' = Raised(h) /\ \A s \in PruneSet : s <= h
    BY <1>2, <1>3, <1>4
  <1> HIDE DEF h
  <1>6. prunedThrough' = IF prunedThrough < h THEN h ELSE prunedThrough
    BY <1>5 DEF Raised
  <1>7. QED
    BY <1>1, <1>3, <1>4, <1>5, <1>6

LEMMA PruneKeeps ==
  ASSUME RealtimeInv, Prune
  PROVE  RealtimeInv'
  <1>1. /\ seqLock = None
        /\ log' = [s \in Seqs |-> IF s \in PruneSet THEN None ELSE log[s]]
        /\ UNCHANGED <<txVars, outboxVars, last, seqLock, expired, corrupt, flushVars, publishVars,
                       ghostVars, boundVars>>
    BY DEF Prune, SequenceFree
  <1>2. \A s \in PruneSet : s \in expired
    BY DEF PruneSet, Expired
  <1>3. TypeOK'
    <2>1. prunedThrough' \in 0 .. last'
      BY <1>1, PruneRaises
    <2>2. log' \in [Seqs -> Keys \union {None}]
      BY <1>1 DEF RealtimeInv, TypeOK
    <2>3. QED
      BY <1>1, <2>1, <2>2 DEF RealtimeInv, TypeOK, txVars, outboxVars, flushVars, publishVars, ghostVars,
                              boundVars
  <1>4. \A s \in Seqs : log'[s] = (IF s \in PruneSet THEN None ELSE log[s])
    BY <1>1
  <1>5. expired' \union corrupt' \subseteq 1 .. last'
    BY <1>1 DEF RealtimeInv, LogInv, LogIsPast
  <1>6. QED
    BY <1>1, <1>2, <1>3, <1>4, <1>5, RetentionKeeps

------------------------------------------------------------------------------
(* The invariant, and what follows from it.                                  *)

LEMMA InitRealtime == Init => RealtimeInv
  <1> SUFFICES ASSUME Init PROVE RealtimeInv
    OBVIOUS
  <1> USE DEF Init
  <1>1. TypeOK
    BY BoundAssumption DEF TypeOK, OutboxStates, Seqs
  <1>2. Enqueued = {} /\ \A s \in Streams : RowsOf(s) = {} /\ OpenIn(s) = {}
    BY DEF Enqueued, RowsOf, OpenIn
  <1>3. Cardinality({}) = 0 /\ IsFiniteSet({})
    BY FS_EmptySet
  <1>4. EnqueueInv
    <2>1. OutboxIsFinite /\ EnqueuersAreAlone /\ OpenRowsAreLocked
      BY <1>2, <1>3 DEF OutboxIsFinite, EnqueuersAreAlone, OpenRowsAreLocked
    <2>2. OrdinalsAreCounted
      <3>1. ASSUME NEW s \in Streams PROVE nextOrdinal[s] = Cardinality(RowsOf(s)) + 1
        <4>1. Cardinality(RowsOf(s)) = 0 /\ nextOrdinal[s] = 1
          BY <1>2, <1>3
        <4>2. QED
          BY <4>1
      <3>2. \A k \in OutboxKeys : oOrdinal[k] = 0
        OBVIOUS
      <3>3. \A s \in Streams : \A k \in RowsOf(s) : FALSE
        BY <1>2
      <3>4. QED
        BY <3>1, <3>2, <3>3, Zenon DEF OrdinalsAreCounted
    <2>3. QED
      BY <2>1, <2>2 DEF EnqueueInv
  <1>5. LogInv
    <2>1. FlushesHoldRows /\ FlushesAreInTurn
      BY NoneAssumption DEF FlushesHoldRows, FlushesAreInTurn
    <2>2. NumbersAreNext
      BY NoneAssumption, BoundAssumption DEF NumbersAreNext, Keys
    <2>3. LogIsPast
      BY DEF LogIsPast
    <2>4. RetriedStays /\ PublishedIsLogged /\ StreamOrder
      BY DEF RetriedStays, PublishedIsLogged, StreamOrder, Keys
    <2>5. QED
      BY <2>1, <2>2, <2>3, <2>4 DEF LogInv
  <1>6. QED
    BY <1>1, <1>4, <1>5 DEF RealtimeInv

LEMMA StutterKeeps ==
  ASSUME RealtimeInv, UNCHANGED vars
  PROVE  RealtimeInv'
  <1> USE DEF vars, txVars, outboxVars, stateVars, storeVars, flushVars, publishVars, ghostVars, boundVars
  <1>1. TypeOK'
    BY DEF RealtimeInv, TypeOK
  <1>2. EnqueueInv'
    BY QuietEnqueues DEF RealtimeInv
  <1>3. LogInv'
    BY QuietLog
  <1>4. QED
    BY <1>1, <1>2, <1>3 DEF RealtimeInv

LEMMA NextRealtime == RealtimeInv /\ [Next]_vars => RealtimeInv'
  <1> SUFFICES ASSUME RealtimeInv, [Next]_vars PROVE RealtimeInv'
    OBVIOUS
  <1>1. ASSUME NEW t \in Txs, TxStep(t) PROVE RealtimeInv'
    BY <1>1, AskKeeps, LockKeeps, EnqueueKeeps, CommitKeeps, RollbackKeeps DEF TxStep
  <1>2. ASSUME NEW f \in Flushers, FlushStep(f) PROVE RealtimeInv'
    BY <1>2, SelectKeeps, NumberKeeps, PublishKeeps, MarkFailedKeeps DEF FlushStep
  <1>3. ASSUME NEW f \in Flushers, FaultStep(f) PROVE RealtimeInv'
    BY <1>3, PublishKeeps, FlushErrorKeeps, CrashKeeps DEF FaultStep
  <1>4. ASSUME NEW d \in DirectKeys, DirectStep(d) PROVE RealtimeInv'
    BY <1>4, DirectNumberKeeps, DirectCommitKeeps DEF DirectStep
  <1>5. ASSUME NEW d \in DirectKeys, DirectFault(d) PROVE RealtimeInv'
    BY <1>5, DirectCommitKeeps, DirectErrorKeeps DEF DirectFault
  <1>6. ASSUME NEW s \in Seqs, Expire(s) \/ Corrupt(s) \/ Remedy(s) PROVE RealtimeInv'
    BY <1>6, ExpireKeeps, CorruptKeeps, RemedyKeeps
  <1>7. CASE Next
    BY <1>1, <1>2, <1>3, <1>4, <1>5, <1>6, <1>7, BecomeDueKeeps, PruneKeeps DEF Next
  <1>8. CASE UNCHANGED vars
    BY <1>8, StutterKeeps
  <1>9. QED
    BY <1>7, <1>8

LEMMA RealtimeInvHolds == Spec => []RealtimeInv
  BY InitRealtime, NextRealtime, PTL DEF Spec

\* Type correctness of the enqueues, the flushes, the direct publications and the log.
THEOREM LogTypes == Spec => []TypeOK
  <1>1. RealtimeInv => TypeOK
    BY DEF RealtimeInv
  <1>2. QED
    BY <1>1, RealtimeInvHolds, PTL

\* Business transactions that publish in any number of streams, in any order,
\* never wait for each other's stream rows in a circle of two.
THEOREM EnqueuesDoNotDeadlock == Spec => []NoLockCycle
  <1>1. RealtimeInv => NoLockCycle
    BY DEF RealtimeInv, EnqueueInv, EnqueuersAreAlone, NoLockCycle, WaitsFor
  <1>2. QED
    BY <1>1, RealtimeInvHolds, PTL

\* However transactions enqueue, commit and roll back, a stream's ordinals are
\* 1, 2, 3 and so on: no row ever waits for a predecessor that was rolled back.
THEOREM OrdinalsHaveNoGaps == Spec => []OrdinalsAreDense
  <1>1. RealtimeInv => OrdinalsAreDense
    <2> SUFFICES ASSUME RealtimeInv, NEW s \in Streams
                 PROVE  {oOrdinal[k] : k \in RowsOf(s)} = 1 .. Cardinality(RowsOf(s))
      BY DEF OrdinalsAreDense, RowsOf
    <2> DEFINE n == Cardinality(RowsOf(s))
               number == [k \in RowsOf(s) |-> oOrdinal[k]]
    <2>1. n \in Nat /\ IsFiniteSet(RowsOf(s)) /\ nextOrdinal[s] = n + 1
      BY StreamsAreFinite DEF RealtimeInv, EnqueueInv, OrdinalsAreCounted
    <2>2. IsFiniteSet(1 .. n) /\ Cardinality(1 .. n) = n
      <3> HIDE DEF n
      <3> QED
        BY <2>1, FS_Interval
    <2>3. \A k \in RowsOf(s) : oOrdinal[k] \in 1 .. n
      <3> HIDE DEF n
      <3>1. \A k \in RowsOf(s) : oOrdinal[k] \in 1 .. nextOrdinal[s] - 1
        BY DEF RealtimeInv, EnqueueInv, OrdinalsAreCounted
      <3>2. nextOrdinal[s] - 1 = n
        BY <2>1
      <3>3. QED
        BY <3>1, <3>2
    <2>4. number \in Injection(RowsOf(s), 1 .. n)
      <3>1. number \in [RowsOf(s) -> 1 .. n]
        BY <2>3
      <3>2. \A j, k \in RowsOf(s) : oOrdinal[j] = oOrdinal[k] => j = k
        BY DEF RealtimeInv, EnqueueInv, OrdinalsAreCounted
      <3>3. IsInjective(number)
        BY <3>2 DEF IsInjective
      <3>4. QED
        BY <3>1, <3>3 DEF Injection
    <2>5. number \in Surjection(RowsOf(s), 1 .. n)
      <3> HIDE DEF number, n
      <3> QED
        BY <2>1, <2>2, <2>4, FS_Injection DEF n
    <2>6. \A i \in 1 .. n : \E k \in RowsOf(s) : oOrdinal[k] = i
      BY <2>5 DEF Surjection
    <2>7. QED
      BY <2>3, <2>6
  <1>2. QED
    BY <1>1, RealtimeInvHolds, PTL

\* Whatever crashes, errors and retries a flush meets, the events of a stream
\* are logged in the order of their ordinals.
THEOREM LogFollowsStreams == Spec => []StreamOrder
  <1>1. RealtimeInv => StreamOrder
    BY DEF RealtimeInv, LogInv
  <1>2. QED
    BY <1>1, RealtimeInvHolds, PTL

\* An outbox row is marked PUBLISHED if and only if its event is logged.
THEOREM LogAgreesWithOutbox == Spec => []PublishedIsLogged
  <1>1. RealtimeInv => PublishedIsLogged
    BY DEF RealtimeInv, LogInv
  <1>2. QED
    BY <1>1, RealtimeInvHolds, PTL

------------------------------------------------------------------------------
(* The contract of the log.                                                  *)

Logged == {k \in Keys : times[k] > 0}

LEMMA ContractInit == Init => Contract!Init
  <1> SUFFICES ASSUME Init PROVE Contract!Init
    OBVIOUS
  <1>1. Expired = {} /\ prunedThrough = 0
    BY DEF Init, Expired
  <1>2. Watermark = 0
    <2>1. Highest({0}) = 0
      BY DEF Highest
    <2>2. QED
      BY <1>1, <2>1 DEF Watermark
  <1>3. QED
    BY <1>2 DEF Init, Contract!Init

LEMMA WatermarkBounds ==
  ASSUME RealtimeInv
  PROVE  /\ Expired \in SUBSET (1 .. last) /\ last \in Nat /\ prunedThrough \in 0 .. last
         /\ Watermark \in 0 .. last
         /\ Watermark \in {prunedThrough} \union Expired
         /\ \A s \in {prunedThrough} \union Expired : s <= Watermark
  <1>1. Expired \in SUBSET (1 .. last) /\ last \in Nat /\ prunedThrough \in 0 .. last
    BY DEF RealtimeInv, LogInv, LogIsPast, TypeOK, Expired
  <1>2. QED
    BY <1>1, WatermarkOf DEF Watermark

LEMMA WatermarkBoundsNext ==
  ASSUME RealtimeInv'
  PROVE  /\ Expired' \in SUBSET (1 .. last') /\ last' \in Nat /\ prunedThrough' \in 0 .. last'
         /\ Watermark' \in 0 .. last'
         /\ Watermark' \in {prunedThrough'} \union Expired'
         /\ \A s \in {prunedThrough'} \union Expired' : s <= Watermark'
  <1>1. Expired' \in SUBSET (1 .. last') /\ last' \in Nat /\ prunedThrough' \in 0 .. last'
    BY DEF RealtimeInv, LogInv, LogIsPast, TypeOK, Expired
  <1>2. QED
    BY <1>1, WatermarkOf DEF Watermark

LEMMA ContractStutter ==
  ASSUME UNCHANGED <<last, log, times, prunedThrough, expired>>
  PROVE  UNCHANGED Contract!logVars
  BY DEF Contract!logVars, Watermark, Expired

\* A step that appends an event under the next number.
LEMMA ContractAppend ==
  ASSUME RealtimeInv, NEW k \in Keys, times[k] = 0, last + 1 \in Seqs,
         last' = last + 1,
         log' = [log EXCEPT ![last + 1] = k],
         times' = [times EXCEPT ![k] = @ + 1],
         UNCHANGED <<prunedThrough, expired>>
  PROVE  Contract!Next
  <1>1. Logged' = Logged \union {k} /\ k \notin Logged
    BY DEF Logged, RealtimeInv, TypeOK
  <1>2. Expired' = Expired
    <2>1. \A s \in Seqs : s # last + 1 => log'[s] = log[s]
      BY DEF RealtimeInv, TypeOK
    <2>2. last + 1 \notin expired /\ expired \subseteq Seqs
      BY DEF RealtimeInv, LogInv, LogIsPast, TypeOK
    <2>3. QED
      BY <2>1, <2>2 DEF Expired
  <1>3. Contract!Append(k)
    BY <1>1, <1>2 DEF Contract!Append, Logged, Watermark
  <1>4. QED
    BY <1>3 DEF Contract!Next

LEMMA ContractDirectCommit ==
  ASSUME RealtimeInv, NEW d \in DirectKeys, NEW answered \in BOOLEAN, DirectCommit(d, answered)
  PROVE  Contract!Next \/ UNCHANGED Contract!logVars
  <1>1. /\ pPc[d] = "numbered" /\ AppendEvent(d, pSeq[d])
        /\ UNCHANGED <<prunedThrough, expired>>
    BY DEF DirectCommit
  <1>2. pSeq[d] = NumberFor(d) /\ last \in Nat /\ last + 1 \in Seqs /\ last + 1 # 0 /\ d \in Keys
    BY <1>1, BoundAssumption DEF RealtimeInv, LogInv, NumbersAreNext, TypeOK, Seqs, Keys
  <1>3. CASE Stored(d)
    <2>1. UNCHANGED <<last, log, times>>
      BY <1>1, <1>2, <1>3 DEF AppendEvent, NumberFor
    <2>2. QED
      BY <1>1, <2>1, ContractStutter
  <1>4. CASE ~Stored(d)
    <2>1. times[d] = 0
      BY <1>1, <1>2, <1>4 DEF RealtimeInv, LogInv, RetriedStays, Stored, TypeOK
    <2>2. /\ last' = last + 1
          /\ log' = [log EXCEPT ![last + 1] = d]
          /\ times' = [times EXCEPT ![d] = @ + 1]
      BY <1>1, <1>2, <1>4 DEF AppendEvent, NumberFor
    <2>3. QED
      BY <1>1, <1>2, <2>1, <2>2, ContractAppend
  <1>5. QED
    BY <1>3, <1>4

LEMMA ContractPublish ==
  ASSUME RealtimeInv, RealtimeInv', NEW f \in Flushers, NEW answered \in BOOLEAN, Publish(f, answered)
  PROVE  Contract!Next
  <1> PICK k : k = fKey[f]
    OBVIOUS
  <1>1. /\ fPc[f] = "numbered" /\ UNCHANGED expired
        /\ k \in Poisoned => last' = fSeq[f] /\ prunedThrough' = fSeq[f] /\ UNCHANGED <<log, ghostVars>>
        /\ k \notin Poisoned => AppendEvent(k, fSeq[f]) /\ UNCHANGED prunedThrough
    BY DEF Publish
  <1>2. /\ k \in OutboxKeys /\ k \in Keys /\ oState[k] \in Waiting
        /\ fSeq[f] = last + 1 /\ last \in Nat /\ last + 1 \in Seqs /\ last + 1 # 0
    BY <1>1, BoundAssumption
       DEF RealtimeInv, LogInv, FlushesHoldRows, NumbersAreNext, TypeOK, Seqs, Keys
  <1>3. CASE k \notin Poisoned
    <2>1. times[k] = 0
      BY <1>2, WaitingIsNotStored
    <2>2. /\ last' = last + 1
          /\ log' = [log EXCEPT ![last + 1] = k]
          /\ times' = [times EXCEPT ![k] = @ + 1]
      BY <1>1, <1>2, <1>3 DEF AppendEvent
    <2>3. QED
      BY <1>1, <1>2, <1>3, <2>1, <2>2, ContractAppend
  <1>4. CASE k \in Poisoned
    <2>1. last' = last + 1 /\ prunedThrough' = last + 1 /\ UNCHANGED <<log, times>>
      BY <1>1, <1>2, <1>4 DEF ghostVars
    <2>2. Watermark' = last'
      BY <2>1, WatermarkBoundsNext
    <2>3. Watermark' \in Watermark .. last'
      BY <2>1, <2>2, WatermarkBounds
    <2>4. Contract!Forget
      <3>1. DOMAIN log' = Seqs /\ \A s \in Seqs : log'[s] = log[s]
        BY <2>1 DEF RealtimeInv, TypeOK
      <3>2. QED
        BY <2>1, <2>2, <2>3, <3>1 DEF Contract!Forget
    <2>5. QED
      BY <2>4 DEF Contract!Next
  <1>5. QED
    BY <1>3, <1>4

LEMMA ContractExpire ==
  ASSUME RealtimeInv, RealtimeInv', NEW s \in Seqs, Expire(s)
  PROVE  Contract!Next
  <1>1. expired' = expired \union {s} /\ UNCHANGED <<last, log, times, prunedThrough>>
    BY DEF Expire, stateVars, ghostVars
  <1>2. Expired \subseteq Expired'
    BY <1>1 DEF Expired
  <1>3. Watermark' \in Watermark .. last'
    BY <1>1, <1>2, WatermarkBounds, WatermarkBoundsNext
  <1>4. DOMAIN log' = Seqs /\ \A r \in Seqs : log'[r] = log[r]
    BY <1>1 DEF RealtimeInv, TypeOK
  <1>5. Contract!Forget
    BY <1>1, <1>3, <1>4 DEF Contract!Forget
  <1>6. QED
    BY <1>5 DEF Contract!Next

LEMMA ContractPrune ==
  ASSUME RealtimeInv, RealtimeInv', Prune
  PROVE  Contract!Next
  <1>1. /\ log' = [s \in Seqs |-> IF s \in PruneSet THEN None ELSE log[s]]
        /\ UNCHANGED <<last, times, expired>>
    BY DEF Prune, ghostVars
  <1>2. Expired \subseteq Expired' \union PruneSet
    BY <1>1 DEF Expired, RealtimeInv, TypeOK
  <1>3. /\ prunedThrough' \in 0 .. last
        /\ prunedThrough <= prunedThrough'
        /\ \A s \in PruneSet : s <= prunedThrough'
    BY PruneRaises
  <1>4. \A s \in PruneSet : s <= Watermark' /\ s \in Int
    <2>1. PruneSet \subseteq 1 .. last
      BY WatermarkBounds DEF PruneSet
    <2>2. QED
      BY <1>3, <2>1, WatermarkBounds, WatermarkBoundsNext
  <1>5. Watermark <= Watermark'
    <2>1. CASE Watermark = prunedThrough
      BY <1>3, <2>1, WatermarkBounds, WatermarkBoundsNext
    <2>2. CASE Watermark \in Expired
      BY <1>2, <1>4, <2>2, WatermarkBoundsNext
    <2>3. QED
      BY <2>1, <2>2, WatermarkBounds
  <1>6. Watermark' \in Watermark .. last'
    BY <1>5, WatermarkBounds, WatermarkBoundsNext
  <1>7. \A s \in Seqs : log'[s] = log[s] \/ (s <= Watermark' /\ log'[s] = None)
    BY <1>1, <1>4
  <1>8. Contract!Forget
    BY <1>1, <1>6, <1>7 DEF Contract!Forget
  <1>9. QED
    BY <1>8 DEF Contract!Next

LEMMA ContractRemedy ==
  ASSUME RealtimeInv, RealtimeInv', NEW s \in Seqs, Remedy(s)
  PROVE  Contract!Next
  <1>1. /\ log' = [log EXCEPT ![s] = None]
        /\ last' = last + 1 /\ prunedThrough' = last + 1 /\ s \in 1 .. last
        /\ UNCHANGED <<times, expired>>
    <2>1. s \in Watermark + 1 .. last
      BY DEF Remedy, Missing, Unreadable
    <2>2. s \in 1 .. last
      BY <2>1, WatermarkBounds
    <2>3. QED
      BY <2>2 DEF Remedy, ghostVars
  <1>2. Watermark' = last' /\ Watermark' \in Watermark .. last'
    BY <1>1, WatermarkBounds, WatermarkBoundsNext
  <1>3. /\ DOMAIN log' = Seqs
        /\ \A r \in Seqs : log'[r] = log[r] \/ (r <= Watermark' /\ log'[r] = None)
    <2>1. s <= Watermark'
      BY <1>1, <1>2, WatermarkBounds
    <2>2. QED
      BY <1>1, <2>1 DEF RealtimeInv, TypeOK
  <1>4. Contract!Forget
    BY <1>1, <1>2, <1>3 DEF Contract!Forget
  <1>5. QED
    BY <1>4 DEF Contract!Next

LEMMA ContractStep ==
  RealtimeInv /\ RealtimeInv' /\ [Next]_vars => [Contract!Next]_(Contract!logVars)
  <1> SUFFICES ASSUME RealtimeInv, RealtimeInv', [Next]_vars
               PROVE  Contract!Next \/ UNCHANGED Contract!logVars
    OBVIOUS
  <1> USE DEF stateVars, storeVars, ghostVars
  <1>1. ASSUME NEW t \in Txs, TxStep(t) PROVE UNCHANGED Contract!logVars
    BY <1>1, ContractStutter DEF TxStep, Ask, Lock, Enqueue, Commit, Rollback
  <1>2. ASSUME NEW f \in Flushers, FlushStep(f) PROVE Contract!Next \/ UNCHANGED Contract!logVars
    <2>1. CASE (\E k \in OutboxKeys : Select(f, k)) \/ Number(f) \/ MarkFailed(f)
      BY <2>1, ContractStutter DEF Select, Number, MarkFailed
    <2>2. CASE Publish(f, TRUE)
      BY <2>2, ContractPublish
    <2>3. QED
      BY <1>2, <2>1, <2>2 DEF FlushStep
  <1>3. ASSUME NEW f \in Flushers, FaultStep(f) PROVE Contract!Next \/ UNCHANGED Contract!logVars
    <2>1. CASE FlushError(f) \/ Crash(f)
      BY <2>1, ContractStutter DEF FlushError, Crash
    <2>2. CASE Publish(f, FALSE)
      BY <2>2, ContractPublish
    <2>3. QED
      BY <1>3, <2>1, <2>2 DEF FaultStep
  <1>4. ASSUME NEW d \in DirectKeys, DirectStep(d) \/ DirectFault(d)
        PROVE  Contract!Next \/ UNCHANGED Contract!logVars
    <2>1. CASE DirectNumber(d) \/ DirectError(d)
      BY <2>1, ContractStutter DEF DirectNumber, DirectError
    <2>2. ASSUME NEW answered \in BOOLEAN, DirectCommit(d, answered)
          PROVE  Contract!Next \/ UNCHANGED Contract!logVars
      BY <2>2, ContractDirectCommit
    <2>3. QED
      BY <1>4, <2>1, <2>2 DEF DirectStep, DirectFault
  <1>5. ASSUME NEW k \in OutboxKeys, BecomeDue(k) PROVE UNCHANGED Contract!logVars
    BY <1>5, ContractStutter DEF BecomeDue
  <1>6. ASSUME NEW s \in Seqs, Expire(s) \/ Corrupt(s) \/ Remedy(s)
        PROVE  Contract!Next \/ UNCHANGED Contract!logVars
    <2>1. CASE Expire(s)
      BY <2>1, ContractExpire
    <2>2. CASE Corrupt(s)
      BY <2>2, ContractStutter DEF Corrupt
    <2>3. CASE Remedy(s)
      BY <2>3, ContractRemedy
    <2>4. QED
      BY <1>6, <2>1, <2>2, <2>3
  <1>7. CASE Next
    BY <1>1, <1>2, <1>3, <1>4, <1>5, <1>6, <1>7, ContractPrune DEF Next
  <1>8. CASE UNCHANGED vars
    BY <1>8, ContractStutter DEF vars
  <1>9. QED
    BY <1>7, <1>8

\* The enqueues, flushes, retries, quarantines, expiry, pruning and remedies
\* together keep the promises of the event log: consecutive numbers, each key
\* logged once, and nothing missing above the watermark.
THEOREM LogImplementsContract == Spec => ImplementsEventLog
  BY ContractInit, ContractStep, RealtimeInvHolds, PTL DEF Spec, ImplementsEventLog, Contract!Spec
=============================================================================
