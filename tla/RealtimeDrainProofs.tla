------------------------- MODULE RealtimeDrainProofs -------------------------
(* Proofs about RealtimeDrain, for any sockets, streams, events, page sizes, *)
(* barriers, expiries, faults and connections.                               *)
EXTENDS RealtimeDrain, FiniteSetTheorems, WellFoundedInduction, TLAPS

------------------------------------------------------------------------------
(* The strengthening: emissions.                                             *)

\* A stream is held by the dispatch or the replay that is under way in it.
StreamsAreHeld ==
    /\ dPc = "dispatch" => dRows # {} /\ queue[StreamOf[Record]] = Drain
    /\ \A s \in Streams : queue[s] = Drain => dPc = "dispatch" /\ StreamOf[Record] = s
    /\ \A c \in Sockets :
           sPc[c] = "emitting" => sRows[c] # {} /\ queue[StreamOf[NextRecord(c)]] = c
    /\ \A c \in Sockets, s \in Streams :
           queue[s] = c => sPc[c] = "emitting" /\ StreamOf[NextRecord(c)] = s

\* Whoever is about to get a record did not get it yet.
RecipientsAreNew ==
    /\ \A c \in dTodo : dPc = "dispatch" /\ emitted[c][Record] = 0
    /\ \A c \in Sockets : sPc[c] = "emitting" => emitted[c][NextRecord(c)] = 0

EmissionInv ==
    /\ StreamsAreHeld
    /\ RecipientsAreNew
    /\ NoDuplicateEmission

------------------------------------------------------------------------------
(* The strengthening: the cursor.                                            *)

\* What is read has no gaps, and the cursor has passed what lies before it.
ReadsAreComplete ==
    /\ \A s \in events : s > watermark => s \in stored
    /\ dPc = "select" => dFrom <= cursor /\ \A s \in events : s > dFrom => s \in stored
    /\ dPc \in {"loop", "dispatch"} =>
           /\ \A p, r \in dRows, s \in events : p < s /\ s < r => s \in dRows
           /\ dRows # {} => \A s \in events : (\A r \in dRows : s < r) => s <= cursor

Served(c, s) == emitted[c][s] > 0 \/ resynced[c] >= s

\* Event s is left to the live dispatch, as far as client c is concerned.
Waits(c, s) ==
    \/ sPc[c] = "live" /\ base[c] < s
    \/ sPc[c] \in {"replaying", "emitting"} /\ ~sGoal[c].more /\ sGoal[c].upTo < s

\* The live dispatch or a resynchronisation is done with event s and client c.
Passed(c, s) ==
    \/ s <= cursor
    \/ dPc = "dispatch" /\ s = Record /\ c \notin dTodo
    \/ rPc = "telling" /\ s <= rBarrier /\ c \notin rTodo

PassedIsServed ==
    \A c \in Sockets, s \in events : Waits(c, s) /\ Passed(c, s) => Served(c, s)

AcknowledgedIsServed ==
    \A c \in Sockets, s \in events : base[c] < s /\ s <= upTo[c] => Served(c, s)

\* What a replay will acknowledge is served or among the records left.
ReplaysAreComplete ==
    \A c \in Sockets, s \in events :
        sPc[c] \in {"replaying", "emitting"} /\ base[c] < s /\ s <= sGoal[c].upTo
            => Served(c, s) \/ s \in sRows[c]

ServiceInv ==
    /\ ReadsAreComplete
    /\ PassedIsServed
    /\ AcknowledgedIsServed
    /\ ReplaysAreComplete

DrainInv == TypeOK /\ EmissionInv /\ ServiceInv

------------------------------------------------------------------------------
(* Finite sets of numbers.                                                   *)

LEMMA SmallestOf ==
  ASSUME NEW S \in SUBSET Nat, S # {}
  PROVE  \E n \in S : \A m \in S : n <= m
  <1>1. \E n \in S : \A m \in S : ~(<<m, n>> \in OpToRel(<, Nat))
    BY WFMin, NatLessThanWellFounded, Zenon
  <1>2. PICK n \in S : \A m \in S : ~(<<m, n>> \in OpToRel(<, Nat))
    BY <1>1
  <1>3. \A m \in S : ~(m < n)
    BY <1>2 DEF OpToRel
  <1>4. QED
    BY <1>3

LEMMA LowestOf ==
  ASSUME NEW S \in SUBSET Nat, S # {}
  PROVE  Lowest(S) \in S /\ \A t \in S : Lowest(S) <= t
  BY SmallestOf DEF Lowest

LEMMA HighestOf ==
  ASSUME NEW n \in Nat, NEW S \in SUBSET (0 .. n), S # {}
  PROVE  Highest(S) \in S /\ \A t \in S : t <= Highest(S)
  <1> DEFINE D == {n - s : s \in S}
  <1>1. D \in SUBSET Nat /\ D # {}
    <2>1. \A s \in S : n - s \in Nat
      OBVIOUS
    <2>2. QED
      BY <2>1
  <1>2. PICK m \in D : \A x \in D : m <= x
    <2> HIDE DEF D
    <2> QED
      BY <1>1, SmallestOf
  <1>3. PICK h \in S : m = n - h
    OBVIOUS
  <1>4. ASSUME NEW t \in S PROVE t <= h
    <2>1. n - t \in D
      OBVIOUS
    <2>2. n - h <= n - t
      BY <1>2, <1>3, <2>1
    <2>3. QED
      BY <2>2
  <1>5. \E s \in S : \A t \in S : t <= s
    BY <1>4
  <1>6. QED
    BY <1>5 DEF Highest

\* A page of a read has no gaps.
LEMMA PageHasNoGaps ==
  ASSUME NEW n \in Nat, NEW S \in SUBSET (1 .. n)
  PROVE  /\ FirstOf(S) \subseteq S
         /\ \A s \in S, r \in FirstOf(S) : s <= r => s \in FirstOf(S)
  <1>1. IsFiniteSet(S) /\ \A s \in S : s \in Int
    <2>1. IsFiniteSet(1 .. n)
      BY FS_Interval
    <2>2. IsFiniteSet(S)
      BY <2>1, FS_Subset
    <2>3. QED
      BY <2>2
  <1>2. ASSUME NEW s \in S, NEW r \in FirstOf(S), s <= r
        PROVE  s \in FirstOf(S)
    <2> DEFINE A == {t \in S : t < s}
               B == {t \in S : t < r}
    <2>1. A \in SUBSET B /\ B \in SUBSET S
      <3>1. r \in S
        BY DEF FirstOf
      <3>2. \A t \in S : t < s => t < r
        BY <1>1, <1>2, <3>1
      <3>3. QED
        BY <3>2
    <2>2. IsFiniteSet(A) /\ IsFiniteSet(B)
      <3> HIDE DEF A, B
      <3> QED
        BY <1>1, <2>1, FS_Subset
    <2>3. Cardinality(A) <= Cardinality(B)
      <3> HIDE DEF A, B
      <3> QED
        BY <2>1, <2>2, FS_Subset
    <2>4. Cardinality(B) < Batch
      BY DEF FirstOf
    <2>5. Cardinality(A) \in Nat /\ Cardinality(B) \in Nat /\ Batch \in Nat
      BY <2>2, FS_CardinalityType, BoundAssumption
    <2>6. Cardinality(A) < Batch
      <3> HIDE DEF A, B
      <3> QED
        BY <2>3, <2>4, <2>5
    <2>7. QED
      BY <2>6 DEF FirstOf
  <1>3. QED
    BY <1>2 DEF FirstOf

LEMMA NumbersAreNatural ==
  ASSUME TypeOK
  PROVE  /\ last \in Nat /\ last <= MaxSeq /\ MaxSeq \in Nat
         /\ events \subseteq Nat /\ events \subseteq Seqs /\ \A s \in events : s <= last
         /\ dRows \subseteq events /\ \A c \in Sockets : sRows[c] \subseteq events
  <1>1. MaxSeq \in Nat
    BY BoundAssumption
  <1>2. last \in 0 .. MaxSeq /\ events \subseteq 1 .. last
    BY DEF TypeOK
  <1>3. dRows \subseteq events /\ \A c \in Sockets : sRows[c] \subseteq events
    BY DEF TypeOK
  <1>4. QED
    BY <1>1, <1>2, <1>3 DEF Seqs

LEMMA RecordIsFirst ==
  ASSUME TypeOK, dRows # {}
  PROVE  Record \in dRows /\ Record \in events /\ \A t \in dRows : Record <= t
  BY NumbersAreNatural, LowestOf DEF Record

LEMMA NextRecordIsFirst ==
  ASSUME TypeOK, NEW c \in Sockets, sRows[c] # {}
  PROVE  /\ NextRecord(c) \in sRows[c] /\ NextRecord(c) \in events
         /\ \A t \in sRows[c] : NextRecord(c) <= t
  BY NumbersAreNatural, LowestOf DEF NextRecord

------------------------------------------------------------------------------
(* Steps that leave a part of the invariant alone.                           *)

LEMMA QuietEmissions ==
  ASSUME EmissionInv, UNCHANGED <<queue, emitted>>, dTodo' \subseteq dTodo,
         (dPc' = "dispatch") = (dPc = "dispatch"),
         dPc = "dispatch" => UNCHANGED dRows,
         \A c \in Sockets : /\ (sPc'[c] = "emitting") = (sPc[c] = "emitting")
                            /\ sPc[c] = "emitting" => UNCHANGED sRows[c]
  PROVE  EmissionInv'
  <1> USE DEF EmissionInv
  <1>1. dPc = "dispatch" => Record' = Record
    BY DEF Record
  <1>2. \A c \in Sockets : sPc[c] = "emitting" => NextRecord(c)' = NextRecord(c)
    BY DEF NextRecord
  <1>3. StreamsAreHeld'
    BY <1>1, <1>2 DEF StreamsAreHeld
  <1>4. RecipientsAreNew'
    BY <1>1, <1>2 DEF RecipientsAreNew
  <1>5. NoDuplicateEmission'
    BY DEF NoDuplicateEmission
  <1>6. QED
    BY <1>3, <1>4, <1>5

LEMMA QuietReads ==
  ASSUME TypeOK, ReadsAreComplete, UNCHANGED <<logVars, dPc, dFrom, dRows>>,
         cursor' \in Nat, cursor <= cursor'
  PROVE  ReadsAreComplete'
  <1>1. UNCHANGED <<watermark, events, stored>>
    BY DEF logVars
  <1>2. cursor \in Nat /\ dFrom \in Nat /\ events \subseteq Nat
    BY NumbersAreNatural DEF TypeOK
  <1>3. \A s \in Nat : s <= cursor => s <= cursor'
    BY <1>2
  <1>4. QED
    BY <1>1, <1>2, <1>3 DEF ReadsAreComplete

\* Steps that change nothing in what the sockets asked for.
LEMMA QuietSockets ==
  ASSUME ServiceInv, UNCHANGED <<events, sPc, base, upTo, sRows, sGoal>>, ReadsAreComplete',
         \A c \in Sockets, s \in events :
             /\ Served(c, s) => Served(c, s)'
             /\ Waits(c, s) /\ Passed(c, s)' => Passed(c, s) \/ Served(c, s)'
  PROVE  ServiceInv'
  <1> USE DEF ServiceInv
  <1>1. \A c \in Sockets, s \in events : Waits(c, s)' = Waits(c, s)
    BY DEF Waits
  <1>2. PassedIsServed'
    BY <1>1 DEF PassedIsServed
  <1>3. AcknowledgedIsServed'
    BY DEF AcknowledgedIsServed
  <1>4. ReplaysAreComplete'
    BY DEF ReplaysAreComplete
  <1>5. QED
    BY <1>2, <1>3, <1>4

\* Steps of one socket: only what it asked for has to be looked at.
LEMMA OneSocket ==
  ASSUME ServiceInv, TypeOK, NEW c \in Sockets,
         UNCHANGED <<logVars, cursor, dPc, dFrom, dRows, rPc, rBarrier>>,
         \A d \in Sockets \ {c} :
             /\ UNCHANGED <<sPc[d], base[d], upTo[d], sRows[d], sGoal[d], emitted[d], resynced[d]>>
             /\ (d \in dTodo') = (d \in dTodo) /\ (d \in rTodo') = (d \in rTodo),
         \A s \in events :
             /\ Waits(c, s)' /\ Passed(c, s)' => Served(c, s)'
             /\ base'[c] < s /\ s <= upTo'[c] => Served(c, s)'
             /\ sPc'[c] \in {"replaying", "emitting"} /\ base'[c] < s /\ s <= sGoal'[c].upTo
                    => Served(c, s)' \/ s \in sRows'[c]
  PROVE  ServiceInv'
  <1> USE DEF ServiceInv
  <1>1. UNCHANGED events
    BY DEF logVars
  <1>2. ReadsAreComplete'
    BY QuietReads DEF TypeOK
  <1>3. \A d \in Sockets \ {c}, s \in events : Waits(d, s)' = Waits(d, s) /\ Served(d, s)' = Served(d, s)
    BY DEF Waits, Served
  <1>4. \A d \in Sockets \ {c}, s \in events : Passed(d, s)' = Passed(d, s)
    BY DEF Passed, Record
  <1>5. PassedIsServed'
    BY <1>1, <1>3, <1>4 DEF PassedIsServed
  <1>6. AcknowledgedIsServed'
    BY <1>1, <1>3 DEF AcknowledgedIsServed
  <1>7. ReplaysAreComplete'
    BY <1>1, <1>3 DEF ReplaysAreComplete
  <1>8. QED
    BY <1>2, <1>5, <1>6, <1>7

------------------------------------------------------------------------------
(* The log.                                                                  *)

\* Ranges grow with the log.
LEMMA GrowingTypes ==
  ASSUME TypeOK, last < MaxSeq, last' = last + 1, watermark' \in {watermark, last + 1},
         events' \in {events, events \union {last + 1}},
         stored' \subseteq events', signal' \in BOOLEAN, {burns', expiries', faults', lost'} \subseteq Nat,
         UNCHANGED <<cursor, drainVars, resyncVars, queue, socketVars, sentVars>>
  PROVE  TypeOK'
  <1>1. last \in Nat /\ MaxSeq \in Nat
    BY NumbersAreNatural
  <1>2. last' \in 0 .. MaxSeq /\ 0 .. last \subseteq 0 .. last' /\ 1 .. last \subseteq 1 .. last'
        /\ last + 1 \in 1 .. last' /\ last + 1 \in 0 .. last'
    BY <1>1
  <1>3. events \subseteq events' /\ events' \subseteq 1 .. last'
    BY <1>2 DEF TypeOK
  <1>4. /\ sGoal' \in [Sockets -> [upTo : 0 .. last', more : BOOLEAN]]
        /\ base' \in [Sockets -> 0 .. last'] /\ upTo' \in [Sockets -> 0 .. last']
        /\ resynced' \in [Sockets -> 0 .. last']
    <2>1. \A g \in [upTo : 0 .. last, more : BOOLEAN] : g \in [upTo : 0 .. last', more : BOOLEAN]
      BY <1>2
    <2>2. UNCHANGED <<sGoal, base, upTo, resynced>>
      BY DEF socketVars, sentVars
    <2>3. QED
      BY <1>2, <2>1, <2>2 DEF TypeOK
  <1>5. sRows' \in [Sockets -> SUBSET events'] /\ dRows' \subseteq events'
    BY <1>3 DEF TypeOK, socketVars, drainVars
  <1>6. watermark' \in 0 .. last' /\ cursor' \in 0 .. last' /\ dFrom' \in 0 .. last'
        /\ rBarrier' \in 0 .. last'
    BY <1>2 DEF TypeOK, drainVars, resyncVars
  <1>7. Connected' = Connected
    BY DEF Connected, socketVars
  <1>8. QED
    BY <1>2, <1>3, <1>4, <1>5, <1>6, <1>7 DEF TypeOK, drainVars, resyncVars, socketVars, sentVars

\* Nothing was passed, acknowledged or replayed beyond the last number.
LEMMA PassedIsPast ==
  ASSUME TypeOK, EmissionInv, NEW c \in Sockets, NEW s \in Seqs, s > last
  PROVE  ~Passed(c, s) /\ ~(s <= upTo[c]) /\ ~(s <= sGoal[c].upTo)
  <1>1. last \in Nat /\ s \in Nat
    BY NumbersAreNatural DEF Seqs
  <1>2. dPc = "dispatch" => Record # s
    <2>1. dPc = "dispatch" => Record \in events
      BY RecordIsFirst DEF EmissionInv, StreamsAreHeld
    <2>2. QED
      BY <1>1, <2>1, NumbersAreNatural
  <1>3. cursor \in 0 .. last /\ rBarrier \in 0 .. last
    BY DEF TypeOK
  <1>4. upTo[c] \in 0 .. last /\ sGoal[c].upTo \in 0 .. last
    BY DEF TypeOK
  <1>5. QED
    BY <1>1, <1>2, <1>3, <1>4 DEF Passed

LEMMA AppendKeeps == DrainInv /\ AppendEvent => DrainInv'
  <1> SUFFICES ASSUME DrainInv, AppendEvent PROVE DrainInv'
    OBVIOUS
  <1> USE DEF DrainInv
  <1>1. /\ last < MaxSeq /\ last' = last + 1
        /\ events' = events \union {last + 1}
        /\ stored' = stored \union {last + 1}
        /\ UNCHANGED <<watermark, signal, cursor, drainVars, resyncVars, queue, socketVars,
                       sentVars, boundVars>>
    BY DEF AppendEvent
  <1>2. last \in Nat /\ last + 1 \in Seqs
    BY <1>1, NumbersAreNatural DEF Seqs
  <1>3. TypeOK'
    <2>1. {burns', expiries', faults', lost'} \subseteq Nat /\ signal' \in BOOLEAN
      <3>1. {burns, expiries, faults, lost} \subseteq Nat
        BY DEF TypeOK
      <3>2. QED
        BY <1>1, <3>1 DEF TypeOK, boundVars
    <2>2. stored' \subseteq events'
      BY <1>1 DEF TypeOK
    <2>3. QED
      BY <1>1, <2>1, <2>2, GrowingTypes
  <1>4. EmissionInv'
    BY <1>1, QuietEmissions DEF drainVars, socketVars, sentVars
  <1>5. ReadsAreComplete'
    <2>1. UNCHANGED <<watermark, cursor, dPc, dFrom, dRows>>
      BY <1>1 DEF drainVars
    <2>2. \A r \in dRows : r <= last /\ r \in Nat
      BY NumbersAreNatural
    <2>3. \A s \in events' : s \in events \/ (s = last + 1 /\ s \in stored')
      BY <1>1
    <2>4. QED
      BY <1>1, <1>2, <2>1, <2>2, <2>3 DEF ServiceInv, ReadsAreComplete
  <1>6. ASSUME NEW c \in Sockets, NEW s \in events'
        PROVE  /\ Waits(c, s)' = Waits(c, s) /\ Passed(c, s)' = Passed(c, s)
               /\ Served(c, s)' = Served(c, s)
               /\ s \in events \/ (s \in Seqs /\ s > last)
    BY <1>1, <1>2 DEF Waits, Passed, Served, Record, drainVars, resyncVars, socketVars, sentVars
  <1>7. PassedIsServed'
    BY <1>6, PassedIsPast DEF ServiceInv, PassedIsServed
  <1>8. AcknowledgedIsServed'
    BY <1>1, <1>6, PassedIsPast DEF ServiceInv, AcknowledgedIsServed, socketVars
  <1>9. ReplaysAreComplete'
    BY <1>1, <1>6, PassedIsPast DEF ServiceInv, ReplaysAreComplete, socketVars
  <1>10. QED
    BY <1>3, <1>4, <1>5, <1>7, <1>8, <1>9 DEF ServiceInv

LEMMA BurnKeeps == DrainInv /\ Burn => DrainInv'
  <1> SUFFICES ASSUME DrainInv, Burn PROVE DrainInv'
    OBVIOUS
  <1> USE DEF DrainInv
  <1>1. /\ last < MaxSeq /\ last' = last + 1 /\ watermark' = last + 1
        /\ burns' = burns + 1 /\ signal' = TRUE
        /\ UNCHANGED <<events, stored, cursor, drainVars, resyncVars, queue, socketVars, sentVars,
                       expiries, faults, lost>>
    BY DEF Burn
  <1>2. last \in Nat /\ \A s \in events : s <= last /\ s \in Nat
    BY NumbersAreNatural
  <1>3. TypeOK'
    <2>1. burns \in Nat /\ expiries \in Nat /\ faults \in Nat /\ lost \in Nat
      BY DEF TypeOK
    <2>2. {burns', expiries', faults', lost'} \subseteq Nat
      BY <1>1, <2>1
    <2>3. stored' \subseteq events' /\ signal' \in BOOLEAN
      BY <1>1 DEF TypeOK
    <2>4. QED
      BY <1>1, <2>2, <2>3, GrowingTypes
  <1>4. EmissionInv'
    BY <1>1, QuietEmissions DEF drainVars, socketVars, sentVars
  <1>5. ReadsAreComplete'
    <2>1. \A s \in events : ~(s > watermark')
      BY <1>1, <1>2
    <2>2. QED
      BY <1>1, <2>1 DEF ServiceInv, ReadsAreComplete, drainVars
  <1>6. \A c \in Sockets, s \in events : Passed(c, s)' = Passed(c, s) /\ Served(c, s)' = Served(c, s)
    BY <1>1 DEF Passed, Served, Record, drainVars, resyncVars, sentVars
  <1>7. ServiceInv'
    BY <1>1, <1>5, <1>6, QuietSockets DEF socketVars
  <1>8. QED
    BY <1>3, <1>4, <1>7

LEMMA ExpireKeeps == ASSUME DrainInv, NEW n \in Seqs, Expire(n) PROVE DrainInv'
  <1> USE DEF DrainInv
  <1>1. /\ dPc # "select" /\ n \in watermark + 1 .. last
        /\ expiries' = expiries + 1 /\ watermark' = n /\ stored' = {t \in stored : t > n}
        /\ UNCHANGED <<last, events, signal, cursor, drainVars, resyncVars, queue, socketVars,
                       sentVars, burns, faults, lost>>
    BY DEF Expire
  <1>2. last \in Nat /\ watermark \in 0 .. last /\ \A s \in events : s \in Nat
    BY NumbersAreNatural DEF TypeOK
  <1>3. n \in 0 .. last /\ \A s \in events : s > n => s > watermark
    BY <1>1, <1>2
  <1>4. TypeOK'
    <2>1. burns \in Nat /\ expiries \in Nat /\ faults \in Nat /\ lost \in Nat
      BY DEF TypeOK
    <2>2. {burns', expiries', faults', lost'} \subseteq Nat
      BY <1>1, <2>1
    <2>3. Connected' = Connected
      BY <1>1 DEF Connected, socketVars
    <2>4. stored' \subseteq events' /\ watermark' \in 0 .. last'
      BY <1>1, <1>3 DEF TypeOK
    <2>5. QED
      BY <1>1, <2>2, <2>3, <2>4 DEF TypeOK, drainVars, resyncVars, socketVars, sentVars
  <1>5. EmissionInv'
    BY <1>1, QuietEmissions DEF drainVars, socketVars, sentVars
  <1>6. ReadsAreComplete'
    BY <1>1, <1>3 DEF ServiceInv, ReadsAreComplete, drainVars
  <1>7. \A c \in Sockets, s \in events : Passed(c, s)' = Passed(c, s) /\ Served(c, s)' = Served(c, s)
    BY <1>1 DEF Passed, Served, Record, drainVars, resyncVars, sentVars
  <1>8. ServiceInv'
    BY <1>1, <1>6, <1>7, QuietSockets DEF socketVars
  <1>9. QED
    BY <1>4, <1>5, <1>8

LEMMA LoseSignalKeeps == DrainInv /\ LoseSignal => DrainInv'
  <1> SUFFICES ASSUME DrainInv, LoseSignal PROVE DrainInv'
    OBVIOUS
  <1> USE DEF DrainInv
  <1>1. /\ lost' = lost + 1 /\ signal' = FALSE
        /\ UNCHANGED <<logVars, cursor, drainVars, resyncVars, queue, socketVars, sentVars, burns,
                       expiries, faults>>
    BY DEF LoseSignal
  <1>2. TypeOK'
    <2>1. burns \in Nat /\ expiries \in Nat /\ faults \in Nat /\ lost \in Nat
      BY DEF TypeOK
    <2>2. {burns', expiries', faults', lost'} \subseteq Nat
      BY <1>1, <2>1
    <2>3. Connected' = Connected
      BY <1>1 DEF Connected, socketVars
    <2>4. QED
      BY <1>1, <2>2, <2>3 DEF TypeOK, logVars, drainVars, resyncVars, socketVars, sentVars
  <1>3. EmissionInv'
    BY <1>1, QuietEmissions DEF drainVars, socketVars, sentVars
  <1>4. ReadsAreComplete'
    BY <1>1 DEF ServiceInv, ReadsAreComplete, drainVars, logVars
  <1>5. \A c \in Sockets, s \in events : Passed(c, s)' = Passed(c, s) /\ Served(c, s)' = Served(c, s)
    BY <1>1 DEF Passed, Served, Record, drainVars, resyncVars, sentVars
  <1>6. ServiceInv'
    BY <1>1, <1>4, <1>5, QuietSockets DEF socketVars, logVars
  <1>7. QED
    BY <1>2, <1>3, <1>6

------------------------------------------------------------------------------
(* The full resynchronisation.                                               *)

LEMMA OnSignalKeeps == DrainInv /\ OnSignal => DrainInv'
  <1> SUFFICES ASSUME DrainInv, OnSignal PROVE DrainInv'
    OBVIOUS
  <1> USE DEF DrainInv
  <1>1. /\ signal' = FALSE /\ rPc' = IF rPc = "idle" THEN "asked" ELSE rPc
        /\ UNCHANGED <<logVars, cursor, drainVars, rBarrier, rTodo, queue, socketVars, sentVars,
                       boundVars>>
    BY DEF OnSignal, RequestResync
  <1>2. TypeOK'
    <2>1. Connected' = Connected
      BY <1>1 DEF Connected, socketVars
    <2>2. QED
      BY <1>1, <2>1 DEF TypeOK, logVars, drainVars, socketVars, sentVars, boundVars
  <1>3. EmissionInv'
    BY <1>1, QuietEmissions DEF drainVars, socketVars, sentVars
  <1>4. ReadsAreComplete'
    BY <1>1 DEF ServiceInv, ReadsAreComplete, drainVars, logVars
  <1>5. \A c \in Sockets, s \in events : Passed(c, s)' = Passed(c, s) /\ Served(c, s)' = Served(c, s)
    BY <1>1 DEF Passed, Served, Record, drainVars, sentVars
  <1>6. ServiceInv'
    BY <1>1, <1>4, <1>5, QuietSockets DEF socketVars, logVars
  <1>7. QED
    BY <1>2, <1>3, <1>6

LEMMA ReadBarrierKeeps == DrainInv /\ ReadBarrier => DrainInv'
  <1> SUFFICES ASSUME DrainInv, ReadBarrier PROVE DrainInv'
    OBVIOUS
  <1> USE DEF DrainInv
  <1>1. /\ rPc' = "telling" /\ rBarrier' = last /\ rTodo' = Connected
        /\ UNCHANGED <<logVars, signal, cursor, drainVars, queue, socketVars, sentVars, boundVars>>
    BY DEF ReadBarrier
  <1>2. TypeOK'
    <2>1. Connected' = Connected
      BY <1>1 DEF Connected, socketVars
    <2>2. last \in 0 .. last
      BY NumbersAreNatural
    <2>3. QED
      BY <1>1, <2>1, <2>2 DEF TypeOK, logVars, drainVars, socketVars, sentVars, boundVars
  <1>3. EmissionInv'
    BY <1>1, QuietEmissions DEF drainVars, socketVars, sentVars
  <1>4. ReadsAreComplete'
    BY <1>1 DEF ServiceInv, ReadsAreComplete, drainVars, logVars
  <1>5. ASSUME NEW c \in Sockets, NEW s \in events
        PROVE  /\ Served(c, s)' = Served(c, s)
               /\ Waits(c, s) /\ Passed(c, s)' => Passed(c, s)
    <2>1. Waits(c, s) => c \in Connected
      BY DEF Waits, Connected
    <2>2. QED
      BY <1>1, <2>1 DEF Passed, Served, Record, drainVars, sentVars
  <1>6. ServiceInv'
    BY <1>1, <1>4, <1>5, QuietSockets DEF socketVars, logVars
  <1>7. QED
    BY <1>2, <1>3, <1>6

LEMMA TellKeeps == ASSUME DrainInv, NEW d \in Sockets, Tell(d) PROVE DrainInv'
  <1> USE DEF DrainInv
  <1>1. /\ rPc = "telling" /\ rTodo' = rTodo \ {d}
        /\ resynced' = [resynced EXCEPT ![d] = IF @ < rBarrier THEN rBarrier ELSE @]
        /\ UNCHANGED <<logVars, signal, cursor, drainVars, rPc, rBarrier, queue, socketVars, emitted,
                       boundVars>>
    BY DEF Tell
  <1>2. TypeOK'
    <2>1. Connected' = Connected
      BY <1>1 DEF Connected, socketVars
    <2>2. QED
      BY <1>1, <2>1 DEF TypeOK, logVars, drainVars, socketVars, boundVars
  <1>3. EmissionInv'
    BY <1>1, QuietEmissions DEF drainVars, socketVars
  <1>4. ReadsAreComplete'
    BY <1>1 DEF ServiceInv, ReadsAreComplete, drainVars, logVars
  <1>5. ASSUME NEW c \in Sockets, NEW s \in events
        PROVE  /\ Served(c, s) => Served(c, s)'
               /\ Passed(c, s)' => Passed(c, s) \/ Served(c, s)'
    <2>1. last \in Nat /\ s \in Nat /\ rBarrier \in 0 .. last /\ resynced[c] \in 0 .. last
      BY NumbersAreNatural DEF TypeOK
    <2>2. resynced'[c] = IF c = d /\ resynced[c] < rBarrier THEN rBarrier ELSE resynced[c]
      BY <1>1 DEF TypeOK
    <2>3. Served(c, s) => Served(c, s)'
      BY <1>1, <2>1, <2>2 DEF Served
    <2>4. CASE c = d
      <3>1. rBarrier <= resynced'[c]
        BY <2>1, <2>2, <2>4
      <3>2. s <= rBarrier => Served(c, s)'
        BY <2>1, <2>2, <3>1 DEF Served
      <3>3. Passed(c, s)' => Passed(c, s) \/ s <= rBarrier
        BY <1>1 DEF Passed, Record, drainVars
      <3>4. QED
        BY <2>3, <3>2, <3>3
    <2>5. CASE c # d
      BY <1>1, <2>3, <2>5 DEF Passed, Record, drainVars
    <2>6. QED
      BY <2>3, <2>4, <2>5
  <1>6. ServiceInv'
    BY <1>1, <1>4, <1>5, QuietSockets DEF socketVars, logVars
  <1>7. QED
    BY <1>2, <1>3, <1>6

LEMMA EndResyncKeeps == DrainInv /\ EndResync => DrainInv'
  <1> SUFFICES ASSUME DrainInv, EndResync PROVE DrainInv'
    OBVIOUS
  <1> USE DEF DrainInv
  <1>1. /\ rPc = "telling" /\ rTodo = {}
        /\ cursor' = IF rBarrier > cursor THEN rBarrier ELSE cursor
        /\ rPc' = "idle" /\ rBarrier' = 0 /\ rTodo' = {}
        /\ UNCHANGED <<logVars, signal, drainVars, queue, socketVars, sentVars, boundVars>>
    BY DEF EndResync, AllTold
  <1>2. /\ last \in Nat /\ rBarrier \in 0 .. last /\ cursor \in 0 .. last
        /\ cursor' \in 0 .. last /\ cursor <= cursor'
    BY <1>1, NumbersAreNatural DEF TypeOK
  <1>3. TypeOK'
    <2>1. Connected' = Connected
      BY <1>1 DEF Connected, socketVars
    <2>2. 0 \in 0 .. last
      BY <1>2
    <2>3. QED
      BY <1>1, <1>2, <2>1, <2>2 DEF TypeOK, logVars, drainVars, socketVars, sentVars, boundVars
  <1>4. EmissionInv'
    BY <1>1, QuietEmissions DEF drainVars, socketVars, sentVars
  <1>5. ReadsAreComplete'
    BY <1>1, <1>2, QuietReads DEF ServiceInv, drainVars
  <1>6. ASSUME NEW c \in Sockets, NEW s \in events
        PROVE  /\ Served(c, s)' = Served(c, s)
               /\ Passed(c, s)' => Passed(c, s)
    <2>1. s \in Nat
      BY NumbersAreNatural
    <2>2. s <= cursor' => s <= cursor \/ s <= rBarrier
      BY <1>1
    <2>3. QED
      BY <1>1, <2>2 DEF Passed, Served, Record, drainVars, sentVars
  <1>7. ServiceInv'
    BY <1>1, <1>5, <1>6, QuietSockets DEF socketVars, logVars
  <1>8. QED
    BY <1>3, <1>4, <1>7

------------------------------------------------------------------------------
(* The drain.                                                                *)

LEMMA DrainStepTypes ==
  ASSUME TypeOK,
         UNCHANGED <<logVars, signal, rBarrier, rTodo, socketVars, resynced, burns, expiries, lost>>,
         faults' \in Nat, cursor' \in 0 .. last,
         dPc' \in {"idle", "read", "resync", "select", "loop", "dispatch"},
         dFrom' \in 0 .. last, dRows' \subseteq events, dMore' \in BOOLEAN,
         dTodo' \subseteq Connected, rPc' \in {"idle", "asked", "telling"},
         queue' \in [Streams -> Sockets \union {Nobody, Drain}],
         emitted' \in [Sockets -> [Seqs -> Nat]]
  PROVE  TypeOK'
  <1>1. Connected' = Connected
    BY DEF Connected, socketVars
  <1>2. {burns', expiries', faults', lost'} \subseteq Nat
    <2>1. burns \in Nat /\ expiries \in Nat /\ lost \in Nat
      BY DEF TypeOK
    <2>2. QED
      BY <2>1
  <1>3. QED
    BY <1>1, <1>2 DEF TypeOK, logVars, socketVars

\* Steps of the drain between two dispatches.
LEMMA QuietDrain ==
  ASSUME DrainInv, UNCHANGED <<logVars, cursor, rBarrier, rTodo, queue, socketVars, sentVars>>,
         dPc # "dispatch", dPc' # "dispatch", dTodo' \subseteq dTodo,
         rPc' = "telling" => rPc = "telling",
         TypeOK', ReadsAreComplete'
  PROVE  DrainInv'
  <1> USE DEF DrainInv
  <1>1. EmissionInv'
    BY QuietEmissions DEF socketVars, sentVars
  <1>2. ASSUME NEW c \in Sockets, NEW s \in events
        PROVE  /\ Served(c, s)' = Served(c, s)
               /\ Passed(c, s)' => Passed(c, s)
    BY DEF Served, Passed, sentVars
  <1>3. ServiceInv'
    BY <1>2, QuietSockets DEF socketVars, logVars
  <1>4. QED
    BY <1>1, <1>3

LEMMA StartDrainKeeps == DrainInv /\ StartDrain => DrainInv'
  <1> SUFFICES ASSUME DrainInv, StartDrain PROVE DrainInv'
    OBVIOUS
  <1>1. /\ dPc = "idle" /\ dPc' = "read"
        /\ UNCHANGED <<logVars, signal, cursor, dFrom, dRows, dMore, dTodo, resyncVars, queue,
                       socketVars, sentVars, boundVars>>
    BY DEF StartDrain
  <1>2. TypeOK'
    BY <1>1, DrainStepTypes DEF DrainInv, TypeOK, resyncVars, sentVars, boundVars
  <1>3. ReadsAreComplete'
    BY <1>1 DEF DrainInv, ServiceInv, ReadsAreComplete, logVars
  <1>4. QED
    BY <1>1, <1>2, <1>3, QuietDrain DEF resyncVars

LEMMA CheckCursorKeeps == DrainInv /\ CheckCursor => DrainInv'
  <1> SUFFICES ASSUME DrainInv, CheckCursor PROVE DrainInv'
    OBVIOUS
  <1>1. /\ dPc = "read"
        /\ \/ dPc' = "resync" /\ rPc' \in {rPc, "asked"} /\ UNCHANGED dFrom
           \/ ~(cursor < watermark) /\ dPc' = "select" /\ dFrom' = cursor /\ UNCHANGED rPc
        /\ UNCHANGED <<logVars, signal, cursor, dRows, dMore, dTodo, rBarrier, rTodo, queue,
                       socketVars, sentVars, boundVars>>
    BY DEF CheckCursor, TooOld, RequestResync
  <1>2. TypeOK'
    BY <1>1, DrainStepTypes DEF DrainInv, TypeOK, sentVars, boundVars
  <1>3. ReadsAreComplete'
    <2>1. \A s \in events : s > watermark => s \in stored
      BY DEF DrainInv, ServiceInv, ReadsAreComplete
    <2>2. cursor \in Nat /\ watermark \in Nat /\ \A s \in events : s \in Nat
      BY NumbersAreNatural DEF DrainInv, TypeOK
    <2>3. ~(cursor < watermark) => \A s \in events : s > cursor => s > watermark
      BY <2>2
    <2>4. UNCHANGED <<events, watermark, stored, cursor>>
      BY <1>1 DEF logVars
    <2>5. CASE dPc' = "resync"
      BY <2>1, <2>4, <2>5 DEF ReadsAreComplete
    <2>6. CASE ~(cursor < watermark) /\ dPc' = "select" /\ dFrom' = cursor
      <3>1. dFrom' <= cursor'
        BY <2>2, <2>4, <2>6
      <3>2. \A s \in events : s > dFrom' => s \in stored
        BY <2>1, <2>3, <2>6
      <3>3. QED
        BY <2>1, <2>4, <2>6, <3>1, <3>2 DEF ReadsAreComplete
    <2>7. QED
      BY <1>1, <2>5, <2>6
  <1>4. QED
    BY <1>1, <1>2, <1>3, QuietDrain

LEMMA AfterResyncKeeps == DrainInv /\ AfterResync => DrainInv'
  <1> SUFFICES ASSUME DrainInv, AfterResync PROVE DrainInv'
    OBVIOUS
  <1>1. /\ dPc = "resync" /\ dPc' = "read"
        /\ UNCHANGED <<logVars, signal, cursor, dFrom, dRows, dMore, dTodo, resyncVars, queue,
                       socketVars, sentVars, boundVars>>
    BY DEF AfterResync
  <1>2. TypeOK'
    BY <1>1, DrainStepTypes DEF DrainInv, TypeOK, resyncVars, sentVars, boundVars
  <1>3. ReadsAreComplete'
    BY <1>1 DEF DrainInv, ServiceInv, ReadsAreComplete, logVars
  <1>4. QED
    BY <1>1, <1>2, <1>3, QuietDrain DEF resyncVars

LEMMA SelectRecordsKeeps == DrainInv /\ SelectRecords => DrainInv'
  <1> SUFFICES ASSUME DrainInv, SelectRecords PROVE DrainInv'
    OBVIOUS
  <1> DEFINE S == {s \in stored : s > dFrom}
             rows == FirstOf(S)
  <1>1. /\ dPc = "select"
        /\ \/ dPc' = "idle" /\ dFrom' = 0 /\ dRows' = {} /\ dMore' = FALSE /\ dTodo' = {}
           \/ dPc' = "loop" /\ dRows' = rows /\ dMore' \in BOOLEAN /\ UNCHANGED <<dFrom, dTodo>>
        /\ UNCHANGED <<logVars, signal, cursor, resyncVars, queue, socketVars, sentVars, boundVars>>
    <2>1. (Cardinality(rows) = Batch) \in BOOLEAN
      OBVIOUS
    <2>2. QED
      BY <2>1 DEF SelectRecords, LeaveDrain
  <1>2. last \in Nat /\ S \in SUBSET (1 .. last)
    BY NumbersAreNatural DEF DrainInv, TypeOK
  <1>3. rows \subseteq S /\ \A s \in S, r \in rows : s <= r => s \in rows
    <2> HIDE DEF S
    <2> QED
      BY <1>2, PageHasNoGaps
  <1>4. TypeOK'
    <2>1. rows \subseteq events /\ 0 \in 0 .. last
      BY <1>2, <1>3 DEF DrainInv, TypeOK
    <2> HIDE DEF rows
    <2>2. QED
      BY <1>1, <2>1, DrainStepTypes DEF DrainInv, TypeOK, resyncVars, sentVars, boundVars
  <1>5. ReadsAreComplete'
    <2>1. UNCHANGED <<events, watermark, stored, cursor>>
      BY <1>1 DEF logVars
    <2>2. /\ \A s \in events : s > watermark => s \in stored
          /\ dFrom <= cursor /\ \A s \in events : s > dFrom => s \in S
      BY <1>1 DEF DrainInv, ServiceInv, ReadsAreComplete
    <2>3. dFrom \in Nat /\ cursor \in Nat /\ \A s \in events : s \in Nat
      BY NumbersAreNatural DEF DrainInv, TypeOK
    <2>4. \A r \in rows : r > dFrom /\ r \in events /\ r \in Nat
      <3>1. stored \subseteq events
        BY DEF DrainInv, TypeOK
      <3>2. QED
        BY <1>3, <2>3, <3>1
    <2>5. ASSUME NEW p \in rows, NEW r \in rows, NEW s \in events, p < s, s < r
          PROVE  s \in rows
      <3>1. s > dFrom /\ s <= r
        BY <2>3, <2>4, <2>5
      <3>2. QED
        BY <1>3, <2>2, <3>1
    <2>6. ASSUME NEW s \in events, rows # {}, \A r \in rows : s < r
          PROVE  s <= cursor
      <3>1. PICK r \in rows : TRUE
        BY <2>6
      <3>2. s < r /\ s \in Nat /\ r \in Nat
        BY <2>3, <2>4, <2>6
      <3>3. s \notin rows
        <4>1. s \in rows => s < s
          BY <2>6
        <4>2. QED
          BY <3>2, <4>1
      <3>4. s \notin S
        BY <1>3, <3>2, <3>3
      <3>5. ~(s > dFrom)
        BY <2>2, <3>4
      <3>6. QED
        BY <2>2, <2>3, <3>2, <3>5
    <2> HIDE DEF rows, S
    <2>7. CASE dPc' = "idle"
      BY <2>1, <2>2, <2>7 DEF ReadsAreComplete
    <2>8. CASE dPc' = "loop" /\ dRows' = rows
      BY <2>1, <2>2, <2>5, <2>6, <2>8 DEF ReadsAreComplete
    <2>9. QED
      BY <1>1, <2>7, <2>8
  <1>6. dTodo' \subseteq dTodo /\ dPc # "dispatch" /\ dPc' # "dispatch"
    BY <1>1
  <1>7. QED
    BY <1>1, <1>4, <1>5, <1>6, QuietDrain DEF resyncVars

\* What is left of a page after its first record.
LEMMA RestHasNoGaps ==
  ASSUME TypeOK, ReadsAreComplete, dPc \in {"loop", "dispatch"}, dRows # {}
  PROVE  /\ \A p, r \in dRows \ {Record}, s \in events : p < s /\ s < r => s \in dRows \ {Record}
         /\ dRows \ {Record} # {} =>
                \A s \in events : (\A r \in dRows \ {Record} : s < r) => s <= Record
         /\ \A s \in events : s < Record => s <= cursor
  <1>1. Record \in dRows /\ \A t \in dRows : Record <= t
    BY RecordIsFirst
  <1>2. \A s \in events : s \in Nat
    BY NumbersAreNatural
  <1>3. dRows \subseteq events
    BY DEF TypeOK
  <1>4. /\ \A p, r \in dRows, s \in events : p < s /\ s < r => s \in dRows
        /\ \A s \in events : (\A r \in dRows : s < r) => s <= cursor
    BY DEF ReadsAreComplete
  <1>5. ASSUME NEW p \in dRows \ {Record}, NEW r \in dRows \ {Record}, NEW s \in events,
               p < s, s < r
        PROVE  s \in dRows \ {Record}
    <2>1. s \in dRows
      BY <1>4, <1>5
    <2>2. Record <= p /\ Record \in Nat /\ p \in Nat /\ s \in Nat
      BY <1>1, <1>2, <1>3
    <2>3. s # Record
      BY <1>5, <2>2
    <2>4. QED
      BY <2>1, <2>3
  <1>6. ASSUME dRows \ {Record} # {}, NEW s \in events, \A r \in dRows \ {Record} : s < r
        PROVE  s <= Record
    <2>1. PICK r \in dRows \ {Record} : TRUE
      BY <1>6
    <2>2. s < r /\ s \in Nat /\ r \in Nat /\ Record \in Nat
      BY <1>1, <1>2, <1>3, <1>6
    <2>3. s \in dRows \ {Record} => s < s
      BY <1>6
    <2>4. s > Record => s \in dRows
      BY <1>1, <1>4, <2>1, <2>2
    <2>5. QED
      BY <2>2, <2>3, <2>4
  <1>7. ASSUME NEW s \in events, s < Record
        PROVE  s <= cursor
    <2>1. \A r \in dRows : s < r
      BY <1>1, <1>2, <1>3, <1>7
    <2>2. QED
      BY <1>4, <2>1
  <1>8. QED
    BY <1>5, <1>6, <1>7

LEMMA SkipRecordKeeps == DrainInv /\ SkipRecord => DrainInv'
  <1> SUFFICES ASSUME DrainInv, SkipRecord PROVE DrainInv'
    OBVIOUS
  <1>1. /\ dPc = "loop" /\ dRows # {} /\ Record <= cursor /\ dRows' = dRows \ {Record}
        /\ UNCHANGED <<logVars, signal, cursor, dPc, dFrom, dMore, dTodo, resyncVars, queue,
                       socketVars, sentVars, boundVars>>
    BY DEF SkipRecord
  <1>2. TypeOK'
    BY <1>1, DrainStepTypes DEF DrainInv, TypeOK, resyncVars, sentVars, boundVars
  <1>3. ReadsAreComplete'
    <2>1. /\ \A p, r \in dRows', s \in events : p < s /\ s < r => s \in dRows'
          /\ dRows' # {} => \A s \in events : (\A r \in dRows' : s < r) => s <= Record
      BY <1>1, RestHasNoGaps DEF DrainInv, ServiceInv
    <2>2. \A s \in events : s <= Record => s <= cursor
      <3>1. Record \in Nat /\ cursor \in Nat /\ \A s \in events : s \in Nat
        <4>1. Record \in events /\ events \subseteq Nat
          BY <1>1, NumbersAreNatural, RecordIsFirst DEF DrainInv
        <4>2. cursor \in Nat
          BY NumbersAreNatural DEF DrainInv, TypeOK
        <4>3. QED
          BY <4>1, <4>2
      <3>2. QED
        BY <1>1, <3>1
    <2>3. UNCHANGED <<events, watermark, stored, cursor, dPc, dFrom>>
      BY <1>1 DEF logVars
    <2>4. \A s \in events : s > watermark => s \in stored
      BY DEF DrainInv, ServiceInv, ReadsAreComplete
    <2>5. QED
      BY <1>1, <2>1, <2>2, <2>3, <2>4 DEF ReadsAreComplete
  <1>4. QED
    BY <1>1, <1>2, <1>3, QuietDrain DEF resyncVars

LEMMA EndLoopKeeps == DrainInv /\ EndLoop => DrainInv'
  <1> SUFFICES ASSUME DrainInv, EndLoop PROVE DrainInv'
    OBVIOUS
  <1>1. /\ dPc = "loop"
        /\ \/ dPc' = "read" /\ UNCHANGED <<dFrom, dRows, dMore, dTodo>>
           \/ dPc' = "idle" /\ dFrom' = 0 /\ dRows' = {} /\ dMore' = FALSE /\ dTodo' = {}
        /\ UNCHANGED <<logVars, signal, cursor, resyncVars, queue, socketVars, sentVars, boundVars>>
    BY DEF EndLoop, LeaveDrain
  <1>2. TypeOK'
    <2>1. 0 \in 0 .. last
      BY NumbersAreNatural DEF DrainInv
    <2>2. QED
      BY <1>1, <2>1, DrainStepTypes DEF DrainInv, TypeOK, resyncVars, sentVars, boundVars
  <1>3. ReadsAreComplete'
    <2>1. \A s \in events : s > watermark => s \in stored
      BY DEF DrainInv, ServiceInv, ReadsAreComplete
    <2>2. QED
      BY <1>1, <2>1 DEF ReadsAreComplete, logVars
  <1>4. dTodo' \subseteq dTodo /\ dPc' # "dispatch"
    BY <1>1
  <1>5. QED
    BY <1>1, <1>2, <1>3, <1>4, QuietDrain DEF resyncVars

------------------------------------------------------------------------------
(* Dispatches.                                                               *)

LEMMA RecordHasStream ==
  ASSUME TypeOK, dRows # {}
  PROVE  Record \in Seqs /\ Record \in events /\ StreamOf[Record] \in Streams
  <1>1. Record \in events /\ events \subseteq Seqs
    BY RecordIsFirst, NumbersAreNatural
  <1>2. QED
    BY <1>1, StreamAssumption

LEMMA BeginDispatchKeeps == DrainInv /\ BeginDispatch => DrainInv'
  <1> SUFFICES ASSUME DrainInv, BeginDispatch PROVE DrainInv'
    OBVIOUS
  <1> USE DEF DrainInv
  <1>1. /\ dPc = "loop" /\ dPc' = "dispatch" /\ dRows # {}
        /\ queue[StreamOf[Record]] = Nobody
        /\ queue' = [queue EXCEPT ![StreamOf[Record]] = Drain]
        /\ dTodo' = {c \in Connected : emitted[c][Record] = 0}
        /\ UNCHANGED <<logVars, signal, cursor, dFrom, dRows, dMore, resyncVars, socketVars,
                       sentVars, boundVars>>
    BY DEF BeginDispatch, StreamFree
  <1>2. Record \in Seqs /\ Record \in events /\ StreamOf[Record] \in Streams /\ Record' = Record
    BY <1>1, RecordHasStream DEF Record
  <1>3. TypeOK'
    <2>1. queue' \in [Streams -> Sockets \union {Nobody, Drain}] /\ dTodo' \subseteq Connected
      BY <1>1 DEF TypeOK
    <2>2. QED
      BY <1>1, <2>1, DrainStepTypes DEF TypeOK, resyncVars, sentVars, boundVars
  <1>4. \A s \in Streams : queue'[s] = IF s = StreamOf[Record] THEN Drain ELSE queue[s]
    BY <1>1 DEF TypeOK
  <1>5. UNCHANGED <<sPc, sRows, emitted>> /\ \A c \in Sockets : NextRecord(c)' = NextRecord(c)
    BY <1>1 DEF NextRecord, socketVars, sentVars
  <1>6. StreamsAreHeld'
    <2>1. dRows' # {} /\ queue'[StreamOf[Record]] = Drain
      BY <1>1, <1>2, <1>4
    <2>2. \A s \in Streams : queue'[s] = Drain => StreamOf[Record] = s
      BY <1>1, <1>4 DEF EmissionInv, StreamsAreHeld
    <2>3. ASSUME NEW c \in Sockets, sPc[c] = "emitting"
          PROVE  sRows[c] # {} /\ queue'[StreamOf[NextRecord(c)]] = c
      <3>1. sRows[c] # {} /\ queue[StreamOf[NextRecord(c)]] = c
        BY <2>3 DEF EmissionInv, StreamsAreHeld
      <3>2. StreamOf[NextRecord(c)] \in Streams
        BY <3>1, NextRecordIsFirst, NumbersAreNatural, StreamAssumption
      <3>3. StreamOf[NextRecord(c)] # StreamOf[Record]
        BY <1>1, <3>1, NameAssumption
      <3>4. QED
        BY <1>4, <3>1, <3>2, <3>3
    <2>4. \A c \in Sockets, s \in Streams :
              queue'[s] = c => sPc[c] = "emitting" /\ StreamOf[NextRecord(c)] = s
      BY <1>4, NameAssumption DEF EmissionInv, StreamsAreHeld
    <2>5. QED
      BY <1>1, <1>2, <1>5, <2>1, <2>2, <2>3, <2>4 DEF StreamsAreHeld
  <1>7. RecipientsAreNew'
    BY <1>1, <1>2, <1>5 DEF EmissionInv, RecipientsAreNew
  <1>8. NoDuplicateEmission'
    BY <1>5 DEF EmissionInv, NoDuplicateEmission
  <1>9. ReadsAreComplete'
    <2>1. cursor \in Nat
      BY NumbersAreNatural DEF TypeOK
    <2>2. UNCHANGED <<events, watermark, stored>>
      BY <1>1 DEF logVars
    <2>3. QED
      BY <1>1, <2>1, <2>2 DEF ServiceInv, ReadsAreComplete
  <1>10. ASSUME NEW c \in Sockets, NEW s \in events
         PROVE  /\ Served(c, s)' = Served(c, s)
                /\ Waits(c, s) /\ Passed(c, s)' => Passed(c, s) \/ Served(c, s)
    <2>1. Served(c, s)' = Served(c, s)
      BY <1>1 DEF Served, sentVars
    <2>2. Waits(c, s) => c \in Connected
      BY DEF Waits, Connected
    <2>3. emitted[c][Record] \in Nat
      BY <1>2 DEF TypeOK
    <2>4. c \in Connected /\ c \notin dTodo' => emitted[c][Record] > 0
      BY <1>1, <2>3
    <2>5. Passed(c, s)' => Passed(c, s) \/ (s = Record /\ c \notin dTodo')
      BY <1>1, <1>2 DEF Passed, resyncVars
    <2>6. QED
      BY <2>1, <2>2, <2>4, <2>5 DEF Served
  <1>11. ServiceInv'
    BY <1>1, <1>9, <1>10, QuietSockets DEF socketVars, logVars
  <1>12. QED
    BY <1>3, <1>6, <1>7, <1>8, <1>11 DEF EmissionInv

LEMMA EmitLiveKeeps == ASSUME DrainInv, NEW d \in Sockets, EmitLive(d) PROVE DrainInv'
  <1> USE DEF DrainInv
  <1>1. /\ dPc = "dispatch" /\ d \in dTodo
        /\ emitted' = [emitted EXCEPT ![d][Record] = @ + 1]
        /\ dTodo' = dTodo \ {d}
        /\ UNCHANGED <<logVars, signal, cursor, dPc, dFrom, dRows, dMore, resyncVars, queue,
                       socketVars, resynced, boundVars>>
    BY DEF EmitLive, Emit
  <1>2. dRows # {} /\ queue[StreamOf[Record]] = Drain /\ emitted[d][Record] = 0
    BY <1>1 DEF EmissionInv, StreamsAreHeld, RecipientsAreNew
  <1>3. Record \in Seqs /\ Record \in events /\ StreamOf[Record] \in Streams /\ Record' = Record
    BY <1>1, <1>2, RecordHasStream DEF Record
  <1>4. \A c \in Sockets, s \in Seqs :
            emitted'[c][s] = IF c = d /\ s = Record THEN 1 ELSE emitted[c][s]
    <2>1. emitted \in [Sockets -> [Seqs -> Nat]]
      BY DEF TypeOK
    <2>2. QED
      BY <1>1, <1>2, <1>3, <2>1
  <1>5. TypeOK'
    <2>1. emitted \in [Sockets -> [Seqs -> Nat]]
      BY DEF TypeOK
    <2>2. emitted' \in [Sockets -> [Seqs -> Nat]]
      BY <1>1, <1>2, <1>3, <2>1
    <2>3. QED
      BY <1>1, <2>2, DrainStepTypes DEF TypeOK, resyncVars, boundVars
  <1>6. UNCHANGED <<sPc, sRows>> /\ \A c \in Sockets : NextRecord(c)' = NextRecord(c)
    BY <1>1 DEF NextRecord, socketVars
  <1>7. StreamsAreHeld'
    BY <1>1, <1>3, <1>6 DEF EmissionInv, StreamsAreHeld
  <1>8. RecipientsAreNew'
    <2>1. ASSUME NEW c \in dTodo'
          PROVE  emitted'[c][Record] = 0
      <3>1. c \in dTodo /\ c # d /\ c \in Sockets
        BY <1>1 DEF TypeOK, Connected
      <3>2. emitted[c][Record] = 0
        BY <3>1 DEF EmissionInv, RecipientsAreNew
      <3>3. QED
        BY <1>3, <1>4, <3>1, <3>2
    <2>2. ASSUME NEW c \in Sockets, sPc[c] = "emitting"
          PROVE  emitted'[c][NextRecord(c)] = 0
      <3>1. /\ sRows[c] # {} /\ queue[StreamOf[NextRecord(c)]] = c
            /\ emitted[c][NextRecord(c)] = 0
        BY <2>2 DEF EmissionInv, StreamsAreHeld, RecipientsAreNew
      <3>2. NextRecord(c) \in Seqs
        BY <3>1, NextRecordIsFirst, NumbersAreNatural
      <3>3. NextRecord(c) # Record
        BY <1>2, <3>1, NameAssumption
      <3>4. QED
        BY <1>4, <3>1, <3>2, <3>3
    <2>3. QED
      BY <1>1, <1>3, <1>6, <2>1, <2>2 DEF RecipientsAreNew
  <1>9. NoDuplicateEmission'
    BY <1>4 DEF EmissionInv, NoDuplicateEmission
  <1>10. ReadsAreComplete'
    BY <1>1 DEF ServiceInv, ReadsAreComplete, logVars
  <1>11. ASSUME NEW c \in Sockets, NEW s \in events
         PROVE  /\ Served(c, s) => Served(c, s)'
                /\ Passed(c, s)' => Passed(c, s) \/ Served(c, s)'
    <2>1. s \in Seqs
      BY NumbersAreNatural
    <2>2. Served(c, s) => Served(c, s)'
      BY <1>1, <1>4, <2>1 DEF Served
    <2>3. c = d /\ s = Record => Served(c, s)'
      BY <1>3, <1>4 DEF Served
    <2>4. Passed(c, s)' => Passed(c, s) \/ (c = d /\ s = Record)
      BY <1>1, <1>3 DEF Passed, resyncVars
    <2>5. QED
      BY <2>2, <2>3, <2>4
  <1>12. ServiceInv'
    BY <1>1, <1>10, <1>11, QuietSockets DEF socketVars, logVars
  <1>13. QED
    BY <1>5, <1>7, <1>8, <1>9, <1>12 DEF EmissionInv

\* The dispatch lets its stream go.
LEMMA DispatchLetsGo ==
  ASSUME TypeOK, EmissionInv, dPc = "dispatch", dPc' # "dispatch", dTodo' = {},
         queue' = [queue EXCEPT ![StreamOf[Record]] = Nobody],
         UNCHANGED <<sPc, sRows, emitted>>
  PROVE  /\ queue' \in [Streams -> Sockets \union {Nobody, Drain}]
         /\ EmissionInv'
  <1>1. dRows # {} /\ queue[StreamOf[Record]] = Drain
    BY DEF EmissionInv, StreamsAreHeld
  <1>2. StreamOf[Record] \in Streams
    BY <1>1, RecordHasStream
  <1>3. \A s \in Streams : queue'[s] = IF s = StreamOf[Record] THEN Nobody ELSE queue[s]
    BY <1>2 DEF TypeOK
  <1>4. \A c \in Sockets : NextRecord(c)' = NextRecord(c)
    BY DEF NextRecord
  <1>5. StreamsAreHeld'
    <2>1. \A s \in Streams : queue'[s] # Drain
      <3>1. Nobody # Drain
        BY DEF Nobody, Drain
      <3>2. \A s \in Streams : queue[s] = Drain => StreamOf[Record] = s
        BY DEF EmissionInv, StreamsAreHeld
      <3>3. QED
        BY <1>3, <3>1, <3>2
    <2>2. ASSUME NEW c \in Sockets, sPc[c] = "emitting"
          PROVE  sRows[c] # {} /\ queue'[StreamOf[NextRecord(c)]] = c
      <3>1. sRows[c] # {} /\ queue[StreamOf[NextRecord(c)]] = c
        BY <2>2 DEF EmissionInv, StreamsAreHeld
      <3>2. StreamOf[NextRecord(c)] \in Streams
        BY <3>1, NextRecordIsFirst, NumbersAreNatural, StreamAssumption
      <3>3. StreamOf[NextRecord(c)] # StreamOf[Record]
        BY <1>1, <3>1, NameAssumption
      <3>4. QED
        BY <1>3, <3>1, <3>2, <3>3
    <2>3. \A c \in Sockets, s \in Streams :
              queue'[s] = c => sPc[c] = "emitting" /\ StreamOf[NextRecord(c)] = s
      BY <1>3, NameAssumption DEF EmissionInv, StreamsAreHeld
    <2>4. QED
      BY <1>4, <2>1, <2>2, <2>3 DEF StreamsAreHeld
  <1>6. RecipientsAreNew'
    BY <1>4 DEF EmissionInv, RecipientsAreNew
  <1>7. NoDuplicateEmission'
    BY DEF EmissionInv, NoDuplicateEmission
  <1>8. queue' \in [Streams -> Sockets \union {Nobody, Drain}]
    BY <1>2 DEF TypeOK
  <1>9. QED
    BY <1>5, <1>6, <1>7, <1>8 DEF EmissionInv

LEMMA EndDispatchKeeps == DrainInv /\ EndDispatch => DrainInv'
  <1> SUFFICES ASSUME DrainInv, EndDispatch PROVE DrainInv'
    OBVIOUS
  <1> USE DEF DrainInv
  <1>1. /\ dPc = "dispatch" /\ dPc' = "loop" /\ dTodo = {} /\ dTodo' = {}
        /\ cursor' = Record /\ dRows' = dRows \ {Record}
        /\ queue' = [queue EXCEPT ![StreamOf[Record]] = Nobody]
        /\ UNCHANGED <<logVars, signal, dFrom, dMore, resyncVars, socketVars, sentVars, boundVars>>
    BY DEF EndDispatch, Reached
  <1>2. dRows # {}
    BY <1>1 DEF EmissionInv, StreamsAreHeld
  <1>3. Record \in events /\ Record \in 0 .. last
    <2>1. Record \in events /\ events \subseteq 1 .. last /\ last \in Nat
      BY <1>2, RecordIsFirst, NumbersAreNatural DEF TypeOK
    <2>2. QED
      BY <2>1
  <1>4. queue' \in [Streams -> Sockets \union {Nobody, Drain}] /\ EmissionInv'
    BY <1>1, DispatchLetsGo DEF socketVars, sentVars
  <1>5. TypeOK'
    <2>1. dRows' \subseteq events
      BY <1>1 DEF TypeOK
    <2>2. QED
      BY <1>1, <1>3, <1>4, <2>1, DrainStepTypes DEF TypeOK, resyncVars, sentVars, boundVars
  <1>6. /\ \A p, r \in dRows', s \in events : p < s /\ s < r => s \in dRows'
        /\ dRows' # {} => \A s \in events : (\A r \in dRows' : s < r) => s <= Record
        /\ \A s \in events : s < Record => s <= cursor
    BY <1>1, <1>2, RestHasNoGaps DEF ServiceInv
  <1>7. ReadsAreComplete'
    <2>1. \A s \in events : s > watermark => s \in stored
      BY DEF ServiceInv, ReadsAreComplete
    <2>2. UNCHANGED <<events, watermark, stored>>
      BY <1>1 DEF logVars
    <2>3. QED
      BY <1>1, <1>6, <2>1, <2>2 DEF ReadsAreComplete
  <1>8. ASSUME NEW c \in Sockets, NEW s \in events
        PROVE  /\ Served(c, s)' = Served(c, s)
               /\ Passed(c, s)' => Passed(c, s)
    <2>1. s \in Nat /\ Record \in Nat
      BY <1>3, NumbersAreNatural
    <2>2. s <= Record => s <= cursor \/ s = Record
      BY <1>6, <2>1
    <2>3. QED
      BY <1>1, <2>2 DEF Passed, Served, resyncVars, sentVars
  <1>9. ServiceInv'
    BY <1>1, <1>7, <1>8, QuietSockets DEF socketVars, logVars
  <1>10. QED
    BY <1>4, <1>5, <1>9

LEMMA GiveUpKeeps == DrainInv /\ dPc = "dispatch" /\ faults' \in Nat /\ GiveUp => DrainInv'
  <1> SUFFICES ASSUME DrainInv, dPc = "dispatch", faults' \in Nat, GiveUp PROVE DrainInv'
    OBVIOUS
  <1> USE DEF DrainInv
  <1>1. /\ dPc' = "idle" /\ dFrom' = 0 /\ dRows' = {} /\ dMore' = FALSE /\ dTodo' = {}
        /\ queue' = [queue EXCEPT ![StreamOf[Record]] = Nobody]
        /\ UNCHANGED <<logVars, signal, cursor, resyncVars, socketVars, sentVars, burns, expiries,
                       lost>>
    BY DEF GiveUp, LeaveDrain
  <1>2. queue' \in [Streams -> Sockets \union {Nobody, Drain}] /\ EmissionInv'
    BY <1>1, DispatchLetsGo DEF socketVars, sentVars
  <1>3. TypeOK'
    <2>1. 0 \in 0 .. last
      BY NumbersAreNatural
    <2>2. QED
      BY <1>1, <1>2, <2>1, DrainStepTypes DEF TypeOK, resyncVars, sentVars
  <1>4. ReadsAreComplete'
    <2>1. \A s \in events : s > watermark => s \in stored
      BY DEF ServiceInv, ReadsAreComplete
    <2>2. QED
      BY <1>1, <2>1 DEF ReadsAreComplete, logVars
  <1>5. ASSUME NEW c \in Sockets, NEW s \in events
        PROVE  /\ Served(c, s)' = Served(c, s)
               /\ Passed(c, s)' => Passed(c, s)
    BY <1>1 DEF Passed, Served, resyncVars, sentVars
  <1>6. ServiceInv'
    BY <1>1, <1>4, <1>5, QuietSockets DEF socketVars, logVars
  <1>7. QED
    BY <1>2, <1>3, <1>6

LEMMA FailDispatchKeeps == DrainInv /\ FailDispatch => DrainInv'
  <1> SUFFICES ASSUME DrainInv, FailDispatch PROVE DrainInv'
    OBVIOUS
  <1>1. faults \in Nat
    BY DEF DrainInv, TypeOK
  <1>2. faults' \in Nat /\ dPc = "dispatch" /\ GiveUp
    BY <1>1 DEF FailDispatch
  <1>3. QED
    BY <1>2, GiveUpKeeps

LEMMA RejectDispatchKeeps == DrainInv /\ RejectDispatch => DrainInv'
  <1> SUFFICES ASSUME DrainInv, RejectDispatch PROVE DrainInv'
    OBVIOUS
  <1>1. faults \in Nat
    BY DEF DrainInv, TypeOK
  <1>2. faults' \in Nat /\ dPc = "dispatch" /\ GiveUp
    BY <1>1 DEF RejectDispatch
  <1>3. QED
    BY <1>2, GiveUpKeeps

------------------------------------------------------------------------------
(* Sockets.                                                                  *)

LEMMA SocketStepTypes ==
  ASSUME TypeOK,
         UNCHANGED <<logVars, signal, cursor, dPc, dFrom, dRows, dMore, rPc, rBarrier,
                     burns, expiries, lost>>,
         faults' \in Nat, dTodo' \subseteq Connected', rTodo' \subseteq Connected',
         queue' \in [Streams -> Sockets \union {Nobody, Drain}],
         sPc' \in [Sockets -> {"off", "joined", "replaying", "emitting", "live"}],
         base' \in [Sockets -> 0 .. last], upTo' \in [Sockets -> 0 .. last],
         sRows' \in [Sockets -> SUBSET events],
         sGoal' \in [Sockets -> [upTo : 0 .. last, more : BOOLEAN]],
         emitted' \in [Sockets -> [Seqs -> Nat]], resynced' \in [Sockets -> 0 .. last],
         connects' \in [Sockets -> 0 .. MaxConnects]
  PROVE  TypeOK'
  <1>1. {burns', expiries', faults', lost'} \subseteq Nat
    <2>1. burns \in Nat /\ expiries \in Nat /\ lost \in Nat
      BY DEF TypeOK
    <2>2. QED
      BY <2>1
  <1>2. QED
    BY <1>1 DEF TypeOK, logVars

\* A connection that goes on.
LEMMA StillConnected ==
  ASSUME TypeOK, NEW d \in Sockets, NEW pc, pc # "off", sPc' = [sPc EXCEPT ![d] = pc],
         UNCHANGED <<dTodo, rTodo>>
  PROVE  dTodo' \subseteq Connected' /\ rTodo' \subseteq Connected'
  <1>1. \A c \in Connected : c \in Connected'
    BY DEF TypeOK, Connected
  <1>2. QED
    BY <1>1 DEF TypeOK

LEMMA ConnectKeeps == ASSUME DrainInv, NEW d \in Sockets, Connect(d) PROVE DrainInv'
  <1> USE DEF DrainInv
  <1>1. /\ sPc[d] = "off" /\ connects[d] < MaxConnects
        /\ connects' = [connects EXCEPT ![d] = @ + 1]
        /\ sPc' = [sPc EXCEPT ![d] = "joined"]
        /\ UNCHANGED <<logVars, signal, cursor, drainVars, resyncVars, queue, base, upTo, sRows,
                       sGoal, sentVars, boundVars>>
    BY DEF Connect
  <1>2. \A c \in Sockets : sPc'[c] = IF c = d THEN "joined" ELSE sPc[c]
    BY <1>1 DEF TypeOK
  <1>3. TypeOK'
    <2>1. dTodo' \subseteq Connected' /\ rTodo' \subseteq Connected'
      BY <1>1, StillConnected DEF drainVars, resyncVars
    <2>2. connects' \in [Sockets -> 0 .. MaxConnects]
      <3>1. MaxConnects \in Nat
        BY BoundAssumption
      <3>2. connects \in [Sockets -> 0 .. MaxConnects]
        BY DEF TypeOK
      <3>3. connects[d] + 1 \in 0 .. MaxConnects
        BY <1>1, <3>1, <3>2
      <3>4. QED
        BY <1>1, <3>2, <3>3
    <2>3. QED
      BY <1>1, <2>1, <2>2, SocketStepTypes DEF TypeOK, drainVars, resyncVars, sentVars, boundVars
  <1>4. EmissionInv'
    BY <1>1, <1>2, QuietEmissions DEF drainVars, sentVars
  <1>5. ASSUME NEW s \in events
        PROVE  /\ ~Waits(d, s)'
               /\ base'[d] < s /\ s <= upTo'[d] => Served(d, s)'
    BY <1>1, <1>2 DEF Waits, Served, ServiceInv, AcknowledgedIsServed, sentVars
  <1>6. ServiceInv'
    BY <1>1, <1>2, <1>5, OneSocket DEF drainVars, resyncVars, sentVars
  <1>7. QED
    BY <1>3, <1>4, <1>6

LEMMA DisconnectKeeps == ASSUME DrainInv, NEW d \in Sockets, Disconnect(d) PROVE DrainInv'
  <1> USE DEF DrainInv
  <1>1. /\ dTodo' = dTodo \ {d} /\ rTodo' = rTodo \ {d}
        /\ queue' = [s \in Streams |-> IF queue[s] = d THEN Nobody ELSE queue[s]]
        /\ UNCHANGED <<logVars, signal, cursor, dPc, dFrom, dRows, dMore, rPc, rBarrier, boundVars>>
    BY DEF Disconnect
  <1>2. /\ sPc' = [c \in Sockets |-> IF c \in {d} THEN "off" ELSE sPc[c]]
        /\ base' = [c \in Sockets |-> IF c \in {d} THEN 0 ELSE base[c]]
        /\ upTo' = [c \in Sockets |-> IF c \in {d} THEN 0 ELSE upTo[c]]
        /\ sRows' = [c \in Sockets |-> IF c \in {d} THEN {} ELSE sRows[c]]
        /\ sGoal' = [c \in Sockets |-> IF c \in {d} THEN NoGoal ELSE sGoal[c]]
        /\ emitted' = [c \in Sockets |-> IF c \in {d} THEN NotEmitted ELSE emitted[c]]
        /\ resynced' = [c \in Sockets |-> IF c \in {d} THEN 0 ELSE resynced[c]]
        /\ UNCHANGED connects
    BY DEF Disconnect, Drop
  <1>3. last \in Nat
    BY NumbersAreNatural
  <1>4. TypeOK'
    <2>1. dTodo' \subseteq Connected' /\ rTodo' \subseteq Connected'
      <3>1. Connected' = Connected \ {d}
        BY <1>2 DEF Connected, TypeOK
      <3>2. QED
        BY <1>1, <3>1 DEF TypeOK
    <2>2. queue' \in [Streams -> Sockets \union {Nobody, Drain}]
      BY <1>1 DEF TypeOK
    <2>3. 0 \in 0 .. last /\ NoGoal \in [upTo : 0 .. last, more : BOOLEAN]
      BY <1>3 DEF NoGoal
    <2>4. NotEmitted \in [Seqs -> Nat]
      BY DEF NotEmitted
    <2>5. /\ sPc' \in [Sockets -> {"off", "joined", "replaying", "emitting", "live"}]
          /\ base' \in [Sockets -> 0 .. last] /\ upTo' \in [Sockets -> 0 .. last]
          /\ sRows' \in [Sockets -> SUBSET events]
          /\ sGoal' \in [Sockets -> [upTo : 0 .. last, more : BOOLEAN]]
          /\ emitted' \in [Sockets -> [Seqs -> Nat]] /\ resynced' \in [Sockets -> 0 .. last]
      BY <1>2, <2>3, <2>4 DEF TypeOK
    <2>6. QED
      BY <1>1, <1>2, <2>1, <2>2, <2>5, SocketStepTypes DEF TypeOK, boundVars
  <1>5. \A c \in Sockets \ {d} :
            UNCHANGED <<sPc[c], base[c], upTo[c], sRows[c], sGoal[c], emitted[c], resynced[c]>>
    BY <1>2
  <1>6. /\ sPc'[d] = "off" /\ base'[d] = 0 /\ upTo'[d] = 0 /\ sRows'[d] = {}
        /\ emitted'[d] = NotEmitted
    BY <1>2
  <1>7. Record' = Record /\ \A c \in Sockets \ {d} : NextRecord(c)' = NextRecord(c)
    BY <1>1, <1>5 DEF Record, NextRecord
  <1>8. \A s \in Streams : queue'[s] = IF queue[s] = d THEN Nobody ELSE queue[s]
    BY <1>1
  <1>9. StreamsAreHeld'
    <2>1. dPc = "dispatch" => dRows # {} /\ queue'[StreamOf[Record]] = Drain
      <3>1. dPc = "dispatch" => dRows # {} /\ queue[StreamOf[Record]] = Drain
        BY DEF EmissionInv, StreamsAreHeld
      <3>2. dRows # {} => StreamOf[Record] \in Streams
        BY RecordHasStream
      <3>3. QED
        BY <1>8, <3>1, <3>2, NameAssumption
    <2>2. \A s \in Streams : queue'[s] = Drain => dPc = "dispatch" /\ StreamOf[Record] = s
      <3>1. Nobody # Drain
        BY DEF Nobody, Drain
      <3>2. QED
        BY <1>8, <3>1 DEF EmissionInv, StreamsAreHeld
    <2>3. ASSUME NEW c \in Sockets, sPc'[c] = "emitting"
          PROVE  sRows'[c] # {} /\ queue'[StreamOf[NextRecord(c)']] = c
      <3>1. c # d /\ sPc[c] = "emitting"
        BY <1>5, <1>6, <2>3
      <3>2. sRows[c] # {} /\ queue[StreamOf[NextRecord(c)]] = c
        BY <3>1 DEF EmissionInv, StreamsAreHeld
      <3>3. StreamOf[NextRecord(c)] \in Streams
        BY <3>2, NextRecordIsFirst, NumbersAreNatural, StreamAssumption
      <3>4. QED
        BY <1>5, <1>7, <1>8, <3>1, <3>2, <3>3
    <2>4. ASSUME NEW c \in Sockets, NEW s \in Streams, queue'[s] = c
          PROVE  sPc'[c] = "emitting" /\ StreamOf[NextRecord(c)'] = s
      <3>1. queue[s] = c /\ c # d
        BY <1>8, <2>4, NameAssumption
      <3>2. sPc[c] = "emitting" /\ StreamOf[NextRecord(c)] = s
        BY <3>1 DEF EmissionInv, StreamsAreHeld
      <3>3. QED
        BY <1>5, <1>7, <3>1, <3>2
    <2>5. QED
      BY <1>1, <1>7, <2>1, <2>2, <2>3, <2>4 DEF StreamsAreHeld
  <1>10. RecipientsAreNew'
    <2>1. \A c \in dTodo' : c \in dTodo /\ c \in Sockets \ {d}
      BY <1>1 DEF TypeOK, Connected
    <2>2. \A c \in Sockets : sPc'[c] = "emitting" => c # d /\ sPc[c] = "emitting"
      BY <1>5, <1>6
    <2>3. QED
      BY <1>1, <1>5, <1>7, <2>1, <2>2 DEF EmissionInv, RecipientsAreNew
  <1>11. NoDuplicateEmission'
    BY <1>5, <1>6 DEF EmissionInv, NoDuplicateEmission, NotEmitted
  <1>12. ASSUME NEW s \in events
         PROVE  /\ ~Waits(d, s)' /\ ~(base'[d] < s /\ s <= upTo'[d])
                /\ sPc'[d] \notin {"replaying", "emitting"}
    <2>1. s \in Nat
      BY NumbersAreNatural
    <2>2. QED
      BY <1>6, <2>1 DEF Waits
  <1>13. ServiceInv'
    BY <1>1, <1>5, <1>12, OneSocket
  <1>14. QED
    BY <1>4, <1>9, <1>10, <1>11, <1>13 DEF EmissionInv

LEMMA BootstrapKeeps == ASSUME DrainInv, NEW d \in Sockets, Bootstrap(d) PROVE DrainInv'
  <1> USE DEF DrainInv
  <1>1. /\ sPc[d] = "joined" /\ sPc' = [sPc EXCEPT ![d] = "live"]
        /\ base' = [base EXCEPT ![d] = last] /\ upTo' = [upTo EXCEPT ![d] = last]
        /\ UNCHANGED <<logVars, signal, cursor, drainVars, resyncVars, queue, sRows, sGoal,
                       connects, sentVars, boundVars>>
    BY DEF Bootstrap, Acknowledge
  <1>2. \A c \in Sockets : /\ sPc'[c] = IF c = d THEN "live" ELSE sPc[c]
                           /\ base'[c] = IF c = d THEN last ELSE base[c]
                           /\ upTo'[c] = IF c = d THEN last ELSE upTo[c]
    BY <1>1 DEF TypeOK
  <1>3. last \in Nat /\ last \in 0 .. last /\ \A s \in events : s \in Nat /\ s <= last
    BY NumbersAreNatural
  <1>4. TypeOK'
    <2>1. dTodo' \subseteq Connected' /\ rTodo' \subseteq Connected'
      BY <1>1, StillConnected DEF drainVars, resyncVars
    <2>2. QED
      BY <1>1, <1>3, <2>1, SocketStepTypes DEF TypeOK, drainVars, resyncVars, sentVars, boundVars
  <1>5. EmissionInv'
    BY <1>1, <1>2, QuietEmissions DEF drainVars, sentVars
  <1>6. ASSUME NEW s \in events
        PROVE  ~Waits(d, s)' /\ ~(base'[d] < s)
    BY <1>1, <1>2, <1>3 DEF Waits
  <1>7. ServiceInv'
    BY <1>1, <1>2, <1>6, OneSocket DEF drainVars, resyncVars, sentVars
  <1>8. QED
    BY <1>4, <1>5, <1>7

LEMMA BeginReplayKeeps ==
  ASSUME DrainInv, NEW d \in Sockets, NEW after \in Seqs \union {0}, BeginReplay(d, after)
  PROVE  DrainInv'
  <1> USE DEF DrainInv
  <1> DEFINE S == {s \in stored : s > after}
             rows == FirstOf(S)
             reached == Highest(rows \union {after})
  <1>1. /\ sPc[d] = "joined"
        /\ UNCHANGED <<logVars, signal, cursor, drainVars, resyncVars, queue, connects, emitted,
                       boundVars>>
    BY DEF BeginReplay
  <1>2. last \in Nat /\ last \in 0 .. last /\ \A s \in events : s \in Nat /\ s <= last
    BY NumbersAreNatural
  <1>3. CASE after > last \/ after < watermark
    <2>1. /\ sPc' = [sPc EXCEPT ![d] = "live"]
          /\ base' = [base EXCEPT ![d] = last] /\ upTo' = [upTo EXCEPT ![d] = last]
          /\ resynced' = [resynced EXCEPT ![d] = last]
          /\ UNCHANGED <<sRows, sGoal>>
      BY <1>3 DEF BeginReplay, Acknowledge
    <2>2. \A c \in Sockets : /\ sPc'[c] = IF c = d THEN "live" ELSE sPc[c]
                             /\ base'[c] = IF c = d THEN last ELSE base[c]
                             /\ upTo'[c] = IF c = d THEN last ELSE upTo[c]
                             /\ c # d => UNCHANGED resynced[c]
      BY <2>1 DEF TypeOK
    <2>3. TypeOK'
      <3>1. dTodo' \subseteq Connected' /\ rTodo' \subseteq Connected'
        BY <1>1, <2>1, StillConnected DEF drainVars, resyncVars
      <3>2. QED
        BY <1>1, <1>2, <2>1, <3>1, SocketStepTypes DEF TypeOK, drainVars, resyncVars, boundVars
    <2>4. EmissionInv'
      BY <1>1, <2>1, <2>2, QuietEmissions DEF drainVars
    <2>5. ASSUME NEW s \in events
          PROVE  ~Waits(d, s)' /\ ~(base'[d] < s)
      BY <1>2, <2>2 DEF Waits
    <2>6. ServiceInv'
      BY <1>1, <2>1, <2>2, <2>5, OneSocket DEF drainVars, resyncVars
    <2>7. QED
      BY <2>3, <2>4, <2>6
  <1>4. CASE ~(after > last \/ after < watermark)
    <2>1. /\ sPc' = [sPc EXCEPT ![d] = "replaying"]
          /\ base' = [base EXCEPT ![d] = after] /\ upTo' = [upTo EXCEPT ![d] = after]
          /\ sRows' = [sRows EXCEPT ![d] = rows]
          /\ sGoal' = [sGoal EXCEPT ![d] = [upTo |-> reached, more |-> reached < last]]
          /\ UNCHANGED resynced
      BY <1>4, Zenon DEF BeginReplay
    <2>2. after \in Nat /\ watermark \in Nat /\ after <= last /\ watermark <= after
      <3>1. after \in Nat /\ watermark \in Nat
        BY DEF TypeOK, Seqs
      <3>2. QED
        BY <1>2, <1>4, <3>1
    <2>3. S \in SUBSET (1 .. last) /\ S \subseteq events
      BY DEF TypeOK
    <2>4. rows \subseteq S /\ \A s \in S, r \in rows : s <= r => s \in rows
      <3> HIDE DEF S
      <3> QED
        BY <1>2, <2>3, PageHasNoGaps
    <2>5. /\ reached \in rows \union {after} /\ reached \in 0 .. last
      <3>1. after \in 0 .. last
        BY <1>2, <2>2
      <3>2. 1 .. last \subseteq 0 .. last
        OBVIOUS
      <3>3. rows \union {after} \in SUBSET (0 .. last)
        BY <2>3, <2>4, <3>1, <3>2
      <3> HIDE DEF rows
      <3>4. QED
        BY <1>2, <3>3, HighestOf
    <2> HIDE DEF reached, rows
    <2>6. \A c \in Sockets : /\ sPc'[c] = IF c = d THEN "replaying" ELSE sPc[c]
                             /\ base'[c] = IF c = d THEN after ELSE base[c]
                             /\ upTo'[c] = IF c = d THEN after ELSE upTo[c]
                             /\ sRows'[c] = IF c = d THEN rows ELSE sRows[c]
                             /\ c # d => UNCHANGED sGoal[c]
      BY <2>1 DEF TypeOK
    <2>7. sGoal'[d] = [upTo |-> reached, more |-> reached < last]
      BY <2>1 DEF TypeOK
    <2>8. TypeOK'
      <3>1. dTodo' \subseteq Connected' /\ rTodo' \subseteq Connected'
        BY <1>1, <2>1, StillConnected DEF drainVars, resyncVars
      <3>2. after \in 0 .. last /\ rows \in SUBSET events
        BY <1>2, <2>2, <2>3, <2>4
      <3>3. (reached < last) \in BOOLEAN
        OBVIOUS
      <3>4. sGoal' \in [Sockets -> [upTo : 0 .. last, more : BOOLEAN]]
        BY <2>1, <2>5, <3>3 DEF TypeOK
      <3>5. QED
        BY <1>1, <2>1, <3>1, <3>2, <3>4, SocketStepTypes DEF TypeOK, drainVars, resyncVars, boundVars
    <2>9. EmissionInv'
      BY <1>1, <2>1, <2>6, QuietEmissions DEF drainVars
    <2>10. ASSUME NEW s \in events
           PROVE  /\ ~Waits(d, s)'
                  /\ ~(base'[d] < s /\ s <= upTo'[d])
                  /\ base'[d] < s /\ s <= sGoal'[d].upTo => s \in sRows'[d]
      <3>1. s \in Nat /\ s <= last /\ reached \in Nat
        BY <1>2, <2>5
      <3>2. ~Waits(d, s)'
        <4>1. ~(reached < last) => ~(reached < s)
          BY <1>2, <3>1
        <4>2. /\ sPc'[d] = "replaying"
              /\ sGoal'[d].upTo = reached /\ sGoal'[d].more = (reached < last)
          BY <2>6, <2>7
        <4>3. QED
          BY <4>1, <4>2 DEF Waits
      <3>3. after < s /\ s <= reached => s \in rows
        <4>1. after < s => s \in S
          <5>1. after < s => s > watermark
            BY <2>2, <3>1
          <5>2. s > watermark => s \in stored
            BY DEF ServiceInv, ReadsAreComplete
          <5>3. QED
            BY <5>1, <5>2
        <4>2. after < s /\ s <= reached => reached \in rows
          BY <2>2, <2>5, <3>1
        <4>3. QED
          BY <2>4, <4>1, <4>2
      <3>4. ~(after < s /\ s <= after)
        BY <2>2, <3>1
      <3>5. QED
        BY <2>6, <2>7, <3>2, <3>3, <3>4
    <2>11. ServiceInv'
      BY <1>1, <2>1, <2>6, <2>10, OneSocket DEF drainVars, resyncVars
    <2>12. QED
      BY <2>8, <2>9, <2>11
  <1>5. QED
    BY <1>3, <1>4

LEMMA BeginReplayRecordKeeps ==
  ASSUME DrainInv, NEW d \in Sockets, BeginReplayRecord(d)
  PROVE  DrainInv'
  <1> USE DEF DrainInv
  <1>1. /\ sPc[d] = "replaying" /\ sRows[d] # {}
        /\ queue[StreamOf[NextRecord(d)]] = Nobody
        /\ UNCHANGED <<logVars, signal, cursor, drainVars, resyncVars, base, upTo, sGoal, connects,
                       sentVars, boundVars>>
    BY DEF BeginReplayRecord, StreamFree
  <1>2. NextRecord(d) \in sRows[d] /\ NextRecord(d) \in events /\ NextRecord(d) \in Seqs
    BY <1>1, NextRecordIsFirst, NumbersAreNatural
  <1>3. emitted[d][NextRecord(d)] \in Nat
    BY <1>2 DEF TypeOK
  <1>4. CASE emitted[d][NextRecord(d)] > 0
    <2>1. /\ sRows' = [sRows EXCEPT ![d] = @ \ {NextRecord(d)}]
          /\ UNCHANGED <<sPc, queue>>
      BY <1>4 DEF BeginReplayRecord
    <2>2. \A c \in Sockets : sRows'[c] = IF c = d THEN sRows[d] \ {NextRecord(d)} ELSE sRows[c]
      BY <2>1 DEF TypeOK
    <2>3. TypeOK'
      <3>1. dTodo' \subseteq Connected' /\ rTodo' \subseteq Connected'
        BY <1>1, <2>1 DEF Connected, TypeOK, drainVars, resyncVars
      <3>2. QED
        BY <1>1, <2>1, <3>1, SocketStepTypes DEF TypeOK, drainVars, resyncVars, sentVars, boundVars
    <2>4. EmissionInv'
      BY <1>1, <2>1, <2>2, QuietEmissions DEF drainVars, sentVars
    <2>5. ASSUME NEW s \in events
          PROVE  /\ Waits(d, s)' = Waits(d, s) /\ Passed(d, s)' = Passed(d, s)
                 /\ Served(d, s)' = Served(d, s)
                 /\ s \in sRows[d] => Served(d, s) \/ s \in sRows'[d]
      BY <1>1, <1>4, <2>1, <2>2 DEF Waits, Passed, Served, Record, drainVars, resyncVars, sentVars
    <2>6. ASSUME NEW s \in events
          PROVE  /\ Waits(d, s)' /\ Passed(d, s)' => Served(d, s)'
                 /\ base'[d] < s /\ s <= upTo'[d] => Served(d, s)'
                 /\ sPc'[d] \in {"replaying", "emitting"} /\ base'[d] < s /\ s <= sGoal'[d].upTo
                        => Served(d, s)' \/ s \in sRows'[d]
      BY <1>1, <2>1, <2>5 DEF ServiceInv, PassedIsServed, AcknowledgedIsServed, ReplaysAreComplete
    <2>7. ServiceInv'
      BY <1>1, <2>1, <2>2, <2>6, OneSocket DEF drainVars, resyncVars, sentVars
    <2>8. QED
      BY <2>3, <2>4, <2>7
  <1>5. CASE ~(emitted[d][NextRecord(d)] > 0)
    <2>1. /\ queue' = [queue EXCEPT ![StreamOf[NextRecord(d)]] = d]
          /\ sPc' = [sPc EXCEPT ![d] = "emitting"]
          /\ UNCHANGED sRows
      BY <1>5 DEF BeginReplayRecord
    <2>2. StreamOf[NextRecord(d)] \in Streams
      BY <1>2, StreamAssumption
    <2>3. \A s \in Streams : queue'[s] = IF s = StreamOf[NextRecord(d)] THEN d ELSE queue[s]
      BY <2>1 DEF TypeOK
    <2>4. \A c \in Sockets : sPc'[c] = IF c = d THEN "emitting" ELSE sPc[c]
      BY <2>1 DEF TypeOK
    <2>5. TypeOK'
      <3>1. dTodo' \subseteq Connected' /\ rTodo' \subseteq Connected'
        BY <1>1, <2>1, StillConnected DEF drainVars, resyncVars
      <3>2. queue' \in [Streams -> Sockets \union {Nobody, Drain}]
        BY <2>1 DEF TypeOK
      <3>3. QED
        BY <1>1, <2>1, <3>1, <3>2, SocketStepTypes DEF TypeOK, drainVars, resyncVars, sentVars, boundVars
    <2>6. Record' = Record /\ \A c \in Sockets : NextRecord(c)' = NextRecord(c)
      BY <1>1, <2>1 DEF Record, NextRecord, drainVars
    <2>7. StreamsAreHeld'
      <3>1. dPc = "dispatch" => dRows # {} /\ queue'[StreamOf[Record]] = Drain
        <4>1. dPc = "dispatch" => dRows # {} /\ queue[StreamOf[Record]] = Drain
          BY DEF EmissionInv, StreamsAreHeld
        <4>2. dRows # {} => StreamOf[Record] \in Streams
          BY RecordHasStream
        <4>3. Nobody # Drain
          BY DEF Nobody, Drain
        <4>4. QED
          BY <1>1, <2>3, <4>1, <4>2, <4>3
      <3>2. \A s \in Streams : queue'[s] = Drain => dPc = "dispatch" /\ StreamOf[Record] = s
        BY <2>3, NameAssumption DEF EmissionInv, StreamsAreHeld
      <3>3. ASSUME NEW c \in Sockets, sPc'[c] = "emitting"
            PROVE  sRows[c] # {} /\ queue'[StreamOf[NextRecord(c)]] = c
        <4>1. CASE c = d
          BY <1>1, <2>2, <2>3, <4>1
        <4>2. CASE c # d
          <5>1. sRows[c] # {} /\ queue[StreamOf[NextRecord(c)]] = c
            BY <2>4, <3>3, <4>2 DEF EmissionInv, StreamsAreHeld
          <5>2. StreamOf[NextRecord(c)] \in Streams
            BY <5>1, NextRecordIsFirst, NumbersAreNatural, StreamAssumption
          <5>3. StreamOf[NextRecord(c)] # StreamOf[NextRecord(d)]
            BY <1>1, <5>1, NameAssumption
          <5>4. QED
            BY <2>3, <5>1, <5>2, <5>3
        <4>3. QED
          BY <4>1, <4>2
      <3>4. ASSUME NEW c \in Sockets, NEW s \in Streams, queue'[s] = c
            PROVE  sPc'[c] = "emitting" /\ StreamOf[NextRecord(c)] = s
        <4>1. CASE s = StreamOf[NextRecord(d)]
          BY <2>3, <2>4, <3>4, <4>1
        <4>2. CASE s # StreamOf[NextRecord(d)]
          <5>1. sPc[c] = "emitting" /\ StreamOf[NextRecord(c)] = s
            BY <2>3, <3>4, <4>2 DEF EmissionInv, StreamsAreHeld
          <5>2. QED
            BY <2>4, <5>1
        <4>3. QED
          BY <4>1, <4>2
      <3>5. UNCHANGED <<dPc, dRows, sRows>>
        BY <1>1, <2>1 DEF drainVars
      <3>6. QED
        BY <2>6, <3>1, <3>2, <3>3, <3>4, <3>5 DEF StreamsAreHeld
    <2>8. RecipientsAreNew'
      <3>1. emitted[d][NextRecord(d)] = 0
        BY <1>3, <1>5
      <3>2. UNCHANGED <<dTodo, dPc, emitted>>
        BY <1>1 DEF drainVars, sentVars
      <3>3. QED
        BY <2>4, <2>6, <3>1, <3>2 DEF EmissionInv, RecipientsAreNew
    <2>9. NoDuplicateEmission'
      BY <1>1 DEF EmissionInv, NoDuplicateEmission, sentVars
    <2>10. ASSUME NEW s \in events
           PROVE  /\ Waits(d, s)' = Waits(d, s) /\ Passed(d, s)' = Passed(d, s)
                  /\ Served(d, s)' = Served(d, s)
      <3>1. Waits(d, s)' = Waits(d, s)
        BY <1>1, <2>4 DEF Waits
      <3>2. QED
        BY <1>1, <2>6, <3>1 DEF Passed, Served, drainVars, resyncVars, sentVars
    <2>11. ASSUME NEW s \in events
           PROVE  /\ Waits(d, s)' /\ Passed(d, s)' => Served(d, s)'
                  /\ base'[d] < s /\ s <= upTo'[d] => Served(d, s)'
                  /\ sPc'[d] \in {"replaying", "emitting"} /\ base'[d] < s /\ s <= sGoal'[d].upTo
                         => Served(d, s)' \/ s \in sRows'[d]
      BY <1>1, <2>1, <2>10 DEF ServiceInv, PassedIsServed, AcknowledgedIsServed, ReplaysAreComplete
    <2>12. ServiceInv'
      BY <1>1, <2>1, <2>4, <2>11, OneSocket DEF drainVars, resyncVars, sentVars
    <2>13. QED
      BY <2>5, <2>7, <2>8, <2>9, <2>12 DEF EmissionInv
  <1>6. QED
    BY <1>4, <1>5

\* The replay lets its stream go.
LEMMA ReplayLetsGo ==
  ASSUME TypeOK, EmissionInv, NEW d \in Sockets, sPc[d] = "emitting",
         NEW pc, pc # "emitting", sPc' = [sPc EXCEPT ![d] = pc],
         queue' = [queue EXCEPT ![StreamOf[NextRecord(d)]] = Nobody],
         \A c \in Sockets \ {d} : UNCHANGED sRows[c],
         UNCHANGED <<dPc, dRows>>
  PROVE  /\ queue' \in [Streams -> Sockets \union {Nobody, Drain}]
         /\ StreamsAreHeld'
         /\ Record' = Record /\ \A c \in Sockets \ {d} : NextRecord(c)' = NextRecord(c)
         /\ \A c \in Sockets : sPc'[c] = IF c = d THEN pc ELSE sPc[c]
         /\ NextRecord(d) \in sRows[d] /\ NextRecord(d) \in Seqs /\ NextRecord(d) \in events
         /\ dPc = "dispatch" => NextRecord(d) # Record
  <1>1. sRows[d] # {} /\ queue[StreamOf[NextRecord(d)]] = d
    BY DEF EmissionInv, StreamsAreHeld
  <1>2. NextRecord(d) \in sRows[d] /\ NextRecord(d) \in Seqs /\ NextRecord(d) \in events
    BY <1>1, NextRecordIsFirst, NumbersAreNatural
  <1>3. StreamOf[NextRecord(d)] \in Streams
    BY <1>2, StreamAssumption
  <1>4. \A s \in Streams : queue'[s] = IF s = StreamOf[NextRecord(d)] THEN Nobody ELSE queue[s]
    BY <1>3 DEF TypeOK
  <1>5. \A c \in Sockets : sPc'[c] = IF c = d THEN pc ELSE sPc[c]
    BY DEF TypeOK
  <1>6. Record' = Record /\ \A c \in Sockets \ {d} : NextRecord(c)' = NextRecord(c)
    BY DEF Record, NextRecord
  <1>7. dPc = "dispatch" => dRows # {} /\ queue[StreamOf[Record]] = Drain
    BY DEF EmissionInv, StreamsAreHeld
  <1>8. StreamsAreHeld'
    <2>1. dPc = "dispatch" => dRows # {} /\ queue'[StreamOf[Record]] = Drain
      <3>1. dRows # {} => StreamOf[Record] \in Streams
        BY RecordHasStream
      <3>2. queue[StreamOf[Record]] = Drain => StreamOf[Record] # StreamOf[NextRecord(d)]
        BY <1>1, NameAssumption
      <3>3. QED
        BY <1>4, <1>7, <3>1, <3>2
    <2>2. \A s \in Streams : queue'[s] = Drain => dPc = "dispatch" /\ StreamOf[Record] = s
      <3>1. Nobody # Drain
        BY DEF Nobody, Drain
      <3>2. QED
        BY <1>4, <3>1 DEF EmissionInv, StreamsAreHeld
    <2>3. ASSUME NEW c \in Sockets, sPc'[c] = "emitting"
          PROVE  c # d /\ sRows[c] # {} /\ queue'[StreamOf[NextRecord(c)]] = c
      <3>1. c # d /\ sPc[c] = "emitting"
        BY <1>5, <2>3
      <3>2. sRows[c] # {} /\ queue[StreamOf[NextRecord(c)]] = c
        BY <3>1 DEF EmissionInv, StreamsAreHeld
      <3>3. StreamOf[NextRecord(c)] \in Streams
        BY <3>2, NextRecordIsFirst, NumbersAreNatural, StreamAssumption
      <3>4. StreamOf[NextRecord(c)] # StreamOf[NextRecord(d)]
        BY <1>1, <3>1, <3>2
      <3>5. QED
        BY <1>4, <3>1, <3>2, <3>3, <3>4
    <2>4. ASSUME NEW c \in Sockets, NEW s \in Streams, queue'[s] = c
          PROVE  c # d /\ sPc'[c] = "emitting" /\ StreamOf[NextRecord(c)] = s
      <3>1. s # StreamOf[NextRecord(d)] /\ queue[s] = c
        BY <1>4, <2>4, NameAssumption
      <3>2. sPc[c] = "emitting" /\ StreamOf[NextRecord(c)] = s
        BY <3>1 DEF EmissionInv, StreamsAreHeld
      <3>3. c # d
        BY <3>1, <3>2
      <3>4. QED
        BY <1>5, <3>2, <3>3
    <2>5. QED
      BY <1>6, <2>1, <2>2, <2>3, <2>4 DEF StreamsAreHeld
  <1>9. queue' \in [Streams -> Sockets \union {Nobody, Drain}]
    BY DEF TypeOK
  <1>10. dPc = "dispatch" => NextRecord(d) # Record
    BY <1>1, <1>7, NameAssumption
  <1>11. QED
    BY <1>2, <1>5, <1>6, <1>8, <1>9, <1>10

LEMMA EmitReplayKeeps == ASSUME DrainInv, NEW d \in Sockets, EmitReplay(d) PROVE DrainInv'
  <1> USE DEF DrainInv
  <1>1. /\ sPc[d] = "emitting"
        /\ emitted' = [emitted EXCEPT ![d][NextRecord(d)] = @ + 1]
        /\ sRows' = [sRows EXCEPT ![d] = @ \ {NextRecord(d)}]
        /\ queue' = [queue EXCEPT ![StreamOf[NextRecord(d)]] = Nobody]
        /\ sPc' = [sPc EXCEPT ![d] = "replaying"]
        /\ UNCHANGED <<logVars, signal, cursor, drainVars, resyncVars, base, upTo, sGoal, connects,
                       resynced, boundVars>>
    BY DEF EmitReplay, Emit
  <1>2. \A c \in Sockets : sRows'[c] = IF c = d THEN sRows[d] \ {NextRecord(d)} ELSE sRows[c]
    BY <1>1 DEF TypeOK
  <1>3. /\ queue' \in [Streams -> Sockets \union {Nobody, Drain}]
        /\ StreamsAreHeld'
        /\ Record' = Record /\ \A c \in Sockets \ {d} : NextRecord(c)' = NextRecord(c)
        /\ \A c \in Sockets : sPc'[c] = IF c = d THEN "replaying" ELSE sPc[c]
        /\ NextRecord(d) \in sRows[d] /\ NextRecord(d) \in Seqs /\ NextRecord(d) \in events
        /\ dPc = "dispatch" => NextRecord(d) # Record
    BY <1>1, <1>2, ReplayLetsGo DEF drainVars
  <1>4. emitted[d][NextRecord(d)] = 0
    BY <1>1 DEF EmissionInv, RecipientsAreNew
  <1>5. emitted \in [Sockets -> [Seqs -> Nat]]
    BY DEF TypeOK
  <1>6. \A c \in Sockets, s \in Seqs :
            emitted'[c][s] = IF c = d /\ s = NextRecord(d) THEN 1 ELSE emitted[c][s]
    BY <1>1, <1>3, <1>4, <1>5
  <1>7. TypeOK'
    <2>1. dTodo' \subseteq Connected' /\ rTodo' \subseteq Connected'
      BY <1>1, StillConnected DEF drainVars, resyncVars
    <2>2. emitted' \in [Sockets -> [Seqs -> Nat]]
      BY <1>1, <1>3, <1>4, <1>5
    <2>3. sRows' \in [Sockets -> SUBSET events]
      BY <1>1 DEF TypeOK
    <2>4. QED
      BY <1>1, <1>3, <2>1, <2>2, <2>3, SocketStepTypes DEF TypeOK, drainVars, resyncVars, boundVars
  <1>8. RecipientsAreNew'
    <2>1. ASSUME NEW c \in dTodo
          PROVE  dPc = "dispatch" /\ emitted'[c][Record] = 0
      <3>1. dPc = "dispatch" /\ emitted[c][Record] = 0 /\ c \in Sockets
        BY DEF EmissionInv, RecipientsAreNew, TypeOK, Connected
      <3>2. Record \in Seqs
        BY <3>1, RecordHasStream DEF EmissionInv, StreamsAreHeld
      <3>3. QED
        BY <1>3, <1>6, <3>1, <3>2
    <2>2. ASSUME NEW c \in Sockets, sPc'[c] = "emitting"
          PROVE  emitted'[c][NextRecord(c)'] = 0
      <3>1. c # d /\ sPc[c] = "emitting" /\ NextRecord(c)' = NextRecord(c)
        BY <1>3, <2>2
      <3>2. UNCHANGED emitted[c]
        BY <1>1, <1>5, <3>1
      <3>3. QED
        BY <3>1, <3>2 DEF EmissionInv, RecipientsAreNew
    <2>3. UNCHANGED <<dTodo, dPc>>
      BY <1>1 DEF drainVars
    <2>4. QED
      BY <1>3, <2>1, <2>2, <2>3 DEF RecipientsAreNew
  <1>9. NoDuplicateEmission'
    BY <1>6 DEF EmissionInv, NoDuplicateEmission
  <1>10. ASSUME NEW s \in events
         PROVE  /\ Waits(d, s)' = Waits(d, s) /\ Passed(d, s)' = Passed(d, s)
                /\ Served(d, s) => Served(d, s)'
                /\ s \in sRows[d] => Served(d, s)' \/ s \in sRows'[d]
    <2>1. s \in Seqs
      BY NumbersAreNatural
    <2>2. Waits(d, s)' = Waits(d, s)
      BY <1>1, <1>3 DEF Waits
    <2>3. Passed(d, s)' = Passed(d, s)
      BY <1>1, <1>3 DEF Passed, drainVars, resyncVars
    <2>4. Served(d, s) => Served(d, s)'
      BY <1>1, <1>6, <2>1 DEF Served
    <2>5. s = NextRecord(d) => Served(d, s)'
      BY <1>6, <2>1 DEF Served
    <2>6. QED
      BY <1>2, <2>2, <2>3, <2>4, <2>5
  <1>11. ASSUME NEW s \in events
         PROVE  /\ Waits(d, s)' /\ Passed(d, s)' => Served(d, s)'
                /\ base'[d] < s /\ s <= upTo'[d] => Served(d, s)'
                /\ sPc'[d] \in {"replaying", "emitting"} /\ base'[d] < s /\ s <= sGoal'[d].upTo
                       => Served(d, s)' \/ s \in sRows'[d]
    BY <1>1, <1>10 DEF ServiceInv, PassedIsServed, AcknowledgedIsServed, ReplaysAreComplete
  <1>12. ServiceInv'
    <2>1. \A c \in Sockets \ {d} : UNCHANGED emitted[c]
      BY <1>1, <1>5
    <2>2. QED
      BY <1>1, <1>2, <1>3, <1>11, <2>1, OneSocket DEF drainVars, resyncVars
  <1>13. QED
    BY <1>3, <1>7, <1>8, <1>9, <1>12 DEF EmissionInv

LEMMA FailReplayKeeps == ASSUME DrainInv, NEW d \in Sockets, FailReplay(d) PROVE DrainInv'
  <1> USE DEF DrainInv
  <1>1. /\ sPc[d] = "emitting" /\ faults' = faults + 1
        /\ sRows' = [sRows EXCEPT ![d] = {}] /\ sGoal' = [sGoal EXCEPT ![d] = NoGoal]
        /\ queue' = [queue EXCEPT ![StreamOf[NextRecord(d)]] = Nobody]
        /\ sPc' = [sPc EXCEPT ![d] = "joined"]
        /\ UNCHANGED <<logVars, signal, cursor, drainVars, resyncVars, base, upTo, connects,
                       sentVars, burns, expiries, lost>>
    BY DEF FailReplay
  <1>2. \A c \in Sockets \ {d} : UNCHANGED <<sRows[c], sGoal[c]>>
    BY <1>1 DEF TypeOK
  <1>3. /\ queue' \in [Streams -> Sockets \union {Nobody, Drain}]
        /\ StreamsAreHeld'
        /\ Record' = Record /\ \A c \in Sockets \ {d} : NextRecord(c)' = NextRecord(c)
        /\ \A c \in Sockets : sPc'[c] = IF c = d THEN "joined" ELSE sPc[c]
        /\ NextRecord(d) \in sRows[d] /\ NextRecord(d) \in Seqs /\ NextRecord(d) \in events
        /\ dPc = "dispatch" => NextRecord(d) # Record
    <2>1. \A c \in Sockets \ {d} : UNCHANGED sRows[c]
      BY <1>2
    <2>2. UNCHANGED <<dPc, dRows>> /\ "joined" # "emitting"
      BY <1>1 DEF drainVars
    <2>3. /\ sPc[d] = "emitting" /\ sPc' = [sPc EXCEPT ![d] = "joined"]
          /\ queue' = [queue EXCEPT ![StreamOf[NextRecord(d)]] = Nobody]
      BY <1>1
    <2> HIDE DEF DrainInv
    <2>4. TypeOK /\ EmissionInv
      BY DEF DrainInv
    <2>5. QED
      BY <2>1, <2>2, <2>3, <2>4, ReplayLetsGo
  <1>4. TypeOK'
    <2>1. dTodo' \subseteq Connected' /\ rTodo' \subseteq Connected'
      BY <1>1, StillConnected DEF drainVars, resyncVars
    <2>2. NoGoal \in [upTo : 0 .. last, more : BOOLEAN]
      BY NumbersAreNatural DEF NoGoal
    <2>3. faults' \in Nat
      <3>1. faults \in Nat
        BY DEF TypeOK
      <3>2. QED
        BY <1>1, <3>1
    <2>4. QED
      BY <1>1, <1>3, <2>1, <2>2, <2>3, SocketStepTypes DEF TypeOK, drainVars, resyncVars, sentVars
  <1>5. RecipientsAreNew'
    <2>1. UNCHANGED <<dTodo, dPc, emitted>>
      BY <1>1 DEF drainVars, sentVars
    <2>2. QED
      BY <1>3, <2>1 DEF EmissionInv, RecipientsAreNew
  <1>6. NoDuplicateEmission'
    BY <1>1 DEF EmissionInv, NoDuplicateEmission, sentVars
  <1>7. ASSUME NEW s \in events
        PROVE  /\ ~Waits(d, s)'
               /\ base'[d] < s /\ s <= upTo'[d] => Served(d, s)'
    BY <1>1, <1>3 DEF Waits, Served, ServiceInv, AcknowledgedIsServed, sentVars
  <1>8. ServiceInv'
    BY <1>1, <1>2, <1>3, <1>7, OneSocket DEF drainVars, resyncVars, sentVars
  <1>9. QED
    BY <1>3, <1>4, <1>5, <1>6, <1>8 DEF EmissionInv

LEMMA EndReplayKeeps == ASSUME DrainInv, NEW d \in Sockets, EndReplay(d) PROVE DrainInv'
  <1> USE DEF DrainInv
  <1> DEFINE pc == IF sGoal[d].more THEN "joined" ELSE "live"
  <1>1. /\ sPc[d] = "replaying" /\ sRows[d] = {}
        /\ upTo' = [upTo EXCEPT ![d] = sGoal[d].upTo]
        /\ sPc' = [sPc EXCEPT ![d] = pc]
        /\ sGoal' = [sGoal EXCEPT ![d] = NoGoal]
        /\ UNCHANGED <<logVars, signal, cursor, drainVars, resyncVars, queue, base, sRows, connects,
                       sentVars, boundVars>>
    BY DEF EndReplay
  <1>2. \A c \in Sockets : /\ sPc'[c] = IF c = d THEN pc ELSE sPc[c]
                           /\ upTo'[c] = IF c = d THEN sGoal[d].upTo ELSE upTo[c]
                           /\ c # d => UNCHANGED sGoal[c]
    BY <1>1 DEF TypeOK
  <1>3. sGoal[d] \in [upTo : 0 .. last, more : BOOLEAN]
    BY DEF TypeOK
  <1>4. pc \in {"joined", "live"} /\ pc # "off"
    OBVIOUS
  <1>5. TypeOK'
    <2>1. dTodo' \subseteq Connected' /\ rTodo' \subseteq Connected'
      <3> HIDE DEF pc
      <3> QED
        BY <1>1, <1>4, StillConnected DEF drainVars, resyncVars
    <2>2. NoGoal \in [upTo : 0 .. last, more : BOOLEAN]
      BY NumbersAreNatural DEF NoGoal
    <2>3. /\ sPc' \in [Sockets -> {"off", "joined", "replaying", "emitting", "live"}]
          /\ upTo' \in [Sockets -> 0 .. last]
          /\ sGoal' \in [Sockets -> [upTo : 0 .. last, more : BOOLEAN]]
      <3> HIDE DEF pc
      <3> QED
        BY <1>1, <1>3, <1>4, <2>2 DEF TypeOK
    <2>4. QED
      BY <1>1, <2>1, <2>3, SocketStepTypes DEF TypeOK, drainVars, resyncVars, sentVars, boundVars
  <1>6. EmissionInv'
    BY <1>1, <1>2, <1>4, QuietEmissions DEF drainVars, sentVars
  <1>7. ASSUME NEW s \in events
        PROVE  /\ Waits(d, s)' /\ Passed(d, s)' => Served(d, s)'
               /\ base'[d] < s /\ s <= upTo'[d] => Served(d, s)'
    <2>1. Served(d, s)' = Served(d, s) /\ Passed(d, s)' = Passed(d, s) /\ UNCHANGED base
      BY <1>1 DEF Served, Passed, Record, drainVars, resyncVars, sentVars
    <2>2. base[d] < s /\ s <= sGoal[d].upTo => Served(d, s)
      BY <1>1 DEF ServiceInv, ReplaysAreComplete
    <2>3. Waits(d, s)' => ~sGoal[d].more /\ base[d] < s
      BY <1>2, <2>1 DEF Waits
    <2>4. s <= sGoal[d].upTo \/ sGoal[d].upTo < s
      BY <1>3, NumbersAreNatural
    <2>5. ~sGoal[d].more /\ sGoal[d].upTo < s => Waits(d, s)
      BY <1>1 DEF Waits
    <2>6. Waits(d, s) /\ Passed(d, s) => Served(d, s)
      BY DEF ServiceInv, PassedIsServed
    <2>7. QED
      BY <1>2, <2>1, <2>2, <2>3, <2>4, <2>5, <2>6
  <1>8. ServiceInv'
    BY <1>1, <1>2, <1>4, <1>7, OneSocket DEF drainVars, resyncVars, sentVars
  <1>9. QED
    BY <1>5, <1>6, <1>8

------------------------------------------------------------------------------
(* A restart of the process.                                                 *)

LEMMA RestartKeeps == DrainInv /\ Restart => DrainInv'
  <1> SUFFICES ASSUME DrainInv, Restart PROVE DrainInv'
    OBVIOUS
  <1> USE DEF DrainInv
  <1>1. /\ faults' = faults + 1 /\ signal' = FALSE /\ cursor' = last
        /\ dPc' = "idle" /\ dFrom' = 0 /\ dRows' = {} /\ dMore' = FALSE /\ dTodo' = {}
        /\ rPc' = "idle" /\ rBarrier' = 0 /\ rTodo' = {}
        /\ queue' = [s \in Streams |-> Nobody]
        /\ UNCHANGED <<logVars, connects, burns, expiries, lost>>
    BY DEF Restart, LeaveDrain, Drop
  <1>2. /\ sPc' = [c \in Sockets |-> "off"]
        /\ base' = [c \in Sockets |-> 0] /\ upTo' = [c \in Sockets |-> 0]
        /\ sRows' = [c \in Sockets |-> {}]
        /\ sGoal' = [c \in Sockets |-> NoGoal]
        /\ emitted' = [c \in Sockets |-> NotEmitted]
        /\ resynced' = [c \in Sockets |-> 0]
    BY DEF Restart, Drop
  <1>3. last \in Nat /\ 0 \in 0 .. last /\ last \in 0 .. last
    BY NumbersAreNatural
  <1>4. TypeOK'
    <2>1. NoGoal \in [upTo : 0 .. last, more : BOOLEAN]
      BY <1>3 DEF NoGoal
    <2>2. NotEmitted \in [Seqs -> Nat]
      BY DEF NotEmitted
    <2>3. {burns', expiries', faults', lost'} \subseteq Nat
      <3>1. burns \in Nat /\ expiries \in Nat /\ faults \in Nat /\ lost \in Nat
        BY DEF TypeOK
      <3>2. QED
        BY <1>1, <3>1
    <2>4. /\ sPc' \in [Sockets -> {"off", "joined", "replaying", "emitting", "live"}]
          /\ base' \in [Sockets -> 0 .. last] /\ upTo' \in [Sockets -> 0 .. last]
          /\ sRows' \in [Sockets -> SUBSET events]
          /\ sGoal' \in [Sockets -> [upTo : 0 .. last, more : BOOLEAN]]
          /\ emitted' \in [Sockets -> [Seqs -> Nat]] /\ resynced' \in [Sockets -> 0 .. last]
      BY <1>2, <1>3, <2>1, <2>2
    <2>5. queue' \in [Streams -> Sockets \union {Nobody, Drain}]
      BY <1>1
    <2>6. QED
      BY <1>1, <1>3, <2>3, <2>4, <2>5 DEF TypeOK, logVars
  <1>5. EmissionInv'
    <2>1. Nobody # Drain /\ Nobody \notin Sockets
      BY NameAssumption DEF Nobody, Drain
    <2>2. StreamsAreHeld'
      BY <1>1, <1>2, <2>1 DEF StreamsAreHeld
    <2>3. RecipientsAreNew'
      BY <1>1, <1>2 DEF RecipientsAreNew
    <2>4. NoDuplicateEmission'
      BY <1>2 DEF NoDuplicateEmission, NotEmitted
    <2>5. QED
      BY <2>2, <2>3, <2>4 DEF EmissionInv
  <1>6. ServiceInv'
    <2>1. \A s \in events : s > watermark => s \in stored
      BY DEF ServiceInv, ReadsAreComplete
    <2>2. ReadsAreComplete'
      BY <1>1, <2>1 DEF ReadsAreComplete, logVars
    <2>3. ASSUME NEW c \in Sockets, NEW s \in events'
          PROVE  /\ ~Waits(c, s)' /\ ~(base'[c] < s /\ s <= upTo'[c])
                 /\ sPc'[c] \notin {"replaying", "emitting"}
      <3>1. s \in Nat
        BY <1>1, NumbersAreNatural DEF logVars
      <3>2. QED
        BY <1>2, <3>1 DEF Waits
    <2>4. PassedIsServed' /\ AcknowledgedIsServed' /\ ReplaysAreComplete'
      BY <2>3 DEF PassedIsServed, AcknowledgedIsServed, ReplaysAreComplete
    <2>5. QED
      BY <2>2, <2>4 DEF ServiceInv
  <1>7. QED
    BY <1>4, <1>5, <1>6

------------------------------------------------------------------------------
(* The theorems.                                                             *)

LEMMA InitDrain == Init => DrainInv
  <1> SUFFICES ASSUME Init PROVE DrainInv
    OBVIOUS
  <1> USE DEF Init
  <1>1. TypeOK
    <2>1. MaxSeq \in Nat /\ MaxConnects \in Nat
      BY BoundAssumption
    <2>2. NoGoal \in [upTo : 0 .. 0, more : BOOLEAN] /\ NotEmitted \in [Seqs -> Nat]
      BY DEF NoGoal, NotEmitted
    <2>3. 0 \in 0 .. MaxSeq /\ 0 \in 0 .. 0 /\ 0 \in 0 .. MaxConnects
      BY <2>1
    <2>4. /\ sGoal \in [Sockets -> [upTo : 0 .. 0, more : BOOLEAN]]
          /\ emitted \in [Sockets -> [Seqs -> Nat]]
      BY <2>2
    <2>5. {burns, expiries, faults, lost} \subseteq Nat /\ 1 .. last = {}
      OBVIOUS
    <2>6. /\ base \in [Sockets -> 0 .. 0] /\ upTo \in [Sockets -> 0 .. 0]
          /\ resynced \in [Sockets -> 0 .. 0] /\ connects \in [Sockets -> 0 .. MaxConnects]
          /\ queue \in [Streams -> Sockets \union {Nobody, Drain}]
          /\ sPc \in [Sockets -> {"off", "joined", "replaying", "emitting", "live"}]
          /\ sRows \in [Sockets -> SUBSET events]
      BY <2>3
    <2>7. QED
      BY <2>3, <2>4, <2>5, <2>6 DEF TypeOK
  <1>2. EmissionInv
    <2>1. Nobody # Drain /\ Nobody \notin Sockets
      BY NameAssumption DEF Nobody, Drain
    <2>2. StreamsAreHeld
      BY <2>1 DEF StreamsAreHeld
    <2>3. RecipientsAreNew /\ NoDuplicateEmission
      BY DEF RecipientsAreNew, NoDuplicateEmission, NotEmitted
    <2>4. QED
      BY <2>2, <2>3 DEF EmissionInv
  <1>3. ServiceInv
    BY DEF ServiceInv, ReadsAreComplete, PassedIsServed, AcknowledgedIsServed, ReplaysAreComplete
  <1>4. QED
    BY <1>1, <1>2, <1>3 DEF DrainInv

LEMMA StutterDrain == DrainInv /\ UNCHANGED vars => DrainInv'
  <1> SUFFICES ASSUME DrainInv, UNCHANGED vars PROVE DrainInv'
    OBVIOUS
  <1> USE DEF DrainInv, vars, logVars, drainVars, resyncVars, socketVars, sentVars, boundVars
  <1>1. TypeOK'
    BY DEF TypeOK, Connected
  <1>2. EmissionInv'
    BY QuietEmissions
  <1>3. ReadsAreComplete'
    BY DEF ServiceInv, ReadsAreComplete
  <1>4. ServiceInv'
    <2>1. \A c \in Sockets, s \in events : Served(c, s)' = Served(c, s) /\ Passed(c, s)' = Passed(c, s)
      BY DEF Served, Passed, Record
    <2>2. QED
      BY <1>3, <2>1, QuietSockets
  <1>5. QED
    BY <1>1, <1>2, <1>4

LEMMA NextDrain == DrainInv /\ [Next]_vars => DrainInv'
  <1> SUFFICES ASSUME DrainInv, [Next]_vars PROVE DrainInv'
    OBVIOUS
  <1>1. CASE LogStep
    BY <1>1, AppendKeeps, BurnKeeps, LoseSignalKeeps, ExpireKeeps DEF LogStep
  <1>2. CASE ResyncStep
    BY <1>2, OnSignalKeeps, ReadBarrierKeeps, EndResyncKeeps, TellKeeps DEF ResyncStep
  <1>3. CASE DrainStep
    BY <1>3, StartDrainKeeps, CheckCursorKeeps, AfterResyncKeeps, SelectRecordsKeeps,
       SkipRecordKeeps, BeginDispatchKeeps, EndDispatchKeeps, RejectDispatchKeeps, EndLoopKeeps,
       EmitLiveKeeps DEF DrainStep
  <1>4. CASE FailDispatch
    BY <1>4, FailDispatchKeeps
  <1>5. ASSUME NEW c \in Sockets, SocketStep(c) PROVE DrainInv'
    BY <1>5, ConnectKeeps, DisconnectKeeps, BootstrapKeeps, BeginReplayKeeps, FailReplayKeeps
       DEF SocketStep
  <1>6. ASSUME NEW c \in Sockets, ReplayStep(c) PROVE DrainInv'
    BY <1>6, BeginReplayRecordKeeps, EmitReplayKeeps, EndReplayKeeps DEF ReplayStep
  <1>7. CASE Restart
    BY <1>7, RestartKeeps
  <1>8. CASE UNCHANGED vars
    BY <1>8, StutterDrain
  <1>9. QED
    BY <1>1, <1>2, <1>3, <1>4, <1>5, <1>6, <1>7, <1>8 DEF Next

LEMMA DrainInvariant == Spec => []DrainInv
  BY InitDrain, NextDrain, PTL DEF Spec

\* Every variable keeps its type.
THEOREM DrainTypes == Spec => []TypeOK
  <1>1. DrainInv => TypeOK
    BY DEF DrainInv
  <1>2. QED
    BY DrainInvariant, <1>1, PTL

\* A connection gets no event twice, although the live dispatch, replays,
\* disconnections and restarts overlap: the queue of the stream and the check of
\* what was sent make a recipient new whenever an event is about to be sent.
THEOREM EmissionsAreUnique == Spec => []NoDuplicateEmission
  <1>1. DrainInv => NoDuplicateEmission
    BY DEF DrainInv, EmissionInv
  <1>2. QED
    BY DrainInvariant, <1>1, PTL

\* A client misses nothing it may take for delivered: every event up to the
\* number a replay acknowledged, and every event the cursor passed since, was sent
\* to its connection or covered by an order to refetch.
THEOREM NothingIsMissed == Spec => []NothingPassedOver
  <1>1. DrainInv => NothingPassedOver
    <2> SUFFICES ASSUME DrainInv, NEW c \in Connected, NEW s \in Covered(c) \intersect events
                 PROVE  emitted[c][s] > 0 \/ resynced[c] >= s
      BY DEF NothingPassedOver
    <2>1. c \in Sockets /\ s \in events /\ base[c] < s
      <3>1. c \in Sockets /\ s \in events /\ s > base[c]
        BY DEF Connected, Covered
      <3>2. s \in Nat
        BY <3>1, NumbersAreNatural DEF DrainInv
      <3>3. base[c] \in Nat
        BY <3>1, NumbersAreNatural DEF DrainInv, TypeOK
      <3>4. QED
        BY <3>1, <3>2, <3>3
    <2>2. CASE s <= upTo[c]
      BY <2>1, <2>2 DEF DrainInv, ServiceInv, AcknowledgedIsServed, Served
    <2>3. CASE sPc[c] = "live" /\ s <= cursor
      BY <2>1, <2>3 DEF DrainInv, ServiceInv, PassedIsServed, Served, Waits, Passed
    <2>4. QED
      BY <2>2, <2>3 DEF Covered
  <1>2. QED
    BY DrainInvariant, <1>1, PTL
=============================================================================
