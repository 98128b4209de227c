----------------------- MODULE OutboxProjectionProofs -----------------------
(* Proofs about OutboxProjection, for any rows, writers, projectors,         *)
(* subscriptions, page sizes and times.                                      *)
EXTENDS OutboxProjection, FiniteSetTheorems, WellFoundedInduction, TLAPS

------------------------------------------------------------------------------
(* Milliseconds.                                                             *)

LEMMA TruncateRoundsDown ==
  ASSUME NEW time \in Nat
  PROVE  Truncate(time) \in Nat /\ Truncate(time) <= time
  <1> DEFINE q == time \div TicksPerMs
  <1>1. q \in Nat /\ q * TicksPerMs <= time
    BY NumbersAssumption
  <1>2. QED
    BY <1>1, NumbersAssumption DEF Truncate

\* No whole millisecond lies between a time and what is left of it.
LEMMA TruncateIsLargest ==
  ASSUME NEW time \in Nat, NEW ms \in Nat, Truncate(ms) = ms, ms <= time
  PROVE  ms <= Truncate(time)
  <1> DEFINE k == ms \div TicksPerMs
             q == time \div TicksPerMs
  <1>1. k \in Nat /\ q \in Nat /\ k * TicksPerMs = ms /\ time < (q + 1) * TicksPerMs
    BY NumbersAssumption DEF Truncate
  <1>2. k <= q
    <2>1. SUFFICES ASSUME q + 1 <= k PROVE FALSE
      BY <1>1
    <2>2. (q + 1) * TicksPerMs <= k * TicksPerMs
      BY <1>1, <2>1, NumbersAssumption
    <2>3. QED
      BY <1>1, <2>2, NumbersAssumption
  <1>3. k * TicksPerMs <= q * TicksPerMs
    BY <1>1, <1>2, NumbersAssumption
  <1>4. QED
    BY <1>1, <1>3 DEF Truncate

LEMMA TruncateTwice ==
  ASSUME NEW time \in Nat
  PROVE  Truncate(Truncate(time)) = Truncate(time)
  <1> DEFINE q == time \div TicksPerMs
  <1>1. q \in Nat
    BY NumbersAssumption
  <1>2. (q * TicksPerMs) \div TicksPerMs = q
    BY <1>1, NumbersAssumption
  <1>3. QED
    BY <1>2 DEF Truncate

LEMMA SmallestOf ==
  ASSUME NEW S \in SUBSET Nat, S # {}
  PROVE  \E n \in S : \A m \in S : n <= m
  <1>1. \E n \in S : \A m \in S : ~(<<m, n>> \in OpToRel(<, Nat))
    BY WFMin, NatLessThanWellFounded, Zenon
  <1>2. PICK n \in S : \A m \in S : ~(<<m, n>> \in OpToRel(<, Nat))
    BY <1>1
  <1>3. \A m \in S : ~(m < n)
    BY <1>2 DEF OpToRel
  <1>4. QED
    BY <1>3
------------------------------------------------------------------------------
(* The order of rows, and pages.                                             *)

Committed == {r \in Rows : rState[r] = "committed"}

LEMMA RowKeys ==
  ASSUME TypeOK, NEW r \in Rows
  PROVE  Key(r) \in Position /\ Key(r) = [stamp |-> rStamp[r], id |-> r]
  BY RowsAssumption DEF TypeOK, Key, Position

LEMMA LessIsOrder ==
  ASSUME NEW a \in Position, NEW b \in Position
  PROVE  /\ ~Less(a, a)
         /\ ~(Less(a, b) /\ Less(b, a))
         /\ a.id # b.id => Less(a, b) \/ Less(b, a)
         /\ a.id = b.id /\ a.stamp = b.stamp => a = b
         /\ \A c \in Position : Less(a, b) /\ Less(b, c) => Less(a, c)
         /\ \A c \in Position : ~Less(b, a) /\ ~Less(c, b) => ~Less(c, a)
  BY DEF Position, Less

\* A page is closed downwards: what comes before a row of it is in it.
LEMMA PageIsClosed ==
  ASSUME TypeOK, IsFiniteSet(Committed), NEW r \in Unread, NEW last \in NextBatch,
         ~Less(Key(last), Key(r))
  PROVE  r \in NextBatch
  <1> DEFINE before(x) == {q \in Unread : Less(Key(q), Key(x))}
  <1>1. r \in Rows /\ last \in Rows /\ Unread \subseteq Rows /\ Unread \subseteq Committed
    BY DEF Unread, NextBatch, Committed
  <1>2. before(r) \subseteq before(last)
    BY <1>1, RowKeys, LessIsOrder
  <1>3. IsFiniteSet(before(last))
    BY <1>1, FS_Subset
  <1>4. Cardinality(before(r)) <= Cardinality(before(last)) /\ IsFiniteSet(before(r))
    BY <1>2, <1>3, FS_Subset
  <1>5. Cardinality(before(last)) < Limit
    BY DEF NextBatch
  <1>6. Cardinality(before(r)) \in Nat /\ Cardinality(before(last)) \in Nat
    BY <1>3, <1>4, FS_CardinalityType
  <1>7. Cardinality(before(r)) < Limit
    BY <1>4, <1>5, <1>6, NumbersAssumption
  <1>8. QED
    BY <1>7 DEF NextBatch

\* A page that is not empty has a last row.
LEMMA PageHasLast ==
  ASSUME TypeOK, IsFiniteSet(Committed), NextBatch # {}
  PROVE  \E r \in NextBatch : \A q \in NextBatch : ~Less(Key(r), Key(q))
  <1> DEFINE before(x) == {q \in Unread : Less(Key(q), Key(x))}
             left(x) == Limit - Cardinality(before(x))
             S == {left(x) : x \in NextBatch}
  <1>1. Unread \subseteq Rows /\ Unread \subseteq Committed /\ NextBatch \subseteq Unread
    BY DEF Unread, NextBatch, Committed
  <1>2. ASSUME NEW x \in NextBatch
        PROVE  IsFiniteSet(before(x)) /\ Cardinality(before(x)) \in Nat /\ left(x) \in Nat
    <2>1. IsFiniteSet(before(x))
      BY <1>1, FS_Subset
    <2>2. Cardinality(before(x)) \in Nat
      BY <2>1, FS_CardinalityType
    <2>3. Cardinality(before(x)) < Limit
      BY DEF NextBatch
    <2>4. QED
      BY <2>1, <2>2, <2>3, NumbersAssumption
  <1>3. S \in SUBSET Nat /\ S # {}
    BY <1>2
  <1>4. \E n \in S : \A m \in S : n <= m
    BY <1>3, SmallestOf
  <1>5. PICK r \in NextBatch : \A q \in NextBatch : left(r) <= left(q)
    BY <1>4
  <1>6. ASSUME NEW q \in NextBatch, Less(Key(r), Key(q))
        PROVE  FALSE
    <2>1. r \in Rows /\ q \in Rows /\ r \in Unread
      BY <1>1
    <2>2. before(r) \union {r} \subseteq before(q)
      BY <1>1, <1>6, <2>1, RowKeys, LessIsOrder
    <2>3. r \notin before(r)
      BY <2>1, RowKeys, LessIsOrder
    <2>4. Cardinality(before(r) \union {r}) = Cardinality(before(r)) + 1
      BY <1>2, <2>3, FS_AddElement
    <2>5. Cardinality(before(r) \union {r}) <= Cardinality(before(q))
      BY <1>2, <2>2, FS_Subset
    <2>6. left(q) < left(r)
      BY <1>2, <2>4, <2>5, NumbersAssumption
    <2>7. QED
      BY <1>2, <1>5, <2>6
  <1>7. QED
    BY <1>6

------------------------------------------------------------------------------
(* The strengthening.                                                        *)

\* At any time the table is finite.
TableIsFinite == IsFiniteSet({r \in Rows : rState[r] # "free"})

\* The rows of an open transaction carry its start time, committed rows belong to
\* nobody any more.
RowsHaveOwners ==
    \A r \in Rows :
        /\ rState[r] # "open" => rOwner[r] = None
        /\ rOwner[r] # None =>
               /\ rState[r] = "open"
               /\ txStart[rOwner[r]] # 0
               /\ rStamp[r] = txStart[rOwner[r]]

\* Only the holder of the advisory lock is projecting, and nobody else has written.
HolderProjects ==
    \A p \in Projectors :
        /\ pPc[p] = "rows" <=> lock = p
        /\ pPc[p] # "rows" => pWrites[p] = {}

\* The cursor is a whole millisecond.
CursorIsAligned == Truncate(cursor.stamp) = cursor.stamp

Written(p) == {write.row : write \in pWrites[p]}

\* What a projector has in hand: committed rows from the cursor's millisecond on,
\* and all that its new cursor will pass.
BatchIsSound(p) ==
    /\ \A r \in pBatch[p] \union Written(p) :
           rState[r] = "committed" /\ rStamp[r] >= cursor.stamp
    /\ pLast[p].stamp >= cursor.stamp
    /\ Truncate(pLast[p].stamp) = pLast[p].stamp
    /\ \A r \in Rows :
           rState[r] = "committed" /\ ~After(Key(r), pLast[p])
               => r \in projected \union late \union pBatch[p] \union Written(p)

BatchesAreSound == \A p \in Projectors : pPc[p] = "rows" => BatchIsSound(p)

ProjectionInv ==
    /\ TypeOK
    /\ TableIsFinite
    /\ RowsHaveOwners
    /\ HolderProjects
    /\ CursorIsAligned
    /\ BatchesAreSound
    /\ OnlyLateEventsAreSkipped
    /\ OneDeliveryPerEvent
LEMMA InitProjectionInv ==
  ASSUME Init
  PROVE  ProjectionInv
  <1>1. TypeOK
    BY NumbersAssumption DEF Init, TypeOK, Origin, Position
  <1>2. TableIsFinite
    <2>1. {r \in Rows : rState[r] # "free"} = {}
      BY DEF Init
    <2>2. QED
      BY <2>1, FS_EmptySet DEF TableIsFinite
  <1>3. RowsHaveOwners
    BY DEF Init, RowsHaveOwners
  <1>4. HolderProjects
    BY NoneAssumption DEF Init, HolderProjects
  <1>5. CursorIsAligned
    BY TruncateRoundsDown DEF Init, CursorIsAligned, Origin
  <1>6. BatchesAreSound
    BY DEF Init, BatchesAreSound
  <1>7. OnlyLateEventsAreSkipped /\ OneDeliveryPerEvent
    BY DEF Init, OnlyLateEventsAreSkipped, OneDeliveryPerEvent
  <1>8. QED
    BY <1>1, <1>2, <1>3, <1>4, <1>5, <1>6, <1>7 DEF ProjectionInv

\* What a projector has in hand is not touched by steps that leave the committed
\* rows, the cursor and the projectors alone.
LEMMA QuietKeeps ==
  ASSUME ProjectionInv, TypeOK',
         UNCHANGED <<cursor, projectorVars, projected, late>>,
         \A r \in Rows : (rState[r] = "committed") = (rState'[r] = "committed"),
         \A r \in Rows : rState[r] = "committed" => rStamp'[r] = rStamp[r]
  PROVE  HolderProjects' /\ CursorIsAligned' /\ BatchesAreSound' /\ OnlyLateEventsAreSkipped'
  <1> USE DEF ProjectionInv, projectorVars
  <1>1. HolderProjects' /\ CursorIsAligned'
    BY DEF HolderProjects, CursorIsAligned, Truncate
  <1>2. \A r \in Rows : rState[r] = "committed" => Key(r)' = Key(r)
    BY DEF Key
  <1>3. OnlyLateEventsAreSkipped'
    BY <1>2 DEF OnlyLateEventsAreSkipped, After, Less
  <1>4. BatchesAreSound'
    <2> SUFFICES ASSUME NEW p \in Projectors, pPc[p] = "rows"
                 PROVE  BatchIsSound(p)'
      BY DEF BatchesAreSound
    <2>1. BatchIsSound(p)
      BY DEF BatchesAreSound
    <2>2. Written(p)' = Written(p)
      BY DEF Written
    <2>3. Written(p) \subseteq Rows /\ pBatch[p] \subseteq Rows
      BY DEF Written, TypeOK
    <2>4. QED
      BY <1>2, <2>1, <2>2, <2>3 DEF BatchIsSound, After, Less, Truncate
  <1>5. QED
    BY <1>1, <1>3, <1>4

LEMMA BeginKeeps ==
  ASSUME ProjectionInv, NEW w \in Writers, Begin(w)
  PROVE  ProjectionInv'
  <1> USE DEF ProjectionInv
  <1>1. TypeOK'
    BY NumbersAssumption DEF Begin, TypeOK, rowVars, projectorVars, deliveryVars
  <1>2. TableIsFinite' /\ OneDeliveryPerEvent'
    BY DEF Begin, TableIsFinite, OneDeliveryPerEvent, rowVars, deliveryVars
  <1>3. RowsHaveOwners'
    BY NoneAssumption DEF Begin, RowsHaveOwners, TypeOK, rowVars
  <1>4. QED
    BY <1>1, <1>2, <1>3, QuietKeeps DEF Begin, rowVars, projectorVars, deliveryVars

LEMMA InsertKeeps ==
  ASSUME ProjectionInv, NEW w \in Writers, NEW r \in Rows, Insert(w, r)
  PROVE  ProjectionInv'
  <1> USE DEF ProjectionInv
  <1>1. TypeOK'
    BY DEF Insert, TypeOK, projectorVars, deliveryVars
  <1>2. TableIsFinite'
    <2>1. {q \in Rows : rState'[q] # "free"} = {q \in Rows : rState[q] # "free"} \union {r}
      BY DEF Insert, TypeOK
    <2>2. QED
      BY <2>1, FS_AddElement DEF TableIsFinite
  <1>3. RowsHaveOwners'
    BY NoneAssumption DEF Insert, RowsHaveOwners, TypeOK
  <1>4. OneDeliveryPerEvent'
    BY DEF Insert, OneDeliveryPerEvent, deliveryVars
  <1>5. QED
    BY <1>1, <1>2, <1>3, <1>4, QuietKeeps DEF Insert, TypeOK, projectorVars, deliveryVars

\* The end of a transaction changes its own rows, which were open.
LEMMA EndRows ==
  ASSUME ProjectionInv, NEW w \in Writers, NEW state \in {"free", "committed"},
         NEW stamp \in Nat, End(w, state, stamp)
  PROVE  /\ late' \subseteq Rows => TypeOK'
         /\ TableIsFinite' /\ RowsHaveOwners' /\ OneDeliveryPerEvent'
         /\ \A r \in Rows : rOwner[r] # w => UNCHANGED <<rState[r], rStamp[r]>>
         /\ \A r \in Rows : rOwner[r] = w =>
                rState[r] = "open" /\ rStamp[r] = txStart[w] /\ rState'[r] = state /\ rStamp'[r] = stamp
  <1> USE DEF ProjectionInv
  <1>1. w # None
    BY NoneAssumption
  <1>2. late' \subseteq Rows => TypeOK'
    <2>1. rState' \in [Rows -> {"free", "open", "committed"}]
      BY DEF End, TypeOK
    <2>2. rStamp' \in [Rows -> Nat] /\ rOwner' \in [Rows -> Writers \union {None}]
      BY DEF End, TypeOK
    <2>3. txStart' \in [Writers -> Nat] /\ txLeft' \in [Writers -> Nat]
      BY DEF End, TypeOK
    <2>4. QED
      BY <2>1, <2>2, <2>3 DEF End, TypeOK, projectorVars, deliveryVars
  <1>3. \A r \in Rows : rOwner[r] = w =>
            rState[r] = "open" /\ rStamp[r] = txStart[w] /\ rState'[r] = state /\ rStamp'[r] = stamp
    BY <1>1 DEF End, RowsHaveOwners
  <1>4. \A r \in Rows : rOwner[r] # w => UNCHANGED <<rState[r], rStamp[r]>>
    BY DEF End
  <1>5. TableIsFinite'
    <2>1. {r \in Rows : rState'[r] # "free"} \subseteq {r \in Rows : rState[r] # "free"}
      BY <1>3, <1>4
    <2>2. QED
      BY <2>1, FS_Subset DEF TableIsFinite
  <1>6. RowsHaveOwners'
    <2> SUFFICES ASSUME NEW r \in Rows
                 PROVE  /\ rState'[r] # "open" => rOwner'[r] = None
                        /\ rOwner'[r] # None =>
                               /\ rState'[r] = "open"
                               /\ txStart'[rOwner'[r]] # 0
                               /\ rStamp'[r] = txStart'[rOwner'[r]]
      BY DEF RowsHaveOwners
    <2>1. CASE rOwner[r] = w
      BY <2>1 DEF End
    <2>2. CASE rOwner[r] # w
      BY <1>4, <2>2 DEF End, RowsHaveOwners, TypeOK
    <2>3. QED
      BY <2>1, <2>2
  <1>7. OneDeliveryPerEvent'
    BY DEF End, OneDeliveryPerEvent, deliveryVars
  <1>8. QED
    BY <1>2, <1>3, <1>4, <1>5, <1>6, <1>7 DEF TypeOK

LEMMA RollbackKeeps ==
  ASSUME ProjectionInv, NEW w \in Writers, Rollback(w)
  PROVE  ProjectionInv'
  <1>1. End(w, "free", 0) /\ late' = late
    BY DEF Rollback
  <1>2. UNCHANGED <<cursor, projectorVars, projected, late>>
    BY <1>1 DEF End, deliveryVars
  <1>3. late' \subseteq Rows
    BY <1>1 DEF ProjectionInv, TypeOK
  <1>4. TypeOK' /\ TableIsFinite' /\ RowsHaveOwners' /\ OneDeliveryPerEvent'
    BY <1>1, <1>3, EndRows
  <1>5. /\ \A r \in Rows : (rState[r] = "committed") = (rState'[r] = "committed")
        /\ \A r \in Rows : rState[r] = "committed" => rStamp'[r] = rStamp[r]
    BY <1>1, EndRows
  <1>6. QED
    BY <1>2, <1>4, <1>5, QuietKeeps DEF ProjectionInv
\* A row that is committed behind the cursor, or behind a batch, is late.
LEMMA CommitKeeps ==
  ASSUME ProjectionInv, NEW w \in Writers, Commit(w)
  PROVE  ProjectionInv'
  <1> USE DEF ProjectionInv
  <1>1. End(w, "committed", txStart[w]) /\ txStart[w] \in Nat
    BY DEF Commit, TypeOK
  <1>2. UNCHANGED <<cursor, projectorVars, projected>>
    BY <1>1 DEF End, deliveryVars
  <1>3. late \subseteq late' /\ late' \subseteq Rows
    BY DEF Commit, TypeOK
  <1>4. TypeOK' /\ TableIsFinite' /\ RowsHaveOwners' /\ OneDeliveryPerEvent'
    BY <1>1, <1>3, EndRows
  <1>5. \A r \in Rows : rState'[r] = "committed" =>
            /\ Key(r)' = Key(r)
            /\ rOwner[r] = w \/ rState[r] = "committed"
    BY <1>1, EndRows DEF Key
  <1>6. \A r \in Rows : rState[r] = "committed" => rState'[r] = "committed" /\ rStamp'[r] = rStamp[r]
    BY <1>1, EndRows
  <1>7. HolderProjects' /\ CursorIsAligned'
    BY <1>2 DEF HolderProjects, CursorIsAligned, Truncate, projectorVars
  <1>8. OnlyLateEventsAreSkipped'
    <2> SUFFICES ASSUME NEW r \in Rows, rState'[r] = "committed", ~After(Key(r), cursor)
                 PROVE  r \in projected \union late'
      BY <1>2, <1>5 DEF OnlyLateEventsAreSkipped, After, Less
    <2>1. CASE rOwner[r] = w
      BY <2>1 DEF Commit
    <2>2. CASE rOwner[r] # w
      BY <1>3, <1>5, <2>2 DEF OnlyLateEventsAreSkipped
    <2>3. QED
      BY <2>1, <2>2
  <1>9. BatchesAreSound'
    <2> SUFFICES ASSUME NEW p \in Projectors, pPc[p] = "rows"
                 PROVE  BatchIsSound(p)'
      BY <1>2 DEF BatchesAreSound, projectorVars
    <2>1. BatchIsSound(p)
      BY DEF BatchesAreSound
    <2>2. Written(p)' = Written(p) /\ UNCHANGED <<cursor, pBatch, pLast, projected>>
      BY <1>2 DEF Written, projectorVars
    <2>3. Written(p) \subseteq Rows /\ pBatch[p] \subseteq Rows
      BY DEF Written, TypeOK
    <2>4. \A r \in pBatch[p] \union Written(p) :
              rState'[r] = "committed" /\ rStamp'[r] >= cursor.stamp
      BY <1>6, <2>1, <2>3 DEF BatchIsSound
    <2>5. ASSUME NEW r \in Rows, rState'[r] = "committed", ~After(Key(r), pLast[p])
          PROVE  r \in projected \union late' \union pBatch[p] \union Written(p)
      <3>1. CASE rOwner[r] = w
        BY <2>5, <3>1 DEF Commit
      <3>2. CASE rOwner[r] # w
        BY <1>3, <1>5, <2>1, <2>5, <3>2 DEF BatchIsSound
      <3>3. QED
        BY <3>1, <3>2
    <2>6. QED
      BY <1>5, <2>1, <2>2, <2>4, <2>5 DEF BatchIsSound, After, Less, Truncate
  <1>10. QED
    BY <1>4, <1>7, <1>8, <1>9

LEMMA OutsideKeeps ==
  ASSUME ProjectionInv, Advance \/ UNCHANGED vars \/ \E s \in Subs : Toggle(s)
  PROVE  ProjectionInv'
  <1> USE DEF ProjectionInv
  <1>1. UNCHANGED <<txStart, rowVars, cursor, projectorVars, deliveries, projected, late>>
    BY DEF Advance, Toggle, vars, writerVars, deliveryVars
  <1>2. now' \in Nat /\ subActive' \subseteq Subs /\ UNCHANGED <<txLeft, aborts>>
    BY DEF Advance, Toggle, vars, writerVars, deliveryVars, TypeOK
  <1>3. TypeOK'
    BY <1>1, <1>2 DEF TypeOK, rowVars, projectorVars
  <1>4. TableIsFinite' /\ OneDeliveryPerEvent' /\ RowsHaveOwners'
    BY <1>1 DEF TableIsFinite, OneDeliveryPerEvent, RowsHaveOwners, rowVars
  <1>5. QED
    BY <1>1, <1>3, <1>4, QuietKeeps DEF rowVars

\* Steps of projectors leave the table alone.
LEMMA TableKept ==
  ASSUME ProjectionInv, UNCHANGED <<writerVars, rowVars>>
  PROVE  TableIsFinite' /\ RowsHaveOwners'
  BY DEF ProjectionInv, TableIsFinite, RowsHaveOwners, writerVars, rowVars

LEMMA ReadBatchKeeps ==
  ASSUME ProjectionInv, NEW p \in Projectors, ReadBatch(p)
  PROVE  ProjectionInv'
  <1> DEFINE last == CHOOSE r \in NextBatch : \A q \in NextBatch : ~Less(Key(r), Key(q))
             goal == IF NextBatch = {} THEN cursor
                     ELSE [stamp |-> Truncate(rStamp[last]), id |-> last]
  <1> USE DEF ProjectionInv
  <1>1. /\ lock = None
        /\ lock' = p
        /\ pBatch' = [pBatch EXCEPT ![p] = NextBatch]
        /\ pLast' = [pLast EXCEPT ![p] = goal]
        /\ pPc' = [pPc EXCEPT ![p] = "rows"]
        /\ UNCHANGED <<writerVars, rowVars, cursor, pWrites, deliveryVars, late, aborts>>
    BY DEF ReadBatch, LockFree
  <1>2. NextBatch \subseteq Unread /\ Unread \subseteq Rows
    BY DEF NextBatch, Unread
  <1>3. IsFiniteSet(Committed)
    <2>1. Committed \subseteq {r \in Rows : rState[r] # "free"}
      BY DEF Committed
    <2>2. QED
      BY <2>1, FS_Subset DEF TableIsFinite
  <1>4. NextBatch # {} => last \in NextBatch /\ \A q \in NextBatch : ~Less(Key(last), Key(q))
    BY <1>3, PageHasLast
  <1>4a. /\ NextBatch = {} => goal = cursor
         /\ NextBatch # {} => goal = [stamp |-> Truncate(rStamp[last]), id |-> last]
    OBVIOUS
  <1> HIDE DEF last, goal
  <1>5. ASSUME NEW r \in Unread
        PROVE  rState[r] = "committed" /\ rStamp[r] >= cursor.stamp
    BY <1>2, RowKeys DEF Unread, After, Less, TypeOK, Position
  <1>6. /\ goal \in Position
        /\ goal.stamp >= cursor.stamp
        /\ Truncate(goal.stamp) = goal.stamp
    <2>1. CASE NextBatch = {}
      BY <1>4a, <2>1 DEF CursorIsAligned, TypeOK, Position
    <2>2. CASE NextBatch # {}
      <3>1. last \in Rows /\ rStamp[last] \in Nat /\ rStamp[last] >= cursor.stamp /\ last \in Nat
        <4>1. last \in Unread
          BY <1>2, <1>4, <2>2
        <4>2. last \in Rows
          BY <1>2, <4>1
        <4>3. rStamp[last] >= cursor.stamp
          BY <1>5, <4>1
        <4>4. rStamp[last] \in Nat /\ last \in Nat
          BY <4>2, RowsAssumption DEF TypeOK
        <4>5. QED
          BY <4>2, <4>3, <4>4
      <3>2. goal = [stamp |-> Truncate(rStamp[last]), id |-> last]
        BY <1>4a, <2>2
      <3>3. Truncate(rStamp[last]) >= cursor.stamp
        BY <3>1, TruncateIsLargest DEF CursorIsAligned, TypeOK, Position
      <3>4. QED
        BY <3>1, <3>2, <3>3, TruncateRoundsDown, TruncateTwice DEF Position
    <2>3. QED
      BY <2>1, <2>2
  <1>7. TypeOK'
    BY <1>1, <1>2, <1>6 DEF TypeOK, writerVars, rowVars, deliveryVars
  <1>8. TableIsFinite' /\ RowsHaveOwners'
    BY <1>1, TableKept
  <1>9. HolderProjects'
    BY <1>1, NoneAssumption DEF HolderProjects, TypeOK
  <1>10. CursorIsAligned' /\ OnlyLateEventsAreSkipped' /\ OneDeliveryPerEvent'
    BY <1>1 DEF CursorIsAligned, OnlyLateEventsAreSkipped, OneDeliveryPerEvent, Truncate, Key,
                rowVars, deliveryVars
  <1>11. ASSUME NEW r \in Rows, rState[r] = "committed", ~After(Key(r), goal)
         PROVE  r \in projected \union late \union NextBatch
    <2>1. CASE r \notin Unread
      BY <1>11, <2>1 DEF Unread, OnlyLateEventsAreSkipped
    <2>2. CASE r \in Unread /\ NextBatch = {}
      BY <1>11, <1>4a, <2>2 DEF Unread
    <2>3. CASE r \in Unread /\ NextBatch # {}
      <3>1. last \in Rows /\ rStamp[last] \in Nat
        BY <1>2, <1>4, <2>3 DEF TypeOK
      <3>2. Truncate(rStamp[last]) <= rStamp[last] /\ Truncate(rStamp[last]) \in Nat
        BY <3>1, TruncateRoundsDown
      <3>3. goal = [stamp |-> Truncate(rStamp[last]), id |-> last]
        BY <1>4a, <2>3
      <3>4. Key(r) = [stamp |-> rStamp[r], id |-> r] /\ Key(last) = [stamp |-> rStamp[last], id |-> last]
        BY DEF Key
      <3>5. rStamp[r] \in Nat /\ r \in Nat /\ last \in Nat
        BY <3>1, RowsAssumption DEF TypeOK
      <3>6. ~Less(Key(last), Key(r))
        BY <1>11, <3>1, <3>2, <3>3, <3>4, <3>5 DEF After, Less
      <3>7. QED
        BY <1>3, <1>4, <2>3, <3>6, PageIsClosed
    <2>4. QED
      BY <2>1, <2>2, <2>3
  <1>12. BatchesAreSound'
    <2> SUFFICES ASSUME NEW x \in Projectors, pPc'[x] = "rows"
                 PROVE  BatchIsSound(x)'
      BY DEF BatchesAreSound
    <2>1. x = p
      BY <1>1, NoneAssumption DEF HolderProjects, TypeOK
    <2>2. pBatch'[p] = NextBatch /\ pLast'[p] = goal
      BY <1>1 DEF TypeOK
    <2>3. Written(p)' = {}
      BY <1>1, NoneAssumption DEF Written, HolderProjects
    <2>4. QED
      BY <1>1, <1>2, <1>5, <1>6, <1>11, <2>1, <2>2, <2>3
      DEF BatchIsSound, After, Less, Truncate, Key, rowVars, deliveryVars
  <1>13. QED
    BY <1>7, <1>8, <1>9, <1>10, <1>12
LEMMA ProjectRowKeeps ==
  ASSUME ProjectionInv, NEW p \in Projectors, NEW r \in Rows, ProjectRow(p, r)
  PROVE  ProjectionInv'
  <1> DEFINE write == [row |-> r, subs |-> IF r \in PublicRows THEN subActive ELSE {}]
  <1> USE DEF ProjectionInv
  <1>1. /\ pPc[p] = "rows" /\ r \in pBatch[p]
        /\ pBatch' = [pBatch EXCEPT ![p] = @ \ {r}]
        /\ pWrites' = [pWrites EXCEPT ![p] = @ \union {write}]
        /\ UNCHANGED <<writerVars, rowVars, cursor, lock, pPc, pLast, deliveryVars, late, aborts>>
    BY DEF ProjectRow
  <1>2. DOMAIN pWrites = Projectors
    BY DEF TypeOK
  <1>3. write.row = r /\ write \in [row : Rows, subs : SUBSET Subs]
    BY DEF TypeOK
  <1> HIDE DEF write
  <1>4. TypeOK'
    <2>1. pWrites' \in [Projectors -> SUBSET [row : Rows, subs : SUBSET Subs]]
      BY <1>1, <1>3 DEF TypeOK
    <2>2. pBatch' \in [Projectors -> SUBSET Rows]
      BY <1>1 DEF TypeOK
    <2>3. QED
      BY <1>1, <2>1, <2>2 DEF TypeOK, writerVars, rowVars, deliveryVars
  <1>5. TableIsFinite' /\ RowsHaveOwners'
    BY <1>1, TableKept
  <1>6. HolderProjects'
    BY <1>1 DEF HolderProjects
  <1>7. CursorIsAligned' /\ OnlyLateEventsAreSkipped' /\ OneDeliveryPerEvent'
    BY <1>1 DEF CursorIsAligned, OnlyLateEventsAreSkipped, OneDeliveryPerEvent, Truncate, Key,
                rowVars, deliveryVars
  <1>8. BatchesAreSound'
    <2> SUFFICES ASSUME NEW x \in Projectors, pPc[x] = "rows"
                 PROVE  BatchIsSound(x)'
      BY <1>1 DEF BatchesAreSound
    <2>1. BatchIsSound(x)
      BY DEF BatchesAreSound
    <2>2. (pBatch[x] \union Written(x))' = pBatch[x] \union Written(x)
      <3>1. x = p
        BY <1>1 DEF HolderProjects
      <3>2. Written(p)' = Written(p) \union {r}
        BY <1>1, <1>2, <1>3 DEF Written
      <3>3. pBatch'[p] = pBatch[p] \ {r}
        BY <1>1 DEF TypeOK
      <3>4. QED
        BY <1>1, <3>1, <3>2, <3>3
    <2>3. \A q \in Rows : Key(q)' = Key(q)
      BY <1>1 DEF Key, rowVars
    <2>4. QED
      BY <1>1, <2>1, <2>2, <2>3 DEF BatchIsSound, After, Less, Truncate, rowVars, deliveryVars
  <1>9. QED
    BY <1>4, <1>5, <1>6, <1>7, <1>8

\* A projector gives up the lock and all it has in hand.
LEMMA LeavingKeeps ==
  ASSUME ProjectionInv, NEW p \in Projectors, pPc[p] = "rows",
         UNCHANGED <<writerVars, rowVars>>,
         lock' = None,
         pPc' = [pPc EXCEPT ![p] = "idle"],
         pWrites' = [pWrites EXCEPT ![p] = {}]
  PROVE  /\ TableIsFinite' /\ RowsHaveOwners' /\ HolderProjects'
         /\ \A x \in Projectors : pPc'[x] # "rows"
  <1>1. TableIsFinite' /\ RowsHaveOwners'
    BY TableKept
  <1>2. DOMAIN pWrites = Projectors /\ pPc \in [Projectors -> {"idle", "rows"}]
    BY DEF ProjectionInv, TypeOK
  <1>3. \A x \in Projectors : x # p => pPc[x] # "rows"
    BY DEF ProjectionInv, HolderProjects
  <1>4. \A x \in Projectors : pPc'[x] # "rows"
    BY <1>2, <1>3
  <1>5. HolderProjects'
    BY <1>2, <1>3, <1>4, NoneAssumption DEF ProjectionInv, HolderProjects
  <1>6. QED
    BY <1>1, <1>4, <1>5

LEMMA AbortBatchKeeps ==
  ASSUME ProjectionInv, NEW p \in Projectors, AbortBatch(p)
  PROVE  ProjectionInv'
  <1> USE DEF ProjectionInv
  <1>1. TableIsFinite' /\ RowsHaveOwners' /\ HolderProjects'
        /\ \A x \in Projectors : pPc'[x] # "rows"
    BY LeavingKeeps DEF AbortBatch
  <1>2. TypeOK'
    <2>1. pWrites' \in [Projectors -> SUBSET [row : Rows, subs : SUBSET Subs]]
      BY DEF AbortBatch, TypeOK
    <2>2. QED
      BY <2>1 DEF AbortBatch, TypeOK, Origin, Position, writerVars, rowVars, deliveryVars
  <1>3. CursorIsAligned' /\ OnlyLateEventsAreSkipped' /\ OneDeliveryPerEvent'
    BY DEF AbortBatch, CursorIsAligned, OnlyLateEventsAreSkipped, OneDeliveryPerEvent, Truncate,
           Key, rowVars, deliveryVars
  <1>4. BatchesAreSound'
    BY <1>1 DEF BatchesAreSound
  <1>5. QED
    BY <1>1, <1>2, <1>3, <1>4

\* What is left unread behind the new cursor was read in this batch, or is late.
LEMMA CommitBatchKeeps ==
  ASSUME ProjectionInv, NEW p \in Projectors, CommitBatch(p)
  PROVE  ProjectionInv'
  <1> USE DEF ProjectionInv
  <1>1. TableIsFinite' /\ RowsHaveOwners' /\ HolderProjects'
        /\ \A x \in Projectors : pPc'[x] # "rows"
    BY LeavingKeeps DEF CommitBatch
  <1>2. BatchIsSound(p) /\ pBatch[p] = {}
    BY DEF CommitBatch, BatchesAreSound
  <1>3. Written(p) \subseteq Rows /\ projected' = projected \union Written(p)
    BY DEF CommitBatch, Written, TypeOK
  <1>4. /\ deliveries' \in [Subs \X Rows -> Nat]
        /\ \A d \in Subs \X Rows : deliveries'[d] <= 1
    <2>1. \A d \in Subs \X Rows : deliveries[d] \in Nat /\ deliveries[d] <= 1
      BY DEF TypeOK, OneDeliveryPerEvent
    <2>2. \A d \in Subs \X Rows : InsertOnce(deliveries[d]) \in Nat /\ InsertOnce(deliveries[d]) <= 1
      BY <2>1 DEF InsertOnce
    <2>3. QED
      BY <2>1, <2>2 DEF CommitBatch
  <1>5. TypeOK'
    <2>1. pWrites' \in [Projectors -> SUBSET [row : Rows, subs : SUBSET Subs]]
      BY DEF CommitBatch, TypeOK
    <2>2. QED
      BY <1>3, <1>4, <2>1 DEF CommitBatch, TypeOK, Origin, Position, writerVars, rowVars
  <1>6. OneDeliveryPerEvent'
    BY <1>4 DEF OneDeliveryPerEvent
  <1>7. cursor' = pLast[p] /\ UNCHANGED <<rowVars, late>>
    BY DEF CommitBatch
  <1>8. CursorIsAligned'
    BY <1>2, <1>7 DEF BatchIsSound, CursorIsAligned, Truncate
  <1>9. OnlyLateEventsAreSkipped'
    BY <1>2, <1>3, <1>7 DEF BatchIsSound, OnlyLateEventsAreSkipped, After, Less, Key, rowVars
  <1>10. BatchesAreSound'
    BY <1>1 DEF BatchesAreSound
  <1>11. QED
    BY <1>1, <1>5, <1>6, <1>8, <1>9, <1>10

LEMMA NextProjectionInv == ProjectionInv /\ [Next]_vars => ProjectionInv'
  BY BeginKeeps, InsertKeeps, CommitKeeps, RollbackKeeps, OutsideKeeps, ReadBatchKeeps,
     ProjectRowKeeps, CommitBatchKeeps, AbortBatchKeeps
  DEF Next, WriterStep, ProjectorStep

LEMMA ProjectionInvHolds == Spec => []ProjectionInv
  BY InitProjectionInv, NextProjectionInv, PTL DEF Spec

------------------------------------------------------------------------------
(* What follows.                                                             *)

\* Every variable has its type.
THEOREM ProjectionTypes == Spec => []TypeOK
  <1>1. ProjectionInv => TypeOK
    BY DEF ProjectionInv
  <1>2. QED
    BY <1>1, ProjectionInvHolds, PTL

\* However often the millisecond cursor makes the projection read a row again, a
\* subscription gets one original delivery of it.
THEOREM EventsAreDeliveredOnce == Spec => []OneDeliveryPerEvent
  <1>1. ProjectionInv => OneDeliveryPerEvent
    BY DEF ProjectionInv
  <1>2. QED
    BY <1>1, ProjectionInvHolds, PTL

\* For any page size, clock and number of projectors: an event that the cursor left
\* unread was committed late.
THEOREM OnlyLateIsSkipped == Spec => []OnlyLateEventsAreSkipped
  <1>1. ProjectionInv => OnlyLateEventsAreSkipped
    BY DEF ProjectionInv
  <1>2. QED
    BY <1>1, ProjectionInvHolds, PTL

LEMMA OnlyCommitMoves ==
  ASSUME Next, ~UNCHANGED <<cursor, deliveries>>
  PROVE  \E p \in Projectors : CommitBatch(p)
  BY DEF Next, WriterStep, ProjectorStep, Advance, Begin, Insert, Commit, Rollback, End, ReadBatch,
         ProjectRow, AbortBatch, Toggle, deliveryVars

\* The cursor never moves back to an earlier millisecond.
THEOREM CursorsAdvance == Spec => CursorNeverRewinds
  <1>1. ProjectionInv /\ [Next]_vars => [cursor'.stamp >= cursor.stamp]_vars
    <2> SUFFICES ASSUME ProjectionInv, Next PROVE cursor'.stamp >= cursor.stamp
      OBVIOUS
    <2>1. CASE UNCHANGED cursor
      BY <2>1 DEF ProjectionInv, TypeOK, Position
    <2>2. ASSUME NEW p \in Projectors, CommitBatch(p) PROVE cursor'.stamp >= cursor.stamp
      BY <2>2 DEF ProjectionInv, BatchesAreSound, BatchIsSound, CommitBatch
    <2>3. QED
      BY <2>1, <2>2, OnlyCommitMoves
  <1>2. QED
    BY <1>1, ProjectionInvHolds, PTL DEF Spec, CursorNeverRewinds

\* A delivery is only created for an event of the cursor's millisecond or later.
THEOREM OldEventsStayOld == Spec => OldEventsAreNotDelivered
  <1> DEFINE A == \A d \in Subs \X Rows :
                     deliveries'[d] > deliveries[d] => Truncate(rStamp[d[2]]) >= cursor.stamp
  <1>1. ProjectionInv /\ [Next]_vars => [A]_vars
    <2> SUFFICES ASSUME ProjectionInv, Next,
                        NEW d \in Subs \X Rows, deliveries'[d] > deliveries[d]
                 PROVE  Truncate(rStamp[d[2]]) >= cursor.stamp
      OBVIOUS
    <2>1. deliveries[d] \in Nat
      BY DEF ProjectionInv, TypeOK
    <2>2. PICK p \in Projectors : CommitBatch(p)
      BY <2>1, OnlyCommitMoves
    <2>3. d[2] \in Written(p)
      BY <2>1, <2>2 DEF CommitBatch, Written
    <2>4. rStamp[d[2]] >= cursor.stamp /\ d[2] \in Rows
      BY <2>2, <2>3 DEF ProjectionInv, BatchesAreSound, BatchIsSound, CommitBatch
    <2>5. QED
      BY <2>4, TruncateIsLargest DEF ProjectionInv, CursorIsAligned, TypeOK, Position
  <1>2. QED
    BY <1>1, ProjectionInvHolds, PTL DEF Spec, OldEventsAreNotDelivered
=============================================================================
