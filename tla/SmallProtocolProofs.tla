------------------------ MODULE SmallProtocolProofs ------------------------
(* Proofs about the three protocols that stand beside the large ones: the    *)
(* reconciliation of an ambiguous commit, edit locks, and presence; for any  *)
(* number of transactions, keys, entities, users, connections and faults.    *)
EXTENDS CommitReconciliation, EntityLocks, ChatPresence, FiniteSetTheorems, TLAPS

------------------------------------------------------------------------------
(* CommitReconciliation.                                                    *)

\* The process and the server agree on how far a transaction has come.
Stages ==
    \A t \in Txs :
        /\ txPc[t] = "idle" => server[t] = "none"
        /\ txPc[t] = "work" => server[t] = "open"
        /\ server[t] = "open" => txPc[t] = "work"
        /\ txPc[t] \in {"commit", "rows", "state", "conclude"} =>
               server[t] \in {"committing", "committed", "aborted"}
        /\ server[t] = "none" => inserted[t] = {} /\ raised[t] = 0
        /\ txAnswer[t] # "none" => txPc[t] = "end"

\* Until its end a transaction that inserted keys holds the enqueue lock, and
\* nobody else has written them.
LockCoversKeys ==
    \A t \in Txs :
        server[t] \in {"open", "committing"} /\ inserted[t] # {} =>
            /\ lock = t
            /\ \A k \in inserted[t] : row[k] = NoTx

\* A visible row proves that its transaction committed.
RowsAreCommitted == \A k \in EventKeys : row[k] # NoTx => server[row[k]] = "committed"

Undecided(t) == server[t] \notin {"committed", "aborted"}

\* One transaction at a time raises the epoch, by one; it stays raised.
EpochRises ==
    \A t \in Txs :
        /\ raised[t] # 0 /\ Undecided(t) => raised[t] = epoch + 1
        /\ server[t] = "committed" => raised[t] <= epoch
        /\ \A u \in Txs :
               raised[t] # 0 /\ raised[u] # 0 /\ Undecided(t) /\ Undecided(u) => t = u

\* What a transaction that is told of success relies on.
InEffect(t) ==
    \/ server[t] = "committed"
    \/ inserted[t] = {} /\ raised[t] \in 1 .. epoch

\* What the looks of a transaction have said: that it committed only if it is in
\* effect, that it did not only if the server undid it or still was deciding; and
\* the first look left evidence exactly if there were rows to look for.
EvidenceIsTrue ==
    \A t \in Txs :
        /\ evidence[t] = {"committed"} => InEffect(t)
        /\ "not_committed" \in evidence[t] => server[t] = "aborted" \/ t \in late
        /\ txPc[t] \in {"idle", "work", "commit", "rows"} => evidence[t] = {}
        /\ txPc[t] = "state" => (evidence[t] = {} <=> inserted[t] = {})

CommitIInv ==
    /\ CommitTypeOK
    /\ Stages
    /\ LockCoversKeys
    /\ RowsAreCommitted
    /\ EvidenceIsKept
    /\ EpochRises
    /\ EvidenceIsTrue

LEMMA InitCommitIInv == CommitInit => CommitIInv
  BY NoTxAssumption, BoundAssumption
     DEF CommitInit, CommitIInv, CommitTypeOK, Stages, LockCoversKeys, RowsAreCommitted,
         EvidenceIsKept,
         EpochRises, EvidenceIsTrue

LEMMA NextCommitIInv == CommitIInv /\ [CommitNext]_commitVars => CommitIInv'
  <1> SUFFICES ASSUME CommitIInv, [CommitNext]_commitVars PROVE CommitIInv'
    OBVIOUS
  <1> USE NoTxAssumption, BoundAssumption
  <1> USE DEF CommitIInv, Released, Fault, Tell, epochVars, lookVars
  <1>1. CASE UNCHANGED commitVars
    BY <1>1
       DEF commitVars, CommitTypeOK, Stages, LockCoversKeys, RowsAreCommitted, EvidenceIsKept,
                EpochRises, Undecided, EvidenceIsTrue, InEffect
  <1>2. ASSUME NEW t \in Txs, Step(t) PROVE CommitIInv'
    <2>1. CASE Begin(t)
      <3>1. CommitTypeOK'
        BY <2>1 DEF Begin, CommitTypeOK
      <3>2. Stages'
        BY <2>1 DEF Begin, CommitTypeOK, Stages
      <3>3. LockCoversKeys'
        BY <2>1 DEF Begin, CommitTypeOK, LockCoversKeys, Stages
      <3>4. RowsAreCommitted'
        BY <2>1 DEF Begin, CommitTypeOK, RowsAreCommitted, Stages
      <3>5. EvidenceIsKept'
        BY <2>1 DEF Begin, CommitTypeOK, EvidenceIsKept, Stages, LockCoversKeys
      <3>6. EpochRises'
        BY <2>1 DEF Begin, CommitTypeOK, EpochRises, Undecided, Stages
      <3>7. EvidenceIsTrue'
        BY <2>1 DEF Begin, CommitTypeOK, EvidenceIsTrue, InEffect, Stages
      <3>8. QED
        BY <3>1, <3>2, <3>3, <3>4, <3>5, <3>6, <3>7
    <2>2. CASE FailBegin(t)
      <3>1. CommitTypeOK'
        BY <2>2 DEF FailBegin, CommitTypeOK
      <3>2. Stages'
        BY <2>2 DEF FailBegin, CommitTypeOK, Stages
      <3>3. LockCoversKeys'
        BY <2>2 DEF FailBegin, CommitTypeOK, LockCoversKeys
      <3>4. RowsAreCommitted'
        BY <2>2 DEF FailBegin, CommitTypeOK, RowsAreCommitted
      <3>5. EvidenceIsKept'
        BY <2>2 DEF FailBegin, CommitTypeOK, EvidenceIsKept, Stages, LockCoversKeys
      <3>6. EpochRises'
        BY <2>2 DEF FailBegin, CommitTypeOK, EpochRises, Undecided, Stages
      <3>7. EvidenceIsTrue'
        BY <2>2 DEF FailBegin, CommitTypeOK, EvidenceIsTrue, InEffect, Stages
      <3>8. QED
        BY <3>1, <3>2, <3>3, <3>4, <3>5, <3>6, <3>7
    <2>3. ASSUME NEW k \in EventKeys, Enqueue(t, k) PROVE CommitIInv'
      <3>1. CommitTypeOK'
        BY <2>3 DEF Enqueue, CommitTypeOK
      <3>2. Stages'
        BY <2>3 DEF Enqueue, CommitTypeOK, Stages
      <3>3. LockCoversKeys'
        BY <2>3 DEF Enqueue, CommitTypeOK, LockCoversKeys, LockFree
      <3>4. RowsAreCommitted'
        BY <2>3 DEF Enqueue, CommitTypeOK, RowsAreCommitted
      <3>5. EvidenceIsKept'
        BY <2>3 DEF Enqueue, CommitTypeOK, EvidenceIsKept, Stages, LockCoversKeys
      <3>6. EpochRises'
        BY <2>3 DEF Enqueue, CommitTypeOK, EpochRises, Undecided, Stages
      <3>7. EvidenceIsTrue'
        BY <2>3 DEF Enqueue, CommitTypeOK, EvidenceIsTrue, InEffect, Stages
      <3>8. QED
        BY <3>1, <3>2, <3>3, <3>4, <3>5, <3>6, <3>7
    <2>4. CASE Raise(t)
      <3>1. CommitTypeOK'
        BY <2>4 DEF Raise, CommitTypeOK
      <3>2. Stages'
        BY <2>4 DEF Raise, CommitTypeOK, Stages
      <3>3. LockCoversKeys'
        BY <2>4 DEF Raise, CommitTypeOK, LockCoversKeys
      <3>4. RowsAreCommitted'
        BY <2>4 DEF Raise, CommitTypeOK, RowsAreCommitted
      <3>5. EvidenceIsKept'
        BY <2>4 DEF Raise, CommitTypeOK, EvidenceIsKept, Stages, LockCoversKeys
      <3>6. EpochRises'
        BY <2>4 DEF Raise, CommitTypeOK, EpochRises, Undecided, Stages, EpochFree
      <3>7. EvidenceIsTrue'
        BY <2>4 DEF Raise, CommitTypeOK, EvidenceIsTrue, InEffect, Stages
      <3>8. QED
        BY <3>1, <3>2, <3>3, <3>4, <3>5, <3>6, <3>7
    <2>5. CASE RollBack(t)
      <3>1. CommitTypeOK'
        BY <2>5 DEF RollBack, CommitTypeOK
      <3>2. Stages'
        BY <2>5 DEF RollBack, CommitTypeOK, Stages
      <3>3. LockCoversKeys'
        BY <2>5 DEF RollBack, CommitTypeOK, LockCoversKeys
      <3>4. RowsAreCommitted'
        BY <2>5 DEF RollBack, CommitTypeOK, RowsAreCommitted, Stages
      <3>5. EvidenceIsKept'
        BY <2>5 DEF RollBack, CommitTypeOK, EvidenceIsKept, Stages, LockCoversKeys
      <3>6. EpochRises'
        BY <2>5 DEF RollBack, CommitTypeOK, EpochRises, Undecided, Stages
      <3>7. EvidenceIsTrue'
        BY <2>5 DEF RollBack, CommitTypeOK, EvidenceIsTrue, InEffect, Stages
      <3>8. QED
        BY <3>1, <3>2, <3>3, <3>4, <3>5, <3>6, <3>7
    <2>6. CASE SendCommit(t)
      <3>1. CommitTypeOK'
        BY <2>6 DEF SendCommit, CommitTypeOK
      <3>2. Stages'
        BY <2>6 DEF SendCommit, CommitTypeOK, Stages
      <3>3. LockCoversKeys'
        BY <2>6 DEF SendCommit, CommitTypeOK, LockCoversKeys, Stages
      <3>4. RowsAreCommitted'
        BY <2>6 DEF SendCommit, CommitTypeOK, RowsAreCommitted, Stages
      <3>5. EvidenceIsKept'
        BY <2>6 DEF SendCommit, CommitTypeOK, EvidenceIsKept, Stages, LockCoversKeys
      <3>6. EpochRises'
        BY <2>6 DEF SendCommit, CommitTypeOK, EpochRises, Undecided, Stages
      <3>7. EvidenceIsTrue'
        BY <2>6 DEF SendCommit, CommitTypeOK, EvidenceIsTrue, InEffect, Stages
      <3>8. QED
        BY <3>1, <3>2, <3>3, <3>4, <3>5, <3>6, <3>7
    <2>7. CASE ServerCommits(t)
      <3>1. CommitTypeOK'
        BY <2>7 DEF ServerCommits, CommitTypeOK
      <3>2. Stages'
        BY <2>7 DEF ServerCommits, CommitTypeOK, Stages
      <3>3. LockCoversKeys'
        BY <2>7 DEF ServerCommits, CommitTypeOK, LockCoversKeys
      <3>4. RowsAreCommitted'
        BY <2>7 DEF ServerCommits, CommitTypeOK, RowsAreCommitted
      <3>5. EvidenceIsKept'
        BY <2>7 DEF ServerCommits, CommitTypeOK, EvidenceIsKept, Stages, LockCoversKeys
      <3>6. EpochRises'
        BY <2>7 DEF ServerCommits, CommitTypeOK, EpochRises, Undecided, Stages
      <3>7. EvidenceIsTrue'
        BY <2>7
           DEF ServerCommits, CommitTypeOK, EvidenceIsTrue, InEffect, Stages, EpochRises, Undecided
      <3>8. QED
        BY <3>1, <3>2, <3>3, <3>4, <3>5, <3>6, <3>7
    <2>8. CASE ServerAborts(t)
      <3>1. CommitTypeOK'
        BY <2>8 DEF ServerAborts, CommitTypeOK
      <3>2. Stages'
        BY <2>8 DEF ServerAborts, CommitTypeOK, Stages
      <3>3. LockCoversKeys'
        BY <2>8 DEF ServerAborts, CommitTypeOK, LockCoversKeys
      <3>4. RowsAreCommitted'
        BY <2>8 DEF ServerAborts, CommitTypeOK, RowsAreCommitted
      <3>5. EvidenceIsKept'
        BY <2>8 DEF ServerAborts, CommitTypeOK, EvidenceIsKept, Stages, LockCoversKeys
      <3>6. EpochRises'
        BY <2>8 DEF ServerAborts, CommitTypeOK, EpochRises, Undecided, Stages
      <3>7. EvidenceIsTrue'
        BY <2>8 DEF ServerAborts, CommitTypeOK, EvidenceIsTrue, InEffect, Stages
      <3>8. QED
        BY <3>1, <3>2, <3>3, <3>4, <3>5, <3>6, <3>7
    <2>9. CASE CommitAnswered(t)
      <3>1. CommitTypeOK'
        BY <2>9 DEF CommitAnswered, CommitTypeOK
      <3>2. Stages'
        BY <2>9 DEF CommitAnswered, CommitTypeOK, Stages
      <3>3. LockCoversKeys'
        BY <2>9 DEF CommitAnswered, CommitTypeOK, LockCoversKeys
      <3>4. RowsAreCommitted'
        BY <2>9 DEF CommitAnswered, CommitTypeOK, RowsAreCommitted
      <3>5. EvidenceIsKept'
        BY <2>9 DEF CommitAnswered, CommitTypeOK, EvidenceIsKept, Stages, LockCoversKeys
      <3>6. EpochRises'
        BY <2>9 DEF CommitAnswered, CommitTypeOK, EpochRises, Undecided, Stages
      <3>7. EvidenceIsTrue'
        BY <2>9 DEF CommitAnswered, CommitTypeOK, EvidenceIsTrue, InEffect, Stages
      <3>8. QED
        BY <3>1, <3>2, <3>3, <3>4, <3>5, <3>6, <3>7
    <2>10. CASE CommitFailed(t)
      <3>1. CommitTypeOK'
        BY <2>10 DEF CommitFailed, CommitTypeOK
      <3>2. Stages'
        BY <2>10 DEF CommitFailed, CommitTypeOK, Stages
      <3>3. LockCoversKeys'
        BY <2>10 DEF CommitFailed, CommitTypeOK, LockCoversKeys
      <3>4. RowsAreCommitted'
        BY <2>10 DEF CommitFailed, CommitTypeOK, RowsAreCommitted
      <3>5. EvidenceIsKept'
        BY <2>10 DEF CommitFailed, CommitTypeOK, EvidenceIsKept, Stages, LockCoversKeys
      <3>6. EpochRises'
        BY <2>10 DEF CommitFailed, CommitTypeOK, EpochRises, Undecided, Stages
      <3>7. EvidenceIsTrue'
        BY <2>10 DEF CommitFailed, CommitTypeOK, EvidenceIsTrue, InEffect, Stages
      <3>8. QED
        BY <3>1, <3>2, <3>3, <3>4, <3>5, <3>6, <3>7
    <2>11. CASE LookForRows(t)
      <3>1. CommitTypeOK'
        BY <2>11 DEF LookForRows, Look, CommitTypeOK, RowEvidence
      <3>2. Stages'
        BY <2>11 DEF LookForRows, Look, CommitTypeOK, Stages
      <3>3. LockCoversKeys'
        BY <2>11 DEF LookForRows, Look, CommitTypeOK, LockCoversKeys
      <3>4. RowsAreCommitted'
        BY <2>11 DEF LookForRows, Look, CommitTypeOK, RowsAreCommitted
      <3>5. EvidenceIsKept'
        BY <2>11 DEF LookForRows, Look, CommitTypeOK, EvidenceIsKept, Stages, LockCoversKeys
      <3>6. EpochRises'
        BY <2>11 DEF LookForRows, Look, CommitTypeOK, EpochRises, Undecided, Stages
      <3>7. EvidenceIsTrue'
        <4>1. evidence[t] = {} /\ server[t] \in {"committing", "committed", "aborted"}
          BY <2>11 DEF LookForRows, Look, EvidenceIsTrue, Stages
        <4>2. RowEvidence(t) = "committed" /\ inserted[t] # {} => server[t] = "committed"
          BY <2>11 DEF RowEvidence, Visible, RowsAreCommitted, CommitTypeOK
        <4>3. RowEvidence(t) = "not_committed" => server[t] # "committed"
          BY <2>11 DEF RowEvidence, Visible, EvidenceIsKept, CommitTypeOK
        <4>4. evidence' = [evidence EXCEPT ![t] =
                              IF inserted[t] # {} THEN {RowEvidence(t)} ELSE {}]
          BY <2>11, <4>1 DEF LookForRows, Look, CommitTypeOK
        <4>5. late \subseteq late' /\ (inserted[t] # {} /\ server[t] = "committing" => t \in late')
          BY <2>11 DEF LookForRows, Look
        <4>6. /\ txPc' = [txPc EXCEPT ![t] = "state"]
              /\ UNCHANGED <<server, inserted, raised, epoch>>
          BY <2>11 DEF LookForRows, Look, epochVars
        <4>7. QED
          BY <4>1, <4>2, <4>3, <4>4, <4>5, <4>6 DEF CommitTypeOK, EvidenceIsTrue, InEffect
      <3>8. QED
        BY <3>1, <3>2, <3>3, <3>4, <3>5, <3>6, <3>7
    <2>12. CASE LookAtState(t)
      <3>1. CommitTypeOK'
        BY <2>12 DEF LookAtState, Look, CommitTypeOK, EpochEvidence
      <3>2. Stages'
        BY <2>12 DEF LookAtState, Look, CommitTypeOK, Stages
      <3>3. LockCoversKeys'
        BY <2>12 DEF LookAtState, Look, CommitTypeOK, LockCoversKeys
      <3>4. RowsAreCommitted'
        BY <2>12 DEF LookAtState, Look, CommitTypeOK, RowsAreCommitted
      <3>5. EvidenceIsKept'
        BY <2>12 DEF LookAtState, Look, CommitTypeOK, EvidenceIsKept, Stages, LockCoversKeys
      <3>6. EpochRises'
        BY <2>12 DEF LookAtState, Look, CommitTypeOK, EpochRises, Undecided, Stages
      <3>7. EvidenceIsTrue'
        BY <2>12
           DEF LookAtState, Look, CommitTypeOK, EvidenceIsTrue, InEffect, Stages, EpochEvidence, EpochRises
      <3>8. QED
        BY <3>1, <3>2, <3>3, <3>4, <3>5, <3>6, <3>7
    <2>13. CASE FailLook(t)
      <3>1. CommitTypeOK'
        BY <2>13 DEF FailLook, CommitTypeOK
      <3>2. Stages'
        BY <2>13 DEF FailLook, CommitTypeOK, Stages
      <3>3. LockCoversKeys'
        BY <2>13 DEF FailLook, CommitTypeOK, LockCoversKeys
      <3>4. RowsAreCommitted'
        BY <2>13 DEF FailLook, CommitTypeOK, RowsAreCommitted
      <3>5. EvidenceIsKept'
        BY <2>13 DEF FailLook, CommitTypeOK, EvidenceIsKept, Stages, LockCoversKeys
      <3>6. EpochRises'
        BY <2>13 DEF FailLook, CommitTypeOK, EpochRises, Undecided, Stages
      <3>7. EvidenceIsTrue'
        BY <2>13 DEF FailLook, CommitTypeOK, EvidenceIsTrue, InEffect, Stages
      <3>8. QED
        BY <3>1, <3>2, <3>3, <3>4, <3>5, <3>6, <3>7
    <2>14. CASE Conclude(t)
      <3>1. CommitTypeOK'
        BY <2>14 DEF Conclude, Verdict, CommitTypeOK
      <3>2. Stages'
        BY <2>14 DEF Conclude, CommitTypeOK, Stages
      <3>3. LockCoversKeys'
        BY <2>14 DEF Conclude, CommitTypeOK, LockCoversKeys
      <3>4. RowsAreCommitted'
        BY <2>14 DEF Conclude, CommitTypeOK, RowsAreCommitted
      <3>5. EvidenceIsKept'
        BY <2>14 DEF Conclude, CommitTypeOK, EvidenceIsKept, Stages, LockCoversKeys
      <3>6. EpochRises'
        BY <2>14 DEF Conclude, CommitTypeOK, EpochRises, Undecided, Stages
      <3>7. EvidenceIsTrue'
        BY <2>14 DEF Conclude, CommitTypeOK, EvidenceIsTrue, InEffect, Stages
      <3>8. QED
        BY <3>1, <3>2, <3>3, <3>4, <3>5, <3>6, <3>7
    <2>15. QED
      BY <1>2, <2>1, <2>2, <2>3, <2>4, <2>5, <2>6, <2>7, <2>8, <2>9, <2>10, <2>11, <2>12, <2>13, <2>14
         DEF Step
  <1>3. QED
    BY <1>1, <1>2 DEF CommitNext

\* Every variable has its type.
THEOREM TypeCorrect == CommitSpec => []CommitTypeOK
  <1>1. CommitIInv => CommitTypeOK
    BY DEF CommitIInv
  <1>2. QED
    BY <1>1, InitCommitIInv, NextCommitIInv, PTL DEF CommitSpec

\* The committed rows of a transaction stay its own.
THEOREM EvidenceStays == CommitSpec => []EvidenceIsKept
  <1>1. CommitIInv => EvidenceIsKept
    BY DEF CommitIInv
  <1>2. QED
    BY <1>1, InitCommitIInv, NextCommitIInv, PTL DEF CommitSpec

\* An answer is what the server said, what the evidence amounts to, or the failure
\* of a transaction that the server has undone or never saw; and it stays.
LEMMA AnswersComeFrom ==
  ASSUME CommitIInv, [CommitNext]_commitVars, NEW t \in Txs, txAnswer'[t] # txAnswer[t]
  PROVE  \/ txAnswer'[t] = "unknown"
         \/ txAnswer'[t] = "failed" /\ server'[t] \in {"none", "aborted"}
         \/ txAnswer'[t] = "done" /\ server'[t] = "committed"
         \/ /\ txAnswer'[t] = Verdict(t)
            /\ UNCHANGED <<server, inserted, epochVars, lookVars>>
  <1> USE DEF CommitIInv, Tell
  <1>1. PICK u \in Txs : Step(u)
    BY DEF commitVars, CommitNext
  <1>2. CASE FailBegin(u) \/ RollBack(u)
    BY <1>2 DEF FailBegin, RollBack, Stages, CommitTypeOK
  <1>3. CASE CommitAnswered(u)
    BY <1>3 DEF CommitAnswered, CommitTypeOK
  <1>4. CASE Conclude(u)
    BY <1>4 DEF Conclude, CommitTypeOK
  <1>5. CASE FailLook(u)
    BY <1>5 DEF FailLook, CommitTypeOK
  <1>6. UNCHANGED txAnswer \/ FailBegin(u) \/ RollBack(u) \/ CommitAnswered(u)
        \/ Conclude(u) \/ FailLook(u)
    BY <1>1
       DEF Step, Begin, Enqueue, Raise, SendCommit, ServerCommits, ServerAborts, CommitFailed,
                LookForRows, LookAtState, Look
  <1>7. QED
    BY <1>2, <1>3, <1>4, <1>5, <1>6

\* A transaction that has been told an outcome only changes at the server.
LEMMA AfterAnAnswer ==
  ASSUME CommitIInv, [CommitNext]_commitVars, NEW t \in Txs, txPc[t] = "end"
  PROVE  /\ inserted'[t] = inserted[t] /\ raised'[t] = raised[t]
         /\ epoch' >= epoch
         /\ late \subseteq late'
         /\ server'[t] = server[t] \/ server[t] = "committing"
  <1> USE DEF CommitIInv, Tell, epochVars, lookVars
  <1>1. CASE UNCHANGED commitVars
    BY <1>1 DEF commitVars, CommitTypeOK
  <1>2. ASSUME NEW u \in Txs, Step(u)
        PROVE  /\ inserted'[t] = inserted[t] /\ raised'[t] = raised[t]
               /\ epoch' >= epoch
               /\ late \subseteq late'
               /\ server'[t] = server[t] \/ server[t] = "committing"
    <2>1. CASE Begin(u) \/ FailBegin(u) \/ RollBack(u) \/ SendCommit(u)
      BY <2>1 DEF Begin, FailBegin, RollBack, SendCommit, CommitTypeOK
    <2>2. CASE (\E k \in EventKeys : Enqueue(u, k)) \/ Raise(u)
      BY <2>2 DEF Enqueue, Raise, CommitTypeOK
    <2>3. CASE ServerCommits(u)
      BY <2>3 DEF ServerCommits, CommitTypeOK, EpochRises, Undecided
    <2>4. CASE ServerAborts(u)
      BY <2>4 DEF ServerAborts, CommitTypeOK
    <2>5. CASE CommitAnswered(u) \/ CommitFailed(u) \/ FailLook(u) \/ Conclude(u)
      BY <2>5 DEF CommitAnswered, CommitFailed, FailLook, Conclude, CommitTypeOK
    <2>6. CASE LookForRows(u) \/ LookAtState(u)
      BY <2>6 DEF LookForRows, LookAtState, Look, CommitTypeOK
    <2>7. QED
      BY <1>2, <2>1, <2>2, <2>3, <2>4, <2>5, <2>6 DEF Step
  <1>3. QED
    BY <1>1, <1>2 DEF CommitNext

\* An answer of success is true: a transaction is only ever told so by the server,
\* by rows of its own, which prove the commit, or by the epoch it asked for.
THEOREM SuccessIsTrue == CommitSpec => []DoneIsInEffect
  <1>1. CommitInit => DoneIsInEffect
    BY DEF CommitInit, DoneIsInEffect
  <1>2. CommitIInv /\ DoneIsInEffect /\ [CommitNext]_commitVars => DoneIsInEffect'
    <2> SUFFICES ASSUME CommitIInv, DoneIsInEffect, [CommitNext]_commitVars, NEW t \in Txs,
                        txAnswer'[t] = "done"
                 PROVE InEffect(t)'
      BY DEF DoneIsInEffect, InEffect
    <2> USE DEF CommitIInv
    <2>1. CASE txAnswer[t] = "done"
      <3>1. InEffect(t) /\ txPc[t] = "end"
        BY <2>1 DEF DoneIsInEffect, InEffect, Stages
      <3>2. /\ inserted'[t] = inserted[t] /\ raised'[t] = raised[t] /\ epoch' >= epoch
            /\ server'[t] = server[t] \/ server[t] = "committing"
        BY <3>1, AfterAnAnswer
      <3>3. raised[t] \in Nat /\ epoch \in Nat /\ epoch' \in Nat
        BY NextCommitIInv DEF CommitTypeOK
      <3>4. QED
        BY <3>1, <3>2, <3>3 DEF InEffect
    <2>2. CASE txAnswer[t] # "done"
      <3>1. CASE server'[t] = "committed"
        BY <3>1 DEF InEffect
      <3>2. CASE Verdict(t) = "done" /\ UNCHANGED <<server, inserted, epochVars, lookVars>>
        <4>1. evidence[t] = {"committed"}
          BY <3>2 DEF Verdict
        <4>2. InEffect(t)
          BY <4>1 DEF EvidenceIsTrue
        <4>3. QED
          BY <3>2, <4>2 DEF InEffect, epochVars
      <3>3. QED
        BY <2>2, <3>1, <3>2, AnswersComeFrom
    <2>3. QED
      BY <2>1, <2>2
  <1>3. QED
    BY <1>1, <1>2, InitCommitIInv, NextCommitIInv, PTL DEF CommitSpec

\* An answer of failure is true too, unless the server was still deciding the COMMIT
\* when the evidence was looked up: a commit that was there is never missed.
THEOREM FailureMissesOnlyLateCommits == CommitSpec => []FailedMissesOnlyLateCommits
  <1> DEFINE Undone(t) == server[t] \in {"none", "aborted"} \/ t \in late
             Failures == \A t \in Txs : txAnswer[t] = "failed" => Undone(t)
  <1>1. CommitInit => Failures
    BY DEF CommitInit
  <1>2. CommitIInv /\ Failures /\ [CommitNext]_commitVars => Failures'
    <2> SUFFICES ASSUME CommitIInv, Failures, [CommitNext]_commitVars, NEW t \in Txs,
                        txAnswer'[t] = "failed"
                 PROVE Undone(t)'
      OBVIOUS
    <2> USE DEF CommitIInv
    <2>1. CASE txAnswer[t] = "failed"
      <3>1. Undone(t) /\ txPc[t] = "end"
        BY <2>1 DEF Stages
      <3>2. QED
        BY <3>1, AfterAnAnswer
    <2>2. CASE txAnswer[t] # "failed"
      <3>1. CASE server'[t] \in {"none", "aborted"}
        BY <3>1
      <3>2. CASE Verdict(t) = "failed" /\ UNCHANGED <<server, inserted, epochVars, lookVars>>
        <4>1. "not_committed" \in evidence[t]
          BY <3>2 DEF Verdict
        <4>2. Undone(t)
          BY <4>1 DEF EvidenceIsTrue
        <4>3. QED
          BY <3>2, <4>2 DEF lookVars
      <3>3. QED
        BY <2>2, <3>1, <3>2, AnswersComeFrom
    <2>3. QED
      BY <2>1, <2>2
  <1>3. Failures => FailedMissesOnlyLateCommits
    BY DEF FailedMissesOnlyLateCommits
  <1>4. QED
    BY <1>1, <1>2, <1>3, InitCommitIInv, NextCommitIInv, PTL DEF CommitSpec

------------------------------------------------------------------------------
(* EntityLocks.                                                             *)

Locks == [id : Nat, by : Holders, until : Nat]

\* The variables that the argument needs have their types.
LockShape ==
    /\ clock \in Nat
    /\ ids \in Nat
    /\ lockRow \in [Entities -> Locks \union {Absent}]
    /\ rowTx \in [Entities -> LockTxs \union Sweepers \union {Absent}]
    /\ lockTx \in [LockTxs ->
           [user : Holders, entity : Entities, now : Nat, write : Locks \union {Absent}]
           \union {Absent}]
    /\ sweeper \in [Sweepers ->
           [running : BOOLEAN, step : {"idle", "sweep"}, now : Nat, took : SUBSET Entities]]
    /\ grant \in [Entities -> [Holders -> Nat]]

\* Transactions know the present or an earlier time.
NowIsPast ==
    /\ \A t \in LockTxs : lockTx[t] # Absent => lockTx[t].now <= clock
    /\ \A p \in Sweepers : sweeper[p].now <= clock

\* A transaction that is going to write a lock has its row locked, and the
\* WHERE of its upsert still holds of that row.
WriterHasRow ==
    \A t \in LockTxs :
        LET x == lockTx[t]
        IN  x # Absent /\ x.write # Absent =>
                /\ rowTx[x.entity] = t
                /\ x.write.by = x.user
                /\ Held(x.entity) => MayTake(lockRow[x.entity], x.user, x.now)

\* A sweep has the rows locked that it is going to delete, and they have expired.
SweeperHasRows ==
    \A p \in Sweepers : \A e \in sweeper[p].took :
        /\ rowTx[e] = p
        /\ Held(e)
        /\ lockRow[e].until <= sweeper[p].now

\* A grant that has not expired is the row of its entity.
GrantIsRow ==
    \A e \in Entities, u \in Holders :
        grant[e][u] > clock =>
            Held(e) /\ lockRow[e].by = u /\ lockRow[e].until = grant[e][u]

LockIInv == LockShape /\ NowIsPast /\ WriterHasRow /\ SweeperHasRows /\ GrantIsRow

LEMMA InitLockIInv == LockInit => LockIInv
  BY LockBoundAssumption, AbsentAssumption
     DEF LockInit, LockIInv, LockShape, NowIsPast, WriterHasRow, SweeperHasRows, GrantIsRow,
         IdleSweep

LEMMA TimeKeeps == LockIInv /\ PassTime => LockIInv'
  <1> SUFFICES ASSUME LockIInv, PassTime PROVE LockIInv'
    OBVIOUS
  <1> USE LockBoundAssumption DEF LockIInv, PassTime, tableVars, eventVars
  <1>1. LockShape'
    BY DEF LockShape
  <1>2. NowIsPast'
    BY DEF LockShape, NowIsPast
  <1>3. WriterHasRow'
    BY DEF WriterHasRow, Held
  <1>4. SweeperHasRows'
    BY DEF SweeperHasRows, Held
  <1>5. GrantIsRow'
    BY DEF LockShape, GrantIsRow, Held
  <1>6. QED
    BY <1>1, <1>2, <1>3, <1>4, <1>5

LEMMA BeginKeeps ==
  ASSUME NEW t \in LockTxs, NEW u \in Holders, NEW e \in Entities, LockIInv, BeginLockTx(t, u, e)
  PROVE  LockIInv'
  <1> USE LockBoundAssumption DEF LockIInv, BeginLockTx, tableVars, eventVars
  <1>1. LockShape'
    BY DEF LockShape
  <1>2. NowIsPast'
    BY DEF LockShape, NowIsPast
  <1>3. WriterHasRow'
    BY DEF LockShape, WriterHasRow, Held
  <1>4. SweeperHasRows'
    BY DEF SweeperHasRows, Held
  <1>5. GrantIsRow'
    BY DEF LockShape, GrantIsRow, Held
  <1>6. QED
    BY <1>1, <1>2, <1>3, <1>4, <1>5

LEMMA UpsertKeeps ==
  ASSUME NEW t \in LockTxs, LockIInv, Upsert(t)
  PROVE  LockIInv'
  <1> DEFINE x == lockTx[t]
             e == x.entity
             by == x.user
             w == lockTx'[t].write
  <1> USE LockBoundAssumption, AbsentAssumption
  <1>1. /\ x \in [user : Holders, entity : Entities, now : Nat, write : Locks \union {Absent}]
        /\ x.write = Absent /\ rowTx[e] = Absent /\ e \in Entities
    BY DEF LockIInv, LockShape, Upsert
  <1>2. /\ ids' \in Nat
        /\ lockTx' = [lockTx EXCEPT ![t].write = w]
        /\ w \in Locks /\ w.by = by
        /\ Held(e) => MayTake(lockRow[e], x.user, x.now)
    BY <1>1 DEF LockIInv, LockShape, Upsert, Locks, Held
  <1>3. /\ rowTx' = [rowTx EXCEPT ![e] = t]
        /\ UNCHANGED <<clock, lockRow, sweeper, grant>>
    BY DEF Upsert, eventVars
  <1> HIDE DEF w
  <1>4. LockShape'
    BY <1>1, <1>2, <1>3 DEF LockIInv, LockShape
  <1>5. \A s \in LockTxs : s # t => lockTx'[s] = lockTx[s]
    BY <1>2 DEF LockIInv, LockShape
  <1>6. lockTx'[t].user = x.user /\ lockTx'[t].entity = e /\ lockTx'[t].now = x.now /\ lockTx[t] # Absent
    BY <1>1, <1>2 DEF LockIInv, LockShape, Upsert
  <1>7. NowIsPast'
    BY <1>3, <1>5, <1>6 DEF LockIInv, LockShape, NowIsPast
  <1>8. WriterHasRow'
    BY <1>1, <1>2, <1>3, <1>5, <1>6 DEF LockIInv, LockShape, WriterHasRow, Held, MayTake
  <1>9. SweeperHasRows'
    BY <1>1, <1>3 DEF LockIInv, LockShape, SweeperHasRows, Held
  <1>10. GrantIsRow'
    BY <1>3 DEF LockIInv, GrantIsRow, Held
  <1>11. QED
    BY <1>4, <1>7, <1>8, <1>9, <1>10 DEF LockIInv

LEMMA GrantKeeps ==
  ASSUME NEW t \in LockTxs, LockIInv, GrantLock(t)
  PROVE  LockIInv'
  <1> DEFINE x == lockTx[t]
             e == x.entity
             u == x.user
             w == x.write
  <1> USE LockBoundAssumption, AbsentAssumption
  <1>1. /\ x \in [user : Holders, entity : Entities, now : Nat, write : Locks \union {Absent}]
        /\ w # Absent /\ e \in Entities /\ u \in Holders /\ w \in Locks /\ w.until \in Nat
    BY DEF LockIInv, LockShape, GrantLock, Locks
  <1>2. /\ lockRow' = [lockRow EXCEPT ![e] = w]
        /\ rowTx' = [rowTx EXCEPT ![e] = Absent]
        /\ lockTx' = [lockTx EXCEPT ![t] = Absent]
        /\ grant' = [grant EXCEPT ![e][u] = w.until]
        /\ UNCHANGED <<clock, ids, sweeper>>
    BY DEF GrantLock
  <1>3. /\ rowTx[e] = t
        /\ Held(e) => MayTake(lockRow[e], u, x.now)
        /\ x.now <= clock
    BY <1>1 DEF LockIInv, WriterHasRow, NowIsPast, GrantLock
  <1>4. LockShape'
    BY <1>1, <1>2 DEF LockIInv, LockShape
  <1>5. NowIsPast'
    BY <1>2 DEF LockIInv, LockShape, NowIsPast
  <1>6. WriterHasRow'
    BY <1>2, <1>3 DEF LockIInv, LockShape, WriterHasRow, Held
  <1>7. SweeperHasRows'
    BY <1>2, <1>3 DEF LockIInv, LockShape, SweeperHasRows, Held
  <1>8. ASSUME NEW f \in Entities, NEW v \in Holders, grant'[f][v] > clock'
        PROVE  Held(f)' /\ lockRow'[f].by = v /\ lockRow'[f].until = grant'[f][v]
    <2>1. CASE f # e
      BY <1>2, <1>8, <2>1 DEF LockIInv, LockShape, GrantIsRow, Held
    <2>2. CASE f = e /\ v = u
      <3>1. w.by = u
        BY <1>1 DEF LockIInv, WriterHasRow, GrantLock
      <3>2. QED
        BY <1>1, <1>2, <2>2, <3>1 DEF LockIInv, LockShape, Held
    <2>3. CASE f = e /\ v # u
      <3>1. grant[e][v] > clock
        BY <1>1, <1>2, <1>8, <2>3 DEF LockIInv, LockShape
      <3>2. Held(e) /\ lockRow[e].by = v /\ lockRow[e].until > clock
        BY <1>1, <3>1 DEF LockIInv, GrantIsRow
      <3>3. lockRow[e].until \in Nat
        BY <1>1, <3>2 DEF LockIInv, LockShape, Locks, Held
      <3>4. QED
        BY <1>1, <1>3, <2>3, <3>2, <3>3 DEF MayTake, LockIInv, LockShape
    <2>4. QED
      BY <2>1, <2>2, <2>3
  <1>9. GrantIsRow'
    BY <1>8 DEF GrantIsRow, Held
  <1>10. QED
    BY <1>4, <1>5, <1>6, <1>7, <1>9 DEF LockIInv

LEMMA ReleaseKeeps ==
  ASSUME NEW u \in Holders, NEW e \in Entities, LockIInv, ReleaseLock(u, e)
  PROVE  LockIInv'
  <1> USE LockBoundAssumption, AbsentAssumption DEF LockIInv, ReleaseLock
  <1>1. LockShape'
    BY DEF LockShape
  <1>2. NowIsPast'
    BY DEF LockShape, NowIsPast
  <1>3. WriterHasRow'
    BY DEF LockShape, WriterHasRow, Held
  <1>4. SweeperHasRows'
    BY DEF LockShape, SweeperHasRows, Held
  <1>5. GrantIsRow'
    BY DEF LockShape, GrantIsRow, Held
  <1>6. QED
    BY <1>1, <1>2, <1>3, <1>4, <1>5

LEMMA LeaveKeeps ==
  ASSUME NEW t \in LockTxs, LockIInv, LeaveLockTx(t) \/ FailLockTx(t)
  PROVE  LockIInv'
  <1> USE LockBoundAssumption, AbsentAssumption DEF LockIInv
  <1>1. /\ lockTx' = [lockTx EXCEPT ![t] = Absent]
        /\ UNCHANGED <<clock, lockRow, ids, sweeper, grant>>
    BY DEF LeaveLockTx, FailLockTx, tableVars, eventVars
  <1>2. \/ UNCHANGED rowTx
        \/ /\ rowTx' = [rowTx EXCEPT ![lockTx[t].entity] = Absent]
           /\ lockTx[t] # Absent /\ lockTx[t].entity \in Entities /\ rowTx[lockTx[t].entity] = t
    BY DEF LeaveLockTx, FailLockTx, tableVars, LockShape, WriterHasRow
  <1>3. LockShape'
    BY <1>1, <1>2 DEF LockShape
  <1>4. NowIsPast'
    BY <1>1 DEF LockShape, NowIsPast
  <1>5. WriterHasRow'
    BY <1>1, <1>2 DEF LockShape, WriterHasRow, Held
  <1>6. SweeperHasRows'
    BY <1>1, <1>2 DEF LockShape, SweeperHasRows, Held
  <1>7. GrantIsRow'
    BY <1>1 DEF LockShape, GrantIsRow, Held
  <1>8. QED
    BY <1>3, <1>4, <1>5, <1>6, <1>7

LEMMA SweepKeeps ==
  ASSUME NEW p \in Sweepers, LockIInv, LockSweep(p) \/ FailSweepOf(p)
  PROVE  LockIInv'
  <1> USE LockBoundAssumption, AbsentAssumption DEF LockIInv, tableVars, eventVars, IdleSweep
  <1>1. CASE BeginLockSweep(p)
    <2>1. LockShape' /\ NowIsPast'
      BY <1>1 DEF BeginLockSweep, LockShape, NowIsPast
    <2>2. WriterHasRow' /\ SweeperHasRows'
      BY <1>1 DEF BeginLockSweep, LockShape, WriterHasRow, SweeperHasRows, Held
    <2>3. GrantIsRow'
      BY <1>1 DEF BeginLockSweep, GrantIsRow, Held
    <2>4. QED
      BY <2>1, <2>2, <2>3
  <1>2. CASE DeleteExpired(p)
    <2>1. PICK S \in SUBSET Entities :
             /\ Chosen(sweeper[p].now, S)
             /\ sweeper' = [sweeper EXCEPT ![p].took = S]
             /\ rowTx' = [e \in Entities |-> IF e \in S THEN p ELSE rowTx[e]]
      BY <1>2 DEF DeleteExpired
    <2>2. \A e \in S : rowTx[e] = Absent /\ Held(e) /\ lockRow[e].until <= sweeper[p].now
      BY <2>1 DEF Chosen, Expired
    <2>3. LockShape'
      BY <1>2, <2>1 DEF DeleteExpired, LockShape
    <2>4. NowIsPast'
      BY <1>2, <2>1 DEF DeleteExpired, LockShape, NowIsPast
    <2>5. WriterHasRow'
      BY <1>2, <2>1, <2>2 DEF DeleteExpired, LockShape, WriterHasRow, Held
    <2>6. SweeperHasRows'
      BY <1>2, <2>1, <2>2 DEF DeleteExpired, LockShape, SweeperHasRows, Held
    <2>7. GrantIsRow'
      BY <1>2 DEF DeleteExpired, GrantIsRow, Held
    <2>8. QED
      BY <2>3, <2>4, <2>5, <2>6, <2>7
  <1>3. CASE CommitLockSweep(p)
    <2> DEFINE S == sweeper[p].took
    <2>1. /\ lockRow' = [e \in Entities |-> IF e \in S THEN Absent ELSE lockRow[e]]
          /\ rowTx' = [e \in Entities |-> IF e \in S THEN Absent ELSE rowTx[e]]
          /\ sweeper' = [sweeper EXCEPT ![p] = IdleSweep]
          /\ UNCHANGED <<clock, ids, lockTx, grant>>
      BY <1>3 DEF CommitLockSweep
    <2>2. \A e \in S : e \in Entities /\ rowTx[e] = p /\ lockRow[e].until <= clock
      <3>1. S \subseteq Entities /\ sweeper[p].now \in Nat /\ sweeper[p].now <= clock
        BY DEF LockShape, NowIsPast
      <3>2. SUFFICES ASSUME NEW e \in S PROVE rowTx[e] = p /\ lockRow[e].until <= clock
        BY <3>1
      <3>3. QED
        BY <3>1, <3>2 DEF SweeperHasRows, LockShape, Locks, Held
    <2> HIDE DEF S
    <2>3. LockShape'
      BY <2>1 DEF LockShape
    <2>4. NowIsPast'
      BY <2>1 DEF LockShape, NowIsPast
    <2>5. WriterHasRow'
      BY <2>1, <2>2 DEF LockShape, WriterHasRow, Held
    <2>6. SweeperHasRows'
      BY <2>1, <2>2 DEF LockShape, SweeperHasRows, Held
    <2>7. GrantIsRow'
      BY <2>1, <2>2 DEF LockShape, GrantIsRow, Held
    <2>8. QED
      BY <2>3, <2>4, <2>5, <2>6, <2>7
  <1>4. CASE EmptySweep(p) \/ FailSweepOf(p)
    <2>1. /\ sweeper' = [sweeper EXCEPT ![p] = IdleSweep]
          /\ UNCHANGED <<clock, lockRow, ids, lockTx, grant>>
      BY <1>4 DEF EmptySweep, FailSweepOf, EndedSweep
    <2>2. \/ UNCHANGED rowTx
          \/ rowTx' = [e \in Entities |-> IF rowTx[e] = p THEN Absent ELSE rowTx[e]]
      BY <1>4 DEF EmptySweep, FailSweepOf
    <2>3. LockShape'
      BY <2>1, <2>2 DEF LockShape
    <2>4. NowIsPast'
      BY <2>1 DEF LockShape, NowIsPast
    <2>5. WriterHasRow'
      BY <2>1, <2>2 DEF LockShape, WriterHasRow, Held
    <2>6. SweeperHasRows'
      BY <2>1, <2>2 DEF LockShape, SweeperHasRows, Held
    <2>7. GrantIsRow'
      BY <2>1 DEF GrantIsRow, Held
    <2>8. QED
      BY <2>3, <2>4, <2>5, <2>6, <2>7
  <1>5. QED
    BY <1>1, <1>2, <1>3, <1>4 DEF LockSweep

LEMMA NextLockIInv == LockIInv /\ [LockNext]_lockVars => LockIInv'
  <1> SUFFICES ASSUME LockIInv, [LockNext]_lockVars PROVE LockIInv'
    OBVIOUS
  <1>1. CASE UNCHANGED lockVars
    BY <1>1 DEF lockVars, tableVars, eventVars, LockIInv, LockShape, NowIsPast, WriterHasRow,
                SweeperHasRows, GrantIsRow, Held
  <1>2. CASE PassTime
    BY <1>2, TimeKeeps
  <1>3. ASSUME NEW u \in Holders, NEW e \in Entities,
               ReleaseLock(u, e) \/ \E t \in LockTxs : BeginLockTx(t, u, e)
        PROVE  LockIInv'
    BY <1>3, ReleaseKeeps, BeginKeeps
  <1>4. ASSUME NEW t \in LockTxs, LockTxStep(t) \/ FailLockTx(t) PROVE LockIInv'
    BY <1>4, UpsertKeeps, GrantKeeps, LeaveKeeps DEF LockTxStep
  <1>5. ASSUME NEW p \in Sweepers, LockSweep(p) \/ FailSweepOf(p) PROVE LockIInv'
    BY <1>5, SweepKeeps
  <1>6. QED
    BY <1>1, <1>2, <1>3, <1>4, <1>5 DEF LockNext

LEMMA LockIInvHolds == LockSpec => []LockIInv
  BY InitLockIInv, NextLockIInv, PTL DEF LockSpec

\* No two users have a grant of one lock that has not expired.
THEOREM LocksAreExclusive == LockSpec => []GrantsAreExclusive
  <1>1. LockIInv => GrantsAreExclusive
    <2> SUFFICES ASSUME LockIInv, NEW e \in Entities
                 PROVE  Cardinality({u \in Holders : grant[e][u] > clock}) <= 1
      BY DEF GrantsAreExclusive
    <2> DEFINE Granted == {u \in Holders : grant[e][u] > clock}
    <2>1. Granted \subseteq {lockRow[e].by}
      BY DEF LockIInv, GrantIsRow
    <2>2. IsFiniteSet({lockRow[e].by}) /\ Cardinality({lockRow[e].by}) = 1
      BY FS_Singleton
    <2>3. Cardinality(Granted) <= Cardinality({lockRow[e].by})
      BY <2>1, <2>2, FS_Subset
    <2>4. QED
      BY <2>2, <2>3
  <1>2. QED
    BY <1>1, LockIInvHolds, PTL

\* The events: what the argument needs to know of the variable told.
ToldShape == told \in [Entities -> [by : Holders \union {Absent}, until : Nat]]

Writing(t) == lockTx[t] # Absent /\ lockTx[t].write # Absent

\* No two transactions have the same time, so that no key of a lock that will be
\* granted is in use.
TimesAreUnique ==
    /\ \A t \in LockTxs : Writing(t) => lockTx[t].write.until = lockTx[t].now + Ttl
    /\ \A s, t \in LockTxs :
           s # t /\ lockTx[s] # Absent /\ lockTx[t] # Absent => lockTx[s].now # lockTx[t].now
    /\ \A t \in LockTxs : lockTx[t] # Absent =>
           \A i \in Nat : <<"held", i, lockTx[t].now + Ttl>> \notin eventKeys
    /\ \A i, u \in Nat : <<"held", i, u>> \in eventKeys => u <= clock + Ttl

\* The numbers of the rows that were deleted.
EndedIds ==
    {i \in Nat : \/ <<"released", i>> \in eventKeys
                 \/ \E u \in Nat : <<"expired", i, u>> \in eventKeys}

\* A number belongs to one row, and to none once that row was deleted.
IdsAreUnique ==
    /\ \A i \in EndedIds : i <= ids
    /\ \A e \in Entities : Held(e) => lockRow[e].id <= ids /\ lockRow[e].id \notin EndedIds
    /\ \A t \in LockTxs : Writing(t) => lockTx[t].write.id <= ids /\ lockTx[t].write.id \notin EndedIds
    /\ \A e, f \in Entities : e # f /\ Held(e) /\ Held(f) => lockRow[e].id # lockRow[f].id
    /\ \A t \in LockTxs, f \in Entities :
           Writing(t) /\ Held(f) /\ f # lockTx[t].entity => lockTx[t].write.id # lockRow[f].id
    /\ \A s, t \in LockTxs :
           s # t /\ Writing(s) /\ Writing(t) => lockTx[s].write.id # lockTx[t].write.id

EventInv == LockIInv /\ ToldShape /\ TimesAreUnique /\ IdsAreUnique /\ EventsMatchRows

LEMMA KeysDiffer ==
  /\ \A i, j, u : <<"held", i, u>> # <<"released", j>>
  /\ \A i, j, u, v : <<"held", i, u>> # <<"expired", j, v>>
  /\ \A i, j, u : <<"expired", i, u>> # <<"released", j>>
  /\ \A i, j : <<"released", i>> = <<"released", j>> => i = j
  /\ \A i, j, u, v : <<"held", i, u>> = <<"held", j, v>> => i = j /\ u = v
  /\ \A i, j, u, v : <<"expired", i, u>> = <<"expired", j, v>> => i = j /\ u = v
  OBVIOUS

LEMMA InitEventInv == LockInit => EventInv
  <1> SUFFICES ASSUME LockInit PROVE EventInv
    OBVIOUS
  <1>1. LockIInv
    BY InitLockIInv
  <1>2. ToldShape /\ EventsMatchRows
    BY DEF LockInit, ToldShape, EventsMatchRows, Unlocked, Held
  <1>3. TimesAreUnique /\ IdsAreUnique
    BY DEF LockInit, TimesAreUnique, IdsAreUnique, Writing, EndedIds, Held
  <1>4. QED
    BY <1>1, <1>2, <1>3 DEF EventInv

LEMMA LaterIsHigher ==
  \A a, b, c, d \in Nat : a <= b /\ d <= a + c => d <= b + c
  OBVIOUS

\* Steps that write no row and no event, and begin no transaction.
LEMMA QuietEvents ==
  ASSUME EventInv, LockIInv', UNCHANGED <<eventKeys, told, lockRow, ids>>, clock <= clock',
         \A t \in LockTxs : lockTx'[t] # Absent => lockTx'[t] = lockTx[t]
  PROVE  EventInv'
  <1>1. \A t \in LockTxs : Writing(t)' => Writing(t) /\ lockTx'[t] = lockTx[t]
    BY DEF Writing
  <1>2. \A e \in Entities : Held(e)' = Held(e)
    BY DEF Held
  <1>3. EndedIds' = EndedIds
    BY DEF EndedIds
  <1>4. TimesAreUnique'
    <2>1. clock \in Nat /\ clock' \in Nat /\ Ttl \in Nat
      BY LockBoundAssumption DEF EventInv, LockIInv, LockShape
    <2>2. \A u \in Nat : u <= clock + Ttl => u <= clock' + Ttl
      BY <2>1, LaterIsHigher
    <2>3. QED
      BY <1>1, <2>2 DEF EventInv, TimesAreUnique
  <1>5. IdsAreUnique'
    BY <1>1, <1>2, <1>3 DEF EventInv, IdsAreUnique
  <1>6. ToldShape' /\ EventsMatchRows'
    BY <1>2 DEF EventInv, ToldShape, EventsMatchRows
  <1>7. QED
    BY <1>4, <1>5, <1>6 DEF EventInv

\* A transaction begins at a time of its own.
LEMMA BeginTells ==
  ASSUME NEW t \in LockTxs, NEW u \in Holders, NEW e \in Entities, EventInv, LockIInv',
         BeginLockTx(t, u, e)
  PROVE  EventInv'
  <1>1. /\ clock' = clock + 1 /\ lockTx[t] = Absent
        /\ lockTx' = [lockTx EXCEPT ![t] =
               [user |-> u, entity |-> e, now |-> clock', write |-> Absent]]
        /\ UNCHANGED <<lockRow, ids, eventKeys, told>>
    BY DEF BeginLockTx, tableVars, eventVars
  <1>2. clock \in Nat /\ Ttl \in Nat
    BY LockBoundAssumption DEF EventInv, LockIInv, LockShape
  <1>3. /\ lockTx'[t].now = clock + 1 /\ lockTx'[t].write = Absent
        /\ \A s \in LockTxs : s # t => lockTx'[s] = lockTx[s]
    BY <1>1 DEF EventInv, LockIInv, LockShape
  <1>4. \A s \in LockTxs : lockTx[s] # Absent => lockTx[s].now \in Nat /\ lockTx[s].now <= clock
    BY DEF EventInv, LockIInv, LockShape, NowIsPast
  <1>5. \A s \in LockTxs : Writing(s)' => Writing(s) /\ lockTx'[s] = lockTx[s]
    BY <1>3 DEF Writing
  <1>6. TimesAreUnique'
    <2>1. ASSUME NEW r \in LockTxs, NEW s \in LockTxs, r # s, lockTx'[r] # Absent, lockTx'[s] # Absent
          PROVE  lockTx'[r].now # lockTx'[s].now
      <3>1. CASE r # t /\ s # t
        BY <1>3, <2>1, <3>1 DEF EventInv, TimesAreUnique
      <3>2. CASE r = t
        <4>1. lockTx'[s].now <= clock /\ lockTx'[s].now \in Nat
          BY <1>3, <1>4, <2>1, <3>2
        <4>2. QED
          BY <1>2, <1>3, <3>2, <4>1
      <3>3. CASE s = t
        <4>1. lockTx'[r].now <= clock /\ lockTx'[r].now \in Nat
          BY <1>3, <1>4, <2>1, <3>3
        <4>2. QED
          BY <1>2, <1>3, <3>3, <4>1
      <3>4. QED
        BY <3>1, <3>2, <3>3
    <2>2. ASSUME NEW s \in LockTxs, lockTx'[s] # Absent, NEW i \in Nat
          PROVE  <<"held", i, lockTx'[s].now + Ttl>> \notin eventKeys
      <3>1. CASE s # t
        BY <1>3, <2>2, <3>1 DEF EventInv, TimesAreUnique
      <3>2. CASE s = t
        <4>1. clock + 1 + Ttl \in Nat /\ ~(clock + 1 + Ttl <= clock + Ttl)
          BY <1>2
        <4>2. QED
          BY <1>3, <3>2, <4>1 DEF EventInv, TimesAreUnique
      <3>3. QED
        BY <3>1, <3>2
    <2>3. \A v \in Nat : v <= clock + Ttl => v <= clock' + Ttl
      BY <1>1, <1>2
    <2>4. QED
      BY <1>1, <1>5, <2>1, <2>2, <2>3 DEF EventInv, TimesAreUnique
  <1>7. IdsAreUnique'
    <2>1. \A f \in Entities : Held(f)' = Held(f)
      BY <1>1 DEF Held
    <2>2. EndedIds' = EndedIds
      BY <1>1 DEF EndedIds
    <2>3. QED
      BY <1>1, <1>5, <2>1, <2>2 DEF EventInv, IdsAreUnique
  <1>8. ToldShape' /\ EventsMatchRows'
    BY <1>1 DEF EventInv, ToldShape, EventsMatchRows, Held
  <1>9. QED
    BY <1>6, <1>7, <1>8 DEF EventInv

\* An upsert takes the number of the row, or a new one.
LEMMA UpsertTells ==
  ASSUME NEW t \in LockTxs, EventInv, LockIInv', Upsert(t)
  PROVE  EventInv'
  <1> DEFINE x == lockTx[t]
             e == x.entity
             w == lockTx'[t].write
  <1>1. /\ x # Absent /\ x.write = Absent /\ rowTx[e] = Absent
        /\ UNCHANGED <<clock, lockRow, eventKeys, told>>
        /\ x \in [user : Holders, entity : Entities, now : Nat, write : Locks \union {Absent}]
        /\ x.now + Ttl \in Nat
    BY LockBoundAssumption DEF Upsert, eventVars, EventInv, LockIInv, LockShape
  <1>2. /\ \/ Held(e) /\ w.id = lockRow[e].id /\ ids' = ids
           \/ ~Held(e) /\ w.id = ids + 1 /\ ids' = ids + 1
        /\ w.until = x.now + Ttl
        /\ lockTx' = [lockTx EXCEPT ![t].write = w]
    BY <1>1 DEF Upsert, EventInv, LockIInv, LockShape
  <1> HIDE DEF w
  <1>3. \A s \in LockTxs : s # t => lockTx'[s] = lockTx[s]
    BY <1>2 DEF EventInv, LockIInv, LockShape
  <1>4. /\ lockTx'[t].now = x.now /\ lockTx'[t].entity = e /\ lockTx'[t].write = w
        /\ lockTx[t] # Absent
    BY <1>1, <1>2 DEF EventInv, LockIInv, LockShape
  <1>5. ids \in Nat
    BY DEF EventInv, LockIInv, LockShape
  <1>6. \A f \in Entities : Held(f)' = Held(f) /\ (Held(f) => lockRow[f].id \in Nat)
    BY <1>1 DEF EventInv, LockIInv, LockShape, Held, Locks
  <1>7. EndedIds' = EndedIds
    BY <1>1 DEF EndedIds
  <1>8. \A s \in LockTxs : s # t => Writing(s)' = Writing(s)
    BY <1>3 DEF Writing
  <1>9. \A s \in LockTxs : Writing(s) => /\ lockTx[s].write.id \in Nat
                                         /\ lockTx[s].entity \in Entities /\ lockTx[s].entity # e
    <2>1. \A s \in LockTxs : Writing(s) => lockTx[s].write \in Locks /\ lockTx[s].entity \in Entities
      BY DEF Writing, EventInv, LockIInv, LockShape
    <2>2. \A s \in LockTxs : Writing(s) => rowTx[lockTx[s].entity] = s
      BY DEF Writing, EventInv, LockIInv, WriterHasRow
    <2>3. \A s \in LockTxs : s # Absent
      BY AbsentAssumption
    <2>4. QED
      BY <1>1, <2>1, <2>2, <2>3 DEF Locks
  <1>10. TimesAreUnique'
    <2>1. \A s \in LockTxs : lockTx'[s] # Absent => lockTx[s] # Absent /\ lockTx'[s].now = lockTx[s].now
      BY <1>3, <1>4
    <2>2. \A s \in LockTxs : Writing(s)' => lockTx'[s].write.until = lockTx'[s].now + Ttl
      BY <1>2, <1>3, <1>4, <1>8 DEF EventInv, TimesAreUnique
    <2>3. QED
      BY <1>1, <2>1, <2>2 DEF EventInv, TimesAreUnique
  <1>11. IdsAreUnique'
    <2>1. /\ \A i \in EndedIds : i <= ids
          /\ \A f \in Entities : Held(f) => lockRow[f].id <= ids /\ lockRow[f].id \notin EndedIds
          /\ \A f, g \in Entities : f # g /\ Held(f) /\ Held(g) => lockRow[f].id # lockRow[g].id
      BY DEF EventInv, IdsAreUnique
    <2>2. ids <= ids' /\ ids' \in Nat
      BY <1>2, <1>5
    <2>3. w.id \in Nat /\ w.id <= ids' /\ w.id \notin EndedIds
      BY <1>1, <1>2, <1>5, <1>6, <2>1
    <2>4. \A f \in Entities : Held(f) /\ f # e => w.id # lockRow[f].id
      BY <1>1, <1>2, <1>5, <1>6, <2>1
    <2>5. ASSUME NEW s \in LockTxs, s # t, Writing(s)
          PROVE  lockTx[s].write.id # w.id /\ lockTx[s].write.id <= ids' /\ lockTx[s].write.id \notin EndedIds
      <3>1. lockTx[s].write.id <= ids /\ lockTx[s].write.id \in Nat /\ lockTx[s].write.id \notin EndedIds
        BY <1>9, <2>5 DEF EventInv, IdsAreUnique
      <3>2. Held(e) => lockTx[s].write.id # lockRow[e].id
        BY <1>1, <1>9, <2>5 DEF EventInv, IdsAreUnique
      <3>3. QED
        BY <1>2, <1>5, <2>2, <3>1, <3>2
    <2>6. \A f \in Entities : Held(f)' => lockRow'[f].id <= ids' /\ lockRow'[f].id \notin EndedIds'
      BY <1>1, <1>5, <1>6, <1>7, <2>1, <2>2
    <2>7. ASSUME NEW i \in EndedIds' PROVE i <= ids'
      <3>1. i \in EndedIds /\ i <= ids
        BY <1>7, <2>1
      <3>2. i \in Nat
        BY <3>1 DEF EndedIds
      <3>3. QED
        BY <1>5, <2>2, <3>1, <3>2
    <2>8. \A s \in LockTxs :
              Writing(s)' => lockTx'[s].write.id <= ids' /\ lockTx'[s].write.id \notin EndedIds'
      BY <1>3, <1>4, <1>7, <1>8, <2>3, <2>5
    <2>9. \A f, g \in Entities : f # g /\ Held(f)' /\ Held(g)' => lockRow'[f].id # lockRow'[g].id
      BY <1>1, <1>6, <2>1
    <2>10. ASSUME NEW s \in LockTxs, NEW f \in Entities, Writing(s)', Held(f)', f # lockTx'[s].entity
           PROVE  lockTx'[s].write.id # lockRow'[f].id
      <3>1. CASE s = t
        BY <1>1, <1>4, <1>6, <2>4, <2>10, <3>1
      <3>2. CASE s # t
        BY <1>1, <1>3, <1>6, <1>8, <2>10, <3>2 DEF EventInv, IdsAreUnique
      <3>3. QED
        BY <3>1, <3>2
    <2>11. ASSUME NEW r \in LockTxs, NEW s \in LockTxs, r # s, Writing(r)', Writing(s)'
           PROVE  lockTx'[r].write.id # lockTx'[s].write.id
      <3>1. CASE r # t /\ s # t
        BY <1>3, <1>8, <2>11, <3>1 DEF EventInv, IdsAreUnique
      <3>2. CASE r = t \/ s = t
        BY <1>3, <1>4, <1>8, <2>5, <2>11, <3>2
      <3>3. QED
        BY <3>1, <3>2
    <2>12. QED
      BY <2>6, <2>7, <2>8, <2>9, <2>10, <2>11 DEF IdsAreUnique
  <1>12. ToldShape' /\ EventsMatchRows'
    BY <1>1, <1>6 DEF EventInv, ToldShape, EventsMatchRows
  <1>13. QED
    BY <1>10, <1>11, <1>12 DEF EventInv

\* Nobody used the key of a lock before it is granted.
LEMMA GrantTells ==
  ASSUME NEW t \in LockTxs, EventInv, LockIInv', GrantLock(t)
  PROVE  EventInv'
  <1> DEFINE x == lockTx[t]
             w == x.write
             key == <<"held", w.id, w.until>>
  <1>0. PICK e : e = x.entity
    OBVIOUS
  <1>1. /\ x # Absent /\ w # Absent /\ Writing(t)
        /\ x \in [user : Holders, entity : Entities, now : Nat, write : Locks \union {Absent}]
        /\ w \in Locks /\ e \in Entities
    BY <1>0 DEF GrantLock, Writing, EventInv, LockIInv, LockShape
  <1>2. /\ lockRow' = [lockRow EXCEPT ![e] = w]
        /\ lockTx' = [lockTx EXCEPT ![t] = Absent]
        /\ told' = IF key \in eventKeys THEN told
                   ELSE [told EXCEPT ![e] = [by |-> w.by, until |-> w.until]]
        /\ eventKeys' = eventKeys \union {key}
        /\ UNCHANGED <<clock, ids>>
    BY <1>0 DEF GrantLock, Enqueued
  <1>3. w.id \in Nat /\ w.until \in Nat /\ w.by \in Holders /\ w.until = x.now + Ttl /\ x.now <= clock
    BY <1>1 DEF Locks, EventInv, TimesAreUnique, LockIInv, NowIsPast
  <1>4. key \notin eventKeys
    BY <1>1, <1>3 DEF EventInv, TimesAreUnique
  <1>5. \A f \in Entities : lockRow'[f] = IF f = e THEN w ELSE lockRow[f]
    BY <1>1, <1>2 DEF EventInv, LockIInv, LockShape
  <1>6. \A f \in Entities : Held(f)' <=> f = e \/ Held(f)
    BY <1>1, <1>5 DEF Held
  <1>7. \A s \in LockTxs : lockTx'[s] # Absent => s # t /\ lockTx'[s] = lockTx[s]
    BY <1>2 DEF EventInv, LockIInv, LockShape
  <1>8. \A s \in LockTxs : Writing(s)' => s # t /\ Writing(s) /\ lockTx'[s] = lockTx[s]
    BY <1>7 DEF Writing
  <1>9. EndedIds' = EndedIds
    <2>1. \A i : <<"released", i>> \in eventKeys' <=> <<"released", i>> \in eventKeys
      BY <1>2, KeysDiffer
    <2>2. \A i, u : <<"expired", i, u>> \in eventKeys' <=> <<"expired", i, u>> \in eventKeys
      BY <1>2, KeysDiffer
    <2>3. QED
      BY <2>1, <2>2 DEF EndedIds
  <1>10. TimesAreUnique'
    <2>1. ASSUME NEW s \in LockTxs, lockTx'[s] # Absent, NEW i \in Nat
          PROVE  <<"held", i, lockTx'[s].now + Ttl>> \notin eventKeys'
      <3>1. s # t /\ lockTx'[s] = lockTx[s] /\ lockTx[s] # Absent
        BY <1>7, <2>1
      <3>2. lockTx[s].now # x.now /\ lockTx[s].now \in Nat /\ x.now \in Nat /\ Ttl \in Nat
        BY <1>1, <3>1, LockBoundAssumption DEF EventInv, TimesAreUnique, LockIInv, LockShape
      <3>3. lockTx[s].now + Ttl # w.until
        BY <1>3, <3>2
      <3>4. <<"held", i, lockTx[s].now + Ttl>> \notin eventKeys
        BY <3>1 DEF EventInv, TimesAreUnique
      <3>5. <<"held", i, lockTx[s].now + Ttl>> # key
        BY <3>3, KeysDiffer
      <3>6. QED
        BY <1>2, <3>1, <3>4, <3>5
    <2>2. ASSUME NEW i \in Nat, NEW u \in Nat, <<"held", i, u>> \in eventKeys'
          PROVE  u <= clock + Ttl
      <3>1. CASE <<"held", i, u>> \in eventKeys
        BY <3>1 DEF EventInv, TimesAreUnique
      <3>2. CASE <<"held", i, u>> = key
        <4>1. u = x.now + Ttl
          BY <1>3, <3>2, KeysDiffer
        <4>2. x.now \in Nat /\ clock \in Nat /\ Ttl \in Nat
          BY <1>1, LockBoundAssumption DEF EventInv, LockIInv, LockShape
        <4>3. QED
          BY <1>3, <4>1, <4>2
      <3>3. QED
        BY <1>2, <2>2, <3>1, <3>2
    <2>3. QED
      BY <1>2, <1>7, <1>8, <2>1, <2>2 DEF EventInv, TimesAreUnique
  <1>11. IdsAreUnique'
    <2>1. w.id <= ids /\ w.id \notin EndedIds
      BY <1>1 DEF EventInv, IdsAreUnique
    <2>2. \A f \in Entities : Held(f) /\ f # e => w.id # lockRow[f].id
      BY <1>0, <1>1 DEF EventInv, IdsAreUnique
    <2>3. \A s \in LockTxs : Writing(s) /\ s # t => lockTx[s].write.id # w.id
      BY <1>1 DEF EventInv, IdsAreUnique
    <2>4. \A i \in EndedIds' : i <= ids'
      BY <1>2, <1>9 DEF EventInv, IdsAreUnique
    <2>5. \A f \in Entities : Held(f)' => lockRow'[f].id <= ids' /\ lockRow'[f].id \notin EndedIds'
      BY <1>2, <1>5, <1>6, <1>9, <2>1 DEF EventInv, IdsAreUnique
    <2>6. \A s \in LockTxs :
              Writing(s)' => lockTx'[s].write.id <= ids' /\ lockTx'[s].write.id \notin EndedIds'
      BY <1>2, <1>8, <1>9 DEF EventInv, IdsAreUnique
    <2>7. \A f, g \in Entities : f # g /\ Held(f)' /\ Held(g)' => lockRow'[f].id # lockRow'[g].id
      BY <1>5, <1>6, <2>2 DEF EventInv, IdsAreUnique
    <2>8. \A s \in LockTxs, f \in Entities :
              Writing(s)' /\ Held(f)' /\ f # lockTx'[s].entity => lockTx'[s].write.id # lockRow'[f].id
      BY <1>5, <1>6, <1>8, <2>3 DEF EventInv, IdsAreUnique
    <2>9. \A r, s \in LockTxs :
              r # s /\ Writing(r)' /\ Writing(s)' => lockTx'[r].write.id # lockTx'[s].write.id
      BY <1>8 DEF EventInv, IdsAreUnique
    <2>10. QED
      BY <2>4, <2>5, <2>6, <2>7, <2>8, <2>9 DEF IdsAreUnique
  <1>12. told' = [told EXCEPT ![e] = [by |-> w.by, until |-> w.until]]
    BY <1>2, <1>4
  <1>13. ToldShape'
    BY <1>3, <1>12 DEF EventInv, ToldShape
  <1>14. EventsMatchRows'
    <2>1. \A f \in Entities : told'[f] = IF f = e THEN [by |-> w.by, until |-> w.until] ELSE told[f]
      BY <1>12 DEF EventInv, ToldShape
    <2>2. \A f \in Entities : f # e => (Held(f)' <=> Held(f)) /\ lockRow'[f] = lockRow[f]
      BY <1>5, <1>6
    <2>3. Held(e)' /\ lockRow'[e] = w
      BY <1>1, <1>5, <1>6
    <2>4. QED
      BY <1>1, <2>1, <2>2, <2>3 DEF EventInv, EventsMatchRows
  <1>15. QED
    BY <1>10, <1>11, <1>13, <1>14 DEF EventInv

\* Deleting the rows of S, under keys nobody used before.
LEMMA DeleteTells ==
  ASSUME EventInv, LockIInv', NEW S \in SUBSET Entities,
         \A e \in S : Held(e),
         \A t \in LockTxs : Writing(t) => lockTx[t].entity \notin S,
         lockRow' = [e \in Entities |-> IF e \in S THEN Absent ELSE lockRow[e]],
         told' = [e \in Entities |-> IF e \in S THEN Unlocked ELSE told[e]],
         \A i, u : <<"held", i, u>> \in eventKeys' => <<"held", i, u>> \in eventKeys,
         \A i \in EndedIds' : i \in EndedIds \/ \E e \in S : i = lockRow[e].id,
         UNCHANGED <<clock, ids, lockTx>>
  PROVE  EventInv'
  <1>1. \A f \in Entities : Held(f)' <=> Held(f) /\ f \notin S
    BY DEF Held
  <1>2. \A f \in Entities : Held(f) => lockRow[f].id \in Nat
    BY DEF EventInv, LockIInv, LockShape, Locks, Held
  <1>3. \A t \in LockTxs : Writing(t)' = Writing(t)
    BY DEF Writing
  <1>4. \A t \in LockTxs : Writing(t) => lockTx[t].write.id \in Nat
    BY DEF Writing, EventInv, LockIInv, LockShape, Locks
  <1>5. TimesAreUnique'
    BY <1>3 DEF EventInv, TimesAreUnique
  <1>6. IdsAreUnique'
    <2>1. \A i \in EndedIds' : i <= ids
      BY <1>2 DEF EventInv, IdsAreUnique
    <2>2. ASSUME NEW f \in Entities, Held(f)'
          PROVE  lockRow'[f].id <= ids /\ lockRow'[f].id \notin EndedIds'
      <3>1. Held(f) /\ f \notin S /\ lockRow'[f] = lockRow[f] /\ lockRow[f].id \in Nat
        BY <1>1, <1>2, <2>2
      <3>2. lockRow[f].id <= ids /\ lockRow[f].id \notin EndedIds
        BY <3>1 DEF EventInv, IdsAreUnique
      <3>3. \A e \in S : lockRow[f].id # lockRow[e].id
        BY <3>1 DEF EventInv, IdsAreUnique
      <3>4. lockRow[f].id \notin EndedIds'
        BY <3>2, <3>3
      <3>5. QED
        BY <3>1, <3>2, <3>4
    <2>3. ASSUME NEW t \in LockTxs, Writing(t)
          PROVE  lockTx[t].write.id <= ids /\ lockTx[t].write.id \notin EndedIds'
      <3>1. lockTx[t].write.id <= ids /\ lockTx[t].write.id \notin EndedIds /\ lockTx[t].write.id \in Nat
        BY <1>4, <2>3 DEF EventInv, IdsAreUnique
      <3>2. \A e \in S : lockTx[t].write.id # lockRow[e].id
        BY <2>3 DEF EventInv, IdsAreUnique
      <3>3. QED
        BY <3>1, <3>2
    <2>4. \A f, g \in Entities : f # g /\ Held(f)' /\ Held(g)' => lockRow'[f].id # lockRow'[g].id
      BY <1>1 DEF EventInv, IdsAreUnique
    <2>5. \A t \in LockTxs, f \in Entities :
              Writing(t) /\ Held(f)' /\ f # lockTx[t].entity => lockTx[t].write.id # lockRow'[f].id
      BY <1>1 DEF EventInv, IdsAreUnique
    <2>6. QED
      BY <1>3, <2>1, <2>2, <2>3, <2>4, <2>5 DEF EventInv, IdsAreUnique
  <1>7. ToldShape'
    BY DEF EventInv, ToldShape, Unlocked
  <1>8. EventsMatchRows'
    BY <1>1 DEF EventInv, EventsMatchRows
  <1>9. QED
    BY <1>5, <1>6, <1>7, <1>8 DEF EventInv

LEMMA ReleaseTells ==
  ASSUME NEW u \in Holders, NEW e \in Entities, EventInv, LockIInv', ReleaseLock(u, e)
  PROVE  EventInv'
  <1> DEFINE id == lockRow[e].id
             key == <<"released", id>>
  <1>1. /\ Held(e) /\ rowTx[e] = Absent
        /\ lockRow' = [lockRow EXCEPT ![e] = Absent]
        /\ told' = IF key \in eventKeys THEN told ELSE [told EXCEPT ![e] = Unlocked]
        /\ eventKeys' = eventKeys \union {key}
        /\ UNCHANGED <<clock, ids, lockTx>>
    BY DEF ReleaseLock, ReleaseKey, Enqueued
  <1>2. key \notin eventKeys
    <2>1. id \in Nat
      BY <1>1 DEF EventInv, LockIInv, LockShape, Locks, Held
    <2>2. id \notin EndedIds
      BY <1>1 DEF EventInv, IdsAreUnique
    <2>3. QED
      BY <2>1, <2>2 DEF EndedIds
  <1>3. lockRow' = [f \in Entities |-> IF f \in {e} THEN Absent ELSE lockRow[f]]
    BY <1>1 DEF EventInv, LockIInv, LockShape
  <1>4. told' = [f \in Entities |-> IF f \in {e} THEN Unlocked ELSE told[f]]
    BY <1>1, <1>2 DEF EventInv, ToldShape
  <1>5. \A t \in LockTxs : Writing(t) => lockTx[t].entity \notin {e}
    <2>1. \A t \in LockTxs : Writing(t) => rowTx[lockTx[t].entity] = t
      BY DEF Writing, EventInv, LockIInv, WriterHasRow
    <2>2. QED
      BY <1>1, <2>1, AbsentAssumption
  <1>6. \A i, v : <<"held", i, v>> \in eventKeys' => <<"held", i, v>> \in eventKeys
    BY <1>1, KeysDiffer
  <1>7. \A i \in EndedIds' : i \in EndedIds \/ \E f \in {e} : i = lockRow[f].id
    <2>1. \A i : <<"released", i>> \in eventKeys' => <<"released", i>> \in eventKeys \/ i = id
      BY <1>1, KeysDiffer
    <2>2. \A i, v : <<"expired", i, v>> \in eventKeys' => <<"expired", i, v>> \in eventKeys
      BY <1>1, KeysDiffer
    <2>3. QED
      BY <2>1, <2>2 DEF EndedIds
  <1>8. {e} \in SUBSET Entities /\ \A f \in {e} : Held(f)
    BY <1>1
  <1>9. QED
    BY <1>1, <1>3, <1>4, <1>5, <1>6, <1>7, <1>8, DeleteTells

LEMMA CommitSweepTells ==
  ASSUME NEW p \in Sweepers, EventInv, LockIInv', CommitLockSweep(p)
  PROVE  EventInv'
  <1> DEFINE S == sweeper[p].took
             key(e) == <<"expired", lockRow[e].id, lockRow[e].until>>
  <1>1. /\ lockRow' = [e \in Entities |-> IF e \in S THEN Absent ELSE lockRow[e]]
        /\ told' = [e \in Entities |->
               IF e \in S /\ key(e) \notin eventKeys THEN Unlocked ELSE told[e]]
        /\ eventKeys' = eventKeys \union {key(e) : e \in S}
        /\ UNCHANGED <<clock, ids, lockTx>>
    BY DEF CommitLockSweep
  <1>2. S \in SUBSET Entities /\ \A e \in S : Held(e) /\ rowTx[e] = p
    BY DEF EventInv, LockIInv, LockShape, SweeperHasRows
  <1>4. ASSUME NEW e \in S PROVE key(e) \notin eventKeys
    <2>1. lockRow[e].id \in Nat /\ lockRow[e].until \in Nat
      BY <1>2 DEF EventInv, LockIInv, LockShape, Locks, Held
    <2>2. lockRow[e].id \notin EndedIds
      BY <1>2 DEF EventInv, IdsAreUnique
    <2>3. QED
      BY <2>1, <2>2 DEF EndedIds
  <1>5. told' = [e \in Entities |-> IF e \in S THEN Unlocked ELSE told[e]]
    BY <1>1, <1>4
  <1>6. \A t \in LockTxs : Writing(t) => lockTx[t].entity \notin S
    <2>1. \A t \in LockTxs : Writing(t) => rowTx[lockTx[t].entity] = t
      BY DEF Writing, EventInv, LockIInv, WriterHasRow
    <2>2. \A t \in LockTxs : t # p
      BY AbsentAssumption
    <2>3. QED
      BY <1>2, <2>1, <2>2
  <1>7. \A i, v : <<"held", i, v>> \in eventKeys' => <<"held", i, v>> \in eventKeys
    BY <1>1, KeysDiffer
  <1>8. \A i \in EndedIds' : i \in EndedIds \/ \E e \in S : i = lockRow[e].id
    <2>1. \A i : <<"released", i>> \in eventKeys' => <<"released", i>> \in eventKeys
      BY <1>1, KeysDiffer
    <2>2. \A i, v : <<"expired", i, v>> \in eventKeys' =>
                        <<"expired", i, v>> \in eventKeys \/ \E e \in S : i = lockRow[e].id
      BY <1>1, KeysDiffer
    <2>3. QED
      BY <2>1, <2>2 DEF EndedIds
  <1> HIDE DEF S
  <1>9. QED
    BY <1>1, <1>2, <1>5, <1>6, <1>7, <1>8, DeleteTells

LEMMA NextEventInv == EventInv /\ [LockNext]_lockVars => EventInv'
  <1> SUFFICES ASSUME EventInv, [LockNext]_lockVars PROVE EventInv'
    OBVIOUS
  <1>1. LockIInv'
    BY NextLockIInv DEF EventInv
  <1>2. clock \in Nat
    BY DEF EventInv, LockIInv, LockShape
  <1>3. CASE UNCHANGED lockVars
    BY <1>1, <1>2, <1>3, QuietEvents DEF lockVars, tableVars, eventVars
  <1>4. CASE PassTime
    BY <1>1, <1>2, <1>4, QuietEvents DEF PassTime, tableVars, eventVars
  <1>5. ASSUME NEW u \in Holders, NEW e \in Entities,
               ReleaseLock(u, e) \/ \E t \in LockTxs : BeginLockTx(t, u, e)
        PROVE  EventInv'
    BY <1>1, <1>5, ReleaseTells, BeginTells
  <1>6. ASSUME NEW t \in LockTxs, Upsert(t) \/ GrantLock(t) PROVE EventInv'
    BY <1>1, <1>6, UpsertTells, GrantTells
  <1>7. ASSUME NEW t \in LockTxs, LeaveLockTx(t) \/ FailLockTx(t) PROVE EventInv'
    <2>1. /\ lockTx' = [lockTx EXCEPT ![t] = Absent]
          /\ UNCHANGED <<clock, lockRow, ids, eventKeys, told>>
      BY <1>7 DEF LeaveLockTx, FailLockTx, tableVars, eventVars
    <2>2. \A s \in LockTxs : lockTx'[s] # Absent => lockTx'[s] = lockTx[s]
      BY <2>1 DEF EventInv, LockIInv, LockShape
    <2>3. QED
      BY <1>1, <1>2, <2>1, <2>2, QuietEvents
  <1>8. ASSUME NEW p \in Sweepers, CommitLockSweep(p) PROVE EventInv'
    BY <1>1, <1>8, CommitSweepTells
  <1>9. ASSUME NEW p \in Sweepers,
               BeginLockSweep(p) \/ DeleteExpired(p) \/ EmptySweep(p) \/ FailSweepOf(p)
        PROVE  EventInv'
    <2>1. UNCHANGED <<clock, lockRow, ids, lockTx, eventKeys, told>>
      BY <1>9 DEF BeginLockSweep, DeleteExpired, EmptySweep, FailSweepOf, tableVars, eventVars
    <2>2. QED
      BY <1>1, <1>2, <2>1, QuietEvents
  <1>10. QED
    BY <1>3, <1>4, <1>5, <1>6, <1>7, <1>8, <1>9 DEF LockNext, LockTxStep, LockSweep

\* The last event of an entity is what its row says: no key that deduplicates
\* events is ever used twice, since a time belongs to one transaction and the
\* number of a row to one row.
THEOREM EventsTellTheTable == LockSpec => []EventsMatchRows
  <1>1. LockSpec => []EventInv
    BY InitEventInv, NextEventInv, PTL DEF LockSpec
  <1>2. EventInv => EventsMatchRows
    BY DEF EventInv
  <1>3. QED
    BY <1>1, <1>2, PTL

------------------------------------------------------------------------------
(* ChatPresence.                                                            *)

Plans == [del : SUBSET Conns, put : SUBSET Conns, on : SUBSET Users, off : SUBSET Users]

\* The variables that the argument needs have their types.
PresenceShape ==
    /\ call \in [Calls -> {"none", "waiting", "running"}]
    /\ plan \in [Calls -> Plans]
    /\ sweepPlan \in Plans
    /\ lease \in [Conns -> {"none", "live", "lapsed"}]
    /\ userLock \in [Users -> Calls \union {Sweep, NoCall}]
    /\ announced \in [Users -> BOOLEAN]

\* Plan p says nothing of user u, and does nothing to their rows.
Untouched(p, u) ==
    /\ u \notin p.on /\ u \notin p.off
    /\ \A c \in ConnsOf(u) : c \notin p.del /\ c \notin p.put

\* If what is announced of u is true, it is so after plan p is carried out.
Faithful(p, u) ==
    (u \in p.on \/ (Rows(u) # {} /\ u \notin p.off))
        <=> ((Rows(u) \ p.del) \union (p.put \intersect ConnsOf(u))) # {}

\* A call in its transaction holds the lock of its user, and what it is going
\* to commit is true of that user and nothing to others.
CallPlans ==
    \A x \in Calls :
        call[x] = "running" =>
            /\ userLock[UserOf[x[1]]] = x
            /\ Faithful(plan[x], UserOf[x[1]])
            /\ \A v \in Users \ {UserOf[x[1]]} : Untouched(plan[x], v)

\* So it is of the sweep, and the users whose locks it has.
SweepPlans ==
    \A u \in Users :
        IF userLock[u] = Sweep THEN Faithful(sweepPlan, u) ELSE Untouched(sweepPlan, u)

\* What is announced is what the table says, at every time.
Truth == \A u \in Users : announced[u] <=> Rows(u) # {}

PresenceIInv == PresenceShape /\ CallPlans /\ SweepPlans /\ Truth

LEMMA UntouchedIsFaithful ==
  ASSUME NEW p, NEW u \in Users, Untouched(p, u)
  PROVE  Faithful(p, u)
  BY DEF Untouched, Faithful, Rows, ConnsOf

LEMMA CallUser == \A x \in Calls : x[1] \in Conns /\ UserOf[x[1]] \in Users
  BY PresenceAssumption DEF Calls

\* What carrying out a plan does to the rows of a user.
LEMMA CarriedRows ==
  ASSUME NEW p, NEW u \in Users, Carry(p), PresenceShape
  PROVE  Rows(u)' = (Rows(u) \ p.del) \union (p.put \intersect ConnsOf(u))
  <1>1. \A c \in Conns :
           lease'[c] = IF c \in p.put THEN "live" ELSE IF c \in p.del THEN "none" ELSE lease[c]
    BY DEF Carry
  <1>2. \A c \in Conns : lease'[c] # "none" <=> c \in p.put \/ (c \notin p.del /\ lease[c] # "none")
    BY <1>1
  <1>3. QED
    BY <1>2 DEF Rows, ConnsOf

LEMMA CarryIsTrue ==
  ASSUME NEW p, Carry(p), PresenceShape, Truth, \A u \in Users : Faithful(p, u)
  PROVE  Truth'
  <1> SUFFICES ASSUME NEW u \in Users PROVE (announced[u] <=> Rows(u) # {})'
    BY DEF Truth
  <1>1. announced'[u] <=> u \in p.on \/ (announced[u] /\ u \notin p.off)
    BY DEF Carry
  <1>2. announced[u] <=> Rows(u) # {}
    BY DEF Truth
  <1>3. Rows(u)' = (Rows(u) \ p.del) \union (p.put \intersect ConnsOf(u))
    BY CarriedRows
  <1>4. Faithful(p, u)
    OBVIOUS
  <1>5. QED
    BY <1>1, <1>2, <1>3, <1>4 DEF Faithful

LEMMA CarryKeepsRows ==
  ASSUME NEW p, NEW u \in Users, Carry(p), PresenceShape, Untouched(p, u)
  PROVE  Rows(u)' = Rows(u)
  <1>1. Rows(u)' = (Rows(u) \ p.del) \union (p.put \intersect ConnsOf(u))
    BY CarriedRows
  <1>2. QED
    BY <1>1 DEF Untouched, Rows, ConnsOf

LEMMA InitPresenceIInv == PresenceInit => PresenceIInv
  <1> SUFFICES ASSUME PresenceInit PROVE PresenceIInv
    OBVIOUS
  <1>1. PresenceShape
    BY DEF PresenceInit, PresenceShape, Plans, NoPlan
  <1>2. CallPlans
    BY DEF PresenceInit, CallPlans
  <1>3. SweepPlans
    BY NoCallAssumption DEF PresenceInit, SweepPlans, Untouched, NoPlan
  <1>4. Truth
    <2>1. \A u \in Users : Rows(u) = {}
      BY DEF PresenceInit, Rows, ConnsOf
    <2>2. \A u \in Users : announced[u] = FALSE
      BY DEF PresenceInit
    <2>3. QED
      BY <2>1, <2>2 DEF Truth
  <1>5. QED
    BY <1>1, <1>2, <1>3, <1>4 DEF PresenceIInv

\* A step that starts no transaction, commits nothing and only gives up locks
\* of calls that are over.
LEMMA QuietStep ==
  ASSUME PresenceIInv, PresenceShape',
         \A c \in Conns : lease'[c] # "none" <=> lease[c] # "none",
         UNCHANGED <<sweepPlan, announced>>,
         \A x \in Calls : call'[x] = "running" => 
             /\ call[x] = "running"
             /\ plan'[x] = plan[x]
             /\ userLock'[UserOf[x[1]]] = userLock[UserOf[x[1]]],
         \A u \in Users : userLock'[u] = Sweep <=> userLock[u] = Sweep
  PROVE  PresenceIInv'
  <1>1. \A u \in Users : Rows(u)' = Rows(u)
    BY DEF Rows, ConnsOf
  <1>2. CallPlans'
    <2> SUFFICES ASSUME NEW x \in Calls, call'[x] = "running"
                 PROVE  /\ userLock'[UserOf[x[1]]] = x
                        /\ Faithful(plan[x], UserOf[x[1]])'
                        /\ \A v \in Users \ {UserOf[x[1]]} : Untouched(plan[x], v)'
      BY DEF CallPlans
    <2>1. /\ userLock[UserOf[x[1]]] = x
          /\ Faithful(plan[x], UserOf[x[1]])
          /\ \A v \in Users \ {UserOf[x[1]]} : Untouched(plan[x], v)
      BY DEF PresenceIInv, CallPlans
    <2>2. UserOf[x[1]] \in Users
      BY CallUser
    <2>3. QED
      BY <1>1, <2>1, <2>2 DEF Faithful, Untouched, ConnsOf
  <1>3. SweepPlans'
    BY <1>1 DEF PresenceIInv, SweepPlans, Faithful, Untouched, ConnsOf
  <1>4. Truth'
    BY <1>1 DEF PresenceIInv, Truth
  <1>5. QED
    BY <1>2, <1>3, <1>4 DEF PresenceIInv

\* Sockets, timers and leases that run out.
LEMMA SocketsKeep ==
  ASSUME NEW c \in Conns, PresenceIInv, Open(c) \/ Close(c) \/ Beat(c) \/ Lapse(c)
  PROVE  PresenceIInv'
  <1>1. /\ PresenceShape'
        /\ \A d \in Conns : lease'[d] # "none" <=> lease[d] # "none"
        /\ UNCHANGED <<sweepPlan, announced, plan, userLock>>
    <2>1. CASE Lapse(c)
      BY <2>1 DEF Lapse, PresenceIInv, PresenceShape, callVars, sweepVars
    <2>2. CASE Open(c) \/ Close(c) \/ Beat(c)
      <3>1. PICK kind \in Kinds : call' = [call EXCEPT ![<<c, kind>>] = "waiting"]
        BY <2>2 DEF Open, Close, Beat, Kinds
      <3>2. UNCHANGED <<sweepPlan, announced, plan, userLock, lease>>
        BY <2>2 DEF Open, Close, Beat, sweepVars
      <3>3. QED
        BY <3>1, <3>2 DEF PresenceIInv, PresenceShape
    <2>3. QED
      BY <2>1, <2>2
  <1>2. \A x \in Calls : call'[x] = "running" => call[x] = "running"
    BY DEF Open, Close, Beat, Lapse, callVars, PresenceIInv, PresenceShape
  <1>3. QED
    BY <1>1, <1>2, QuietStep

LEMMA VanishKeeps ==
  ASSUME NEW c \in Conns, PresenceIInv, Vanish(c)
  PROVE  PresenceIInv'
  <1>1. PresenceShape'
    BY DEF Vanish, PresenceIInv, PresenceShape, sweepVars, NoPlan, Plans
  <1>2. UNCHANGED <<sweepPlan, announced, lease>>
    BY DEF Vanish, sweepVars
  <1>3. ASSUME NEW x \in Calls, call'[x] = "running"
        PROVE  /\ call[x] = "running"
               /\ plan'[x] = plan[x]
               /\ userLock'[UserOf[x[1]]] = userLock[UserOf[x[1]]]
    <2>1. x[1] # c /\ call[x] = "running" /\ plan'[x] = plan[x]
      BY <1>3 DEF Vanish
    <2>2. userLock[UserOf[x[1]]] = x /\ x \notin {c} \X Kinds
      BY <2>1 DEF PresenceIInv, CallPlans
    <2>3. QED
      BY <2>1, <2>2, CallUser DEF Vanish
  <1>4. \A u \in Users : userLock'[u] = Sweep <=> userLock[u] = Sweep
    BY NoCallAssumption DEF Vanish, Calls
  <1>5. QED
    BY <1>1, <1>2, <1>3, <1>4, QuietStep

LEMMA RunKeeps ==
  ASSUME NEW x \in Calls, PresenceIInv, Run(x)
  PROVE  PresenceIInv'
  <1> DEFINE c == x[1]
             u == UserOf[x[1]]
             p == IF x[2] \in {"connect", "heartbeat"} THEN Joining(c) ELSE Leaving(c)
  <1>1. c \in Conns /\ u \in Users /\ c \in ConnsOf(u)
    BY CallUser DEF ConnsOf
  <1>2. /\ call[x] = "waiting"
        /\ userLock[u] = NoCall
        /\ userLock' = [userLock EXCEPT ![u] = x]
        /\ call' = [call EXCEPT ![x] = "running"]
        /\ plan' = [plan EXCEPT ![x] = p]
        /\ UNCHANGED <<lease, announced, sweepPlan>>
    BY DEF Run, UserLockFree, sweepVars
  <1>3. p \in Plans /\ Faithful(p, u) /\ \A v \in Users \ {u} : Untouched(p, v)
    <2>1. CASE p = Joining(c)
      <3>1. p \in Plans
        BY <1>1, <2>1 DEF Joining, Plans, Lapsed, ConnsOf
      <3>2. Faithful(p, u)
        BY <1>1, <2>1 DEF Joining, Faithful, Lapsed, Rows
      <3>3. \A v \in Users \ {u} : Untouched(p, v)
        BY <1>1, <2>1 DEF Joining, Untouched, Lapsed, ConnsOf
      <3>4. QED
        BY <3>1, <3>2, <3>3
    <2>2. CASE p = Leaving(c)
      <3>1. p \in Plans
        BY <1>1, <2>2 DEF Leaving, NoPlan, Plans, Lapsed, ConnsOf
      <3>2. Faithful(p, u)
        BY <1>1, <2>2 DEF Leaving, NoPlan, Faithful, Lapsed, Rows
      <3>3. \A v \in Users \ {u} : Untouched(p, v)
        BY <1>1, <2>2 DEF Leaving, NoPlan, Untouched, Lapsed, ConnsOf
      <3>4. QED
        BY <3>1, <3>2, <3>3
    <2>3. QED
      BY <2>1, <2>2
  <1> HIDE DEF p
  <1>4. PresenceShape'
    BY <1>1, <1>2, <1>3 DEF PresenceIInv, PresenceShape
  <1>5. \A v \in Users : Rows(v)' = Rows(v)
    BY <1>2 DEF Rows, ConnsOf
  <1>6. CallPlans'
    <2> SUFFICES ASSUME NEW y \in Calls, call'[y] = "running"
                 PROVE  /\ userLock'[UserOf[y[1]]] = y
                        /\ Faithful(plan[y], UserOf[y[1]])'
                        /\ \A v \in Users \ {UserOf[y[1]]} : Untouched(plan[y], v)'
      BY DEF CallPlans
    <2>1. CASE y = x
      <3>1. plan'[x] = p /\ userLock'[u] = x
        BY <1>1, <1>2 DEF PresenceIInv, PresenceShape
      <3>2. QED
        BY <1>1, <1>3, <1>5, <2>1, <3>1 DEF Faithful, Untouched, ConnsOf
    <2>2. CASE y # x
      <3>1. call[y] = "running" /\ plan'[y] = plan[y]
        BY <1>2, <2>2 DEF PresenceIInv, PresenceShape
      <3>2. /\ userLock[UserOf[y[1]]] = y
            /\ Faithful(plan[y], UserOf[y[1]])
            /\ \A v \in Users \ {UserOf[y[1]]} : Untouched(plan[y], v)
        BY <3>1 DEF PresenceIInv, CallPlans
      <3>3. UserOf[y[1]] # u /\ UserOf[y[1]] \in Users
        BY <1>2, <3>2, NoCallAssumption, CallUser
      <3>4. userLock'[UserOf[y[1]]] = y
        BY <1>2, <3>2, <3>3 DEF PresenceIInv, PresenceShape
      <3>5. QED
        BY <1>5, <3>1, <3>2, <3>3, <3>4 DEF Faithful, Untouched, ConnsOf
    <2>3. QED
      BY <2>1, <2>2
  <1>7. SweepPlans'
    <2>1. \A v \in Users : userLock'[v] = Sweep <=> userLock[v] = Sweep
      BY <1>1, <1>2, NoCallAssumption DEF PresenceIInv, PresenceShape
    <2>2. QED
      BY <1>2, <1>5, <2>1 DEF PresenceIInv, SweepPlans, Faithful, Untouched, ConnsOf
  <1>8. Truth'
    BY <1>2, <1>5 DEF PresenceIInv, Truth
  <1>9. QED
    BY <1>4, <1>6, <1>7, <1>8 DEF PresenceIInv

\* Calls that fail before they commit.
LEMMA FailKeeps ==
  ASSUME NEW x \in Calls, PresenceIInv, FailCall(x)
  PROVE  PresenceIInv'
  <1>1. UNCHANGED <<sweepPlan, announced, lease>>
    BY DEF FailCall, sweepVars
  <1>2. /\ call' \in [Calls -> {"none", "waiting", "running"}]
        /\ \A y \in Calls : call'[y] = "running" => call[y] = "running" /\ y # x
    BY CallUser DEF FailCall, Failed, PresenceIInv, PresenceShape, Calls, Kinds
  <1>3. /\ plan' = [plan EXCEPT ![x] = NoPlan]
        /\ userLock' = [u \in Users |-> IF userLock[u] = x THEN NoCall ELSE userLock[u]]
    BY DEF FailCall, Freed
  <1>4. PresenceShape'
    BY <1>1, <1>2, <1>3 DEF PresenceIInv, PresenceShape, NoPlan, Plans
  <1>5. ASSUME NEW y \in Calls, call'[y] = "running"
        PROVE  /\ call[y] = "running"
               /\ plan'[y] = plan[y]
               /\ userLock'[UserOf[y[1]]] = userLock[UserOf[y[1]]]
    <2>1. call[y] = "running" /\ y # x /\ userLock[UserOf[y[1]]] = y
      BY <1>2, <1>5 DEF PresenceIInv, CallPlans
    <2>2. QED
      BY <1>3, <2>1, CallUser DEF PresenceIInv, PresenceShape
  <1>6. \A u \in Users : userLock'[u] = Sweep <=> userLock[u] = Sweep
    BY <1>3, NoCallAssumption
  <1>7. QED
    BY <1>1, <1>4, <1>5, <1>6, QuietStep

\* A transaction of x, the sweep's or a call's, that ends: the plans of running
\* calls of other users stay true of them.
LEMMA OthersKeep ==
  ASSUME PresenceIInv, NEW x \in Calls \union {Sweep},
         userLock' = Freed(x),
         \A y \in Calls : call'[y] = "running" =>
             call[y] = "running" /\ y # x /\ plan'[y] = plan[y],
         \A v \in Users : userLock[v] # x => Rows(v)' = Rows(v)
  PROVE  CallPlans'
  <1> SUFFICES ASSUME NEW y \in Calls, call'[y] = "running"
               PROVE  /\ userLock'[UserOf[y[1]]] = y
                      /\ Faithful(plan[y], UserOf[y[1]])'
                      /\ \A v \in Users \ {UserOf[y[1]]} : Untouched(plan[y], v)'
    BY DEF CallPlans
  <1>1. call[y] = "running" /\ y # x /\ plan'[y] = plan[y]
    OBVIOUS
  <1>2. /\ userLock[UserOf[y[1]]] = y
        /\ Faithful(plan[y], UserOf[y[1]])
        /\ \A v \in Users \ {UserOf[y[1]]} : Untouched(plan[y], v)
    BY <1>1 DEF PresenceIInv, CallPlans
  <1>3. UserOf[y[1]] \in Users
    BY CallUser
  <1>4. Rows(UserOf[y[1]])' = Rows(UserOf[y[1]]) /\ userLock'[UserOf[y[1]]] = y
    BY <1>1, <1>2, <1>3 DEF Freed
  <1>5. QED
    BY <1>1, <1>2, <1>4 DEF Faithful, Untouched, ConnsOf

\* The rows a committed plan leaves, and their types.
LEMMA CarryShape ==
  ASSUME NEW p, Carry(p), PresenceShape
  PROVE  /\ lease' \in [Conns -> {"none", "live", "lapsed"}]
         /\ announced' \in [Users -> BOOLEAN]
  BY DEF Carry, PresenceShape

LEMMA CommitKeeps ==
  ASSUME NEW x \in Calls, PresenceIInv, CommitCall(x)
  PROVE  PresenceIInv'
  <1> DEFINE u == UserOf[x[1]]
             p == plan[x]
  <1>1. /\ Carry(p)
        /\ call[x] = "running"
        /\ userLock' = Freed(x)
        /\ plan' = [plan EXCEPT ![x] = NoPlan]
        /\ sweepPlan' = sweepPlan
    BY DEF CommitCall, sweepVars
  <1>2. u \in Users
    BY CallUser
  <1>3. userLock[u] = x /\ Faithful(p, u) /\ \A v \in Users \ {u} : Untouched(p, v)
    BY <1>1 DEF PresenceIInv, CallPlans
  <1> HIDE DEF p
  <1>4. /\ call' \in [Calls -> {"none", "waiting", "running"}]
        /\ \A y \in Calls : call'[y] = "running" => call[y] = "running" /\ y # x
    <2>1. PICK z \in Calls :
              call' = [call EXCEPT ![x] = "none"]
                  \/ (z # x /\ call' = [call EXCEPT ![x] = "none", ![z] = "waiting"])
      <3>1. CASE x[2] = "connect"
        <4>1. /\ x = <<x[1], "connect">>
              /\ <<x[1], "cleanup">> \in Calls /\ <<x[1], "disconnect">> \in Calls
              /\ <<x[1], "cleanup">> # x /\ <<x[1], "disconnect">> # x
          BY <3>1 DEF Calls, Kinds
        <4>2. QED
          BY <3>1, <4>1 DEF CommitCall, Registered, Failed
      <3>2. CASE x[2] # "connect"
        BY <3>2 DEF CommitCall, Failed
      <3>3. QED
        BY <3>1, <3>2
    <2>2. QED
      BY <2>1 DEF PresenceIInv, PresenceShape
  <1>5. PresenceShape'
    BY <1>1, <1>4, CarryShape DEF PresenceIInv, PresenceShape, NoPlan, Plans, Freed
  <1>6. Truth'
    <2>1. \A v \in Users : Faithful(p, v)
      BY <1>3, UntouchedIsFaithful
    <2>2. QED
      BY <1>1, <2>1, CarryIsTrue DEF PresenceIInv
  <1>7. \A v \in Users : userLock[v] # x => Rows(v)' = Rows(v)
    BY <1>1, <1>3, CarryKeepsRows DEF PresenceIInv
  <1>8. CallPlans'
    <2>1. \A y \in Calls : call'[y] = "running" =>
              call[y] = "running" /\ y # x /\ plan'[y] = plan[y]
      BY <1>1, <1>4 DEF PresenceIInv, PresenceShape
    <2>2. QED
      BY <1>1, <1>7, <2>1, OthersKeep
  <1>9. SweepPlans'
    <2> SUFFICES ASSUME NEW v \in Users
                 PROVE  IF userLock'[v] = Sweep
                        THEN Faithful(sweepPlan, v)' ELSE Untouched(sweepPlan, v)'
      BY DEF SweepPlans
    <2>1. userLock'[v] = Sweep <=> userLock[v] = Sweep
      BY <1>1, NoCallAssumption DEF Freed
    <2>2. CASE userLock[v] = Sweep
      <3>1. Rows(v)' = Rows(v) /\ Faithful(sweepPlan, v)
        BY <1>7, <2>2, NoCallAssumption DEF PresenceIInv, SweepPlans
      <3>2. QED
        BY <1>1, <2>1, <2>2, <3>1 DEF Faithful, ConnsOf
    <2>3. CASE userLock[v] # Sweep
      BY <1>1, <2>1, <2>3 DEF PresenceIInv, SweepPlans, Untouched, ConnsOf
    <2>4. QED
      BY <2>2, <2>3
  <1>10. QED
    BY <1>5, <1>6, <1>8, <1>9 DEF PresenceIInv

------------------------------------------------------------------------------
(* The sweep                                                                *)

LEMMA BeginSweepKeeps == PresenceIInv /\ BeginSweep => PresenceIInv'
  <1> SUFFICES ASSUME PresenceIInv, BeginSweep PROVE PresenceIInv'
    OBVIOUS
  <1>1. UNCHANGED <<call, plan, sweepPlan, lease, userLock, announced>>
    BY DEF BeginSweep, callVars
  <1>2. PresenceShape'
    BY <1>1 DEF PresenceIInv, PresenceShape
  <1>3. QED
    BY <1>1, <1>2, QuietStep

LEMMA SweepUserKeeps == PresenceIInv /\ SweepUser /\ sweepTodo \subseteq Users => PresenceIInv'
  <1> SUFFICES ASSUME PresenceIInv, SweepUser, sweepTodo \subseteq Users PROVE PresenceIInv'
    OBVIOUS
  <1>1. UNCHANGED <<call, plan, lease, announced>>
    BY DEF SweepUser, callVars
  <1>2. PICK u \in Users :
           /\ userLock[u] = NoCall
           /\ userLock' = [userLock EXCEPT ![u] = Sweep]
           /\ sweepPlan' = [sweepPlan EXCEPT !.del = @ \union Lapsed(u),
                                !.off = IF Lapsed(u) # {} /\ Rows(u) = Lapsed(u)
                                        THEN @ \union {u} ELSE @]
    BY DEF SweepUser, UserLockFree
  <1>3. /\ sweepPlan'.del = sweepPlan.del \union Lapsed(u)
        /\ sweepPlan'.off = IF Lapsed(u) # {} /\ Rows(u) = Lapsed(u)
                            THEN sweepPlan.off \union {u} ELSE sweepPlan.off
        /\ sweepPlan'.put = sweepPlan.put
        /\ sweepPlan'.on = sweepPlan.on
        /\ sweepPlan' \in Plans
    BY <1>2 DEF PresenceIInv, PresenceShape, Plans, Lapsed, ConnsOf
  <1>4. \A v \in Users : Rows(v)' = Rows(v)
    BY <1>1 DEF Rows, ConnsOf
  <1>5. \A v \in Users : userLock'[v] = IF v = u THEN Sweep ELSE userLock[v]
    BY <1>2 DEF PresenceIInv, PresenceShape
  <1>6. PresenceShape'
    BY <1>1, <1>2, <1>3 DEF PresenceIInv, PresenceShape
  <1>7. CallPlans'
    <2> SUFFICES ASSUME NEW y \in Calls, call'[y] = "running"
                 PROVE  /\ userLock'[UserOf[y[1]]] = y
                        /\ Faithful(plan[y], UserOf[y[1]])'
                        /\ \A v \in Users \ {UserOf[y[1]]} : Untouched(plan[y], v)'
      BY DEF CallPlans
    <2>1. /\ userLock[UserOf[y[1]]] = y
          /\ Faithful(plan[y], UserOf[y[1]])
          /\ \A v \in Users \ {UserOf[y[1]]} : Untouched(plan[y], v)
      BY <1>1 DEF PresenceIInv, CallPlans
    <2>2. UserOf[y[1]] \in Users /\ UserOf[y[1]] # u
      BY <1>2, <2>1, CallUser, NoCallAssumption
    <2>3. QED
      BY <1>1, <1>4, <1>5, <2>1, <2>2 DEF Faithful, Untouched, ConnsOf
  <1>8. SweepPlans'
    <2> SUFFICES ASSUME NEW v \in Users
                 PROVE  IF userLock'[v] = Sweep
                        THEN Faithful(sweepPlan, v)' ELSE Untouched(sweepPlan, v)'
      BY DEF SweepPlans
    <2>1. CASE v = u
      <3>1. Untouched(sweepPlan, u)
        BY <1>2, NoCallAssumption DEF PresenceIInv, SweepPlans
      <3>2. (Rows(u) \ sweepPlan'.del) \union (sweepPlan'.put \intersect ConnsOf(u))
                = Rows(u) \ Lapsed(u)
        BY <1>3, <3>1 DEF Untouched, Rows
      <3>3. Lapsed(u) \subseteq Rows(u)
        BY DEF Lapsed, Rows
      <3>4. u \notin sweepPlan'.on
                /\ (u \in sweepPlan'.off <=> Lapsed(u) # {} /\ Rows(u) = Lapsed(u))
        BY <1>3, <3>1 DEF Untouched
      <3>5. Faithful(sweepPlan', u)
        BY <3>2, <3>3, <3>4 DEF Faithful
      <3>6. QED
        BY <1>4, <1>5, <2>1, <3>5 DEF Faithful, ConnsOf
    <2>2. CASE v # u
      <3>1. /\ v \in sweepPlan'.off <=> v \in sweepPlan.off
            /\ v \in sweepPlan'.on <=> v \in sweepPlan.on
            /\ \A c \in ConnsOf(v) : /\ c \in sweepPlan'.del <=> c \in sweepPlan.del
                                     /\ c \in sweepPlan'.put <=> c \in sweepPlan.put
        BY <1>3, <2>2 DEF Lapsed, ConnsOf
      <3>2. CASE userLock[v] = Sweep
        <4>1. Faithful(sweepPlan, v)
          BY <3>2 DEF PresenceIInv, SweepPlans
        <4>2. /\ Rows(v) \ sweepPlan'.del = Rows(v) \ sweepPlan.del
              /\ sweepPlan'.put \intersect ConnsOf(v) = sweepPlan.put \intersect ConnsOf(v)
          BY <3>1 DEF Rows
        <4>3. QED
          BY <1>4, <1>5, <2>2, <3>1, <3>2, <4>1, <4>2 DEF Faithful, ConnsOf
      <3>3. CASE userLock[v] # Sweep
        <4>1. Untouched(sweepPlan, v)
          BY <3>3 DEF PresenceIInv, SweepPlans
        <4>2. QED
          BY <1>5, <2>2, <3>1, <3>3, <4>1 DEF Untouched, ConnsOf
      <3>4. QED
        BY <3>2, <3>3
    <2>3. QED
      BY <2>1, <2>2
  <1>9. Truth'
    BY <1>1, <1>4 DEF PresenceIInv, Truth
  <1>10. QED
    BY <1>6, <1>7, <1>8, <1>9 DEF PresenceIInv

\* A sweep that ends, in one way or the other, says nothing of anybody.
LEMMA EndedSweepPlans ==
  ASSUME PresenceIInv, userLock' = Freed(Sweep), sweepPlan' = NoPlan
  PROVE  SweepPlans'
  BY NoCallAssumption DEF SweepPlans, Freed, Untouched, NoPlan

LEMMA CommitSweepKeeps == PresenceIInv /\ CommitSweep => PresenceIInv'
  <1> SUFFICES ASSUME PresenceIInv, CommitSweep PROVE PresenceIInv'
    OBVIOUS
  <1>1. /\ Carry(sweepPlan)
        /\ userLock' = Freed(Sweep)
        /\ sweepPlan' = NoPlan
        /\ UNCHANGED <<call, plan>>
    BY DEF CommitSweep, callVars
  <1>2. PresenceShape'
    BY <1>1, CarryShape DEF PresenceIInv, PresenceShape, NoPlan, Plans, Freed
  <1>3. Truth'
    <2>1. \A v \in Users : Faithful(sweepPlan, v)
      BY UntouchedIsFaithful DEF PresenceIInv, SweepPlans
    <2>2. QED
      BY <1>1, <2>1, CarryIsTrue DEF PresenceIInv
  <1>4. \A v \in Users : userLock[v] # Sweep => Rows(v)' = Rows(v)
    BY <1>1, CarryKeepsRows DEF PresenceIInv, SweepPlans
  <1>5. CallPlans'
    BY <1>1, <1>4, OthersKeep, NoCallAssumption
  <1>6. SweepPlans'
    BY <1>1, EndedSweepPlans
  <1>7. QED
    BY <1>2, <1>3, <1>5, <1>6 DEF PresenceIInv

LEMMA FailSweepKeeps == PresenceIInv /\ FailSweep => PresenceIInv'
  <1> SUFFICES ASSUME PresenceIInv, FailSweep PROVE PresenceIInv'
    OBVIOUS
  <1>1. /\ userLock' = Freed(Sweep)
        /\ sweepPlan' = NoPlan
        /\ UNCHANGED <<call, plan, lease, announced>>
    BY DEF FailSweep, callVars
  <1>2. PresenceShape'
    BY <1>1 DEF PresenceIInv, PresenceShape, NoPlan, Plans, Freed
  <1>3. \A v \in Users : Rows(v)' = Rows(v)
    BY <1>1 DEF Rows, ConnsOf
  <1>4. Truth'
    BY <1>1, <1>3 DEF PresenceIInv, Truth
  <1>5. CallPlans'
    BY <1>1, <1>3, OthersKeep, NoCallAssumption
  <1>6. SweepPlans'
    BY <1>1, EndedSweepPlans
  <1>7. QED
    BY <1>2, <1>4, <1>5, <1>6 DEF PresenceIInv

------------------------------------------------------------------------------
Todo == sweepTodo \subseteq Users

LEMMA TodoKeeps == Todo /\ [PresenceNext]_presenceVars => Todo'
  BY DEF Todo, PresenceNext, presenceVars, callVars, sweepVars, Open, Close, Beat, Vanish,
         Lapse, Run, CommitCall, FailCall, BeginSweep, SweepUser, CommitSweep, FailSweep

LEMMA NextPresenceIInv == PresenceIInv /\ Todo /\ [PresenceNext]_presenceVars => PresenceIInv'
  <1> SUFFICES ASSUME PresenceIInv, Todo, [PresenceNext]_presenceVars PROVE PresenceIInv'
    OBVIOUS
  <1>1. CASE \E c \in Conns : Open(c) \/ Close(c) \/ Beat(c) \/ Vanish(c) \/ Lapse(c)
    BY <1>1, SocketsKeep, VanishKeeps
  <1>2. CASE \E x \in Calls : Run(x) \/ CommitCall(x) \/ FailCall(x)
    BY <1>2, RunKeeps, CommitKeeps, FailKeeps
  <1>3. CASE BeginSweep \/ SweepUser \/ CommitSweep \/ FailSweep
    BY <1>3, BeginSweepKeeps, SweepUserKeeps, CommitSweepKeeps, FailSweepKeeps DEF Todo
  <1>4. CASE UNCHANGED presenceVars
    <2>1. UNCHANGED <<call, plan, sweepPlan, lease, userLock, announced>>
      BY <1>4 DEF presenceVars, callVars, sweepVars
    <2>2. PresenceShape'
      BY <2>1 DEF PresenceIInv, PresenceShape
    <2>3. QED
      BY <2>1, <2>2, QuietStep
  <1>5. QED
    BY <1>1, <1>2, <1>3, <1>4 DEF PresenceNext

\* However the connections, disconnections, heartbeats, failures and sweeps of
\* several processes cross, what was last announced of a user is what the table
\* says (src/src/shared/realtime/chat-presence.registry.ts).
THEOREM AnnouncementsAreTrue == PresenceSpec => []AnnouncedIsTrue
  <1>1. PresenceInit => PresenceIInv /\ Todo
    BY InitPresenceIInv DEF PresenceInit, Todo
  <1>2. PresenceIInv /\ Todo /\ [PresenceNext]_presenceVars => PresenceIInv' /\ Todo'
    BY NextPresenceIInv, TodoKeeps
  <1>3. PresenceIInv => AnnouncedIsTrue
    BY DEF PresenceIInv, Truth, AnnouncedIsTrue
  <1>4. QED
    BY <1>1, <1>2, <1>3, PTL DEF PresenceSpec
=============================================================================
