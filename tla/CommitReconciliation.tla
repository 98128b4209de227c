------------------------ MODULE CommitReconciliation ------------------------
(* How a transaction that writes realtime events learns its own outcome.    *)
(*                                                                          *)
(* withRealtimeOutboxTransaction runs the work, sends COMMIT and, when the   *)
(* answer is lost, looks on a fresh connection for the outbox rows that this *)
(* transaction inserted and, with the caller's reconcileCommit, for the      *)
(* business state it was to bring about.  The server decides the COMMIT on   *)
(* its own: it may do so after the connection is gone, and after the looks.  *)
(*                                                                          *)
(* The business state is a session epoch, which revokeSessions raises: every *)
(* caller that raises an epoch passes reconcileCommit.  The epoch counts as  *)
(* evidence whoever raised it that far; the evidence of other callers        *)
(* compares values of their own, and can only be more cautious.              *)
EXTENDS Integers, FiniteSets

CONSTANTS
    Txs,        \* transactions: commands and their retries
    EventKeys,  \* event keys, which commands and their retries share
    NoTx,       \* no transaction
    MaxFaults   \* bound: statements that fail, answers that get lost

ASSUME NoTxAssumption == NoTx \notin Txs
ASSUME BoundAssumption == MaxFaults \in Nat

VARIABLES
    txPc,      \* the process: where each transaction stands
    txAnswer,  \* what the caller was told
    server,    \* PostgreSQL: the state of each transaction
    inserted,  \* the event keys each transaction inserted, and so tracks
    row,       \* the committed outbox rows: the transaction that wrote each key
    lock,      \* holder of the enqueue advisory lock
    epoch,     \* the committed session epoch
    raised,    \* the epoch each transaction raised it to, 0 if it did not
    evidence,  \* what the looks of each transaction have said
    late,      \* history: transactions the server was still deciding at a look
    faults

epochVars == <<epoch, raised>>
lookVars == <<evidence, late>>
commitVars == <<txPc, txAnswer, server, inserted, row, lock, epochVars, lookVars, faults>>

CommitInit ==
    /\ txPc = [t \in Txs |-> "idle"]
    /\ txAnswer = [t \in Txs |-> "none"]
    /\ server = [t \in Txs |-> "none"]
    /\ inserted = [t \in Txs |-> {}]
    /\ row = [k \in EventKeys |-> NoTx]
    /\ lock = NoTx
    /\ epoch = 0
    /\ raised = [t \in Txs |-> 0]
    /\ evidence = [t \in Txs |-> {}]
    /\ late = {}
    /\ faults = 0

Fault == faults < MaxFaults /\ faults' = faults + 1
Released(t) == IF lock = t THEN NoTx ELSE lock

Tell(t, a) ==
    /\ txPc' = [txPc EXCEPT ![t] = "end"]
    /\ txAnswer' = [txAnswer EXCEPT ![t] = a]

Begin(t) ==
    /\ txPc[t] = "idle"
    /\ txPc' = [txPc EXCEPT ![t] = "work"]
    /\ server' = [server EXCEPT ![t] = "open"]
    /\ UNCHANGED <<txAnswer, inserted, row, lock, epochVars, lookVars, faults>>

\* REALTIME_TRANSACTION_START_FAILED
FailBegin(t) ==
    /\ txPc[t] = "idle"
    /\ Fault
    /\ Tell(t, "failed")
    /\ UNCHANGED <<server, inserted, row, lock, epochVars, lookVars>>

\* Defect: the enqueue lock is not taken.
LockIgnored(t) == TRUE

LockFree(t) == lock \in {NoTx, t}

\* A key that another transaction wrote is neither inserted nor tracked.
Enqueue(t, k) ==
    /\ txPc[t] = "work"
    /\ LockFree(t)
    /\ lock' = t
    /\ inserted' = [inserted EXCEPT ![t] = IF row[k] = NoTx THEN @ \union {k} ELSE @]
    /\ UNCHANGED <<txPc, txAnswer, server, row, epochVars, lookVars, faults>>

\* The row of the epoch is locked until the transaction that raised it ends.
EpochFree == \A t \in Txs : raised[t] # 0 => server[t] \in {"committed", "aborted"}

\* bumpRealtimeSessionEpoch
Raise(t) ==
    /\ txPc[t] = "work"
    /\ raised[t] = 0 /\ EpochFree
    /\ raised' = [raised EXCEPT ![t] = epoch + 1]
    /\ UNCHANGED <<txPc, txAnswer, server, inserted, row, lock, epoch, lookVars, faults>>

\* The work throws: ROLLBACK, and its failure leaves the outcome unknown.
RollBack(t) ==
    /\ txPc[t] = "work"
    /\ server' = [server EXCEPT ![t] = "aborted"]
    /\ lock' = Released(t)
    /\ \/ Tell(t, "failed") /\ UNCHANGED faults
       \/ Tell(t, "unknown") /\ Fault
    /\ UNCHANGED <<inserted, row, epochVars, lookVars>>

SendCommit(t) ==
    /\ txPc[t] = "work"
    /\ txPc' = [txPc EXCEPT ![t] = "commit"]
    /\ server' = [server EXCEPT ![t] = "committing"]
    /\ UNCHANGED <<txAnswer, inserted, row, lock, epochVars, lookVars, faults>>

\* The server commits, whether or not anybody still waits for it: all that the
\* transaction wrote becomes visible and its locks are released.
ServerCommits(t) ==
    /\ server[t] = "committing"
    /\ server' = [server EXCEPT ![t] = "committed"]
    /\ row' = [k \in EventKeys |-> IF k \in inserted[t] THEN t ELSE row[k]]
    /\ epoch' = IF raised[t] # 0 THEN raised[t] ELSE epoch
    /\ lock' = Released(t)
    /\ UNCHANGED <<txPc, txAnswer, inserted, raised, lookVars, faults>>

ServerAborts(t) ==
    /\ server[t] = "committing"
    /\ server' = [server EXCEPT ![t] = "aborted"]
    /\ lock' = Released(t)
    /\ UNCHANGED <<txPc, txAnswer, inserted, row, epochVars, lookVars, faults>>

CommitAnswered(t) ==
    /\ txPc[t] = "commit"
    /\ server[t] = "committed"
    /\ Tell(t, "done")
    /\ UNCHANGED <<server, inserted, row, lock, epochVars, lookVars, faults>>

\* COMMIT throws: the server refused it, or the connection was lost.
CommitFailed(t) ==
    /\ txPc[t] = "commit"
    /\ IF server[t] = "aborted" THEN UNCHANGED faults ELSE Fault
    /\ txPc' = [txPc EXCEPT ![t] = "rows"]
    /\ UNCHANGED <<txAnswer, server, inserted, row, lock, epochVars, lookVars>>

\* Defect: a row of the same key counts, whoever wrote it.
VisibleByKey(t) == {k \in inserted[t] : row[k] # NoTx}

\* visibleInsertedEvents: the row must carry this transaction's own event id.
Visible(t) == {k \in inserted[t] : row[k] = t}

RowEvidence(t) ==
    IF Visible(t) = inserted[t] THEN "committed"
    ELSE IF Visible(t) = {} THEN "not_committed" ELSE "unknown"

\* reconcileCommit of revokeSessions
EpochEvidence(t) == IF epoch >= raised[t] THEN "committed" ELSE "not_committed"

\* One look: what it says, if there is something to look for.
Look(t, at, next, wanted, says) ==
    /\ txPc[t] = at
    /\ txPc' = [txPc EXCEPT ![t] = next]
    /\ evidence' = [evidence EXCEPT ![t] = IF wanted THEN @ \union {says} ELSE @]
    /\ late' = IF wanted /\ server[t] = "committing" THEN late \union {t} ELSE late
    /\ UNCHANGED <<txAnswer, server, inserted, row, lock, epochVars, faults>>

LookForRows(t) == Look(t, "rows", "state", inserted[t] # {}, RowEvidence(t))

LookAtState(t) == Look(t, "state", "conclude", raised[t] # 0, EpochEvidence(t))

\* Without evidence, or with evidence that disagrees, the outcome is unknown.
Verdict(t) ==
    CASE evidence[t] = {"committed"} -> "done"
      [] evidence[t] = {"not_committed"} -> "failed"
      [] OTHER -> "unknown"

Conclude(t) ==
    /\ txPc[t] = "conclude"
    /\ Tell(t, Verdict(t))
    /\ UNCHANGED <<server, inserted, row, lock, epochVars, lookVars, faults>>

\* No fresh connection, or a look that throws.
FailLook(t) ==
    /\ txPc[t] \in {"rows", "state"}
    /\ Fault
    /\ Tell(t, "unknown")
    /\ UNCHANGED <<server, inserted, row, lock, epochVars, lookVars>>

Step(t) ==
    \/ Begin(t) \/ FailBegin(t)
    \/ \E k \in EventKeys : Enqueue(t, k)
    \/ Raise(t)
    \/ RollBack(t) \/ SendCommit(t)
    \/ ServerCommits(t) \/ ServerAborts(t)
    \/ CommitAnswered(t) \/ CommitFailed(t)
    \/ LookForRows(t) \/ LookAtState(t) \/ FailLook(t)
    \/ Conclude(t)

CommitNext == \E t \in Txs : Step(t)

CommitSpec == CommitInit /\ [][CommitNext]_commitVars

------------------------------------------------------------------------------
(* Properties                                                               *)

\* Every variable has its type.
CommitTypeOK ==
    /\ txPc \in [Txs -> {"idle", "work", "commit", "rows", "state", "conclude", "end"}]
    /\ txAnswer \in [Txs -> {"none", "done", "failed", "unknown"}]
    /\ server \in [Txs -> {"none", "open", "committing", "committed", "aborted"}]
    /\ inserted \in [Txs -> SUBSET EventKeys]
    /\ row \in [EventKeys -> Txs \union {NoTx}]
    /\ lock \in Txs \union {NoTx}
    /\ epoch \in Nat
    /\ raised \in [Txs -> Nat]
    /\ evidence \in [Txs -> SUBSET {"committed", "not_committed", "unknown"}]
    /\ late \subseteq Txs
    /\ faults \in 0 .. MaxFaults

\* A caller told of success has committed, even when its retry or a rival wrote the
\* same keys.  A caller that only raised the epoch may instead have been
\* rolled back, if another one has raised it as far: what it asked for holds.
DoneIsInEffect ==
    \A t \in Txs :
        txAnswer[t] = "done" =>
            \/ server[t] = "committed"
            \/ inserted[t] = {} /\ raised[t] \in 1 .. epoch

\* The rows of a committed transaction stay its own: the evidence of a later
\* look-up cannot be taken over by a transaction with the same keys.
EvidenceIsKept ==
    \A t \in Txs : server[t] = "committed" => \A k \in inserted[t] : row[k] = t

\* A caller told of failure has committed only if the server was still deciding
\* its COMMIT when the evidence was looked up: no commit that was there to be seen
\* is ever missed, whatever rivals wrote since.
FailedMissesOnlyLateCommits ==
    \A t \in Txs : txAnswer[t] = "failed" /\ server[t] = "committed" => t \in late
=============================================================================
