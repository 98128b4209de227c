----------------------------- MODULE ImportBatch -----------------------------
(* The import assistant: batches of CLIPPER rows become CERP clients.       *)
(*                                                                          *)
(* A preview decides what to do with each row of a batch, a confirmation     *)
(* starts a worker, and the worker claims rows, creates or links a client    *)
(* for each, and closes the batch.  Nothing stops a second confirmation from *)
(* starting a second worker, nor a preview from being saved under a worker.  *)
EXTENDS Integers, FiniteSets

CONSTANTS
    Batches,
    Lines,              \* the rows of the batches
    BatchOf, LegacyKeyOf,     \* the batch and the legacy key of each row
    LegacyKeys,
    Elders,             \* clients that were there before
    NoTarget,           \* no client
    Workers,            \* runs of processBatch
    ClaimLimit,         \* rows one claim takes (25 in the code)
    MaxPreviews,        \* bound: previews
    MaxConfirms,        \* bound: confirmations that start a worker
    MaxImportFaults     \* bound: database errors, deaths of a process, rows that take ten minutes

Created == LegacyKeys \X (Nat \ {0})

ASSUME ImportAssumption ==
    /\ Batches # {}
    /\ BatchOf \in [Lines -> Batches]
    /\ LegacyKeyOf \in [Lines -> LegacyKeys]
    /\ NoTarget \notin Created \union Elders \union Lines
    /\ ClaimLimit \in Nat \ {0}
    /\ {MaxPreviews, MaxConfirms, MaxImportFaults} \subseteq Nat

VARIABLES
    batch,         \* data_import_batches: the status
    line,          \* data_import_rows: status, action and target
    aged,          \* rows in PROCESSING for more than ten minutes
    crosswalk,     \* data_import_crosswalk
    receipt,       \* client_create_idempotency, by the key of the row
    clients,       \* how many clients imports have created for each legacy key
    stage, plan,   \* the preview of each batch, and what it is going to save
    wPc, wBatch,   \* the workers
    wTodo,         \* the claimed rows, as they were when claimed
    wNow,          \* the one that is being imported
    wTarget,       \* its client
    overlapped,    \* batches whose rows two workers, or a worker and a preview, had at once
    previews, confirms, importFaults

tableVars == <<batch, line, aged, crosswalk, receipt, clients>>
previewVars == <<stage, plan, previews>>
workerVars == <<wPc, wBatch, wTodo, wNow, wTarget>>
importVars == <<tableVars, previewVars, workerVars, overlapped, confirms, importFaults>>

LinesOf(b) == {r \in Lines : BatchOf[r] = b}
AllClients == Elders \union {c \in LegacyKeys \X (1 .. 2) : c[2] <= clients[c[1]]}

Pending == [status |-> "PENDING", action |-> "CREATE", target |-> NoTarget]

Actions == {"CREATE", "LINK", "SKIP"}
Targets == Created \union Elders \union {NoTarget}

\* What a worker has of a row it claimed.
Claims == [id : Lines, action : Actions, target : Targets]
NoClaim == [id |-> NoTarget, action |-> "SKIP", target |-> NoTarget]
AnyBatch == CHOOSE b \in Batches : TRUE

ImportInit ==
    /\ batch = [b \in Batches |-> "UPLOADED"]
    /\ line = [r \in Lines |-> Pending]
    /\ aged = {}
    /\ crosswalk = [k \in LegacyKeys |-> NoTarget]
    /\ receipt = [k \in LegacyKeys |-> NoTarget]
    /\ clients = [k \in LegacyKeys |-> 0]
    /\ stage = [b \in Batches |-> "none"]
    /\ plan = [r \in Lines |-> Pending]
    /\ wPc = [w \in Workers |-> "idle"]
    /\ wBatch = [w \in Workers |-> AnyBatch]
    /\ wTodo = [w \in Workers |-> {}]
    /\ wNow = [w \in Workers |-> NoClaim]
    /\ wTarget = [w \in Workers |-> NoTarget]
    /\ overlapped = {}
    /\ previews = 0 /\ confirms = 0 /\ importFaults = 0

ImportFault == importFaults < MaxImportFaults /\ importFaults' = importFaults + 1
NoImportFault == UNCHANGED importFaults

At(w, pc) == wPc[w] = pc
To(w, pc) == wPc' = [wPc EXCEPT ![w] = pc]
AtWork(b) == {w \in Workers : wPc[w] # "idle" /\ wBatch[w] = b}

------------------------------------------------------------------------------
(* Previews                                                                 *)

\* The status is read once, and nothing is locked.
BeginPreview(b) ==
    /\ stage[b] = "none"
    /\ batch[b] \notin {"IMPORTING", "COMPLETED"}
    /\ previews < MaxPreviews
    /\ previews' = previews + 1
    /\ stage' = [stage EXCEPT ![b] = "crosswalk"]
    /\ UNCHANGED <<tableVars, plan, workerVars, overlapped, confirms, importFaults>>

Already(r) == [status |-> "ALREADY_IMPORTED", action |-> "SKIP", target |-> crosswalk[LegacyKeyOf[r]]]
New == [status |-> "VALID", action |-> "CREATE", target |-> NoTarget]

ReadCrosswalk(b) ==
    /\ stage[b] = "crosswalk"
    /\ plan' = [r \in Lines |->
           IF BatchOf[r] # b THEN plan[r]
           ELSE IF crosswalk[LegacyKeyOf[r]] # NoTarget THEN Already(r) ELSE New]
    /\ stage' = [stage EXCEPT ![b] = "duplicates"]
    /\ UNCHANGED <<tableVars, previews, workerVars, overlapped, confirms, importFaults>>

\* A client with the same identifiers is linked or left to a person, as the
\* mapping says.
Duplicate(c, link) ==
    [status |-> IF link THEN "VALID" ELSE "DUPLICATE",
     action |-> IF link THEN "LINK" ELSE "SKIP", target |-> c]

ReadDuplicates(b) ==
    /\ stage[b] = "duplicates"
    /\ \E found \in [LinesOf(b) -> AllClients \union {NoTarget}], link \in BOOLEAN :
           plan' = [r \in Lines |->
               IF BatchOf[r] = b /\ plan[r] = New /\ found[r] # NoTarget
               THEN Duplicate(found[r], link) ELSE plan[r]]
    /\ stage' = [stage EXCEPT ![b] = "save"]
    /\ UNCHANGED <<tableVars, previews, workerVars, overlapped, confirms, importFaults>>

\* Every row is written, whatever has become of it since; READY if there is
\* nothing left to decide.
SavePreview(b) ==
    /\ stage[b] = "save"
    /\ \/ /\ line' = [r \in Lines |-> IF BatchOf[r] = b THEN plan[r] ELSE line[r]]
          /\ aged' = aged \ LinesOf(b)
          /\ \E decided \in BOOLEAN :
                 batch' = [batch EXCEPT ![b] =
                     IF decided /\ \A r \in LinesOf(b) : plan[r].status # "DUPLICATE"
                     THEN "READY" ELSE "SIMULATED"]
          /\ overlapped' = IF AtWork(b) # {} THEN overlapped \union {b} ELSE overlapped
          /\ NoImportFault
       \/ ImportFault /\ UNCHANGED <<line, aged, batch, overlapped>>
    /\ plan' = [r \in Lines |-> IF BatchOf[r] = b THEN Pending ELSE plan[r]]
    /\ stage' = [stage EXCEPT ![b] = "none"]
    /\ UNCHANGED <<crosswalk, receipt, clients, previews, workerVars, confirms>>

------------------------------------------------------------------------------
(* Confirmations                                                            *)

\* A confirmation of what was previewed, under a key of its own; one under a key
\* that was used, and one of a closed batch, start nothing.  The process may die
\* before it starts the worker.
Confirm(b, w) ==
    /\ batch[b] \in {"READY", "IMPORTING"}
    /\ At(w, "idle")
    /\ confirms < MaxConfirms
    /\ confirms' = confirms + 1
    /\ batch' = [batch EXCEPT ![b] = "IMPORTING"]
    /\ \/ To(w, "start") /\ wBatch' = [wBatch EXCEPT ![w] = b] /\ NoImportFault
       \/ ImportFault /\ UNCHANGED <<wPc, wBatch>>
    /\ UNCHANGED <<line, aged, crosswalk, receipt, clients, previewVars, wTodo, wNow, wTarget,
                   overlapped>>

------------------------------------------------------------------------------
(* Workers                                                                  *)

\* The end of a run, with everything it had in memory.
Gone(w) ==
    /\ To(w, "idle")
    /\ wTodo' = [wTodo EXCEPT ![w] = {}]
    /\ wNow' = [wNow EXCEPT ![w] = NoClaim]
    /\ wTarget' = [wTarget EXCEPT ![w] = NoTarget]
    /\ wBatch' = [wBatch EXCEPT ![w] = AnyBatch]

Die(w) ==
    /\ ~At(w, "idle")
    /\ ImportFault
    /\ Gone(w)
    /\ UNCHANGED <<tableVars, previewVars, overlapped, confirms>>

Start(w) ==
    /\ At(w, "start")
    /\ IF batch[wBatch[w]] = "IMPORTING"
       THEN To(w, "reset") /\ UNCHANGED <<wBatch, wTodo, wNow, wTarget>>
       ELSE Gone(w)
    /\ UNCHANGED <<tableVars, previewVars, overlapped, confirms, importFaults>>

\* Defect: rows of an interrupted run are not taken up again.
InterruptedNever(b) == {}

Interrupted(b) == {r \in LinesOf(b) : line[r].status = "PROCESSING" /\ r \in aged}

Running(b) == {r \in LinesOf(b) : line[r].status = "PROCESSING" /\ r \notin aged}

ResetInterrupted(w) ==
    LET b == wBatch[w]
    IN  /\ At(w, "reset")
        /\ line' = [r \in Lines |->
               IF r \in Interrupted(b) THEN [line[r] EXCEPT !.status = "VALID"] ELSE line[r]]
        /\ aged' = aged \ Interrupted(b)
        /\ overlapped' = IF Running(b) # {} \/ AtWork(b) # {w}
                         THEN overlapped \union {b} ELSE overlapped
        /\ To(w, "rows")
        /\ UNCHANGED <<batch, crosswalk, receipt, clients, previewVars, wBatch, wTodo, wNow,
                       wTarget, confirms, importFaults>>

Claimable(b) == {r \in LinesOf(b) : line[r].status = "VALID"}

\* The next rows, which nobody else gets, or none.
ClaimNext(w) ==
    /\ At(w, "rows") /\ wTodo[w] = {}
    /\ \E taken \in SUBSET Claimable(wBatch[w]) :
           /\ Cardinality(taken) <= ClaimLimit
           /\ Cardinality(taken) = ClaimLimit \/ taken = Claimable(wBatch[w])
           /\ line' = [r \in Lines |->
                  IF r \in taken THEN [line[r] EXCEPT !.status = "PROCESSING"] ELSE line[r]]
           /\ wTodo' = [wTodo EXCEPT ![w] =
                  {[id |-> r, action |-> line[r].action, target |-> line[r].target] : r \in taken}]
           /\ IF taken = {} THEN To(w, "count") ELSE UNCHANGED wPc
    /\ UNCHANGED <<batch, aged, crosswalk, receipt, clients, previewVars, wBatch, wNow, wTarget,
                   overlapped, confirms, importFaults>>

TakeLine(w) ==
    /\ At(w, "rows")
    /\ \E t \in wTodo[w] :
           /\ wTodo' = [wTodo EXCEPT ![w] = @ \ {t}]
           /\ wNow' = [wNow EXCEPT ![w] = t]
           /\ wTarget' = [wTarget EXCEPT ![w] = t.target]
           /\ To(w, IF t.action = "LINK" THEN "link" ELSE "create")
    /\ UNCHANGED <<tableVars, previewVars, wBatch, overlapped, confirms, importFaults>>

KeyNow(w) == LegacyKeyOf[wNow[w].id]

\* repoCreateClient under the key of the row: a replay, a creation to come, or
\* a refusal.
LookUpClient(w) ==
    /\ At(w, "create")
    /\ \/ /\ receipt[KeyNow(w)] # NoTarget
          /\ wTarget' = [wTarget EXCEPT ![w] = receipt[KeyNow(w)]]
          /\ To(w, "link")
       \/ receipt[KeyNow(w)] = NoTarget /\ To(w, "insert") /\ UNCHANGED wTarget
       \/ receipt[KeyNow(w)] = NoTarget /\ To(w, "fail") /\ UNCHANGED wTarget
    /\ UNCHANGED <<tableVars, previewVars, wBatch, wTodo, wNow, overlapped, confirms,
                   importFaults>>

\* Defect: the key of the row is not unique among the receipts.
KeyNeverTaken(k) == FALSE

KeyTaken(k) == receipt[k] # NoTarget

\* The insertions and COMMIT.  The loser of a race gets the winner's client, and
\* a COMMIT whose answer is lost is an error.
InsertClient(w) ==
    LET k == KeyNow(w)
        new == <<k, clients[k] + 1>>
    IN  /\ At(w, "insert")
        /\ \/ /\ KeyTaken(k)
              /\ wTarget' = [wTarget EXCEPT ![w] = receipt[k]]
              /\ To(w, "link") /\ NoImportFault
              /\ UNCHANGED <<receipt, clients>>
           \/ /\ ~KeyTaken(k)
              /\ receipt' = [receipt EXCEPT ![k] = new]
              /\ clients' = [clients EXCEPT ![k] = @ + 1]
              /\ \/ wTarget' = [wTarget EXCEPT ![w] = new] /\ To(w, "link") /\ NoImportFault
                 \/ ImportFault /\ To(w, "fail") /\ UNCHANGED wTarget
        /\ UNCHANGED <<batch, line, aged, crosswalk, previewVars, wBatch, wTodo, wNow, overlapped,
                       confirms>>

\* A legacy key leads to one client for ever.
LinkClient(w) ==
    LET k == KeyNow(w)
    IN  /\ At(w, "link")
        /\ \/ /\ crosswalk[k] \in {NoTarget, wTarget[w]}
              /\ crosswalk' = [crosswalk EXCEPT ![k] = wTarget[w]]
              /\ To(w, "complete")
           \/ crosswalk[k] \notin {NoTarget, wTarget[w]} /\ To(w, "fail") /\ UNCHANGED crosswalk
        /\ UNCHANGED <<batch, line, aged, receipt, clients, previewVars, wBatch, wTodo, wNow,
                       wTarget, overlapped, confirms, importFaults>>

\* A row is left, by a write that asks nothing about what it has become.
Leave(w, status, target) ==
    /\ line' = [line EXCEPT ![wNow[w].id].status = status, ![wNow[w].id].target = target]
    /\ aged' = aged \ {wNow[w].id}
    /\ wNow' = [wNow EXCEPT ![w] = NoClaim]
    /\ wTarget' = [wTarget EXCEPT ![w] = NoTarget]
    /\ To(w, "rows")
    /\ UNCHANGED <<batch, crosswalk, receipt, clients, previewVars, wBatch, wTodo, overlapped,
                   confirms, importFaults>>

CompleteLine(w) ==
    /\ At(w, "complete")
    /\ Leave(w, IF wNow[w].action = "LINK" THEN "LINKED" ELSE "IMPORTED", wTarget[w])

FailLine(w) == At(w, "fail") /\ Leave(w, "FAILED", line[wNow[w].id].target)

\* A statement that fails: the row fails with it, and when that cannot be
\* written either, or outside of a row, the batch.
FailStatement(w) ==
    /\ ImportFault
    /\ \/ wPc[w] \in {"create", "insert", "link", "complete"} /\ To(w, "fail")
       \/ /\ wPc[w] \in {"reset", "rows", "fail", "count", "finish", "finishErrors", "audit"}
          /\ At(w, "rows") => wTodo[w] = {}
          /\ To(w, "broken")
    /\ UNCHANGED <<tableVars, previewVars, wBatch, wTodo, wNow, wTarget, overlapped, confirms>>

CountLines(w) ==
    /\ At(w, "count")
    /\ To(w, IF \E r \in LinesOf(wBatch[w]) : line[r].status \in {"FAILED", "DUPLICATE"}
             THEN "finishErrors" ELSE "finish")
    /\ UNCHANGED <<tableVars, previewVars, wBatch, wTodo, wNow, wTarget, overlapped, confirms,
                   importFaults>>

FinishBatch(w) ==
    /\ wPc[w] \in {"finish", "finishErrors"}
    /\ batch' = [batch EXCEPT ![wBatch[w]] =
           IF At(w, "finish") THEN "COMPLETED" ELSE "COMPLETED_WITH_ERRORS"]
    /\ To(w, "audit")
    /\ UNCHANGED <<line, aged, crosswalk, receipt, clients, previewVars, wBatch, wTodo, wNow,
                   wTarget, overlapped, confirms, importFaults>>

EndAudit(w) ==
    /\ At(w, "audit")
    /\ Gone(w)
    /\ UNCHANGED <<tableVars, previewVars, overlapped, confirms, importFaults>>

MarkFailed(w) ==
    /\ At(w, "broken")
    /\ batch' = [batch EXCEPT ![wBatch[w]] = "FAILED"]
    /\ Gone(w)
    /\ UNCHANGED <<line, aged, crosswalk, receipt, clients, previewVars, overlapped, confirms,
                   importFaults>>

\* Ten minutes pass; under a worker, that is a fault.
TenMinutes ==
    /\ aged' = {r \in Lines : line[r].status = "PROCESSING"}
    /\ aged' # aged
    /\ IF \A w \in Workers : At(w, "idle") THEN NoImportFault ELSE ImportFault
    /\ UNCHANGED <<batch, line, crosswalk, receipt, clients, previewVars, workerVars, overlapped,
                   confirms>>

WorkerStep(w) ==
    \/ Start(w) \/ ResetInterrupted(w) \/ ClaimNext(w) \/ TakeLine(w)
    \/ LookUpClient(w) \/ InsertClient(w) \/ LinkClient(w) \/ CompleteLine(w) \/ FailLine(w)
    \/ CountLines(w) \/ FinishBatch(w) \/ EndAudit(w)
    \/ FailStatement(w) \/ MarkFailed(w) \/ Die(w)

ImportNext ==
    \/ \E b \in Batches :
           \/ BeginPreview(b) \/ ReadCrosswalk(b) \/ ReadDuplicates(b) \/ SavePreview(b)
           \/ \E w \in Workers : Confirm(b, w)
    \/ \E w \in Workers : WorkerStep(w)
    \/ TenMinutes

ImportSpec == ImportInit /\ [][ImportNext]_importVars

------------------------------------------------------------------------------
(* Properties                                                               *)

Statuses == {"PENDING", "VALID", "DUPLICATE", "ALREADY_IMPORTED", "PROCESSING", "IMPORTED",
             "LINKED", "FAILED"}
Places == {"idle", "start", "reset", "rows", "create", "insert", "link", "complete", "fail",
           "count", "finish", "finishErrors", "audit", "broken"}
LineStates == [status : Statuses, action : Actions, target : Targets]

\* Every variable has its type.
ImportTypeOK ==
    /\ batch \in [Batches -> {"UPLOADED", "SIMULATED", "READY", "IMPORTING", "COMPLETED",
                              "COMPLETED_WITH_ERRORS", "FAILED"}]
    /\ line \in [Lines -> LineStates]
    /\ aged \subseteq Lines
    /\ receipt \in [LegacyKeys -> Created \union {NoTarget}]
    /\ clients \in [LegacyKeys -> Nat]
    /\ crosswalk \in [LegacyKeys -> Targets]
    /\ stage \in [Batches -> {"none", "crosswalk", "duplicates", "save"}]
    /\ plan \in [Lines -> LineStates]
    /\ wPc \in [Workers -> Places]
    /\ wBatch \in [Workers -> Batches]
    /\ wTodo \in [Workers -> SUBSET Claims]
    /\ wNow \in [Workers -> Claims \union {NoClaim}]
    /\ wTarget \in [Workers -> Targets]
    /\ overlapped \subseteq Batches
    /\ {previews, confirms, importFaults} \subseteq Nat

\* One client per legacy key, however many batches, workers, previews, retries
\* and errors the key goes through.
OneClientPerKey == \A k \in LegacyKeys : clients[k] <= 1

\* A completed batch is complete: every row has its client, to which the
\* crosswalk leads from its legacy key, also when workers died on the way.  The
\* exception is a batch that a second worker or a preview took up too soon.
CompletedIsComplete ==
    \A b \in Batches : batch[b] = "COMPLETED" /\ b \notin overlapped =>
        \A r \in LinesOf(b) :
            /\ line[r].status \in {"IMPORTED", "LINKED", "ALREADY_IMPORTED"}
            /\ line[r].target = crosswalk[LegacyKeyOf[r]]
            /\ line[r].target # NoTarget
=============================================================================
