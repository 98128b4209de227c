-------------------------- MODULE ImportBatchProofs --------------------------
(* Proofs about ImportBatch, for any batches, rows, workers, previews and    *)
(* faults.                                                                   *)
EXTENDS ImportBatch, FiniteSetTheorems, TLAPS

Done == {"IMPORTED", "LINKED", "ALREADY_IMPORTED"}

InLine == {"create", "insert", "link", "complete", "fail"}
Closing == {"count", "finish", "finishErrors", "audit"}

\* A worker that has reset the rows of its batch and goes on with them.
Past(w) == wPc[w] \in InLine \union Closing \union {"rows"}

Ids(claims) == {t.id : t \in claims}

\* The rows in the hands of a worker.
Holding(w) == Ids(wTodo[w]) \union (Ids({wNow[w]}) \ {NoTarget})

------------------------------------------------------------------------------
(* The strengthening.                                                        *)

\* The receipt of a key proves the only client there is for it.
ReceiptsProve ==
    \A k \in LegacyKeys : clients[k] = IF receipt[k] = NoTarget THEN 0 ELSE 1

\* What a row that is done says of its client is what the crosswalk says.
SaysTrue(state, r) ==
    /\ state.status \in Done =>
           state.target = crosswalk[LegacyKeyOf[r]] /\ state.target # NoTarget
    /\ state.action = "LINK" => state.target # NoTarget

RowsSayTrue == \A r \in Lines : SaysTrue(line[r], r) /\ SaysTrue(plan[r], r)

\* A worker in a row has claimed it.
InLineIsClaimed == \A w \in Workers : wPc[w] \in InLine => wNow[w] \in Claims

\* What a worker claimed is of its batch, each row once.
ClaimsAreSound ==
    \A w \in Workers :
        /\ \A t \in wTodo[w] \union {wNow[w]} : t.action = "LINK" => t.target # NoTarget
        /\ \A t \in wTodo[w] : BatchOf[t.id] = wBatch[w] /\ t.id # wNow[w].id
        /\ \A t, u \in wTodo[w] : t.id = u.id => t = u
        /\ wNow[w] # NoClaim => wNow[w] \in Claims /\ BatchOf[wNow[w].id] = wBatch[w]
        /\ wPc[w] \in InLine => wNow[w] # NoClaim
        /\ wPc[w] \notin InLine \union {"broken"} => wNow[w] = NoClaim
        /\ wPc[w] \notin InLine \union {"rows", "broken"} => wTodo[w] = {}

\* A worker goes on with a client, and leaves a row only when it is linked.
TargetsAreSound ==
    \A w \in Workers :
        /\ wPc[w] = "link" => wTarget[w] # NoTarget
        /\ wPc[w] = "complete" =>
               wTarget[w] # NoTarget /\ wTarget[w] = crosswalk[KeyNow(w)]

\* Nothing runs on a batch that was never previewed, and a preview decides every row.
Previewed ==
    /\ \A w \in Workers : wPc[w] # "idle" => batch[wBatch[w]] # "UPLOADED"
    /\ \A r \in Lines : batch[BatchOf[r]] # "UPLOADED" => line[r].status # "PENDING"
    /\ \A r \in Lines :
           stage[BatchOf[r]] \in {"duplicates", "save"} =>
               plan[r].status \in {"VALID", "DUPLICATE", "ALREADY_IMPORTED"}

\* A batch that was not taken up too soon.
Orderly(b) ==
    /\ \A w, v \in Workers :
           Past(w) /\ Past(v) /\ wBatch[w] = b /\ wBatch[v] = b => w = v
    /\ \A w \in Workers : Past(w) /\ wBatch[w] = b =>
           /\ \A r \in LinesOf(b) : line[r].status = "PROCESSING" <=> r \in Holding(w)
           /\ wPc[w] \in Closing => \A r \in LinesOf(b) : line[r].status # "VALID"
           /\ wPc[w] = "finish" => \A r \in LinesOf(b) : line[r].status \in Done
    /\ batch[b] = "COMPLETED" => \A r \in LinesOf(b) : line[r].status \in Done

OrderlyUnlessOverlapped == \A b \in Batches : b \notin overlapped => Orderly(b)

------------------------------------------------------------------------------
(* Types                                                                     *)

LEMMA AnyBatchIsBatch == AnyBatch \in Batches
  BY ImportAssumption DEF AnyBatch

LEMMA ClientsAreTargets == AllClients \subseteq Targets
  BY DEF AllClients, Targets, Created

LEMMA TypesStart == ImportInit => ImportTypeOK
  BY AnyBatchIsBatch, ImportAssumption
  DEF ImportInit, ImportTypeOK, Pending, NoClaim, LineStates, Statuses, Actions, Targets, Places

\* The types of what belongs to the workers.
WorkerTypes ==
    /\ wPc \in [Workers -> Places]
    /\ wBatch \in [Workers -> Batches]
    /\ wTodo \in [Workers -> SUBSET Claims]
    /\ wNow \in [Workers -> Claims \union {NoClaim}]
    /\ wTarget \in [Workers -> Targets]

LEMMA GoneTypes ==
  ASSUME ImportTypeOK, NEW w \in Workers, Gone(w)
  PROVE  WorkerTypes'
  BY AnyBatchIsBatch DEF ImportTypeOK, WorkerTypes, Gone, To, Targets, Places

LEMMA LeaveTypes ==
  ASSUME ImportTypeOK, NEW w \in Workers, NEW s \in Statuses, NEW t \in Targets,
         wNow[w] \in Claims, Leave(w, s, t)
  PROVE  ImportTypeOK'
  <1>1. line' \in [Lines -> LineStates]
    BY DEF ImportTypeOK, Leave, LineStates, Claims
  <1>2. WorkerTypes'
    BY DEF ImportTypeOK, WorkerTypes, Leave, To, Targets, Places
  <1>3. QED
    BY <1>1, <1>2 DEF ImportTypeOK, WorkerTypes, Leave, previewVars

LEMMA PreviewTypes ==
  ASSUME ImportTypeOK, NEW b \in Batches,
         BeginPreview(b) \/ ReadCrosswalk(b) \/ ReadDuplicates(b) \/ SavePreview(b)
  PROVE  ImportTypeOK'
  <1>1. CASE BeginPreview(b)
    BY <1>1 DEF ImportTypeOK, BeginPreview, tableVars, workerVars
  <1>2. CASE ReadCrosswalk(b)
    <2>1. plan' \in [Lines -> LineStates]
      BY <1>2, ImportAssumption
      DEF ImportTypeOK, ReadCrosswalk, Already, New, LineStates, Statuses, Actions, Targets
    <2>2. QED
      BY <1>2, <2>1 DEF ImportTypeOK, ReadCrosswalk, tableVars, workerVars
  <1>3. CASE ReadDuplicates(b)
    <2>1. \A c \in Targets, link \in BOOLEAN : Duplicate(c, link) \in LineStates
      BY DEF Duplicate, LineStates, Statuses, Actions
    <2>2. PICK found \in [LinesOf(b) -> AllClients \union {NoTarget}], link \in BOOLEAN :
             plan' = [r \in Lines |->
                 IF BatchOf[r] = b /\ plan[r] = New /\ found[r] # NoTarget
                 THEN Duplicate(found[r], link) ELSE plan[r]]
      BY <1>3 DEF ReadDuplicates
    <2>3. \A r \in Lines : BatchOf[r] = b => found[r] \in Targets
      BY <2>2, ClientsAreTargets DEF LinesOf, Targets
    <2>4. plan' \in [Lines -> LineStates]
      BY <2>1, <2>2, <2>3 DEF ImportTypeOK
    <2>5. QED
      BY <1>3, <2>4 DEF ImportTypeOK, ReadDuplicates, tableVars, workerVars
  <1>4. CASE SavePreview(b)
    <2>1. plan' \in [Lines -> LineStates] /\ line' \in [Lines -> LineStates]
      BY <1>4 DEF ImportTypeOK, SavePreview, Pending, LineStates, Statuses, Actions, Targets
    <2>2. aged' \subseteq Lines /\ overlapped' \subseteq Batches
      BY <1>4 DEF ImportTypeOK, SavePreview
    <2>3. batch' \in [Batches -> {"UPLOADED", "SIMULATED", "READY", "IMPORTING", "COMPLETED",
                                  "COMPLETED_WITH_ERRORS", "FAILED"}]
      BY <1>4 DEF ImportTypeOK, SavePreview
    <2>4. importFaults' \in Nat
      BY <1>4 DEF ImportTypeOK, SavePreview, ImportFault, NoImportFault
    <2>5. QED
      BY <1>4, <2>1, <2>2, <2>3, <2>4 DEF ImportTypeOK, SavePreview, workerVars
  <1>5. QED
    BY <1>1, <1>2, <1>3, <1>4

LEMMA ConfirmTypes ==
  ASSUME ImportTypeOK, NEW b \in Batches, NEW w \in Workers, Confirm(b, w)
  PROVE  ImportTypeOK'
  BY DEF ImportTypeOK, Confirm, To, Places, previewVars, ImportFault, NoImportFault

\* Steps that only move a worker on.
LEMMA MoveTypes ==
  ASSUME ImportTypeOK, NEW w \in Workers,
         Die(w) \/ Start(w) \/ FailStatement(w) \/ CountLines(w) \/ FinishBatch(w)
            \/ EndAudit(w) \/ MarkFailed(w)
  PROVE  ImportTypeOK'
  <1> USE DEF ImportTypeOK, tableVars, previewVars, ImportFault, WorkerTypes
  <1>1. CASE Die(w)
    BY <1>1, GoneTypes DEF Die
  <1>2. CASE Start(w)
    <2>1. CASE batch[wBatch[w]] = "IMPORTING"
      BY <1>2, <2>1 DEF Start, To, Places
    <2>2. CASE batch[wBatch[w]] # "IMPORTING"
      BY <1>2, <2>2, GoneTypes DEF Start
    <2>3. QED
      BY <2>1, <2>2
  <1>3. CASE FailStatement(w)
    BY <1>3 DEF FailStatement, To, Places
  <1>4. CASE CountLines(w)
    BY <1>4 DEF CountLines, To, Places
  <1>5. CASE FinishBatch(w)
    BY <1>5 DEF FinishBatch, To, Places
  <1>6. CASE EndAudit(w)
    BY <1>6, GoneTypes DEF EndAudit
  <1>7. CASE MarkFailed(w)
    BY <1>7, GoneTypes DEF MarkFailed
  <1>8. QED
    BY <1>1, <1>2, <1>3, <1>4, <1>5, <1>6, <1>7

\* Steps on rows that several workers may meet at.
LEMMA RowTypes ==
  ASSUME ImportTypeOK, NEW w \in Workers,
         ResetInterrupted(w) \/ ClaimNext(w) \/ TakeLine(w)
  PROVE  ImportTypeOK'
  <1>1. CASE ResetInterrupted(w)
    <2>1. line' \in [Lines -> LineStates]
      BY <1>1 DEF ImportTypeOK, ResetInterrupted, LineStates, Statuses
    <2>2. overlapped' \subseteq Batches
      BY <1>1 DEF ImportTypeOK, ResetInterrupted
    <2>3. QED
      BY <1>1, <2>1, <2>2 DEF ImportTypeOK, ResetInterrupted, To, Places, previewVars
  <1>2. CASE ClaimNext(w)
    <2>1. PICK taken \in SUBSET Claimable(wBatch[w]) :
             /\ line' = [r \in Lines |->
                    IF r \in taken THEN [line[r] EXCEPT !.status = "PROCESSING"] ELSE line[r]]
             /\ wTodo' = [wTodo EXCEPT ![w] =
                    {[id |-> r, action |-> line[r].action, target |-> line[r].target] :
                        r \in taken}]
             /\ IF taken = {} THEN To(w, "count") ELSE UNCHANGED wPc
      BY <1>2 DEF ClaimNext
    <2>2. line' \in [Lines -> LineStates]
      <3>1. \A r \in Lines : [line[r] EXCEPT !.status = "PROCESSING"] \in LineStates
        BY DEF ImportTypeOK, LineStates, Statuses
      <3>2. QED
        BY <2>1, <3>1 DEF ImportTypeOK
    <2>3. \A r \in taken :
             [id |-> r, action |-> line[r].action, target |-> line[r].target] \in Claims
      BY <2>1 DEF ImportTypeOK, Claims, LineStates, Claimable, LinesOf
    <2>4. wTodo' \in [Workers -> SUBSET Claims]
      BY <2>1, <2>3 DEF ImportTypeOK
    <2>5. wPc' \in [Workers -> Places]
      BY <2>1 DEF ImportTypeOK, To, Places
    <2>6. QED
      BY <1>2, <2>2, <2>4, <2>5 DEF ImportTypeOK, ClaimNext, previewVars
  <1>3. CASE TakeLine(w)
    BY <1>3 DEF ImportTypeOK, TakeLine, To, Places, Claims, tableVars, previewVars
  <1>4. QED
    BY <1>1, <1>2, <1>3

LEMMA ClientTypes ==
  ASSUME ImportTypeOK, InLineIsClaimed, NEW w \in Workers,
         LookUpClient(w) \/ InsertClient(w) \/ LinkClient(w) \/ CompleteLine(w) \/ FailLine(w)
  PROVE  ImportTypeOK'
  <1>0. wNow[w] \in Claims /\ KeyNow(w) \in LegacyKeys
    BY ImportAssumption
    DEF InLineIsClaimed, InLine, LookUpClient, InsertClient, LinkClient, CompleteLine, FailLine,
        At, KeyNow, Claims
  <1>1. CASE LookUpClient(w)
    BY <1>0, <1>1 DEF ImportTypeOK, LookUpClient, To, Places, Targets, tableVars, previewVars
  <1>2. CASE InsertClient(w)
    <2>1. <<KeyNow(w), clients[KeyNow(w)] + 1>> \in Created
      BY <1>0 DEF ImportTypeOK, Created
    <2>2. QED
      BY <1>0, <1>2, <2>1
      DEF ImportTypeOK, InsertClient, To, Places, Targets, previewVars, ImportFault,
          NoImportFault
  <1>3. CASE LinkClient(w)
    BY <1>0, <1>3 DEF ImportTypeOK, LinkClient, To, Places, previewVars
  <1>4. CASE CompleteLine(w)
    <2>1. wTarget[w] \in Targets
      BY DEF ImportTypeOK
    <2>2. QED
      BY <1>0, <1>4, <2>1, LeaveTypes DEF CompleteLine, Statuses
  <1>5. CASE FailLine(w)
    <2>1. line[wNow[w].id].target \in Targets
      BY <1>0 DEF ImportTypeOK, Claims, LineStates
    <2>2. QED
      BY <1>0, <1>5, <2>1, LeaveTypes DEF FailLine, Statuses
  <1>6. QED
    BY <1>1, <1>2, <1>3, <1>4, <1>5

LEMMA TypesStep ==
  ASSUME ImportTypeOK, InLineIsClaimed, [ImportNext]_importVars
  PROVE  ImportTypeOK'
  <1>1. CASE UNCHANGED importVars
    BY <1>1 DEF ImportTypeOK, importVars, tableVars, previewVars, workerVars
  <1>2. CASE TenMinutes
    BY <1>2
    DEF ImportTypeOK, TenMinutes, previewVars, workerVars, ImportFault, NoImportFault
  <1>3. QED
    BY <1>1, <1>2, PreviewTypes, ConfirmTypes, MoveTypes, RowTypes, ClientTypes
    DEF ImportNext, WorkerStep

------------------------------------------------------------------------------
(* One client for each legacy key.                                           *)

CoreInv == ImportTypeOK /\ InLineIsClaimed /\ ReceiptsProve

LEMMA CoreStarts == ImportInit => CoreInv
  BY TypesStart DEF CoreInv, ImportInit, InLineIsClaimed, ReceiptsProve, InLine

LEMMA ClaimedStep ==
  ASSUME CoreInv, [ImportNext]_importVars
  PROVE  InLineIsClaimed'
  <1> USE DEF CoreInv, ImportTypeOK, InLineIsClaimed, InLine, At, To, Gone
  <1>1. CASE UNCHANGED importVars
    BY <1>1 DEF importVars, workerVars
  <1>2. CASE TenMinutes
    BY <1>2 DEF TenMinutes, workerVars
  <1>3. ASSUME NEW b \in Batches,
               BeginPreview(b) \/ ReadCrosswalk(b) \/ ReadDuplicates(b) \/ SavePreview(b)
        PROVE  InLineIsClaimed'
    BY <1>3 DEF BeginPreview, ReadCrosswalk, ReadDuplicates, SavePreview, workerVars
  <1>4. ASSUME NEW b \in Batches, NEW w \in Workers, Confirm(b, w) PROVE InLineIsClaimed'
    BY <1>4 DEF Confirm
  <1>5. ASSUME NEW w \in Workers, WorkerStep(w) PROVE InLineIsClaimed'
    <2>1. CASE Start(w) \/ Die(w) \/ EndAudit(w) \/ MarkFailed(w)
      BY <2>1 DEF Start, Die, EndAudit, MarkFailed
    <2>2. CASE ResetInterrupted(w) \/ ClaimNext(w) \/ CountLines(w) \/ FinishBatch(w)
      BY <2>2 DEF ResetInterrupted, ClaimNext, CountLines, FinishBatch
    <2>3. CASE TakeLine(w)
      BY <2>3 DEF TakeLine
    <2>4. CASE LookUpClient(w) \/ InsertClient(w) \/ LinkClient(w)
      BY <2>4 DEF LookUpClient, InsertClient, LinkClient
    <2>5. CASE CompleteLine(w) \/ FailLine(w)
      BY <2>5 DEF CompleteLine, FailLine, Leave
    <2>6. CASE FailStatement(w)
      BY <2>6 DEF FailStatement
    <2>7. QED
      BY <1>5, <2>1, <2>2, <2>3, <2>4, <2>5, <2>6 DEF WorkerStep
  <1>6. QED
    BY <1>1, <1>2, <1>3, <1>4, <1>5 DEF ImportNext

\* Only an insertion makes a client, and it writes the receipt of its key with it.
LEMMA ReceiptsStep ==
  ASSUME CoreInv, [ImportNext]_importVars
  PROVE  ReceiptsProve'
  <1>1. CASE UNCHANGED <<receipt, clients>>
    BY <1>1 DEF CoreInv, ReceiptsProve
  <1>2. ASSUME NEW w \in Workers, InsertClient(w) PROVE ReceiptsProve'
    <2>1. KeyNow(w) \in LegacyKeys
      BY <1>2, ImportAssumption
      DEF CoreInv, InLineIsClaimed, InLine, InsertClient, At, KeyNow, Claims
    <2>2. CASE KeyTaken(KeyNow(w))
      BY <1>2, <2>2, <1>1 DEF InsertClient
    <2>3. CASE ~KeyTaken(KeyNow(w))
      <3>1. clients[KeyNow(w)] = 0
        BY <2>1, <2>3 DEF CoreInv, ReceiptsProve, KeyTaken
      <3>2. <<KeyNow(w), 1>> # NoTarget
        BY <2>1, ImportAssumption DEF Created
      <3>3. receipt' = [receipt EXCEPT ![KeyNow(w)] = <<KeyNow(w), clients[KeyNow(w)] + 1>>]
            /\ clients' = [clients EXCEPT ![KeyNow(w)] = @ + 1]
        BY <1>2, <2>3 DEF InsertClient
      <3>4. QED
        BY <2>1, <3>1, <3>2, <3>3 DEF CoreInv, ImportTypeOK, ReceiptsProve
    <2>4. QED
      BY <2>2, <2>3
  <1>3. ASSUME NEW b \in Batches,
               BeginPreview(b) \/ ReadCrosswalk(b) \/ ReadDuplicates(b) \/ SavePreview(b)
                   \/ \E w \in Workers : Confirm(b, w)
        PROVE  UNCHANGED <<receipt, clients>>
    BY <1>3 DEF BeginPreview, ReadCrosswalk, ReadDuplicates, SavePreview, Confirm, tableVars
  <1>4. ASSUME NEW w \in Workers, WorkerStep(w), ~InsertClient(w)
        PROVE  UNCHANGED <<receipt, clients>>
    BY <1>4 DEF WorkerStep, Start, ResetInterrupted, ClaimNext, TakeLine, LookUpClient,
                LinkClient, CompleteLine, FailLine, Leave, FailStatement, CountLines,
                FinishBatch, EndAudit, MarkFailed, Die, tableVars
  <1>5. CASE TenMinutes \/ UNCHANGED importVars
    BY <1>1, <1>5 DEF TenMinutes, importVars, tableVars
  <1>6. QED
    BY <1>1, <1>2, <1>3, <1>4, <1>5 DEF ImportNext

\* Importing a legacy key creates at most one client, whatever the number of
\* batches that have it, of workers on them, and of errors on the way.
THEOREM AtMostOneClient == ImportSpec => []OneClientPerKey
  <1>1. CoreInv /\ [ImportNext]_importVars => CoreInv'
    BY TypesStep, ClaimedStep, ReceiptsStep DEF CoreInv
  <1>2. CoreInv => OneClientPerKey
    BY DEF CoreInv, ImportTypeOK, ReceiptsProve, OneClientPerKey
  <1>3. QED
    BY CoreStarts, <1>1, <1>2, PTL DEF ImportSpec

------------------------------------------------------------------------------
(* A completed batch is complete.                                            *)

FullInv ==
    /\ CoreInv
    /\ RowsSayTrue
    /\ ClaimsAreSound
    /\ TargetsAreSound
    /\ Previewed
    /\ OrderlyUnlessOverlapped

LEMMA FullStarts == ImportInit => FullInv
  <1>1. ASSUME ImportInit PROVE CoreInv
    BY <1>1, CoreStarts
  <1>2. ASSUME ImportInit PROVE RowsSayTrue
    BY <1>2 DEF ImportInit, RowsSayTrue, SaysTrue, Pending, Done
  <1>3. ASSUME ImportInit PROVE ClaimsAreSound
    BY <1>3 DEF ImportInit, ClaimsAreSound, NoClaim, InLine
  <1>4. ASSUME ImportInit PROVE TargetsAreSound /\ Previewed
    BY <1>4, ImportAssumption, AnyBatchIsBatch DEF ImportInit, TargetsAreSound, Previewed
  <1>5. ASSUME ImportInit PROVE OrderlyUnlessOverlapped
    BY <1>5 DEF ImportInit, OrderlyUnlessOverlapped, Orderly, Past, InLine, Closing
  <1>6. QED
    BY <1>1, <1>2, <1>3, <1>4, <1>5 DEF FullInv

\* The crosswalk leads from a key to the same client for ever.
LEMMA CrosswalkStays ==
  ASSUME CoreInv, [ImportNext]_importVars, NEW k \in LegacyKeys, crosswalk[k] # NoTarget
  PROVE  crosswalk'[k] = crosswalk[k]
  <1>1. ASSUME NEW w \in Workers, LinkClient(w) PROVE crosswalk'[k] = crosswalk[k]
    BY <1>1 DEF CoreInv, ImportTypeOK, LinkClient
  <1>2. ASSUME NEW b \in Batches,
               BeginPreview(b) \/ ReadCrosswalk(b) \/ ReadDuplicates(b) \/ SavePreview(b)
                   \/ \E w \in Workers : Confirm(b, w)
        PROVE  UNCHANGED crosswalk
    BY <1>2 DEF BeginPreview, ReadCrosswalk, ReadDuplicates, SavePreview, Confirm, tableVars
  <1>3. ASSUME NEW w \in Workers, WorkerStep(w), ~LinkClient(w) PROVE UNCHANGED crosswalk
    BY <1>3 DEF WorkerStep, Start, ResetInterrupted, ClaimNext, TakeLine, LookUpClient,
                InsertClient, CompleteLine, FailLine, Leave, FailStatement, CountLines,
                FinishBatch, EndAudit, MarkFailed, Die, tableVars
  <1>4. CASE TenMinutes \/ UNCHANGED importVars
    BY <1>4 DEF TenMinutes, importVars, tableVars
  <1>5. QED
    BY <1>1, <1>2, <1>3, <1>4 DEF ImportNext

LEMMA TruthStep ==
  ASSUME FullInv, [ImportNext]_importVars
  PROVE  RowsSayTrue'
  <1>0. /\ \A r \in Lines : SaysTrue(line[r], r)' <=>
               /\ line'[r].status \in Done =>
                      line'[r].target = crosswalk'[LegacyKeyOf[r]] /\ line'[r].target # NoTarget
               /\ line'[r].action = "LINK" => line'[r].target # NoTarget
        /\ \A r \in Lines : SaysTrue(plan[r], r)' <=>
               /\ plan'[r].status \in Done =>
                      plan'[r].target = crosswalk'[LegacyKeyOf[r]] /\ plan'[r].target # NoTarget
               /\ plan'[r].action = "LINK" => plan'[r].target # NoTarget
    BY DEF SaysTrue, Done
  <1>1. \A r \in Lines :
           /\ line'[r] = line[r] => SaysTrue(line[r], r)'
           /\ line'[r] = plan[r] => SaysTrue(line[r], r)'
           /\ plan'[r] = plan[r] => SaysTrue(plan[r], r)'
    <2>1. ASSUME NEW r \in Lines
          PROVE  /\ line[r].status \in Done => crosswalk'[LegacyKeyOf[r]] = crosswalk[LegacyKeyOf[r]]
                 /\ plan[r].status \in Done => crosswalk'[LegacyKeyOf[r]] = crosswalk[LegacyKeyOf[r]]
      BY CrosswalkStays, ImportAssumption DEF FullInv, RowsSayTrue, SaysTrue
    <2>2. QED
      BY <1>0, <2>1 DEF FullInv, RowsSayTrue, SaysTrue
  <1>2. SUFFICES ASSUME NEW r \in Lines
                 PROVE  SaysTrue(line[r], r)' /\ SaysTrue(plan[r], r)'
    BY DEF RowsSayTrue
  <1>3. CASE UNCHANGED <<line, plan>>
    BY <1>1, <1>3
  <1>4. ASSUME NEW b \in Batches, BeginPreview(b) \/ \E w \in Workers : Confirm(b, w)
        PROVE  UNCHANGED <<line, plan>>
    BY <1>4 DEF BeginPreview, Confirm, tableVars, previewVars
  <1>5. ASSUME NEW b \in Batches, ReadCrosswalk(b)
        PROVE  SaysTrue(line[r], r)' /\ SaysTrue(plan[r], r)'
    BY <1>0, <1>1, <1>5 DEF ReadCrosswalk, tableVars, Already, New, Done
  <1>6. ASSUME NEW b \in Batches, ReadDuplicates(b)
        PROVE  SaysTrue(line[r], r)' /\ SaysTrue(plan[r], r)'
    <2>1. PICK found \in [LinesOf(b) -> AllClients \union {NoTarget}], link \in BOOLEAN :
             plan' = [q \in Lines |->
                 IF BatchOf[q] = b /\ plan[q] = New /\ found[q] # NoTarget
                 THEN Duplicate(found[q], link) ELSE plan[q]]
      BY <1>6 DEF ReadDuplicates
    <2>2. line'[r] = line[r]
      BY <1>6 DEF ReadDuplicates, tableVars
    <2>3. \A c : c # NoTarget =>
             /\ Duplicate(c, link).status \notin Done
             /\ Duplicate(c, link).action = "LINK" => Duplicate(c, link).target # NoTarget
      BY DEF Duplicate, Done
    <2>4. QED
      BY <1>0, <1>1, <2>1, <2>2, <2>3
  <1>7. ASSUME NEW b \in Batches, SavePreview(b)
        PROVE  SaysTrue(line[r], r)' /\ SaysTrue(plan[r], r)'
    <2>1. line'[r] \in {line[r], plan[r]} /\ plan'[r] \in {Pending, plan[r]}
      BY <1>7 DEF SavePreview, FullInv, CoreInv, ImportTypeOK
    <2>2. QED
      BY <1>0, <1>1, <2>1 DEF Pending, Done
  <1>8. ASSUME NEW w \in Workers, ResetInterrupted(w) \/ ClaimNext(w)
        PROVE  SaysTrue(line[r], r)' /\ SaysTrue(plan[r], r)'
    <2>1. /\ plan' = plan
          /\ line'[r] \in {line[r], [line[r] EXCEPT !.status = "VALID"],
                           [line[r] EXCEPT !.status = "PROCESSING"]}
      BY <1>8 DEF ResetInterrupted, ClaimNext, previewVars
    <2>2. line[r].action = "LINK" => line[r].target # NoTarget
      BY DEF FullInv, RowsSayTrue, SaysTrue
    <2>3. line[r] \in LineStates
      BY DEF FullInv, CoreInv, ImportTypeOK
    <2>4. CASE line'[r] = line[r]
      BY <1>1, <2>1, <2>4
    <2>5. CASE line'[r] # line[r]
      BY <1>0, <1>1, <2>1, <2>2, <2>3, <2>5 DEF LineStates, Done
    <2>6. QED
      BY <2>4, <2>5
  <1>9. ASSUME NEW w \in Workers, CompleteLine(w) \/ FailLine(w)
        PROVE  SaysTrue(line[r], r)' /\ SaysTrue(plan[r], r)'
    <2>1. plan' = plan /\ (r # wNow[w].id => line'[r] = line[r])
      BY <1>9 DEF CompleteLine, FailLine, Leave, previewVars, FullInv, CoreInv, ImportTypeOK
    <2>2. ASSUME r = wNow[w].id PROVE SaysTrue(line[r], r)'
      <3>1. line[r] \in LineStates /\ (line[r].action = "LINK" => line[r].target # NoTarget)
        BY DEF FullInv, CoreInv, ImportTypeOK, RowsSayTrue, SaysTrue
      <3>2. CASE CompleteLine(w)
        <4>1. PICK s \in {"LINKED", "IMPORTED"} :
                 line' = [line EXCEPT ![r].status = s, ![r].target = wTarget[w]]
          BY <2>2, <3>2 DEF CompleteLine, Leave
        <4>2. wTarget[w] # NoTarget /\ wTarget[w] = crosswalk[LegacyKeyOf[r]]
          BY <2>2, <3>2 DEF FullInv, TargetsAreSound, CompleteLine, At, KeyNow
        <4>3. crosswalk' = crosswalk
          BY <3>2 DEF CompleteLine, Leave
        <4>4. line'[r].target = wTarget[w]
          BY <3>1, <4>1 DEF FullInv, CoreInv, ImportTypeOK, LineStates
        <4>5. QED
          BY <1>0, <4>2, <4>3, <4>4
      <3>3. CASE FailLine(w)
        <4>1. line' = [line EXCEPT ![r].status = "FAILED", ![r].target = line[r].target]
          BY <2>2, <3>3 DEF FailLine, Leave
        <4>2. line'[r].status = "FAILED" /\ line'[r].target = line[r].target
              /\ line'[r].action = line[r].action
          BY <3>1, <4>1 DEF FullInv, CoreInv, ImportTypeOK, LineStates
        <4>3. QED
          BY <1>0, <3>1, <4>2 DEF Done
      <3>4. QED
        BY <1>9, <3>2, <3>3
    <2>3. QED
      BY <1>1, <2>1, <2>2
  <1>10. ASSUME NEW w \in Workers, WorkerStep(w), ~ResetInterrupted(w), ~ClaimNext(w),
                ~CompleteLine(w), ~FailLine(w)
         PROVE  UNCHANGED <<line, plan>>
    BY <1>10 DEF WorkerStep, Start, TakeLine, LookUpClient, InsertClient, LinkClient,
                 FailStatement, CountLines, FinishBatch, EndAudit, MarkFailed, Die, tableVars,
                 previewVars
  <1>11. CASE TenMinutes \/ UNCHANGED importVars
    BY <1>3, <1>11 DEF TenMinutes, importVars, tableVars, previewVars
  <1>12. QED
    BY <1>3, <1>4, <1>5, <1>6, <1>7, <1>8, <1>9, <1>10, <1>11 DEF ImportNext

LEMMA ClaimsStep ==
  ASSUME FullInv, [ImportNext]_importVars
  PROVE  ClaimsAreSound'
  <1>0. ImportTypeOK /\ ClaimsAreSound
    BY DEF FullInv, CoreInv
  <1> USE <1>0 DEF ImportTypeOK, ClaimsAreSound, InLine, At, To
  <1>1. CASE UNCHANGED workerVars
    BY <1>1 DEF workerVars
  <1>2. ASSUME NEW w \in Workers, Gone(w) PROVE ClaimsAreSound'
    BY <1>2 DEF Gone, NoClaim
  <1>3. ASSUME NEW b \in Batches, NEW w \in Workers, Confirm(b, w) PROVE ClaimsAreSound'
    BY <1>3 DEF Confirm
  <1>4. ASSUME NEW w \in Workers, ClaimNext(w) PROVE ClaimsAreSound'
    <2>1. PICK taken \in SUBSET Claimable(wBatch[w]) :
             /\ wTodo' = [wTodo EXCEPT ![w] =
                    {[id |-> r, action |-> line[r].action, target |-> line[r].target] :
                        r \in taken}]
             /\ IF taken = {} THEN To(w, "count") ELSE UNCHANGED wPc
      BY <1>4 DEF ClaimNext
    <2>2. wNow[w] = NoClaim /\ wNow' = wNow /\ wBatch' = wBatch /\ wPc[w] = "rows"
      BY <1>4 DEF ClaimNext
    <2>3. \A t \in wTodo'[w] :
             /\ t.action = "LINK" => t.target # NoTarget
             /\ BatchOf[t.id] = wBatch[w] /\ t.id # wNow[w].id
      BY <2>1, <2>2, ImportAssumption
      DEF Claimable, LinesOf, NoClaim, FullInv, RowsSayTrue, SaysTrue
    <2>4. \A t, u \in wTodo'[w] : t.id = u.id => t = u
      BY <2>1
    <2>5. wPc'[w] \in {"rows", "count"} /\ (wPc'[w] = "count" => wTodo'[w] = {})
      BY <2>1, <2>2
    <2>6. \A v \in Workers \ {w} : wTodo'[v] = wTodo[v] /\ wPc'[v] = wPc[v]
      BY <2>1
    <2>7. QED
      BY <2>2, <2>3, <2>4, <2>5, <2>6
  <1>5. ASSUME NEW w \in Workers, TakeLine(w) PROVE ClaimsAreSound'
    <2>1. PICK t \in wTodo[w] :
             /\ wTodo' = [wTodo EXCEPT ![w] = @ \ {t}]
             /\ wNow' = [wNow EXCEPT ![w] = t]
             /\ To(w, IF t.action = "LINK" THEN "link" ELSE "create")
      BY <1>5 DEF TakeLine
    <2>2. t \in Claims /\ t # NoClaim
      BY <2>1, ImportAssumption DEF Claims, NoClaim
    <2>3. wBatch' = wBatch
      BY <1>5 DEF TakeLine
    <2>4. QED
      BY <2>1, <2>2, <2>3
  <1>6. ASSUME NEW w \in Workers, CompleteLine(w) \/ FailLine(w) PROVE ClaimsAreSound'
    <2>1. /\ wNow' = [wNow EXCEPT ![w] = NoClaim]
          /\ wPc' = [wPc EXCEPT ![w] = "rows"]
          /\ wTodo' = wTodo /\ wBatch' = wBatch
      BY <1>6 DEF CompleteLine, FailLine, Leave
    <2>2. \A t \in wTodo[w] : t.id # NoTarget
      BY ImportAssumption DEF Claims
    <2>3. QED
      BY <2>1, <2>2 DEF NoClaim
  <1>7. ASSUME NEW w \in Workers,
               LookUpClient(w) \/ InsertClient(w) \/ LinkClient(w) \/ FailStatement(w)
        PROVE  ClaimsAreSound'
    <2>1. /\ UNCHANGED <<wTodo, wNow, wBatch>>
          /\ \A v \in Workers \ {w} : wPc'[v] = wPc[v]
          /\ \/ wPc'[w] = "broken"
             \/ wPc[w] \in InLine /\ wPc'[w] \in InLine
      BY <1>7 DEF LookUpClient, InsertClient, LinkClient, FailStatement
    <2>2. QED
      BY <2>1
  <1>8. ASSUME NEW w \in Workers,
               ResetInterrupted(w) \/ CountLines(w) \/ FinishBatch(w) \/ Start(w), ~Gone(w)
        PROVE  ClaimsAreSound'
    <2>1. /\ UNCHANGED <<wTodo, wNow, wBatch>>
          /\ \A v \in Workers \ {w} : wPc'[v] = wPc[v]
          /\ wPc[w] \in {"start", "reset", "count", "finish", "finishErrors"}
          /\ wPc'[w] \in {"reset", "rows", "finish", "finishErrors", "audit"}
      BY <1>8 DEF ResetInterrupted, CountLines, FinishBatch, Start
    <2>2. QED
      BY <2>1
  <1>9. ASSUME NEW b \in Batches,
               BeginPreview(b) \/ ReadCrosswalk(b) \/ ReadDuplicates(b) \/ SavePreview(b)
        PROVE  UNCHANGED workerVars
    BY <1>9 DEF BeginPreview, ReadCrosswalk, ReadDuplicates, SavePreview
  <1>10. ASSUME NEW w \in Workers, Die(w) \/ EndAudit(w) \/ MarkFailed(w) PROVE Gone(w)
    BY <1>10 DEF Die, EndAudit, MarkFailed
  <1>11. CASE TenMinutes \/ UNCHANGED importVars
    BY <1>1, <1>11 DEF TenMinutes, importVars
  <1>12. QED
    BY <1>1, <1>2, <1>3, <1>4, <1>5, <1>6, <1>7, <1>8, <1>9, <1>10, <1>11
    DEF ImportNext, WorkerStep

LEMMA TargetsStep ==
  ASSUME FullInv, [ImportNext]_importVars
  PROVE  TargetsAreSound'
  <1>0. ImportTypeOK /\ TargetsAreSound /\ ClaimsAreSound
    BY DEF FullInv, CoreInv
  <1>1. SUFFICES ASSUME NEW v \in Workers
                 PROVE  /\ wPc'[v] = "link" => wTarget'[v] # NoTarget
                        /\ wPc'[v] = "complete" =>
                              /\ wTarget'[v] # NoTarget
                              /\ wTarget'[v] = crosswalk'[LegacyKeyOf[wNow'[v].id]]
    BY DEF TargetsAreSound, KeyNow
  \* A worker that is not at work on its row here.
  <1>2. ASSUME UNCHANGED <<wPc[v], wTarget[v], wNow[v]>>
        PROVE  /\ wPc'[v] = "link" => wTarget'[v] # NoTarget
               /\ wPc'[v] = "complete" =>
                      /\ wTarget'[v] # NoTarget
                      /\ wTarget'[v] = crosswalk'[LegacyKeyOf[wNow'[v].id]]
    <2>1. CASE wPc[v] = "complete"
      <3>1. LegacyKeyOf[wNow[v].id] \in LegacyKeys
        BY <2>1, ImportAssumption DEF FullInv, CoreInv, InLineIsClaimed, InLine, Claims
      <3>2. wTarget[v] # NoTarget /\ wTarget[v] = crosswalk[LegacyKeyOf[wNow[v].id]]
        BY <1>0, <2>1 DEF TargetsAreSound, KeyNow
      <3>3. crosswalk'[LegacyKeyOf[wNow[v].id]] = crosswalk[LegacyKeyOf[wNow[v].id]]
        BY <3>1, <3>2, CrosswalkStays DEF FullInv
      <3>4. QED
        BY <1>2, <2>1, <3>2, <3>3
    <2>2. CASE wPc[v] # "complete"
      BY <1>0, <1>2, <2>2 DEF TargetsAreSound
    <2>3. QED
      BY <2>1, <2>2
  <1> USE <1>0 DEF ImportTypeOK, At, To
  <1>3. ASSUME wPc'[v] \notin {"link", "complete"}
        PROVE  /\ wPc'[v] = "link" => wTarget'[v] # NoTarget
               /\ wPc'[v] = "complete" =>
                      /\ wTarget'[v] # NoTarget
                      /\ wTarget'[v] = crosswalk'[LegacyKeyOf[wNow'[v].id]]
    BY <1>3
  <1>4. ASSUME NEW b \in Batches,
               BeginPreview(b) \/ ReadCrosswalk(b) \/ ReadDuplicates(b) \/ SavePreview(b)
        PROVE  UNCHANGED <<wPc[v], wTarget[v], wNow[v]>>
    BY <1>4 DEF BeginPreview, ReadCrosswalk, ReadDuplicates, SavePreview, workerVars
  <1>5. ASSUME NEW b \in Batches, NEW w \in Workers, Confirm(b, w)
        PROVE  \/ UNCHANGED <<wPc[v], wTarget[v], wNow[v]>>
               \/ wPc'[v] \notin {"link", "complete"}
    BY <1>5 DEF Confirm
  <1>6. ASSUME NEW w \in Workers, WorkerStep(w), w # v
        PROVE  UNCHANGED <<wPc[v], wTarget[v], wNow[v]>>
    BY <1>6 DEF WorkerStep, Start, ResetInterrupted, ClaimNext, TakeLine, LookUpClient,
                InsertClient, LinkClient, CompleteLine, FailLine, Leave, FailStatement,
                CountLines, FinishBatch, EndAudit, MarkFailed, Die, Gone, tableVars
  <1>7. ASSUME Start(v) \/ ResetInterrupted(v) \/ ClaimNext(v) \/ CompleteLine(v) \/ FailLine(v)
                   \/ CountLines(v) \/ FinishBatch(v) \/ EndAudit(v) \/ FailStatement(v)
                   \/ MarkFailed(v) \/ Die(v)
        PROVE  wPc'[v] \notin {"link", "complete"}
    BY <1>7 DEF Start, ResetInterrupted, ClaimNext, CompleteLine, FailLine, Leave, CountLines,
                FinishBatch, EndAudit, FailStatement, MarkFailed, Die, Gone
  <1>8. CASE TakeLine(v)
    BY <1>8 DEF TakeLine, ClaimsAreSound
  <1>9. CASE LookUpClient(v)
    BY <1>9 DEF LookUpClient
  <1>10. CASE InsertClient(v)
    <2>1. KeyNow(v) \in LegacyKeys
      BY <1>10, ImportAssumption
      DEF FullInv, CoreInv, InLineIsClaimed, InLine, InsertClient, KeyNow, Claims
    <2>2. <<KeyNow(v), clients[KeyNow(v)] + 1>> # NoTarget
      BY <2>1, ImportAssumption DEF Created
    <2>3. QED
      BY <1>10, <2>2 DEF InsertClient, KeyTaken
  <1>11. CASE LinkClient(v)
    <2>1. KeyNow(v) \in LegacyKeys
      BY <1>11, ImportAssumption
      DEF FullInv, CoreInv, InLineIsClaimed, InLine, LinkClient, KeyNow, Claims
    <2>2. wTarget[v] # NoTarget
      BY <1>11 DEF LinkClient, TargetsAreSound
    <2>3. QED
      BY <1>11, <2>1, <2>2 DEF LinkClient, KeyNow
  <1>12. CASE TenMinutes \/ UNCHANGED importVars
    BY <1>2, <1>12 DEF TenMinutes, importVars, workerVars
  <1>13. QED
    BY <1>2, <1>3, <1>4, <1>5, <1>6, <1>7, <1>8, <1>9, <1>10, <1>11, <1>12
    DEF ImportNext, WorkerStep

LEMMA PreviewedStep ==
  ASSUME FullInv, [ImportNext]_importVars
  PROVE  Previewed'
  <1>0. ImportTypeOK /\ Previewed
    BY DEF FullInv, CoreInv
  <1> USE <1>0, ImportAssumption DEF ImportTypeOK, Previewed, At, To
  <1>1. CASE UNCHANGED importVars
    BY <1>1 DEF importVars, tableVars, previewVars, workerVars
  <1>2. CASE TenMinutes
    BY <1>2 DEF TenMinutes, previewVars, workerVars
  <1>3. ASSUME NEW b \in Batches, BeginPreview(b) PROVE Previewed'
    BY <1>3 DEF BeginPreview, tableVars, workerVars
  <1>4. ASSUME NEW b \in Batches, ReadCrosswalk(b) PROVE Previewed'
    BY <1>4 DEF ReadCrosswalk, tableVars, workerVars, Already, New
  <1>5. ASSUME NEW b \in Batches, ReadDuplicates(b) PROVE Previewed'
    <2>1. PICK found \in [LinesOf(b) -> AllClients \union {NoTarget}], link \in BOOLEAN :
             plan' = [q \in Lines |->
                 IF BatchOf[q] = b /\ plan[q] = New /\ found[q] # NoTarget
                 THEN Duplicate(found[q], link) ELSE plan[q]]
      BY <1>5 DEF ReadDuplicates
    <2>2. \A c : Duplicate(c, link).status \in {"VALID", "DUPLICATE"}
      BY DEF Duplicate
    <2>3. \A r \in Lines : BatchOf[r] = b =>
             plan[r].status \in {"VALID", "DUPLICATE", "ALREADY_IMPORTED"}
               \/ stage[b] # "duplicates"
      OBVIOUS
    <2>4. QED
      BY <1>5, <2>1, <2>2, <2>3 DEF ReadDuplicates, tableVars, workerVars
  <1>6. ASSUME NEW b \in Batches, SavePreview(b) PROVE Previewed'
    BY <1>6 DEF SavePreview, workerVars
  <1>7. ASSUME NEW b \in Batches, NEW w \in Workers, Confirm(b, w) PROVE Previewed'
    BY <1>7 DEF Confirm, previewVars
  <1>8. ASSUME NEW w \in Workers, ResetInterrupted(w) \/ ClaimNext(w) PROVE Previewed'
    <2>1. \A r \in Lines : line[r].status # "PENDING" => line'[r].status # "PENDING"
      BY <1>8 DEF ResetInterrupted, ClaimNext, LineStates
    <2>2. QED
      BY <1>8, <2>1 DEF ResetInterrupted, ClaimNext, previewVars
  <1>9. ASSUME NEW w \in Workers, CompleteLine(w) \/ FailLine(w) PROVE Previewed'
    <2>1. \A r \in Lines : line[r].status # "PENDING" => line'[r].status # "PENDING"
      <3>1. PICK s \in {"LINKED", "IMPORTED", "FAILED"}, t \in Targets :
               line' = [line EXCEPT ![wNow[w].id].status = s, ![wNow[w].id].target = t]
        <4>1. wNow[w].id \in Lines
          BY <1>9 DEF FullInv, CoreInv, InLineIsClaimed, InLine, Claims, CompleteLine, FailLine
        <4>2. wTarget[w] \in Targets /\ line[wNow[w].id].target \in Targets
          BY <4>1 DEF LineStates
        <4>3. QED
          BY <1>9, <4>2 DEF CompleteLine, FailLine, Leave
      <3>2. ASSUME NEW r \in Lines, line[r].status # "PENDING"
            PROVE  line'[r].status # "PENDING"
        <4>1. line[r] \in LineStates
          OBVIOUS
        <4>2. CASE r = wNow[w].id
          <5>1. line'[r] = [[line[r] EXCEPT !.status = s] EXCEPT !.target = t]
            BY <3>1, <4>2
          <5>2. QED
            BY <4>1, <5>1 DEF LineStates
        <4>3. CASE r # wNow[w].id
          BY <3>1, <3>2, <4>3
        <4>4. QED
          BY <4>2, <4>3
      <3>3. QED
        BY <3>2
    <2>2. QED
      BY <1>9, <2>1 DEF CompleteLine, FailLine, Leave, previewVars
  <1>10. ASSUME NEW w \in Workers,
                Start(w) \/ TakeLine(w) \/ LookUpClient(w) \/ InsertClient(w) \/ LinkClient(w)
                    \/ CountLines(w) \/ FailStatement(w) \/ Die(w) \/ EndAudit(w)
         PROVE  Previewed'
    <2>1. /\ UNCHANGED <<batch, line, stage, plan>>
          /\ \A v \in Workers : wPc'[v] # "idle" => wPc[v] # "idle" /\ wBatch'[v] = wBatch[v]
      BY <1>10 DEF Start, TakeLine, LookUpClient, InsertClient, LinkClient, CountLines,
                   FailStatement, Die, EndAudit, Gone, tableVars, previewVars
    <2>2. QED
      BY <2>1
  <1>11. ASSUME NEW w \in Workers, FinishBatch(w) \/ MarkFailed(w) PROVE Previewed'
    <2>1. /\ UNCHANGED <<line, stage, plan>>
          /\ \A v \in Workers : wPc'[v] # "idle" => wPc[v] # "idle" /\ wBatch'[v] = wBatch[v]
          /\ \A b \in Batches : batch'[b] = "UPLOADED" => batch[b] = "UPLOADED"
          /\ \A b \in Batches : batch[b] = "UPLOADED" => batch'[b] = "UPLOADED"
      BY <1>11 DEF FinishBatch, MarkFailed, Gone, previewVars
    <2>2. QED
      BY <2>1
  <1>12. QED
    BY <1>1, <1>2, <1>3, <1>4, <1>5, <1>6, <1>7, <1>8, <1>9, <1>10, <1>11
    DEF ImportNext, WorkerStep

\* A batch stays in order when its rows do, and its workers keep what they hold
\* or leave.
LEMMA OrderStays ==
  ASSUME NEW b \in Batches, Orderly(b),
         \A r \in LinesOf(b) : line'[r] = line[r],
         batch'[b] = "COMPLETED" => batch[b] = "COMPLETED",
         \A v \in Workers : Past(v)' /\ wBatch'[v] = b =>
             /\ Past(v) /\ wBatch[v] = b /\ Holding(v)' = Holding(v)
             /\ wPc'[v] \in Closing => wPc[v] \in Closing
             /\ wPc'[v] = "finish" => wPc[v] = "finish"
  PROVE  Orderly(b)'
  <1>1. \A w, v \in Workers :
           Past(w)' /\ Past(v)' /\ wBatch'[w] = b /\ wBatch'[v] = b => w = v
    BY DEF Orderly
  <1>2. ASSUME NEW w \in Workers, Past(w)', wBatch'[w] = b
        PROVE  /\ \A r \in LinesOf(b) : line'[r].status = "PROCESSING" <=> r \in Holding(w)'
               /\ wPc'[w] \in Closing => \A r \in LinesOf(b) : line'[r].status # "VALID"
               /\ wPc'[w] = "finish" => \A r \in LinesOf(b) : line'[r].status \in Done
    BY <1>2 DEF Orderly
  <1>3. batch'[b] = "COMPLETED" => \A r \in LinesOf(b) : line'[r].status \in Done
    BY DEF Orderly
  <1>4. QED
    BY <1>1, <1>2, <1>3 DEF Orderly, LinesOf, Closing, Done

\* Steps of a worker that stays on its row, leaves, or is not there yet.
LEMMA QuietOrder ==
  ASSUME FullInv, NEW b \in Batches, Orderly(b), NEW w \in Workers,
         Start(w) \/ LookUpClient(w) \/ InsertClient(w) \/ LinkClient(w) \/ EndAudit(w)
            \/ FailStatement(w) \/ MarkFailed(w) \/ Die(w) \/ \E c \in Batches : Confirm(c, w)
  PROVE  Orderly(b)'
  <1>0. ImportTypeOK
    BY DEF FullInv, CoreInv
  <1> USE <1>0 DEF ImportTypeOK, At, To, Gone, Past, InLine, Closing
  <1>1. UNCHANGED line /\ (batch'[b] = "COMPLETED" => batch[b] = "COMPLETED")
    BY DEF Start, LookUpClient, InsertClient, LinkClient, EndAudit, FailStatement, MarkFailed,
           Die, Confirm, tableVars
  <1>2. \A v \in Workers \ {w} :
           UNCHANGED <<wPc[v], wBatch[v], wTodo[v], wNow[v]>>
    BY DEF Start, LookUpClient, InsertClient, LinkClient, EndAudit, FailStatement, MarkFailed,
           Die, Confirm
  <1>3. \/ wPc'[w] \in {"idle", "start", "reset", "broken"}
        \/ /\ wPc[w] \in InLine /\ wPc'[w] \in InLine
           /\ UNCHANGED <<wBatch[w], wTodo[w], wNow[w]>>
    BY DEF Start, LookUpClient, InsertClient, LinkClient, EndAudit, FailStatement, MarkFailed,
           Die, Confirm
  <1>4. ASSUME NEW v \in Workers, Past(v)', wBatch'[v] = b
        PROVE  /\ Past(v) /\ wBatch[v] = b /\ Holding(v)' = Holding(v)
               /\ wPc'[v] \in Closing => wPc[v] \in Closing
               /\ wPc'[v] = "finish" => wPc[v] = "finish"
    BY <1>2, <1>3, <1>4 DEF Holding, Ids
  <1>5. QED
    BY <1>1, <1>4, OrderStays

\* Steps on the rows of a batch, without anybody else on them.
LEMMA ResetOrder ==
  ASSUME FullInv, NEW b \in Batches, Orderly(b), NEW w \in Workers, ResetInterrupted(w),
         b \notin overlapped'
  PROVE  Orderly(b)'
  <1>0. ImportTypeOK /\ ClaimsAreSound
    BY DEF FullInv, CoreInv
  <1> USE <1>0 DEF ImportTypeOK, At, To
  <1>1. /\ \A v \in Workers \ {w} : UNCHANGED <<wPc[v], wBatch[v], wTodo[v], wNow[v]>>
        /\ UNCHANGED <<batch, wBatch, wTodo, wNow>>
        /\ wPc[w] = "reset" /\ wPc'[w] = "rows"
    BY DEF ResetInterrupted
  <1>2. CASE wBatch[w] # b
    <2>1. \A r \in LinesOf(b) : line'[r] = line[r]
      BY <1>2 DEF ResetInterrupted, Interrupted, LinesOf
    <2>2. QED
      BY <1>1, <1>2, <2>1, OrderStays DEF Past, Holding, Ids
  <1>3. CASE wBatch[w] = b
    <2>1. Running(b) = {} /\ AtWork(b) = {w}
      BY <1>3 DEF ResetInterrupted
    <2>2. \A v \in Workers : Past(v)' /\ wBatch'[v] = b => v = w
      BY <1>1, <2>1 DEF AtWork, Past, InLine, Closing
    <2>3. \A r \in LinesOf(b) : line'[r].status # "PROCESSING"
      <3>1. ASSUME NEW r \in LinesOf(b) PROVE line'[r].status # "PROCESSING"
        <4>1. line[r] \in LineStates /\ r \in Lines
          BY DEF LinesOf
        <4>2. CASE r \in Interrupted(b)
          BY <1>3, <4>1, <4>2 DEF ResetInterrupted, LineStates
        <4>3. CASE r \notin Interrupted(b)
          BY <1>3, <2>1, <4>1, <4>3 DEF ResetInterrupted, Interrupted, Running
        <4>4. QED
          BY <4>2, <4>3
      <3>2. QED
        BY <3>1
    <2>4. Holding(w)' = {}
      <3>1. wTodo[w] = {} /\ wNow[w] = NoClaim
        BY <1>1 DEF ClaimsAreSound, InLine
      <3>2. QED
        BY <1>1, <3>1 DEF Holding, Ids, NoClaim
    <2>5. batch'[b] = "COMPLETED" => \A r \in LinesOf(b) : line'[r].status \in Done
      <3>1. ASSUME batch[b] = "COMPLETED", NEW r \in LinesOf(b) PROVE line'[r].status \in Done
        <4>1. line[r].status \in Done
          BY <3>1 DEF Orderly
        <4>2. r \notin Interrupted(b) /\ r \in Lines
          BY <4>1 DEF Interrupted, Done, LinesOf
        <4>3. QED
          BY <1>3, <4>1, <4>2 DEF ResetInterrupted
      <3>2. QED
        BY <1>1, <3>1
    <2>6. QED
      BY <1>1, <2>2, <2>3, <2>4, <2>5 DEF Orderly, LinesOf, Closing, Done
  <1>4. QED
    BY <1>2, <1>3

LEMMA ClaimOrder ==
  ASSUME FullInv, NEW b \in Batches, Orderly(b), NEW w \in Workers, ClaimNext(w)
  PROVE  Orderly(b)'
  <1>0. ImportTypeOK /\ ClaimsAreSound
    BY DEF FullInv, CoreInv
  <1> USE <1>0 DEF ImportTypeOK, At, To
  <1>1. PICK taken \in SUBSET Claimable(wBatch[w]) :
           /\ Cardinality(taken) = ClaimLimit \/ taken = Claimable(wBatch[w])
           /\ line' = [r \in Lines |->
                  IF r \in taken THEN [line[r] EXCEPT !.status = "PROCESSING"] ELSE line[r]]
           /\ wTodo' = [wTodo EXCEPT ![w] =
                  {[id |-> r, action |-> line[r].action, target |-> line[r].target] : r \in taken}]
           /\ IF taken = {} THEN To(w, "count") ELSE UNCHANGED wPc
    BY DEF ClaimNext
  <1>2. /\ wPc[w] = "rows" /\ wTodo[w] = {}
        /\ UNCHANGED <<batch, wBatch, wNow>>
        /\ wPc'[w] \in {"rows", "count"}
        /\ \A v \in Workers \ {w} : UNCHANGED <<wPc[v], wTodo[v]>>
    BY <1>1 DEF ClaimNext
  <1>3. CASE wBatch[w] # b
    <2>1. \A r \in LinesOf(b) : line'[r] = line[r]
      BY <1>1, <1>3 DEF Claimable, LinesOf
    <2>2. QED
      BY <1>2, <1>3, <2>1, OrderStays DEF Past, Holding, Ids
  <1>4. CASE wBatch[w] = b
    <2>1. \A v \in Workers : Past(v)' /\ wBatch'[v] = b => v = w
      BY <1>2, <1>4 DEF Orderly, Past
    <2>2. Holding(w) = {} /\ Holding(w)' = taken
      <3>1. wNow[w] = NoClaim
        BY <1>2 DEF ClaimsAreSound, InLine
      <3>2. wTodo'[w] = {[id |-> r, action |-> line[r].action, target |-> line[r].target] :
                           r \in taken}
        BY <1>1
      <3>3. {t.id : t \in wTodo'[w]} = taken
        <4>1. ASSUME NEW t \in wTodo'[w] PROVE t.id \in taken
          BY <3>2
        <4>2. ASSUME NEW r \in taken PROVE \E t \in wTodo'[w] : t.id = r
          <5>1. [id |-> r, action |-> line[r].action, target |-> line[r].target] \in wTodo'[w]
            BY <3>2
          <5>2. QED
            BY <5>1
        <4>3. QED
          BY <4>1, <4>2
      <3>4. QED
        BY <1>2, <3>1, <3>3 DEF Holding, Ids, NoClaim
    <2>3. \A r \in LinesOf(b) : line[r].status # "PROCESSING"
      BY <1>2, <1>4, <2>2 DEF Orderly, Past
    <2>4. \A r \in LinesOf(b) :
             /\ r \in taken => line'[r].status = "PROCESSING"
             /\ r \notin taken => line'[r] = line[r]
      BY <1>1 DEF LinesOf, LineStates
    <2>5. wPc'[w] \in Closing => \A r \in LinesOf(b) : line'[r].status # "VALID"
      <3>1. SUFFICES ASSUME wPc'[w] \in Closing
                     PROVE  \A r \in LinesOf(b) : line'[r].status # "VALID"
        OBVIOUS
      <3>2. taken = {}
        BY <1>1, <1>2, <3>1 DEF Closing
      <3>3. Cardinality(taken) # ClaimLimit
        BY <3>2, FS_EmptySet, ImportAssumption
      <3>4. Claimable(b) = {}
        BY <1>1, <1>4, <3>2, <3>3
      <3>5. QED
        BY <2>4, <3>2, <3>4 DEF Claimable
    <2>6. batch'[b] = "COMPLETED" => \A r \in LinesOf(b) : line'[r].status \in Done
      BY <1>1, <1>2, <1>4, <2>4 DEF Orderly, Claimable, Done
    <2>7. wPc'[w] # "finish"
      BY <1>2
    <2>8. QED
      BY <1>2, <2>1, <2>2, <2>3, <2>4, <2>5, <2>6, <2>7 DEF Orderly, LinesOf, Closing, Done
  <1>5. QED
    BY <1>3, <1>4

LEMMA TakeOrder ==
  ASSUME FullInv, NEW b \in Batches, Orderly(b), NEW w \in Workers, TakeLine(w)
  PROVE  Orderly(b)'
  <1>0. ImportTypeOK /\ ClaimsAreSound
    BY DEF FullInv, CoreInv
  <1> USE <1>0 DEF ImportTypeOK, At, To
  <1>1. PICK t \in wTodo[w] :
           /\ wTodo' = [wTodo EXCEPT ![w] = @ \ {t}]
           /\ wNow' = [wNow EXCEPT ![w] = t]
           /\ To(w, IF t.action = "LINK" THEN "link" ELSE "create")
    BY DEF TakeLine
  <1>2. wPc[w] = "rows" /\ UNCHANGED <<line, batch, wBatch>>
    BY DEF TakeLine, tableVars
  <1>3. Holding(w)' = Holding(w)
    <2>1. wNow[w] = NoClaim /\ t.id # NoTarget
      BY <1>1, <1>2, ImportAssumption DEF ClaimsAreSound, InLine, Claims
    <2>2. Holding(w) = {u.id : u \in wTodo[w]}
      BY <2>1 DEF Holding, Ids, NoClaim
    <2>3. Holding(w)' = {u.id : u \in wTodo[w] \ {t}} \union {t.id}
      BY <1>1, <2>1 DEF Holding, Ids
    <2>4. QED
      BY <1>1, <2>2, <2>3
  <1>4. wPc'[w] \in {"link", "create"}
    BY <1>1
  <1>5. \A v \in Workers \ {w} : UNCHANGED <<wPc[v], wTodo[v], wNow[v]>>
    BY <1>1
  <1>6. QED
    BY <1>2, <1>3, <1>4, <1>5, OrderStays DEF Past, Holding, Ids, Closing

LEMMA LeaveOrder ==
  ASSUME FullInv, NEW b \in Batches, Orderly(b), NEW w \in Workers,
         CompleteLine(w) \/ FailLine(w)
  PROVE  Orderly(b)'
  <1>0. ImportTypeOK /\ ClaimsAreSound
    BY DEF FullInv, CoreInv
  <1> USE <1>0 DEF ImportTypeOK, At, To
  <1> DEFINE r0 == wNow[w].id
  <1>1. PICK s \in {"LINKED", "IMPORTED", "FAILED"} : \E t \in Targets :
           line' = [line EXCEPT ![r0].status = s, ![r0].target = t]
    <2>1. wNow[w].id \in Lines
      BY DEF FullInv, CoreInv, InLineIsClaimed, InLine, Claims, CompleteLine, FailLine
    <2>2. wTarget[w] \in Targets /\ line[wNow[w].id].target \in Targets
      BY <2>1 DEF LineStates
    <2>3. QED
      BY <2>2 DEF CompleteLine, FailLine, Leave
  <1>2. /\ wPc[w] \in InLine /\ wPc'[w] = "rows"
        /\ wNow' = [wNow EXCEPT ![w] = NoClaim]
        /\ UNCHANGED <<batch, wBatch, wTodo>>
        /\ \A v \in Workers \ {w} : UNCHANGED <<wPc[v], wNow[v]>>
    BY DEF CompleteLine, FailLine, Leave, InLine
  <1>3. wNow[w] \in Claims /\ r0 \in Lines /\ BatchOf[r0] = wBatch[w] /\ r0 # NoTarget
    BY <1>2, ImportAssumption DEF ClaimsAreSound, Claims
  <1>4. /\ \A r \in Lines \ {r0} : line'[r] = line[r]
        /\ line'[r0].status = s
    BY <1>1, <1>3 DEF LineStates
  <1>5. CASE wBatch[w] # b
    <2>1. \A r \in LinesOf(b) : line'[r] = line[r]
      BY <1>3, <1>4, <1>5 DEF LinesOf
    <2>2. QED
      BY <1>2, <1>5, <2>1, OrderStays DEF Past, Holding, Ids
  <1>6. CASE wBatch[w] = b
    <2>1. \A v \in Workers : Past(v)' /\ wBatch'[v] = b => v = w
      BY <1>2, <1>6 DEF Orderly, Past
    <2>2. Holding(w) = Ids(wTodo[w]) \union {r0} /\ Holding(w)' = Ids(wTodo[w])
      BY <1>2, <1>3 DEF Holding, Ids, NoClaim
    <2>3. r0 \notin Ids(wTodo[w])
      BY DEF ClaimsAreSound, Ids
    <2>4. \A r \in LinesOf(b) : line[r].status = "PROCESSING" <=> r \in Holding(w)
      BY <1>2, <1>6 DEF Orderly, Past
    <2>5. line[r0].status = "PROCESSING" /\ r0 \in LinesOf(b)
      BY <1>3, <1>6, <2>2, <2>4 DEF LinesOf
    <2>6. batch'[b] # "COMPLETED"
      BY <1>2, <2>5 DEF Orderly, Done
    <2>7. \A r \in LinesOf(b) : line'[r].status = "PROCESSING" <=> r \in Holding(w)'
      BY <1>1, <1>4, <2>2, <2>3, <2>4 DEF LinesOf
    <2>8. QED
      BY <1>2, <2>1, <2>6, <2>7 DEF Orderly, LinesOf, Closing, Done
  <1>7. QED
    BY <1>5, <1>6

LEMMA CloseOrder ==
  ASSUME FullInv, NEW b \in Batches, Orderly(b), NEW w \in Workers,
         CountLines(w) \/ FinishBatch(w)
  PROVE  Orderly(b)'
  <1>0. ImportTypeOK /\ ClaimsAreSound
    BY DEF FullInv, CoreInv
  <1> USE <1>0 DEF ImportTypeOK, At, To
  <1>1. /\ UNCHANGED <<line, wBatch, wTodo, wNow>>
        /\ \A v \in Workers \ {w} : wPc'[v] = wPc[v]
        /\ wPc[w] \in Closing /\ wPc'[w] \in Closing
        /\ \A v \in Workers : Holding(v)' = Holding(v)
    BY DEF CountLines, FinishBatch, Closing, tableVars, Holding, Ids
  <1>2. CASE wBatch[w] # b
    <2>1. batch'[b] = batch[b]
      BY <1>2 DEF CountLines, FinishBatch, tableVars
    <2>2. QED
      BY <1>1, <1>2, <2>1, OrderStays DEF Past
  <1>3. CASE CountLines(w) /\ wBatch[w] = b
    <2>1. Holding(w) = {}
      BY <1>1 DEF ClaimsAreSound, Closing, InLine, Holding, Ids, NoClaim
    <2>2. \A r \in LinesOf(b) : line[r].status \notin {"VALID", "PROCESSING"}
      BY <1>1, <1>3, <2>1 DEF Orderly, Past
    <2>3. \A r \in LinesOf(b) : line[r].status # "PENDING"
      BY <1>3 DEF FullInv, Previewed, CountLines, LinesOf
    <2>4. wPc'[w] = "finish" => \A r \in LinesOf(b) : line[r].status \in Done
      BY <1>3, <2>2, <2>3 DEF CountLines, LineStates, Statuses, Done, LinesOf
    <2>5. batch' = batch
      BY <1>3 DEF CountLines, tableVars
    <2>6. QED
      BY <1>1, <1>3, <2>4, <2>5 DEF Orderly, LinesOf, Past, Closing, Done
  <1>4. CASE FinishBatch(w) /\ wBatch[w] = b
    <2>1. wPc'[w] = "audit"
      BY <1>4 DEF FinishBatch
    <2>2. batch'[b] = "COMPLETED" => \A r \in LinesOf(b) : line[r].status \in Done
      BY <1>1, <1>4 DEF FinishBatch, Orderly, Past
    <2>3. QED
      BY <1>1, <1>4, <2>1, <2>2 DEF Orderly, LinesOf, Past, Closing, Done
  <1>5. QED
    BY <1>2, <1>3, <1>4

\* A preview that is saved under a worker is the exception.
LEMMA PreviewOrder ==
  ASSUME FullInv, NEW b \in Batches, Orderly(b), NEW c \in Batches,
         BeginPreview(c) \/ ReadCrosswalk(c) \/ ReadDuplicates(c) \/ SavePreview(c),
         b \notin overlapped'
  PROVE  Orderly(b)'
  <1>0. UNCHANGED workerVars
    BY DEF BeginPreview, ReadCrosswalk, ReadDuplicates, SavePreview
  <1>1. \A v \in Workers : Past(v)' = Past(v) /\ Holding(v)' = Holding(v) /\ wBatch'[v] = wBatch[v]
    BY <1>0 DEF Past, Holding, Ids, workerVars
  <1>2. CASE UNCHANGED <<batch, line>>
    BY <1>0, <1>1, <1>2, OrderStays DEF workerVars
  <1>3. CASE SavePreview(c) /\ line' # line /\ b # c
    <2>1. \A r \in LinesOf(b) : line'[r] = line[r]
      BY <1>3 DEF SavePreview, LinesOf
    <2>2. batch'[b] = batch[b]
      BY <1>3 DEF SavePreview, FullInv, CoreInv, ImportTypeOK
    <2>3. QED
      BY <1>0, <1>1, <2>1, <2>2, OrderStays DEF workerVars
  <1>4. CASE SavePreview(c) /\ line' # line /\ b = c
    <2>1. AtWork(b) = {}
      BY <1>4 DEF SavePreview
    <2>2. \A v \in Workers : ~(Past(v)' /\ wBatch'[v] = b)
      BY <1>1, <2>1 DEF AtWork, Past, InLine, Closing
    <2>3. batch'[b] # "COMPLETED"
      BY <1>4 DEF SavePreview, FullInv, CoreInv, ImportTypeOK
    <2>4. QED
      BY <2>2, <2>3 DEF Orderly
  <1>5. CASE SavePreview(c) /\ line' = line
    <2>1. batch'[b] = "COMPLETED" => batch[b] = "COMPLETED"
      BY <1>5 DEF SavePreview, FullInv, CoreInv, ImportTypeOK
    <2>2. QED
      BY <1>0, <1>1, <1>5, <2>1, OrderStays DEF workerVars
  <1>6. QED
    BY <1>2, <1>3, <1>4, <1>5 DEF BeginPreview, ReadCrosswalk, ReadDuplicates, tableVars

LEMMA OverlapsGrow ==
  ASSUME [ImportNext]_importVars
  PROVE  overlapped \subseteq overlapped'
  <1>1. ASSUME NEW b \in Batches,
               BeginPreview(b) \/ ReadCrosswalk(b) \/ ReadDuplicates(b) \/ SavePreview(b)
                   \/ \E w \in Workers : Confirm(b, w)
        PROVE  overlapped \subseteq overlapped'
    BY <1>1 DEF BeginPreview, ReadCrosswalk, ReadDuplicates, SavePreview, Confirm
  <1>2. ASSUME NEW w \in Workers, WorkerStep(w) PROVE overlapped \subseteq overlapped'
    BY <1>2 DEF WorkerStep, Start, ResetInterrupted, ClaimNext, TakeLine, LookUpClient,
                InsertClient, LinkClient, CompleteLine, FailLine, Leave, FailStatement,
                CountLines, FinishBatch, EndAudit, MarkFailed, Die
  <1>3. QED
    BY <1>1, <1>2 DEF ImportNext, TenMinutes, importVars

LEMMA OrderStep ==
  ASSUME FullInv, [ImportNext]_importVars
  PROVE  OrderlyUnlessOverlapped'
  <1>1. SUFFICES ASSUME NEW b \in Batches, b \notin overlapped' PROVE Orderly(b)'
    BY DEF OrderlyUnlessOverlapped
  <1>2. Orderly(b)
    BY <1>1, OverlapsGrow DEF FullInv, OrderlyUnlessOverlapped
  <1>3. CASE TenMinutes \/ UNCHANGED importVars
    <2>1. UNCHANGED <<line, batch, workerVars>>
      BY <1>3 DEF TenMinutes, importVars, tableVars
    <2>2. QED
      BY <1>2, <2>1, OrderStays DEF workerVars, Past, Holding, Ids
  <1>4. QED
    BY <1>1, <1>2, <1>3, QuietOrder, ResetOrder, ClaimOrder, TakeOrder, LeaveOrder, CloseOrder,
       PreviewOrder
    DEF ImportNext, WorkerStep

\* A batch that ends COMPLETED has every row at its client, also after deaths and
\* errors, unless a second worker or a preview took it up too soon.
THEOREM CompletedMeansComplete == ImportSpec => []CompletedIsComplete
  <1>1. FullInv /\ [ImportNext]_importVars => FullInv'
    BY TypesStep, ClaimedStep, ReceiptsStep, TruthStep, ClaimsStep, TargetsStep, PreviewedStep,
       OrderStep
    DEF FullInv, CoreInv
  <1>2. FullInv => CompletedIsComplete
    BY DEF FullInv, OrderlyUnlessOverlapped, Orderly, RowsSayTrue, SaysTrue, LinesOf, Done,
           CompletedIsComplete
  <1>3. QED
    BY FullStarts, <1>1, <1>2, PTL DEF ImportSpec
=============================================================================
