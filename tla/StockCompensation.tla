-------------------------- MODULE StockCompensation --------------------------
(* Compensating a posted stock movement.                                    *)
(*                                                                          *)
(* repoCompensateMovement works in three transactions under a session-level *)
(* advisory lock on the original: it looks for its receipt, lets            *)
(* repoCreateMovement create the inverse draft under a key derived from its  *)
(* own, and links that draft to the original with its receipt.  The payload  *)
(* hashed for the draft holds the time at which it was built.               *)
EXTENDS Integers, Sequences, FiniteSets

CONSTANTS
    CompCalls,      \* requests in progress
    CompKeys,       \* idempotency keys of their users
    Bodies,         \* what is asked: reason, notes, expected posting time
    NoCompCall,
    MaxBuilt,       \* bound: drafts built, created or not
    MaxCompFaults   \* bound: calls that fail midway

ASSUME CompBoundAssumption == {MaxBuilt, MaxCompFaults} \subseteq Nat

VARIABLES
    compCall,      \* requests
    sessionLock,   \* who has the advisory lock of the original movement
    drafts,        \* the inverse movements
    compReceipts,  \* receipts of MOVEMENT_COMPENSATE
    draftReceipts, \* receipts of MOVEMENT_CREATE, under derived keys
    built,         \* readings of the clock
    asked,         \* the bodies each key was used with
    reused,        \* keys whose user was told IDEMPOTENCY_KEY_REUSED
    compFaults

compStore == <<drafts, compReceipts, draftReceipts>>
compAnswers == <<asked, reused>>
compVars == <<compCall, sessionLock, compStore, built, compAnswers, compFaults>>

CompInit ==
    /\ compCall = [c \in CompCalls |-> NoCompCall]
    /\ sessionLock = NoCompCall
    /\ drafts = <<>>
    /\ compReceipts = {}
    /\ draftReceipts = {}
    /\ built = 0
    /\ asked = [k \in CompKeys |-> {}]
    /\ reused = {}
    /\ compFaults = 0

At(c, step) == compCall[c] # NoCompCall /\ compCall[c].step = step
GoTo(c, step) == compCall' = [compCall EXCEPT ![c].step = step]

\* The answer, and unlock: both the end of a call and its error path.
EndComp(c) ==
    /\ compCall' = [compCall EXCEPT ![c] = NoCompCall]
    /\ sessionLock' = IF sessionLock = c THEN NoCompCall ELSE sessionLock

StartComp(c, k, b) ==
    /\ compCall[c] = NoCompCall
    /\ built < MaxBuilt
    /\ compCall' = [compCall EXCEPT ![c] =
           [key |-> k, body |-> b, step |-> "lock", builtAt |-> 0, draft |-> 0]]
    /\ asked' = [asked EXCEPT ![k] = @ \union {b}]
    /\ UNCHANGED <<sessionLock, compStore, built, reused, compFaults>>

\* pg_advisory_lock
TakeSessionLock(c) ==
    /\ At(c, "lock")
    /\ sessionLock = NoCompCall
    /\ sessionLock' = c
    /\ GoTo(c, "look")
    /\ UNCHANGED <<compStore, built, compAnswers, compFaults>>

\* First transaction: beginStockCommand of MOVEMENT_COMPENSATE.
LookUpReceipt(c) ==
    LET mine == {r \in compReceipts : r.key = compCall[c].key}
    IN  /\ At(c, "look")
        /\ IF mine = {}
           THEN GoTo(c, "preview") /\ UNCHANGED <<sessionLock, reused>>
           ELSE /\ EndComp(c)
                /\ reused' = IF \A r \in mine : r.body = compCall[c].body
                             THEN reused ELSE reused \union {compCall[c].key}
        /\ UNCHANGED <<compStore, built, asked, compFaults>>

LinkedLive == {i \in DOMAIN drafts : drafts[i].linked /\ drafts[i].status # "CANCELLED"}

\* The preview, and the inverse movement with its effective_at.
PreviewCompensation(c) ==
    /\ At(c, "preview")
    /\ IF LinkedLive # {}
       THEN EndComp(c) /\ UNCHANGED built
       ELSE /\ built < MaxBuilt
            /\ built' = built + 1
            /\ compCall' = [compCall EXCEPT ![c] =
                   [key |-> @.key, body |-> @.body, step |-> "create",
                    builtAt |-> built + 1, draft |-> 0]]
            /\ UNCHANGED sessionLock
    /\ UNCHANGED <<compStore, compAnswers, compFaults>>

\* Defect: a receipt is looked for with its hash.
EarlierSamePayload(x) ==
    {r \in draftReceipts : r.key = x.key /\ r.payload = <<x.body, x.builtAt>>}

\* beginStockCommand of MOVEMENT_CREATE; the derived key stands for the key.
EarlierDraft(x) == {r \in draftReceipts : r.key = x.key}

\* repoCreateMovement, in a transaction of its own.
CreateDraft(c) ==
    LET x == compCall[c]
        payload == <<x.body, x.builtAt>>
        new == Len(drafts) + 1
    IN  /\ At(c, "create")
        /\ IF EarlierDraft(x) = {}
           THEN /\ drafts' = Append(drafts, [key |-> x.key, status |-> "DRAFT", linked |-> FALSE])
                /\ draftReceipts' = draftReceipts \union
                       {[key |-> x.key, payload |-> payload, draft |-> new]}
                /\ compCall' = [compCall EXCEPT ![c] =
                       [key |-> x.key, body |-> x.body, step |-> "link",
                        builtAt |-> x.builtAt, draft |-> new]]
                /\ UNCHANGED <<sessionLock, reused>>
           ELSE /\ \A r \in EarlierDraft(x) : r.payload # payload
                /\ reused' = reused \union {x.key}
                /\ EndComp(c)
                /\ UNCHANGED <<drafts, draftReceipts>>
        /\ UNCHANGED <<compReceipts, built, asked, compFaults>>

\* Third transaction: both movements are locked, the draft is linked, unless
\* somebody has posted or cancelled it meanwhile; the receipt is written.
LinkDraft(c) ==
    LET x == compCall[c]
    IN  /\ At(c, "link")
        /\ IF drafts[x.draft].status = "DRAFT" /\ LinkedLive = {}
           THEN /\ drafts' = [drafts EXCEPT ![x.draft].linked = TRUE]
                /\ compReceipts' = compReceipts \union
                       {[key |-> x.key, body |-> x.body, draft |-> x.draft]}
           ELSE UNCHANGED <<drafts, compReceipts>>
        /\ EndComp(c)
        /\ UNCHANGED <<draftReceipts, built, compAnswers, compFaults>>

\* A crash, a lost connection or an error between two transactions.
FailComp(c) ==
    /\ compCall[c] # NoCompCall
    /\ compFaults < MaxCompFaults
    /\ compFaults' = compFaults + 1
    /\ EndComp(c)
    /\ UNCHANGED <<compStore, built, compAnswers>>

\* repoPostMovement and repoCancelMovement, on a draft like any other.
EndDraft(i, status) ==
    /\ drafts[i].status = "DRAFT"
    /\ drafts' = [drafts EXCEPT ![i].status = status]
    /\ UNCHANGED <<compCall, sessionLock, compReceipts, draftReceipts, built, compAnswers,
                   compFaults>>

CompNext ==
    \/ \E c \in CompCalls, k \in CompKeys, b \in Bodies : StartComp(c, k, b)
    \/ \E c \in CompCalls :
           \/ TakeSessionLock(c) \/ LookUpReceipt(c) \/ PreviewCompensation(c)
           \/ CreateDraft(c) \/ LinkDraft(c) \/ FailComp(c)
    \/ \E i \in DOMAIN drafts, status \in {"POSTED", "CANCELLED"} : EndDraft(i, status)

CompSpec == CompInit /\ [][CompNext]_compVars

------------------------------------------------------------------------------
(* Properties                                                               *)

\* However often a command is repeated, and wherever it failed before, one
\* inverse movement is created for its key.
OneDraftPerKey ==
    \A i, j \in DOMAIN drafts : drafts[i].key = drafts[j].key => i = j

\* "This Idempotency-Key was already used with a different stock command" is
\* said only to someone who has used it for something different.
ReusedMeansDifferent == \A k \in reused : Cardinality(asked[k]) > 1
==============================================================================
