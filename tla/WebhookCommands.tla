-------------------------- MODULE WebhookCommands --------------------------
(* Administrator commands on a webhook subscription: idempotency receipts,  *)
(* optimistic concurrency on updated_at, and secret rotation.               *)
(*                                                                          *)
(* A client reads the subscription, builds a request once, and may send it  *)
(* several times under the same Idempotency-Key.  Each call runs one        *)
(* transaction: it looks for a receipt, changes the subscription if         *)
(* updated_at is still the one the client read, and inserts a receipt.  The *)
(* receipt look-up locks nothing when there is no receipt, so two calls of  *)
(* one request may both pass it.                                            *)
EXTENDS Integers, FiniteSets

CONSTANTS
    Requests,    \* requests clients build
    Keys,        \* idempotency keys
    KeyOf,       \* the key of each request
    KindOf,      \* patch, rotate or test
    Calls,       \* HTTP calls: sendings of requests
    None,        \* no receipt, no secret, no request
    TicksPerMs,  \* clock ticks in a millisecond (1000 microseconds)
    MaxTime,     \* bound: clock
    MaxChanges   \* bound: changes of the subscription

Kinds == {"patch", "rotate", "test"}
Versioned == {"patch", "rotate"}

ASSUME RequestAssumption == KeyOf \in [Requests -> Keys] /\ KindOf \in [Requests -> Kinds]
ASSUME NoneAssumption == None \notin Requests \union Calls
ASSUME NumberAssumption ==
    /\ TicksPerMs \in Nat \ {0}
    /\ {MaxTime, MaxChanges} \subseteq Nat

VARIABLES
    now,        \* the database clock; every transaction starts at its own tick
    version,    \* updated_at of the subscription
    secret,     \* its current secret, named by the call that generated it
    changes,    \* how often the subscription has changed
    bumps,      \* start times of the delivery completions in progress
    expected,   \* expected_updated_at of a request, 0 before it is built
    seen,       \* the number of changes when its client read the subscription
    receipts,   \* api_webhook_command_receipts: per kind and key
    pc, callReq, start, answer,  \* the calls and their transactions
    effects,    \* times a request took effect
    returned,   \* secrets returned for a request
    stale,      \* requests that overwrote a change their client had not seen
    rewound     \* requests built before a completion that moved updated_at back

subVars == <<version, secret, changes, bumps>>
requestVars == <<expected, seen>>
callVars == <<pc, callReq, start, answer>>
ghostVars == <<effects, returned, stale, rewound>>
vars == <<now, subVars, requestVars, receipts, callVars, ghostVars>>

NoReceipt == [body |-> None, secret |-> None]
ReceiptKey(r) == <<KindOf[r], KeyOf[r]>>

\* iso(): what the API shows of a time is its whole milliseconds.
Truncate(time) == (time \div TicksPerMs) * TicksPerMs

Init ==
    /\ version \in TicksPerMs .. 2 * TicksPerMs - 1
    /\ now = 2 * TicksPerMs
    /\ secret = None
    /\ changes = 0
    /\ bumps = {}
    /\ expected = [r \in Requests |-> 0]
    /\ seen = [r \in Requests |-> 0]
    /\ receipts = [k \in Kinds \X Keys |-> NoReceipt]
    /\ pc = [c \in Calls |-> "idle"]
    /\ callReq = [c \in Calls |-> None]
    /\ start = [c \in Calls |-> 0]
    /\ answer = [c \in Calls |-> "none"]
    /\ effects = [r \in Requests |-> 0]
    /\ returned = [r \in Requests |-> {}]
    /\ stale = {}
    /\ rewound = {}

------------------------------------------------------------------------------
\* GET of the subscription, and the request built from the answer.
Build(r) ==
    /\ expected[r] = 0
    /\ \A c \in Calls : callReq[c] # r
    /\ expected' = [expected EXCEPT ![r] = Truncate(version)]
    /\ seen' = [seen EXCEPT ![r] = changes]
    /\ UNCHANGED <<now, subVars, receipts, callVars, ghostVars>>

Send(c, r) ==
    /\ pc[c] = "idle"
    /\ pc' = [pc EXCEPT ![c] = "sent"]
    /\ callReq' = [callReq EXCEPT ![c] = r]
    /\ UNCHANGED <<now, subVars, requestVars, receipts, start, answer, ghostVars>>

Answer(c, text) ==
    /\ pc' = [pc EXCEPT ![c] = "done"]
    /\ answer' = [answer EXCEPT ![c] = text]

\* Defect: a replay answers with a secret of its own.
StoredSecretOwn(c) == c

\* The secret a replay answers with: the one sealed in the receipt.
StoredSecret(c) == receipts[ReceiptKey(callReq[c])].secret

\* BEGIN and readCommandReceipt.
CheckReceipt(c) ==
    LET receipt == receipts[ReceiptKey(callReq[c])]
    IN  /\ pc[c] = "sent"
        /\ now < MaxTime
        /\ now' = now + 1
        /\ start' = [start EXCEPT ![c] = now]
        /\ \/ /\ receipt = NoReceipt
              /\ pc' = [pc EXCEPT ![c] = "apply"]
              /\ UNCHANGED <<answer, returned>>
           \/ /\ receipt.body \notin {None, callReq[c]}
              /\ Answer(c, "key reused")
              /\ UNCHANGED returned
           \/ /\ receipt.body = callReq[c]
              /\ Answer(c, "replayed")
              /\ returned' = IF KindOf[callReq[c]] = "rotate"
                             THEN [returned EXCEPT ![callReq[c]] = @ \union {StoredSecret(c)}]
                             ELSE returned
        /\ UNCHANGED <<subVars, requestVars, receipts, callReq, effects, stale, rewound>>

\* Defect: the UPDATE does not compare updated_at.
VersionIgnored(r) == TRUE

\* WHERE updated_at = expected_updated_at, for the commands that have it.
VersionMatches(r) == KindOf[r] \in Versioned => version = expected[r]

\* Defect: two receipts of one key are possible.
ReceiptNotUnique(r) == TRUE

\* UNIQUE (actor_id, action, idempotency_key).
ReceiptFree(r) == receipts[ReceiptKey(r)] = NoReceipt

\* generateWebhookSecret(): every call draws a new one.
NewSecret(c) == c

\* The command, its receipt and the COMMIT, once the row lock is granted.
Apply(c) ==
    LET r == callReq[c]
        rotates == KindOf[r] = "rotate"
    IN  /\ pc[c] = "apply"
        /\ VersionMatches(r)
        /\ ReceiptFree(r)
        /\ Answer(c, "done")
        /\ receipts' = [receipts EXCEPT ![ReceiptKey(r)] =
                          [body |-> r, secret |-> IF rotates THEN NewSecret(c) ELSE None]]
        /\ IF KindOf[r] \in Versioned
           THEN /\ version' = start[c]
                /\ changes' = changes + 1
                /\ stale' = IF changes # seen[r] THEN stale \union {r} ELSE stale
           ELSE UNCHANGED <<version, changes, stale>>
        /\ secret' = IF rotates THEN NewSecret(c) ELSE secret
        /\ effects' = [effects EXCEPT ![r] = @ + 1]
        /\ returned' = IF rotates THEN [returned EXCEPT ![r] = @ \union {NewSecret(c)}]
                                  ELSE returned
        /\ UNCHANGED <<now, bumps, requestVars, callReq, start, rewound>>

\* 409: the subscription changed; or the receipt's UNIQUE constraint rolls all back.
Refuse(c) ==
    LET r == callReq[c]
    IN  /\ pc[c] = "apply"
        /\ \/ ~VersionMatches(r) /\ Answer(c, "conflict")
           \/ VersionMatches(r) /\ ~ReceiptFree(r) /\ Answer(c, "failed")
        /\ UNCHANGED <<now, subVars, requestVars, receipts, callReq, start, ghostVars>>

\* The connection breaks before the COMMIT; the transaction rolls back.
Abort(c) ==
    /\ pc[c] \in {"sent", "apply"}
    /\ Answer(c, "failed")
    /\ UNCHANGED <<now, subVars, requestVars, receipts, callReq, start, ghostVars>>

\* repoCompleteWebhookDelivery also sets updated_at, to its own start time; as
\* many completions run as workers have deliveries of the subscription.
BumpBegin ==
    /\ now < MaxTime
    /\ bumps' = bumps \union {now}
    /\ now' = now + 1
    /\ UNCHANGED <<version, secret, changes, requestVars, receipts, callVars, ghostVars>>

BumpCommit(time) ==
    /\ time \in bumps
    /\ changes < MaxChanges
    /\ version' = time
    /\ changes' = changes + 1
    /\ bumps' = bumps \ {time}
    /\ rewound' = IF time > version THEN rewound
                  ELSE rewound \union {r \in Requests : expected[r] # 0}
    /\ UNCHANGED <<now, secret, requestVars, receipts, callVars, effects, returned, stale>>

Next ==
    \/ \E r \in Requests : Build(r)
    \/ \E c \in Calls, r \in Requests : expected[r] # 0 /\ Send(c, r)
    \/ \E c \in Calls : CheckReceipt(c) \/ Apply(c) \/ Refuse(c) \/ Abort(c)
    \/ BumpBegin
    \/ \E time \in bumps : BumpCommit(time)

Spec == Init /\ [][Next]_vars

------------------------------------------------------------------------------
(* Properties                                                               *)

Answers == {"none", "done", "replayed", "key reused", "conflict", "failed"}

\* Every variable has its type.
TypeOK ==
    /\ {now, version, changes} \subseteq Nat
    /\ bumps \subseteq Nat
    /\ secret \in Calls \union {None}
    /\ expected \in [Requests -> Nat]
    /\ seen \in [Requests -> Nat]
    /\ receipts \in [Kinds \X Keys ->
            [body : Requests \union {None}, secret : Calls \union {None}]]
    /\ pc \in [Calls -> {"idle", "sent", "apply", "done"}]
    /\ callReq \in [Calls -> Requests \union {None}]
    /\ start \in [Calls -> Nat]
    /\ answer \in [Calls -> Answers]
    /\ effects \in [Requests -> Nat]
    /\ returned \in [Requests -> SUBSET Calls]
    /\ stale \subseteq Requests
    /\ rewound \subseteq Requests

\* However often a request is sent, and however its calls overlap, it takes effect
\* at most once, and exactly if a receipt proves it; no key serves two requests.
AtMostOneEffect ==
    \A r \in Requests :
        /\ effects[r] <= 1
        /\ effects[r] = 1 <=> receipts[ReceiptKey(r)].body = r

\* Every successful answer to a rotation, first or replayed, carries one secret.
OneSecretPerRotation ==
    \A r \in Requests : \A a, b \in returned[r] : a = b

\* A command overwrites a change its client has not seen only if, since the client
\* read the subscription, a delivery completion that began earlier committed later
\* and moved updated_at back: the commands alone, and completions in the order of
\* their starts, never bring back a time that a client was shown.
LostOnlyAfterRewind == stale \subseteq rewound

\* A client is told that the subscription changed only if it did.
ConflictMeansChange ==
    \A c \in Calls : answer[c] = "conflict" => changes # seen[callReq[c]]
=============================================================================
