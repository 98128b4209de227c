--------------------------- MODULE WebhookDelivery ---------------------------
(* The lease-based webhook delivery worker.                                  *)
(*                                                                           *)
(* Every Node process runs one maintenance cycle at a time: it claims due    *)
(* deliveries one by one with a fresh lease token, POSTs each to the         *)
(* subscription's endpoint, and records the outcome in a transaction that    *)
(* only the current lease holder can win.  A claim is lost when the process  *)
(* crashes or a database call throws; the row then waits for its lease to    *)
(* expire and is claimed again.                                              *)
(*                                                                           *)
(* Times are relative: dWait[d] is next_attempt_at - now and dLease[d] is    *)
(* lease_expires_at - now, in ticks, so that time never ends.                *)
EXTENDS Integers, Sequences, FiniteSets

CONSTANTS
    Subs,          \* webhook subscriptions
    Deliveries,    \* identifiers delivery rows are drawn from
    Tokens,        \* lease tokens
    NoSub, NoDelivery, NoToken,  \* NULL columns and empty claims
    Workers,       \* Node processes running the maintenance cycle
    MaxAttempts,   \* attempts before a delivery is dead (8 in the code)
    CycleBatch,    \* deliveries one cycle processes (25 in the code)
    LeaseTicks,    \* length of a lease (2 minutes in the code)
    BaseDelay,     \* first retry delay (30 seconds in the code)
    MaxDelay,      \* longest retry delay (one hour in the code)
    AgeCap,        \* bound: overdue rows older than this are equally old
    MaxCrashes,    \* bound: crashes and database errors
    MaxOverruns    \* bound: leases that expire under a live worker

ASSUME NullAssumption ==
    NoSub \notin Subs /\ NoDelivery \notin Deliveries /\ NoToken \notin Tokens
ASSUME AttemptsAssumption == MaxAttempts \in Nat \ {0}
ASSUME BatchAssumption == CycleBatch \in Nat \ {0}
ASSUME TimeAssumption ==
    /\ LeaseTicks \in Nat \ {0}
    /\ BaseDelay \in Nat
    /\ MaxDelay \in Nat
    /\ AgeCap \in Nat
ASSUME BoundAssumption == MaxCrashes \in Nat /\ MaxOverruns \in Nat

VARIABLES
    subStatus, subReason, subFailures,  \* api_webhook_subscriptions
    dStatus, dSub, dAttempts, dWait, dToken, dLease,  \* api_webhook_deliveries
    dHttp,         \* last_http_status: "NULL", "100..599" or "other"
    dLog,          \* api_webhook_delivery_attempts: outcomes in attempt order
    wPc, wLeft, wClaim, wResult,        \* the workers' cycles
    accepted,      \* times the remote endpoint accepted the delivery
    lapsed,        \* deliveries whose lease ran out or whose answer was lost
    crashes, overruns

subVars == <<subStatus, subReason, subFailures>>
deliveryVars == <<dStatus, dSub, dAttempts, dWait, dToken, dLease, dHttp, dLog>>
workerVars == <<wPc, wLeft, wClaim, wResult>>
ghostVars == <<accepted, lapsed>>
vars == <<subVars, deliveryVars, workerVars, ghostVars, crashes, overruns>>

NoClaim == [delivery |-> NoDelivery, token |-> NoToken, attempts |-> 0]

Waiting == {"PENDING", "RETRY"}
Terminal == {"DELIVERED", "DEAD_LETTER"}
Exists(d) == dStatus[d] # "none"
Open(d) == dStatus[d] \in Waiting \union {"PROCESSING"}

(* What one POST can come to: a 2xx; a status worth a retry (408, 425, 429,  *)
(* 5xx); one that disables the subscription (401, 403, 404, 410); any other  *)
(* status; a status HTTP does not define, which the HTTP parser lets pass    *)
(* and the service retries from 500 on (600 to 999); a network error; a      *)
(* refusal before the POST (private target, secret that cannot be            *)
(* decrypted).                                                               *)
Results == {"2xx", "retryable", "gone", "rejected", "undefined", "network", "blocked"}
Retryable == {"retryable", "undefined", "network", "blocked"}
Disabling == {"gone", "blocked"}

\* The status that the completion writes, and what the CHECKs let it write.
HttpStatus(result) ==
    CASE result \in {"network", "blocked"} -> "NULL"
      [] result = "undefined" -> "other"
      [] OTHER -> "100..599"

\* Defect: the tables take any status.
StorableAny == {"NULL", "100..599", "other"}

Storable == {"NULL", "100..599"}

\* Defect: every status below 400 counts as success.
OutcomeBelow400(attempt, result) ==
    CASE result \in {"2xx", "rejected"} -> "DELIVERED"
      [] result \in Retryable \ Disabling /\ attempt < MaxAttempts -> "RETRY"
      [] OTHER -> "DEAD_LETTER"

\* Defect: one attempt too many.
OutcomeOffByOne(attempt, result) ==
    CASE result = "2xx" -> "DELIVERED"
      [] result \in Retryable \ Disabling /\ attempt <= MaxAttempts -> "RETRY"
      [] OTHER -> "DEAD_LETTER"

\* Defect: exhausted deliveries get a status the table does not know.
OutcomeFailed(attempt, result) ==
    CASE result = "2xx" -> "DELIVERED"
      [] result \in Retryable \ Disabling /\ attempt < MaxAttempts -> "RETRY"
      [] OTHER -> "FAILED"

Outcome(attempt, result) ==
    CASE result = "2xx" -> "DELIVERED"
      [] result \in Retryable \ Disabling /\ attempt < MaxAttempts -> "RETRY"
      [] OTHER -> "DEAD_LETTER"

(* Exponential backoff: the delay after the n-th attempt, which doubles from  *)
(* one attempt to the next and is the same from the eighth on.               *)
Doublings == <<1, 2, 4, 8, 16, 32, 64, 128>>

RetryDelay(n) ==
    LET delay == BaseDelay * Doublings[IF n <= 8 THEN n ELSE 8]
    IN  IF delay < MaxDelay THEN delay ELSE MaxDelay

------------------------------------------------------------------------------
Init ==
    /\ subStatus = [s \in Subs |-> "ACTIVE"]
    /\ subReason = [s \in Subs |-> "none"]
    /\ subFailures = [s \in Subs |-> 0]
    /\ dStatus = [d \in Deliveries |-> "none"]
    /\ dSub = [d \in Deliveries |-> NoSub]
    /\ dAttempts = [d \in Deliveries |-> 0]
    /\ dWait = [d \in Deliveries |-> 0]
    /\ dToken = [d \in Deliveries |-> NoToken]
    /\ dLease = [d \in Deliveries |-> 0]
    /\ dHttp = [d \in Deliveries |-> "NULL"]
    /\ dLog = [d \in Deliveries |-> <<>>]
    /\ wPc = [w \in Workers |-> "off"]
    /\ wLeft = [w \in Workers |-> 0]
    /\ wClaim = [w \in Workers |-> NoClaim]
    /\ wResult = [w \in Workers |-> "none"]
    /\ accepted = [d \in Deliveries |-> 0]
    /\ lapsed = {}
    /\ crashes = 0
    /\ overruns = 0

------------------------------------------------------------------------------
(* Rows enter the table PENDING and due at once, for an active subscription. *)

InsertDelivery(d, s) ==
    /\ ~Exists(d)
    /\ subStatus[s] = "ACTIVE"
    /\ dStatus' = [dStatus EXCEPT ![d] = "PENDING"]
    /\ dSub' = [dSub EXCEPT ![d] = s]
    /\ dWait' = [dWait EXCEPT ![d] = 0]
    /\ UNCHANGED <<subVars, dAttempts, dToken, dLease, dHttp, dLog, workerVars,
                   ghostVars, crashes, overruns>>

\* The outbox projection, or the administrator's test event.
Enqueue(d, s) == InsertDelivery(d, s)

\* An administrator replays a delivery that has ended.
Replay(d, source) ==
    /\ dStatus[source] \in Terminal
    /\ InsertDelivery(d, dSub[source])

\* An administrator changes the status of a subscription.
Patch(s, status) ==
    /\ subStatus' = [subStatus EXCEPT ![s] = status]
    /\ subReason' = [subReason EXCEPT ![s] =
                        CASE status = "DISABLED" -> "MANUAL"
                          [] status = "ACTIVE" -> "none"
                          [] OTHER -> @]
    /\ subFailures' = [subFailures EXCEPT ![s] = IF status = "ACTIVE" THEN 0 ELSE @]
    /\ UNCHANGED <<deliveryVars, workerVars, ghostVars, crashes, overruns>>

------------------------------------------------------------------------------
(* One maintenance cycle of a worker.                                        *)

\* The cycle is over; the worker's local state is gone with it.
LeaveCycle(w) ==
    /\ wPc' = [wPc EXCEPT ![w] = "off"]
    /\ wLeft' = [wLeft EXCEPT ![w] = 0]
    /\ wClaim' = [wClaim EXCEPT ![w] = NoClaim]
    /\ wResult' = [wResult EXCEPT ![w] = "none"]

StartCycle(w) ==
    /\ wPc[w] = "off"
    /\ wPc' = [wPc EXCEPT ![w] = "loop"]
    /\ wLeft' = [wLeft EXCEPT ![w] = CycleBatch]
    /\ UNCHANGED <<subVars, deliveryVars, wClaim, wResult, ghostVars,
                   crashes, overruns>>

\* Defect: abandoned leases are never recovered.
ClaimableWaiting ==
    {d \in Deliveries :
        /\ Exists(d)
        /\ subStatus[dSub[d]] = "ACTIVE"
        /\ dStatus[d] \in Waiting
        /\ dWait[d] <= 0}

\* Defect: the lease expiry is not compared with now().
ClaimableUnexpired ==
    {d \in Deliveries :
        /\ Exists(d)
        /\ subStatus[dSub[d]] = "ACTIVE"
        /\ \/ dStatus[d] \in Waiting /\ dWait[d] <= 0
           \/ dStatus[d] = "PROCESSING"}

Claimable ==
    {d \in Deliveries :
        /\ Exists(d)
        /\ subStatus[dSub[d]] = "ACTIVE"
        /\ \/ dStatus[d] \in Waiting /\ dWait[d] <= 0
           \/ dStatus[d] = "PROCESSING" /\ dLease[d] <= 0}

\* Rows a completing worker may hold locked, which SKIP LOCKED passes over.
Lockable ==
    {wClaim[w].delivery : w \in {v \in Workers :
        wPc[v] = "complete" /\ dToken[wClaim[v].delivery] = wClaim[v].token}}

\* d is what the candidate query may return: the longest due unlocked row.
NextCandidate(d) ==
    /\ d \in Claimable
    /\ \A e \in Claimable \ Lockable : dWait[d] <= dWait[e]

\* Defect: lease tokens are not fresh.
FreshAlways(t) == TRUE

(* crypto.randomUUID(): a token no row and no worker still refers to.        *)
Fresh(t) ==
    /\ \A d \in Deliveries : dToken[d] # t
    /\ \A w \in Workers : wClaim[w].token # t

Claim(w, d, t) ==
    /\ wPc[w] = "loop"
    /\ wLeft[w] > 0
    /\ NextCandidate(d)
    /\ Fresh(t)
    /\ dStatus' = [dStatus EXCEPT ![d] = "PROCESSING"]
    /\ dToken' = [dToken EXCEPT ![d] = t]
    /\ dLease' = [dLease EXCEPT ![d] = LeaseTicks]
    /\ wClaim' = [wClaim EXCEPT ![w] =
                    [delivery |-> d, token |-> t, attempts |-> dAttempts[d]]]
    /\ wPc' = [wPc EXCEPT ![w] = "post"]
    /\ UNCHANGED <<subVars, dSub, dAttempts, dWait, dHttp, dLog, wLeft, wResult,
                   ghostVars, crashes, overruns>>

\* Nothing to claim, or the cycle has had its batch.
EndCycle(w) ==
    /\ wPc[w] = "loop"
    /\ wLeft[w] = 0 \/ Claimable \subseteq Lockable
    /\ LeaveCycle(w)
    /\ UNCHANGED <<subVars, deliveryVars, ghostVars, crashes, overruns>>

\* The POST and its result.  After a network error the endpoint may have
\* accepted the event all the same: only the answer was lost.
Post(w, result, lost) ==
    LET d == wClaim[w].delivery
        arrived == result = "2xx" \/ lost
    IN  /\ wPc[w] = "post"
        /\ lost => result = "network"
        /\ accepted' = IF arrived THEN [accepted EXCEPT ![d] = @ + 1] ELSE accepted
        /\ lapsed' = IF lost THEN lapsed \union {d} ELSE lapsed
        /\ wResult' = [wResult EXCEPT ![w] = result]
        /\ wPc' = [wPc EXCEPT ![w] = "complete"]
        /\ UNCHANGED <<subVars, deliveryVars, wLeft, wClaim, crashes, overruns>>

\* Defect: the completion does not compare lease tokens.
HoldsLeaseOfAnyToken(w) ==
    /\ wPc[w] \in {"post", "complete"}
    /\ dStatus[wClaim[w].delivery] = "PROCESSING"

HoldsLease(w) ==
    /\ wPc[w] \in {"post", "complete"}
    /\ dStatus[wClaim[w].delivery] = "PROCESSING"
    /\ dToken[wClaim[w].delivery] = wClaim[w].token

\* The completion transaction of the lease holder, if the tables take its status.
Complete(w) ==
    LET d == wClaim[w].delivery
        s == dSub[d]
        outcome == Outcome(wClaim[w].attempts + 1, wResult[w])
        disable == wResult[w] \in Disabling
    IN  /\ wPc[w] = "complete"
        /\ HoldsLease(w)
        /\ HttpStatus(wResult[w]) \in Storable
        /\ dHttp' = [dHttp EXCEPT ![d] = HttpStatus(wResult[w])]
        /\ dLog' = [dLog EXCEPT ![d] = Append(@, outcome)]
        /\ dStatus' = [dStatus EXCEPT ![d] = outcome]
        /\ dAttempts' = [dAttempts EXCEPT ![d] = @ + 1]
        /\ dWait' = [dWait EXCEPT ![d] =
                        IF outcome = "RETRY" THEN RetryDelay(wClaim[w].attempts + 1) ELSE 0]
        /\ dToken' = [dToken EXCEPT ![d] = NoToken]
        /\ dLease' = [dLease EXCEPT ![d] = 0]
        /\ subFailures' = [subFailures EXCEPT ![s] = IF outcome = "DELIVERED" THEN 0 ELSE @ + 1]
        /\ subStatus' = [subStatus EXCEPT ![s] = IF disable THEN "DISABLED" ELSE @]
        /\ subReason' = [subReason EXCEPT ![s] = IF disable THEN "REMOTE" ELSE @]
        /\ wPc' = [wPc EXCEPT ![w] = "loop"]
        /\ wLeft' = [wLeft EXCEPT ![w] = @ - 1]
        /\ wClaim' = [wClaim EXCEPT ![w] = NoClaim]
        /\ wResult' = [wResult EXCEPT ![w] = "none"]
        /\ UNCHANGED <<dSub, ghostVars, crashes, overruns>>

\* A CHECK on http_status refuses the attempt row: the transaction is rolled
\* back, the exception ends the cycle, and the lease stays until it expires.
CompletionRefused(w) ==
    /\ wPc[w] = "complete"
    /\ HoldsLease(w)
    /\ HttpStatus(wResult[w]) \notin Storable
    /\ LeaveCycle(w)
    /\ UNCHANGED <<subVars, deliveryVars, ghostVars, crashes, overruns>>

\* WEBHOOK_DELIVERY_LEASE_LOST: the exception ends the cycle.
LeaseLost(w) ==
    /\ wPc[w] = "complete"
    /\ ~HoldsLease(w)
    /\ LeaveCycle(w)
    /\ UNCHANGED <<subVars, deliveryVars, ghostVars, crashes, overruns>>

\* The process dies, or a database call throws: the claim is forgotten.
Crash(w) ==
    /\ wPc[w] # "off"
    /\ crashes < MaxCrashes
    /\ crashes' = crashes + 1
    /\ LeaveCycle(w)
    /\ UNCHANGED <<subVars, deliveryVars, ghostVars, overruns>>

\* Deliveries whose lease the next tick takes from a live worker.
Overrunning ==
    {d \in Deliveries : dLease[d] = 1 /\ \E w \in Workers : HoldsLease(w) /\ wClaim[w].delivery = d}

Tick ==
    /\ IF Overrunning = {} THEN UNCHANGED overruns
       ELSE overruns < MaxOverruns /\ overruns' = overruns + 1
    /\ dWait' = [d \in Deliveries |->
                    IF Open(d) /\ dWait[d] > -AgeCap THEN dWait[d] - 1 ELSE dWait[d]]
    /\ dLease' = [d \in Deliveries |-> IF dLease[d] > 0 THEN dLease[d] - 1 ELSE 0]
    /\ lapsed' = lapsed \union {d \in Deliveries : dLease[d] = 1}
    /\ UNCHANGED <<subVars, dStatus, dSub, dAttempts, dToken, dHttp, dLog, workerVars,
                   accepted, crashes>>

WorkerStep(w) ==
    \/ StartCycle(w)
    \/ \E d \in Deliveries, t \in Tokens : Claim(w, d, t)
    \/ EndCycle(w)
    \/ \E result \in Results, lost \in BOOLEAN : Post(w, result, lost)
    \/ Complete(w)
    \/ CompletionRefused(w)
    \/ LeaseLost(w)

AdminStep ==
    \/ \E d \in Deliveries, s \in Subs : Enqueue(d, s)
    \/ \E d, source \in Deliveries : Replay(d, source)
    \/ \E s \in Subs, status \in {"ACTIVE", "PAUSED", "DISABLED"} : Patch(s, status)

Next ==
    \/ AdminStep
    \/ \E w \in Workers : WorkerStep(w) \/ Crash(w)
    \/ Tick

(* The timer of every live process fires again and again, a POST has a       *)
(* timeout, database calls return, and time passes.                          *)
Fairness == WF_vars(Tick) /\ \A w \in Workers : WF_vars(WorkerStep(w))

Spec == Init /\ [][Next]_vars
FairSpec == Spec /\ Fairness

------------------------------------------------------------------------------
(* Properties                                                                *)

SubStatuses == {"ACTIVE", "PAUSED", "DISABLED"}
Reasons == {"none", "MANUAL", "REMOTE"}
LogOutcomes == {"DELIVERED", "RETRY", "DEAD_LETTER"}
Statuses == {"none", "PENDING", "PROCESSING", "RETRY", "DELIVERED", "DEAD_LETTER"}
Claims == [delivery : Deliveries \union {NoDelivery}, token : Tokens \union {NoToken}, attempts : Nat]

\* Every variable has its type: the column types and CHECK constraints.
TypeOK ==
    /\ subStatus \in [Subs -> SubStatuses]
    /\ subReason \in [Subs -> Reasons]
    /\ subFailures \in [Subs -> Nat]
    /\ dStatus \in [Deliveries -> Statuses]
    /\ dSub \in [Deliveries -> Subs \union {NoSub}]
    /\ dAttempts \in [Deliveries -> Nat]
    /\ dWait \in [Deliveries -> Int]
    /\ dToken \in [Deliveries -> Tokens \union {NoToken}]
    /\ dLease \in [Deliveries -> Nat]
    /\ dHttp \in [Deliveries -> {"NULL", "100..599", "other"}]
    /\ dLog \in [Deliveries -> Seq(LogOutcomes)]
    /\ wPc \in [Workers -> {"off", "loop", "post", "complete"}]
    /\ wLeft \in [Workers -> Nat]
    /\ wClaim \in [Workers -> Claims]
    /\ wResult \in [Workers -> Results \union {"none"}]
    /\ accepted \in [Deliveries -> Nat]
    /\ lapsed \subseteq Deliveries
    /\ crashes \in Nat
    /\ overruns \in Nat

\* The rows satisfy the tables' constraints: a row has a token exactly while it
\* is being processed, as many attempt rows as its counter says, at most
\* MaxAttempts, and a status in range.
RowsFit ==
    \A d \in Deliveries :
        /\ dStatus[d] = "PROCESSING" <=> dToken[d] # NoToken
        /\ dAttempts[d] = Len(dLog[d])
        /\ dAttempts[d] <= MaxAttempts
        /\ dHttp[d] \in {"NULL", "100..599"}

\* The attempt number a lease holder is about to insert is free and in range.
CompletionsFit ==
    \A w \in Workers : HoldsLease(w) =>
        /\ dAttempts[wClaim[w].delivery] = Len(dLog[wClaim[w].delivery])
        /\ dAttempts[wClaim[w].delivery] < MaxAttempts

\* The constraints of the delivery tables hold, and of those that a completion
\* could run into only the two CHECKs on http_status ever refuse one.
ConstraintsHold == RowsFit /\ CompletionsFit

\* The attempt rows tell the story of the delivery: every attempt but the last
\* was a RETRY, the last one agrees with the status of the row, and a row that
\* may still be attempted has attempts left.
AttemptTrail ==
    \A d \in Deliveries :
        /\ \A i \in 1..Len(dLog[d]) : dLog[d][i] # "RETRY" => i = Len(dLog[d]) /\ dStatus[d] = dLog[d][i]
        /\ dStatus[d] \in Terminal => Len(dLog[d]) > 0 /\ dLog[d][Len(dLog[d])] = dStatus[d]
        /\ Open(d) => dAttempts[d] < MaxAttempts

\* Two workers never both hold the lease of a delivery, however late they are.
OneLeaseHolder ==
    \A v, w \in Workers :
        HoldsLease(v) /\ HoldsLease(w) /\ wClaim[v].delivery = wClaim[w].delivery => v = w

\* The outcome is computed from the attempt count read by the claim, long before
\* the completion: whoever may complete still sees the current count.
ClaimCountIsCurrent ==
    \A w \in Workers : HoldsLease(w) => wClaim[w].attempts = dAttempts[wClaim[w].delivery]

\* A delivery recorded DELIVERED was accepted by its endpoint.
DeliveredWasAccepted ==
    \A d \in Deliveries : dStatus[d] = "DELIVERED" => accepted[d] > 0

\* An endpoint sees a delivery twice only after a lease ran out or an answer was
\* lost: the duplicates at-least-once delivery admits, and no others.
NoUnprovokedDuplicate ==
    \A d \in Deliveries : accepted[d] > 1 => d \in lapsed

\* A delivery that ended is never attempted, recorded or reopened again: a replay
\* is another row.
EndedIsFinal ==
    [][\A d \in Deliveries : dStatus[d] \in Terminal =>
            UNCHANGED <<dStatus[d], dSub[d], dAttempts[d], dToken[d], dLog[d]>>]_vars

\* No delivery of an active subscription is left to be attempted.
AllEnded ==
    \A d \in Deliveries :
        Exists(d) => \/ dStatus[d] \in Terminal
                     \/ \E s \in Subs : dSub[d] = s /\ subStatus[s] # "ACTIVE"

\* Every delivery ends, however workers crash, unless its subscription stops
\* being active on the way: again and again none is left.  The one exception are
\* endpoints that answer again and again with a status the tables cannot store.
EveryDeliveryEnds ==
    \/ []<>AllEnded
    \/ []<>(\E w \in Workers : wPc[w] = "complete" /\ wResult[w] = "undefined")

\* The worker implements the contract of module DeliveryContract.
Contract == INSTANCE DeliveryContract WITH
    state <- [d \in Deliveries |-> IF Open(d) THEN "open" ELSE dStatus[d]],
    tries <- dAttempts,
    reached <- {d \in Deliveries : accepted[d] > 0}
ImplementsContract == Contract!Spec
==============================================================================
