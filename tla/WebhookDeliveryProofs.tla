----------------------- MODULE WebhookDeliveryProofs -----------------------
(* Proofs about WebhookDelivery: type correctness, exclusive leases, the     *)
(* attempt trail, the contract and duplicates, for any number of deliveries, *)
(* workers and attempts.                                                     *)
EXTENDS WebhookDelivery, TLAPS

USE AttemptsAssumption, BatchAssumption, TimeAssumption, BoundAssumption, NullAssumption

LEMMA RetryDelayType ==
    ASSUME NEW n \in Nat \ {0}
    PROVE  RetryDelay(n) \in Nat
<1>1. Doublings[IF n <= 8 THEN n ELSE 8] \in Nat
  BY DEF Doublings
<1>. QED
  BY <1>1 DEF RetryDelay

LEMMA OutcomeType ==
    ASSUME NEW n, NEW r
    PROVE  Outcome(n, r) \in LogOutcomes
BY DEF Outcome, LogOutcomes

------------------------------------------------------------------------------
(* Shape: what links the types of several variables.  A worker has a claim   *)
(* exactly while it posts or completes, and a row in the table belongs to a  *)
(* subscription.                                                             *)
ClaimShape ==
    \A w \in Workers :
        IF wPc[w] \in {"post", "complete"}
        THEN /\ wClaim[w].delivery \in Deliveries
             /\ wClaim[w].token \in Tokens
             /\ wLeft[w] > 0
             /\ wPc[w] = "complete" => wResult[w] \in Results
        ELSE wClaim[w] = NoClaim

RowShape == \A d \in Deliveries : Exists(d) => dSub[d] \in Subs

Shape == TypeOK /\ ClaimShape /\ RowShape

LEMMA InitShape == Init => Shape
BY DEF Init, Shape, TypeOK, ClaimShape, RowShape, NoClaim, Claims, SubStatuses, Reasons,
       Statuses, Exists

LEMMA InsertShape ==
    ASSUME Shape, NEW d \in Deliveries, NEW s \in Subs, InsertDelivery(d, s)
    PROVE  Shape'
<1>1. TypeOK'
  BY DEF Shape, TypeOK, InsertDelivery, subVars, workerVars, ghostVars, Statuses
<1>2. ClaimShape'
  BY DEF Shape, ClaimShape, InsertDelivery, workerVars
<1>3. RowShape'
  BY DEF Shape, RowShape, TypeOK, InsertDelivery, Exists
<1>. QED
  BY <1>1, <1>2, <1>3 DEF Shape

LEMMA CompleteShape ==
    ASSUME Shape, NEW w \in Workers, Complete(w)
    PROVE  Shape'
<1>. DEFINE d == wClaim[w].delivery
            n == wClaim[w].attempts + 1
            outcome == Outcome(n, wResult[w])
<1>1. /\ d \in Deliveries
      /\ dSub[d] \in Subs
      /\ wLeft[w] - 1 \in Nat
      /\ n \in Nat \ {0}
  BY DEF Shape, ClaimShape, RowShape, TypeOK, Claims, Complete, HoldsLease, Exists
<1>2. RetryDelay(n) \in Nat /\ outcome \in LogOutcomes
  BY <1>1, RetryDelayType, OutcomeType
<1>3. Append(dLog[d], outcome) \in Seq(LogOutcomes)
  BY <1>1, <1>2 DEF Shape, TypeOK
<1>. HIDE DEF d, n, outcome
<1>4. TypeOK'
  <2>0. dHttp' \in [Deliveries -> {"NULL", "100..599", "other"}]
    <3>1. dHttp' = [dHttp EXCEPT ![d] = HttpStatus(wResult[w])]
      BY DEF Complete, d
    <3>2. HttpStatus(wResult[w]) \in {"NULL", "100..599", "other"}
      BY DEF HttpStatus
    <3>. QED
      BY <3>1, <3>2 DEF Shape, TypeOK
  <2>1. /\ dLog' = [dLog EXCEPT ![d] = Append(@, outcome)]
        /\ dStatus' = [dStatus EXCEPT ![d] = outcome]
        /\ dWait' = [dWait EXCEPT ![d] = IF outcome = "RETRY" THEN RetryDelay(n) ELSE 0]
        /\ dAttempts' = [dAttempts EXCEPT ![d] = @ + 1]
        /\ dToken' = [dToken EXCEPT ![d] = NoToken]
        /\ dLease' = [dLease EXCEPT ![d] = 0]
        /\ dSub' = dSub
    BY DEF Complete, d, n, outcome
  <2>2. /\ dStatus' \in [Deliveries -> Statuses]
        /\ dLog' \in [Deliveries -> Seq(LogOutcomes)]
        /\ dWait' \in [Deliveries -> Int]
        /\ dAttempts' \in [Deliveries -> Nat]
        /\ dToken' \in [Deliveries -> Tokens \union {NoToken}]
        /\ dLease' \in [Deliveries -> Nat]
    <3>1. outcome \in Statuses
      BY <1>2 DEF Statuses, LogOutcomes
    <3>2. /\ dStatus \in [Deliveries -> Statuses] /\ dLog \in [Deliveries -> Seq(LogOutcomes)]
          /\ dWait \in [Deliveries -> Int] /\ dAttempts \in [Deliveries -> Nat]
          /\ dToken \in [Deliveries -> Tokens \union {NoToken}]
          /\ dLease \in [Deliveries -> Nat]
      BY DEF Shape, TypeOK
    <3>. HIDE DEF d, n, outcome
    <3>3. dLog' \in [Deliveries -> Seq(LogOutcomes)]
      <4>1. Append(dLog[d], outcome) \in Seq(LogOutcomes)
        BY <1>1, <1>2, <3>2
      <4>. QED
        BY <2>1, <3>2, <4>1
    <3>4. dStatus' \in [Deliveries -> Statuses]
      BY <2>1, <3>1, <3>2
    <3>5. dWait' \in [Deliveries -> Int]
      <4>1. (IF outcome = "RETRY" THEN RetryDelay(n) ELSE 0) \in Int
        BY <1>2
      <4>. QED
        BY <1>1, <2>1, <3>2, <4>1
    <3>6. dAttempts' \in [Deliveries -> Nat]
      BY <1>1, <2>1, <3>2
    <3>7. dToken' \in [Deliveries -> Tokens \union {NoToken}]
      BY <2>1, <3>2
    <3>8. dLease' \in [Deliveries -> Nat]
      BY <2>1, <3>2
    <3>. QED
      BY <3>3, <3>4, <3>5, <3>6, <3>7, <3>8
  <2>3. /\ subStatus' \in [Subs -> SubStatuses]
        /\ subReason' \in [Subs -> Reasons]
    BY <1>1 DEF Shape, TypeOK, Complete, SubStatuses, Reasons, d
  <2>4. subFailures' \in [Subs -> Nat]
    <3>1. subFailures' = [subFailures EXCEPT ![dSub[d]] =
                            IF outcome = "DELIVERED" THEN 0 ELSE @ + 1]
      BY DEF Complete, d, n, outcome
    <3>. QED
      BY <1>1, <3>1 DEF Shape, TypeOK
  <2>5. /\ wPc' \in [Workers -> {"off", "loop", "post", "complete"}]
        /\ wLeft' \in [Workers -> Nat]
        /\ wClaim' \in [Workers -> Claims]
        /\ wResult' \in [Workers -> Results \union {"none"}]
    BY <1>1 DEF Shape, TypeOK, Complete, Claims, NoClaim
  <2>6. /\ dSub' \in [Deliveries -> Subs \union {NoSub}]
        /\ accepted' \in [Deliveries -> Nat] /\ lapsed' \subseteq Deliveries
        /\ crashes' \in Nat /\ overruns' \in Nat
    <3>1. UNCHANGED <<dSub, accepted, lapsed, crashes, overruns>>
      BY DEF Complete, ghostVars
    <3>. QED
      BY <3>1 DEF Shape, TypeOK
  <2>. QED
    BY <2>0, <2>2, <2>3, <2>4, <2>5, <2>6 DEF TypeOK
<1>5. ClaimShape'
  BY DEF Shape, ClaimShape, TypeOK, Complete
<1>6. RowShape'
  BY <1>1 DEF Shape, RowShape, TypeOK, Complete, HoldsLease, Exists, d
<1>. QED
  BY <1>4, <1>5, <1>6 DEF Shape

LEMMA ShapeStep == Shape /\ [Next]_vars => Shape'
<1>. SUFFICES ASSUME Shape, [Next]_vars PROVE Shape'
  OBVIOUS
<1>. USE DEF Shape, TypeOK, ClaimShape, RowShape, Exists, subVars, deliveryVars, workerVars,
             ghostVars
<1>1. CASE UNCHANGED vars
  BY <1>1 DEF vars
<1>2. ASSUME NEW d \in Deliveries, NEW s \in Subs, Enqueue(d, s) PROVE Shape'
  BY <1>2, InsertShape DEF Enqueue
<1>3. ASSUME NEW d \in Deliveries, NEW source \in Deliveries, Replay(d, source)
      PROVE  Shape'
  <2>1. dSub[source] \in Subs
    BY <1>3 DEF Replay, Terminal
  <2>. QED
    BY <1>3, <2>1, InsertShape DEF Replay
<1>4. ASSUME NEW s \in Subs, NEW status \in SubStatuses, Patch(s, status) PROVE Shape'
  BY <1>4 DEF Patch, SubStatuses, Reasons
<1>5. ASSUME NEW w \in Workers, StartCycle(w) PROVE Shape'
  BY <1>5 DEF StartCycle
<1>6. ASSUME NEW w \in Workers, NEW d \in Deliveries, NEW t \in Tokens, Claim(w, d, t)
      PROVE  Shape'
  <2>1. TypeOK'
    BY <1>6 DEF Claim, Claims, Statuses
  <2>2. ClaimShape'
    BY <1>6 DEF Claim
  <2>3. RowShape'
    BY <1>6 DEF Claim, NextCandidate, Claimable
  <2>. QED
    BY <2>1, <2>2, <2>3
<1>7. ASSUME NEW w \in Workers, LeaveCycle(w), UNCHANGED <<subVars, deliveryVars, ghostVars>>,
             crashes' \in Nat, UNCHANGED overruns
      PROVE  Shape'
  BY <1>7 DEF LeaveCycle, NoClaim, Claims
<1>8. ASSUME NEW w \in Workers,
             EndCycle(w) \/ CompletionRefused(w) \/ LeaseLost(w) \/ Crash(w)
      PROVE  Shape'
  BY <1>7, <1>8 DEF EndCycle, CompletionRefused, LeaseLost, Crash
<1>9. ASSUME NEW w \in Workers, NEW result \in Results, NEW lost \in BOOLEAN,
             Post(w, result, lost)
      PROVE  Shape'
  <2>1. wClaim[w].delivery \in Deliveries
    BY <1>9 DEF Post
  <2>2. accepted' \in [Deliveries -> Nat] /\ lapsed' \subseteq Deliveries
    BY <1>9, <2>1 DEF Post
  <2>3. TypeOK'
    BY <1>9, <2>2 DEF Post
  <2>4. ClaimShape' /\ RowShape'
    BY <1>9 DEF Post
  <2>. QED
    BY <2>3, <2>4
<1>10. ASSUME NEW w \in Workers, Complete(w) PROVE Shape'
  BY <1>10, CompleteShape
<1>11. CASE Tick
  BY <1>11 DEF Tick
<1>. HIDE DEF Shape
<1>. QED
  BY <1>1, <1>2, <1>3, <1>4, <1>5, <1>6, <1>8, <1>9, <1>10, <1>11
  DEF Next, AdminStep, WorkerStep, SubStatuses

(* Type correctness of the delivery worker and its tables.                   *)
THEOREM TypeCorrect == Spec => []TypeOK
<1>1. Spec => []Shape
  BY InitShape, ShapeStep, PTL DEF Spec
<1>. QED
  BY <1>1, PTL DEF Shape

------------------------------------------------------------------------------
(* The inductive invariant.  OneLeaseHolder and ClaimCountIsCurrent are not  *)
(* inductive alone: a token must also never be shared by two claims, and a   *)
(* row that does not exist must have no history.                             *)
Active(w) == wPc[w] \in {"post", "complete"}

DistinctTokens ==
    \A v, w \in Workers : Active(v) /\ Active(w) /\ wClaim[v].token = wClaim[w].token => v = w

NoHistory == \A d \in Deliveries : dStatus[d] \in {"none", "PENDING"} => dLog[d] = <<>>

IInv == Shape /\ RowsFit /\ AttemptTrail /\ DistinctTokens /\ ClaimCountIsCurrent /\ NoHistory

LEMMA InitIInv == Init => IInv
<1>. SUFFICES ASSUME Init PROVE IInv
  OBVIOUS
<1>1. Shape
  BY InitShape
<1>2. RowsFit /\ AttemptTrail /\ NoHistory
  BY DEF Init, RowsFit, AttemptTrail, NoHistory, Terminal, Open, Waiting
<1>3. DistinctTokens /\ ClaimCountIsCurrent
  BY DEF Init, DistinctTokens, ClaimCountIsCurrent, HoldsLease, Active
<1>. QED
  BY <1>1, <1>2, <1>3 DEF IInv

LEMMA InsertIInv ==
    ASSUME IInv, NEW d \in Deliveries, NEW s \in Subs, InsertDelivery(d, s)
    PROVE  IInv'
<1>. USE DEF IInv
<1>1. Shape'
  BY InsertShape
<1>2. RowsFit' /\ AttemptTrail' /\ NoHistory'
  BY DEF Shape, TypeOK, RowsFit, AttemptTrail, NoHistory, InsertDelivery, Exists,
         Terminal, Open, Waiting
<1>3. DistinctTokens'
  BY DEF DistinctTokens, Active, InsertDelivery, workerVars
<1>4. ClaimCountIsCurrent'
  BY DEF Shape, TypeOK, ClaimShape, ClaimCountIsCurrent, HoldsLease, InsertDelivery,
         workerVars, Exists
<1>. QED
  BY <1>1, <1>2, <1>3, <1>4

LEMMA ClaimIInv ==
    ASSUME IInv, NEW w \in Workers, NEW d \in Deliveries, NEW t \in Tokens, Claim(w, d, t), Shape'
    PROVE  IInv'
<1>. USE DEF IInv
<1>1. Open(d) /\ wPc[w] = "loop" /\ Fresh(t)
  BY DEF Claim, NextCandidate, Claimable, Open
<1>2. RowsFit'
  BY <1>1 DEF Shape, TypeOK, RowsFit, Claim
<1>3. AttemptTrail' /\ NoHistory'
  <2>1. /\ dStatus' = [dStatus EXCEPT ![d] = "PROCESSING"]
        /\ UNCHANGED <<dLog, dAttempts>>
        /\ dStatus \in [Deliveries -> Statuses]
    BY DEF Claim, Shape, TypeOK
  <2>2. AttemptTrail'
    <3>1. \A i \in 1..Len(dLog[d]) : dLog[d][i] = "RETRY"
      <4>1. \A i \in 1..Len(dLog[d]) : dLog[d][i] \in LogOutcomes
        BY DEF Shape, TypeOK
      <4>2. \A i \in 1..Len(dLog[d]) : dLog[d][i] # "RETRY" => dLog[d][i] = dStatus[d]
        BY DEF AttemptTrail
      <4>. QED
        BY <1>1, <4>1, <4>2 DEF LogOutcomes, Open, Waiting
    <3>2. \A e \in Deliveries : e # d => dStatus'[e] = dStatus[e]
      BY <2>1
    <3>3. dStatus'[d] = "PROCESSING"
      BY <2>1
    <3>. QED
      BY <1>1, <2>1, <3>1, <3>2, <3>3 DEF AttemptTrail, Terminal, Open, Waiting
  <2>3. NoHistory'
    BY <2>1 DEF NoHistory
  <2>. QED
    BY <2>2, <2>3
<1>4. DistinctTokens'
  BY <1>1 DEF Shape, TypeOK, DistinctTokens, Active, Claim, Fresh
<1>5. ClaimCountIsCurrent'
  BY <1>1 DEF Shape, TypeOK, ClaimShape, ClaimCountIsCurrent, HoldsLease, Claim, Fresh
<1>. QED
  BY <1>2, <1>3, <1>4, <1>5

LEMMA CompleteIInv ==
    ASSUME IInv, NEW w \in Workers, Complete(w)
    PROVE  IInv'
<1>. USE DEF IInv
<1>. DEFINE d == wClaim[w].delivery
            n == wClaim[w].attempts + 1
            outcome == Outcome(n, wResult[w])
<1>1. /\ d \in Deliveries
      /\ dStatus[d] = "PROCESSING"
      /\ n = dAttempts[d] + 1
      /\ n \in 1..MaxAttempts
  BY DEF Shape, ClaimShape, TypeOK, Complete, HoldsLease, ClaimCountIsCurrent, AttemptTrail,
         Open
<1>2. /\ outcome \in LogOutcomes
      /\ outcome = "RETRY" => n < MaxAttempts
  BY DEF Outcome, LogOutcomes
<1>3. Shape'
  BY CompleteShape
<1>. HIDE DEF d, n, outcome
<1>4. /\ dLog' = [dLog EXCEPT ![d] = Append(@, outcome)]
      /\ dStatus' = [dStatus EXCEPT ![d] = outcome]
      /\ dAttempts' = [dAttempts EXCEPT ![d] = @ + 1]
      /\ dToken' = [dToken EXCEPT ![d] = NoToken]
      /\ dHttp' = [dHttp EXCEPT ![d] = HttpStatus(wResult[w])]
      /\ HttpStatus(wResult[w]) \in {"NULL", "100..599"}
  BY DEF Complete, Storable, d, n, outcome
<1>5. /\ dLog[d] \in Seq(LogOutcomes)
      /\ Len(dLog'[d]) = Len(dLog[d]) + 1
      /\ dLog'[d][Len(dLog[d]) + 1] = outcome
      /\ \A i \in 1..Len(dLog[d]) : dLog'[d][i] = dLog[d][i]
  BY <1>1, <1>2, <1>4 DEF Shape, TypeOK
<1>6. RowsFit'
  BY <1>1, <1>2, <1>4, <1>5 DEF Shape, TypeOK, RowsFit, LogOutcomes
<1>7. AttemptTrail'
  <2>. SUFFICES ASSUME NEW e \in Deliveries
       PROVE  /\ \A i \in 1..Len(dLog'[e]) :
                    dLog'[e][i] # "RETRY" => i = Len(dLog'[e]) /\ dStatus'[e] = dLog'[e][i]
              /\ dStatus'[e] \in Terminal =>
                    Len(dLog'[e]) > 0 /\ dLog'[e][Len(dLog'[e])] = dStatus'[e]
              /\ Open(e)' => dAttempts'[e] < MaxAttempts
    BY DEF AttemptTrail
  <2>1. CASE e # d
    BY <1>1, <1>4, <2>1 DEF Shape, TypeOK, AttemptTrail, Open
  <2>2. CASE e = d
    <3>1. \A i \in 1..Len(dLog[d]) : dLog[d][i] = "RETRY"
      <4>1. \A i \in 1..Len(dLog[d]) : dLog[d][i] \in LogOutcomes
        BY <1>5
      <4>2. \A i \in 1..Len(dLog[d]) : dLog[d][i] # "RETRY" => dStatus[d] = dLog[d][i]
        BY <1>1 DEF AttemptTrail
      <4>3. "PROCESSING" \notin LogOutcomes
        BY DEF LogOutcomes
      <4>. QED
        BY <1>1, <4>1, <4>2, <4>3
    <3>2. dStatus'[d] = outcome /\ dAttempts'[d] = n
      BY <1>1, <1>4 DEF Shape, TypeOK
    <3>3. Len(dLog[d]) \in Nat
      BY <1>5
    <3>4. \A i \in 1..Len(dLog'[d]) : i # Len(dLog'[d]) => dLog'[d][i] = "RETRY"
      BY <1>5, <3>1, <3>3
    <3>5. outcome \in Terminal \/ (outcome = "RETRY" /\ n < MaxAttempts)
      BY <1>2 DEF LogOutcomes, Terminal
    <3>6. dLog'[d][Len(dLog'[d])] = outcome /\ Len(dLog'[d]) > 0
      BY <1>5, <3>3
    <3>. QED
      BY <2>2, <3>2, <3>4, <3>5, <3>6 DEF Open, Waiting, Terminal
  <2>. QED
    BY <2>1, <2>2
<1>8. NoHistory'
  BY <1>1, <1>2, <1>4 DEF NoHistory, Shape, TypeOK, LogOutcomes
<1>9. DistinctTokens'
  BY DEF DistinctTokens, Active, Complete, Shape, TypeOK
<1>10. ClaimCountIsCurrent'
  <2>. SUFFICES ASSUME NEW v \in Workers, HoldsLease(v)'
       PROVE  wClaim'[v].attempts = dAttempts'[wClaim'[v].delivery]
    BY DEF ClaimCountIsCurrent
  <2>1. v # w /\ wClaim'[v] = wClaim[v] /\ wPc'[v] = wPc[v]
    BY DEF HoldsLease, Complete, Shape, TypeOK
  <2>2. wClaim[v].delivery \in Deliveries /\ wClaim[v].token \in Tokens
    BY <2>1 DEF HoldsLease, Shape, ClaimShape
  <2>3. wClaim[v].delivery # d
    BY <1>1, <1>4, <2>1, <2>2 DEF HoldsLease, Shape, TypeOK
  <2>. QED
    BY <1>4, <2>1, <2>2, <2>3 DEF ClaimCountIsCurrent, HoldsLease, Shape, TypeOK
<1>. QED
  BY <1>3, <1>6, <1>7, <1>8, <1>9, <1>10

\* A step that leaves rows alone and claims nothing keeps the invariant.
LEMMA QuietIInv ==
    ASSUME IInv, Shape',
           UNCHANGED <<dStatus, dSub, dAttempts, dToken, dHttp, dLog>>,
           \A w \in Workers : Active(w)' => Active(w) /\ wClaim'[w] = wClaim[w]
    PROVE  IInv'
<1>. USE DEF IInv
<1>1. RowsFit' /\ AttemptTrail' /\ NoHistory'
  BY DEF RowsFit, AttemptTrail, NoHistory, Open
<1>2. DistinctTokens'
  BY DEF DistinctTokens
<1>3. ClaimCountIsCurrent'
  BY DEF ClaimCountIsCurrent, HoldsLease, Active
<1>. QED
  BY <1>1, <1>2, <1>3

LEMMA IInvStep == IInv /\ [Next]_vars => IInv'
<1>. SUFFICES ASSUME IInv, [Next]_vars PROVE IInv'
  OBVIOUS
<1>0. Shape /\ Shape'
  BY ShapeStep DEF IInv
<1>1. CASE UNCHANGED vars
  BY <1>0, <1>1, QuietIInv DEF vars, deliveryVars, workerVars, Active
<1>2. ASSUME NEW d \in Deliveries, NEW s \in Subs, Enqueue(d, s) PROVE IInv'
  BY <1>2, InsertIInv DEF Enqueue
<1>3. ASSUME NEW d \in Deliveries, NEW source \in Deliveries, Replay(d, source)
      PROVE  IInv'
  <2>1. dSub[source] \in Subs
    BY <1>0, <1>3 DEF Replay, Terminal, Shape, RowShape, Exists
  <2>. QED
    BY <1>3, <2>1, InsertIInv DEF Replay
<1>4. ASSUME NEW s \in Subs, NEW status \in SubStatuses, Patch(s, status) PROVE IInv'
  BY <1>0, <1>4, QuietIInv DEF Patch, deliveryVars, workerVars, Active
<1>5. ASSUME NEW w \in Workers, StartCycle(w) PROVE IInv'
  BY <1>0, <1>5, QuietIInv DEF StartCycle, deliveryVars, Active, Shape, TypeOK
<1>6. ASSUME NEW w \in Workers, NEW d \in Deliveries, NEW t \in Tokens, Claim(w, d, t)
      PROVE  IInv'
  BY <1>0, <1>6, ClaimIInv
<1>7. ASSUME NEW w \in Workers,
             EndCycle(w) \/ CompletionRefused(w) \/ LeaseLost(w) \/ Crash(w)
      PROVE  IInv'
  <2>1. \A v \in Workers : Active(v)' => Active(v) /\ wClaim'[v] = wClaim[v]
    BY <1>0, <1>7 DEF EndCycle, CompletionRefused, LeaseLost, Crash, LeaveCycle, Active, Shape, TypeOK
  <2>. QED
    BY <1>0, <1>7, <2>1, QuietIInv DEF EndCycle, CompletionRefused, LeaseLost, Crash, deliveryVars
<1>8. ASSUME NEW w \in Workers, NEW result \in Results, NEW lost \in BOOLEAN,
             Post(w, result, lost)
      PROVE  IInv'
  <2>1. \A v \in Workers : Active(v)' => Active(v) /\ wClaim'[v] = wClaim[v]
    BY <1>0, <1>8 DEF Post, Active, Shape, TypeOK
  <2>. QED
    BY <1>0, <1>8, <2>1, QuietIInv DEF Post, deliveryVars
<1>9. ASSUME NEW w \in Workers, Complete(w) PROVE IInv'
  BY <1>9, CompleteIInv
<1>10. CASE Tick
  BY <1>0, <1>10, QuietIInv DEF Tick, workerVars, Active
<1>. QED
  BY <1>1, <1>2, <1>3, <1>4, <1>5, <1>6, <1>7, <1>8, <1>9, <1>10
  DEF Next, AdminStep, WorkerStep, SubStatuses

LEMMA Invariance == Spec => []IInv
BY InitIInv, IInvStep, PTL DEF Spec

(* Two workers never both hold the lease of one delivery.                    *)
THEOREM LeaseIsExclusive == Spec => []OneLeaseHolder
<1>1. IInv => OneLeaseHolder
  BY DEF IInv, DistinctTokens, OneLeaseHolder, HoldsLease, Active
<1>. QED
  BY <1>1, Invariance, PTL

(* The rows satisfy the constraints of the delivery tables, and whoever may  *)
(* complete a delivery inserts an attempt number that is free and in range,  *)
(* however many workers are late: of the constraints on the attempt row only *)
(* the CHECK of http_status can refuse it.                                   *)
THEOREM OnlyStatusesAreRefused == Spec => []ConstraintsHold
<1>1. IInv => ConstraintsHold
  <2>. SUFFICES ASSUME IInv, NEW w \in Workers, HoldsLease(w)
       PROVE  /\ dAttempts[wClaim[w].delivery] = Len(dLog[wClaim[w].delivery])
              /\ dAttempts[wClaim[w].delivery] < MaxAttempts
    BY DEF IInv, ConstraintsHold, CompletionsFit
  <2>1. wClaim[w].delivery \in Deliveries /\ Open(wClaim[w].delivery)
    BY DEF IInv, Shape, ClaimShape, HoldsLease, Open
  <2>. QED
    BY <2>1 DEF IInv, RowsFit, AttemptTrail
<1>. QED
  BY <1>1, Invariance, PTL

(* The attempt rows agree with the delivery row, and no delivery is          *)
(* attempted more than MaxAttempts times.                                    *)
THEOREM TrailIsFaithful == Spec => []AttemptTrail
BY Invariance, PTL DEF IInv

(* The attempt count read by the claim is still current at the completion.   *)
THEOREM ClaimCountIsFresh == Spec => []ClaimCountIsCurrent
BY Invariance, PTL DEF IInv

------------------------------------------------------------------------------
(* Deliveries that ended, and deliveries that were accepted.                 *)

Frozen(d) == UNCHANGED <<dStatus[d], dSub[d], dAttempts[d], dToken[d], dLog[d]>>

LEMMA EndedStep ==
    ASSUME IInv, [Next]_vars, NEW d \in Deliveries, dStatus[d] \in Terminal
    PROVE  Frozen(d)
<1>. USE DEF IInv, Shape, TypeOK, Frozen, Terminal, deliveryVars
<1>1. CASE UNCHANGED vars
  BY <1>1 DEF vars
<1>2. ASSUME NEW e \in Deliveries, NEW s, InsertDelivery(e, s) PROVE Frozen(d)
  BY <1>2 DEF InsertDelivery, Exists
<1>3. ASSUME NEW w \in Workers, NEW e \in Deliveries, NEW t \in Tokens, Claim(w, e, t)
      PROVE  Frozen(d)
  BY <1>3 DEF Claim, NextCandidate, Claimable, Waiting
<1>4. ASSUME NEW w \in Workers, Complete(w) PROVE Frozen(d)
  BY <1>4 DEF Complete, HoldsLease
<1>5. ASSUME UNCHANGED <<dStatus, dSub, dAttempts, dToken, dLog>> PROVE Frozen(d)
  BY <1>5
<1>6. CASE AdminStep
  BY <1>2, <1>5, <1>6 DEF AdminStep, Enqueue, Replay, Patch
<1>7. ASSUME NEW w \in Workers, WorkerStep(w) \/ Crash(w) PROVE Frozen(d)
  BY <1>3, <1>4, <1>5, <1>7 DEF WorkerStep, StartCycle, EndCycle, Post, CompletionRefused, LeaseLost, Crash
<1>8. CASE Tick
  BY <1>5, <1>8 DEF Tick
<1>. QED
  BY <1>1, <1>6, <1>7, <1>8 DEF Next

(* Nothing changes a delivery row, its attempt rows or its lease once it has *)
(* been delivered or given up.                                               *)
THEOREM EndedStaysEnded == Spec => EndedIsFinal
<1>1. IInv /\ [Next]_vars =>
        [\A d \in Deliveries : dStatus[d] \in Terminal =>
            UNCHANGED <<dStatus[d], dSub[d], dAttempts[d], dToken[d], dLog[d]>>]_vars
  BY EndedStep DEF Frozen
<1>. QED
  BY <1>1, Invariance, PTL DEF Spec, EndedIsFinal

\* A worker about to record a success has had its POST accepted.
SuccessWasAccepted ==
    \A w \in Workers :
        wPc[w] = "complete" /\ wResult[w] = "2xx" => accepted[wClaim[w].delivery] > 0

\* Rows are never deleted: a claimed delivery is in the table.
ClaimsExist == \A w \in Workers : Active(w) => Exists(wClaim[w].delivery)

AInv == IInv /\ SuccessWasAccepted /\ DeliveredWasAccepted /\ ClaimsExist

LEMMA AcceptedStep == AInv /\ [Next]_vars => AInv'
<1>. SUFFICES ASSUME AInv, [Next]_vars PROVE AInv'
  OBVIOUS
<1>0. IInv /\ IInv'
  BY IInvStep DEF AInv
<1>. USE DEF AInv, SuccessWasAccepted, DeliveredWasAccepted, ClaimsExist, Active, Exists
<1>1. CASE UNCHANGED vars
  BY <1>0, <1>1 DEF vars, deliveryVars, workerVars, ghostVars
<1>2. ASSUME NEW e \in Deliveries, NEW s, InsertDelivery(e, s) PROVE AInv'
  BY <1>0, <1>2 DEF InsertDelivery, workerVars, ghostVars, IInv, Shape, TypeOK
<1>3. ASSUME NEW w \in Workers, NEW d \in Deliveries, NEW t \in Tokens, Claim(w, d, t)
      PROVE  AInv'
  BY <1>0, <1>3 DEF Claim, ghostVars, IInv, Shape, TypeOK
<1>4. ASSUME NEW w \in Workers, NEW result \in Results, NEW lost \in BOOLEAN,
             Post(w, result, lost)
      PROVE  AInv'
  <2>1. wClaim[w].delivery \in Deliveries /\ accepted \in [Deliveries -> Nat]
    BY <1>0, <1>4 DEF Post, IInv, Shape, TypeOK, ClaimShape
  <2>2. \A d \in Deliveries : accepted'[d] >= accepted[d]
    BY <1>4, <2>1 DEF Post
  <2>3. result = "2xx" => accepted'[wClaim[w].delivery] > 0
    BY <1>4, <2>1 DEF Post
  <2>4. \A v \in Workers : wPc[v] = "complete" => wClaim[v].delivery \in Deliveries
    BY <1>0 DEF IInv, Shape, ClaimShape
  <2>5. accepted' \in [Deliveries -> Nat]
    BY <1>0 DEF IInv, Shape, TypeOK
  <2>6. SuccessWasAccepted'
    BY <1>0, <1>4, <2>1, <2>2, <2>3, <2>4, <2>5 DEF Post, IInv, Shape, TypeOK
  <2>7. DeliveredWasAccepted'
    BY <1>4, <2>1, <2>2, <2>5 DEF Post, deliveryVars
  <2>8. ClaimsExist'
    BY <1>0, <1>4 DEF Post, deliveryVars, IInv, Shape, TypeOK
  <2>. QED
    BY <1>0, <2>6, <2>7, <2>8
<1>5. ASSUME NEW w \in Workers, Complete(w) PROVE AInv'
  <2>. DEFINE d == wClaim[w].delivery
              outcome == Outcome(wClaim[w].attempts + 1, wResult[w])
  <2>1. outcome = "DELIVERED" => wResult[w] = "2xx"
    BY DEF Outcome
  <2>2. dStatus' = [dStatus EXCEPT ![d] = outcome]
    BY <1>5 DEF Complete
  <2>. HIDE DEF outcome
  <2>3. DeliveredWasAccepted'
    BY <1>0, <1>5, <2>1, <2>2 DEF Complete, ghostVars, IInv, Shape, TypeOK
  <2>4. SuccessWasAccepted'
    BY <1>0, <1>5 DEF Complete, ghostVars, IInv, Shape, TypeOK
  <2>5. ClaimsExist'
    <3>1. outcome # "none" /\ d \in Deliveries
      BY <1>0, <1>5, OutcomeType DEF outcome, LogOutcomes, Complete, IInv, Shape, ClaimShape
    <3>2. /\ dStatus \in [Deliveries -> Statuses]
          /\ wPc \in [Workers -> {"off", "loop", "post", "complete"}]
          /\ wClaim \in [Workers -> Claims]
      BY <1>0 DEF IInv, Shape, TypeOK
    <3>3. /\ wPc' = [wPc EXCEPT ![w] = "loop"]
          /\ wClaim' = [wClaim EXCEPT ![w] = NoClaim]
      BY <1>5 DEF Complete
    <3>4. ASSUME NEW v \in Workers, wPc'[v] \in {"post", "complete"}
          PROVE  dStatus'[wClaim'[v].delivery] # "none"
      <4>1. /\ wPc[v] \in {"post", "complete"}
            /\ wClaim'[v] = wClaim[v]
        BY <3>2, <3>3, <3>4
      <4>2. dStatus[wClaim[v].delivery] # "none" /\ wClaim[v].delivery \in Deliveries
        BY <4>1, <1>0 DEF IInv, Shape, ClaimShape
      <4>. QED
        BY <2>2, <3>1, <3>2, <4>1, <4>2
    <3>. QED
      BY <3>4
  <2>. QED
    BY <1>0, <2>3, <2>4, <2>5
<1>6. ASSUME NEW w \in Workers, StartCycle(w) PROVE AInv'
  BY <1>0, <1>6 DEF StartCycle, deliveryVars, ghostVars, IInv, Shape, TypeOK
<1>7. ASSUME NEW w \in Workers,
             EndCycle(w) \/ CompletionRefused(w) \/ LeaseLost(w) \/ Crash(w)
      PROVE  AInv'
  <2>1. /\ wPc' = [wPc EXCEPT ![w] = "off"]
        /\ wClaim' = [wClaim EXCEPT ![w] = NoClaim]
        /\ wResult' = [wResult EXCEPT ![w] = "none"]
        /\ UNCHANGED <<dStatus, accepted>>
    BY <1>7 DEF EndCycle, CompletionRefused, LeaseLost, Crash, LeaveCycle, deliveryVars, ghostVars
  <2>2. /\ wPc \in [Workers -> {"off", "loop", "post", "complete"}]
        /\ wClaim \in [Workers -> Claims]
        /\ wResult \in [Workers -> Results \union {"none"}]
    BY <1>0 DEF IInv, Shape, TypeOK
  <2>3. ASSUME NEW v \in Workers, wPc'[v] \in {"post", "complete"}
        PROVE  /\ wPc'[v] = wPc[v]
               /\ wClaim'[v] = wClaim[v]
               /\ wResult'[v] = wResult[v]
    BY <2>1, <2>2, <2>3
  <2>. QED
    BY <1>0, <2>1, <2>3
<1>8. ASSUME UNCHANGED <<dStatus, wPc, wResult, wClaim, accepted>> PROVE AInv'
  BY <1>0, <1>8
<1>9. CASE AdminStep
  BY <1>2, <1>8, <1>9 DEF AdminStep, Enqueue, Replay, Patch, deliveryVars, workerVars,
                          ghostVars
<1>10. ASSUME NEW w \in Workers, WorkerStep(w) \/ Crash(w) PROVE AInv'
  BY <1>3, <1>4, <1>5, <1>6, <1>7, <1>10 DEF WorkerStep
<1>11. CASE Tick
  BY <1>8, <1>11 DEF Tick, workerVars
<1>. QED
  BY <1>1, <1>9, <1>10, <1>11 DEF Next

LEMMA AcceptedInvariance == Spec => []AInv
<1>1. Init => AInv
  BY InitIInv DEF Init, AInv, SuccessWasAccepted, DeliveredWasAccepted, ClaimsExist, Active
<1>. QED
  BY <1>1, AcceptedStep, PTL DEF Spec

(* A delivery recorded DELIVERED was accepted by its endpoint.               *)
THEOREM DeliveredMeansAccepted == Spec => []DeliveredWasAccepted
BY AcceptedInvariance, PTL DEF AInv

------------------------------------------------------------------------------
(* The worker implements the contract: every step of it records an attempt,  *)
(* submits a delivery, reaches an endpoint, or changes nothing it promises.  *)

LEMMA ContractInit == Init => Contract!Init
BY DEF Init, Contract!Init, Open, Waiting

\* A step that leaves statuses open or alone, attempts and acceptance alone stutters.
LEMMA ContractStutter ==
    ASSUME UNCHANGED <<dAttempts, accepted>>,
           \A d \in Deliveries : dStatus'[d] = dStatus[d] \/ (Open(d) /\ Open(d)')
    PROVE  UNCHANGED Contract!contractVars
BY DEF Contract!contractVars, Open

LEMMA ContractInsert ==
    ASSUME IInv, NEW d \in Deliveries, NEW s, InsertDelivery(d, s)
    PROVE  Contract!Submit(d)
BY DEF Contract!Submit, InsertDelivery, Exists, Open, Waiting, IInv, Shape, TypeOK, ghostVars

LEMMA ContractReach ==
    ASSUME NEW d \in Deliveries, Exists(d), accepted \in [Deliveries -> Nat],
           accepted' = [accepted EXCEPT ![d] = @ + 1],
           UNCHANGED <<dStatus, dAttempts>>
    PROVE  Contract!Reach(d)
<1>1. {e \in Deliveries : accepted'[e] > 0} = {e \in Deliveries : accepted[e] > 0} \union {d}
  OBVIOUS
<1>. QED
  BY <1>1 DEF Contract!Reach, Open, Exists

LEMMA ContractPost ==
    ASSUME AInv, NEW w \in Workers, NEW result \in Results, NEW lost \in BOOLEAN,
           Post(w, result, lost)
    PROVE  \/ \E d \in Deliveries : Contract!Reach(d)
           \/ UNCHANGED Contract!contractVars
<1>1. CASE result = "2xx" \/ lost
  <2>1. PICK d \in Deliveries : d = wClaim[w].delivery
    BY DEF Post, AInv, IInv, Shape, ClaimShape
  <2>2. Exists(d) /\ accepted \in [Deliveries -> Nat]
    BY <2>1 DEF Post, AInv, IInv, Shape, TypeOK, ClaimsExist, Active
  <2>3. accepted' = [accepted EXCEPT ![d] = @ + 1] /\ UNCHANGED <<dStatus, dAttempts>>
    BY <1>1, <2>1 DEF Post, deliveryVars
  <2>. QED
    BY <2>2, <2>3, ContractReach
<1>2. CASE ~(result = "2xx" \/ lost)
  BY <1>2, ContractStutter DEF Post, Open, deliveryVars
<1>. QED
  BY <1>1, <1>2

LEMMA ContractRecord ==
    ASSUME NEW d \in Deliveries, NEW outcome \in LogOutcomes, Open(d),
           dStatus \in [Deliveries -> Statuses], dAttempts \in [Deliveries -> Nat],
           dAttempts[d] < MaxAttempts,
           outcome = "RETRY" => dAttempts[d] + 1 < MaxAttempts,
           outcome = "DELIVERED" => accepted[d] > 0,
           dStatus' = [dStatus EXCEPT ![d] = outcome],
           dAttempts' = [dAttempts EXCEPT ![d] = @ + 1],
           accepted' = accepted
    PROVE  \E end \in {"open", "DELIVERED", "DEAD_LETTER"} : Contract!Record(d, end)
<1>. DEFINE end == IF outcome = "RETRY" THEN "open" ELSE outcome
<1>1. end \in {"open", "DELIVERED", "DEAD_LETTER"} /\ (end = "open" <=> outcome = "RETRY")
  BY DEF LogOutcomes
<1>2. \A e \in Deliveries :
         (IF Open(e)' THEN "open" ELSE dStatus'[e])
         = IF e = d THEN end ELSE IF Open(e) THEN "open" ELSE dStatus[e]
  BY DEF Open, Waiting, LogOutcomes
<1>. HIDE DEF end
<1>3. [e \in Deliveries |-> IF Open(e)' THEN "open" ELSE dStatus'[e]]
      = [[e \in Deliveries |-> IF Open(e) THEN "open" ELSE dStatus[e]] EXCEPT ![d] = end]
  BY <1>2
<1>4. end = "DELIVERED" => outcome = "DELIVERED"
  BY <1>1 DEF end
<1>5. Contract!Record(d, end)
  BY <1>1, <1>3, <1>4 DEF Contract!Record
<1>. QED
  BY <1>1, <1>5

LEMMA ContractComplete ==
    ASSUME AInv, NEW w \in Workers, Complete(w)
    PROVE  \E d \in Deliveries, end \in {"open", "DELIVERED", "DEAD_LETTER"} :
              Contract!Record(d, end)
<1>1. PICK d \in Deliveries : d = wClaim[w].delivery
  BY DEF Complete, AInv, IInv, Shape, ClaimShape
<1>2. PICK outcome : outcome = Outcome(wClaim[w].attempts + 1, wResult[w])
  OBVIOUS
<1>3. /\ Open(d)
      /\ wClaim[w].attempts = dAttempts[d]
      /\ dAttempts[d] < MaxAttempts
  BY <1>1 DEF AInv, IInv, Complete, HoldsLease, ClaimCountIsCurrent, AttemptTrail, Open
<1>4. /\ outcome \in LogOutcomes
      /\ outcome = "RETRY" => dAttempts[d] + 1 < MaxAttempts
      /\ outcome = "DELIVERED" => wResult[w] = "2xx"
  BY <1>2, <1>3 DEF Outcome, LogOutcomes
<1>5. outcome = "DELIVERED" => accepted[d] > 0
  BY <1>1, <1>4 DEF AInv, SuccessWasAccepted, Complete
<1>6. /\ dStatus' = [dStatus EXCEPT ![d] = outcome]
      /\ dAttempts' = [dAttempts EXCEPT ![d] = @ + 1]
      /\ accepted' = accepted
  BY <1>1, <1>2 DEF Complete, ghostVars
<1>7. dStatus \in [Deliveries -> Statuses] /\ dAttempts \in [Deliveries -> Nat]
  BY DEF AInv, IInv, Shape, TypeOK
<1>. QED
  BY <1>3, <1>4, <1>5, <1>6, <1>7, ContractRecord

LEMMA ContractStep ==
    ASSUME AInv, [Next]_vars
    PROVE  [Contract!Next]_(Contract!contractVars)
<1>1. CASE UNCHANGED vars
  BY <1>1, ContractStutter DEF vars, deliveryVars, ghostVars
<1>2. ASSUME NEW d \in Deliveries, NEW s, InsertDelivery(d, s) PROVE Contract!Next
  BY <1>2, ContractInsert DEF AInv, Contract!Next
<1>3. ASSUME UNCHANGED <<dStatus, dAttempts, accepted>> PROVE UNCHANGED Contract!contractVars
  BY <1>3, ContractStutter
<1>4. ASSUME NEW w \in Workers, NEW d \in Deliveries, NEW t \in Tokens, Claim(w, d, t)
      PROVE  UNCHANGED Contract!contractVars
  <2>1. \A e \in Deliveries : dStatus'[e] = dStatus[e] \/ (Open(e) /\ Open(e)')
    BY <1>4 DEF Claim, NextCandidate, Claimable, Open, AInv, IInv, Shape, TypeOK
  <2>. QED
    BY <1>4, <2>1, ContractStutter DEF Claim, ghostVars
<1>5. ASSUME NEW w \in Workers, NEW result \in Results, NEW lost \in BOOLEAN,
             Post(w, result, lost)
      PROVE  [Contract!Next]_(Contract!contractVars)
  BY <1>5, ContractPost DEF Contract!Next
<1>6. ASSUME NEW w \in Workers, Complete(w) PROVE Contract!Next
  BY <1>6, ContractComplete DEF Contract!Next
<1>7. CASE AdminStep
  BY <1>2, <1>3, <1>7 DEF AdminStep, Enqueue, Replay, Patch, deliveryVars, ghostVars
<1>8. ASSUME NEW w \in Workers, WorkerStep(w) \/ Crash(w)
      PROVE  [Contract!Next]_(Contract!contractVars)
  BY <1>3, <1>4, <1>5, <1>6, <1>8
  DEF WorkerStep, StartCycle, EndCycle, CompletionRefused, LeaseLost, Crash, deliveryVars, ghostVars
<1>9. CASE Tick
  BY <1>3, <1>9 DEF Tick
<1>. QED
  BY <1>1, <1>7, <1>8, <1>9 DEF Next

(* The worker, its leases, retries and crashes implement the contract.       *)
THEOREM WorkerImplementsContract == Spec => ImplementsContract
BY ContractInit, ContractStep, AcceptedInvariance, PTL
DEF Spec, ImplementsContract, Contract!Spec
------------------------------------------------------------------------------
(* Duplicates.  NoUnprovokedDuplicate needs to know, of every delivery whose *)
(* lease never ran out and whose answers all arrived, that whoever works on  *)
(* it holds its lease, and that it is not attempted again once accepted.     *)
WorksOn(w, d) == Active(w) /\ wClaim[w].delivery = d

Single(d) ==
    /\ \A w \in Workers : WorksOn(w, d) => dStatus[d] = "PROCESSING" /\ dToken[d] = wClaim[w].token
    /\ dStatus[d] = "PROCESSING" => dLease[d] > 0
    /\ accepted[d] # 0 =>
          /\ accepted[d] = 1
          /\ \/ dStatus[d] = "DELIVERED"
             \/ /\ dStatus[d] = "PROCESSING"
                /\ \A w \in Workers : WorksOn(w, d) => wPc[w] = "complete" /\ wResult[w] = "2xx"

DupInv == IInv /\ \A d \in Deliveries \ lapsed : Single(d)

\* A step that leaves a delivery, its acceptances and whoever works on it alone.
LEMMA SingleStays ==
    ASSUME NEW d \in Deliveries, Single(d),
           UNCHANGED <<dStatus[d], dToken[d], dLease[d], accepted[d]>>,
           \A w \in Workers : WorksOn(w, d)' =>
               WorksOn(w, d) /\ UNCHANGED <<wPc[w], wClaim[w], wResult[w]>>
    PROVE  Single(d)'
BY DEF Single

LEMMA InsertSingle ==
    ASSUME DupInv, NEW e \in Deliveries, NEW s, InsertDelivery(e, s), NEW d \in Deliveries \ lapsed'
    PROVE  Single(d)'
<1>1. /\ d \in Deliveries /\ Single(d)
      /\ dStatus[e] = "none"
      /\ dStatus' = [dStatus EXCEPT ![e] = "PENDING"]
      /\ UNCHANGED <<dToken, dLease, accepted, wPc, wClaim, wResult>>
  BY DEF InsertDelivery, DupInv, Exists, workerVars, ghostVars
<1>2. \A w \in Workers : WorksOn(w, d)' <=> WorksOn(w, d)
  BY <1>1 DEF WorksOn, Active
<1>3. CASE e # d
  BY <1>1, <1>2, <1>3, SingleStays DEF DupInv, IInv, Shape, TypeOK
<1>4. CASE e = d
  <2>1. accepted[d] = 0 /\ \A w \in Workers : ~WorksOn(w, d)
    BY <1>1, <1>4 DEF Single
  <2>2. dStatus'[d] = "PENDING" /\ accepted'[d] = 0
    BY <1>1, <1>4, <2>1 DEF DupInv, IInv, Shape, TypeOK
  <2>. QED
    BY <1>2, <2>1, <2>2 DEF Single
<1>. QED
  BY <1>3, <1>4

LEMMA ClaimSingle ==
    ASSUME DupInv, NEW w \in Workers, NEW e \in Deliveries, NEW t \in Tokens, Claim(w, e, t),
           NEW d \in Deliveries \ lapsed'
    PROVE  Single(d)'
<1>1. /\ d \in Deliveries /\ Single(d) /\ wPc[w] = "loop" /\ ~Active(w)
      /\ dStatus' = [dStatus EXCEPT ![e] = "PROCESSING"]
      /\ dToken' = [dToken EXCEPT ![e] = t]
      /\ dLease' = [dLease EXCEPT ![e] = LeaseTicks]
      /\ wClaim' = [wClaim EXCEPT ![w] = [delivery |-> e, token |-> t, attempts |-> dAttempts[e]]]
      /\ wPc' = [wPc EXCEPT ![w] = "post"]
      /\ UNCHANGED <<wResult, accepted>>
  BY DEF Claim, DupInv, Active, ghostVars
<1>2. /\ \A v \in Workers : v # w => wPc'[v] = wPc[v] /\ wClaim'[v] = wClaim[v]
      /\ wClaim'[w].delivery = e /\ wClaim'[w].token = t
  BY <1>1 DEF DupInv, IInv, Shape, TypeOK
<1>3. CASE e # d
  <2>1. UNCHANGED <<dStatus[d], dToken[d], dLease[d], accepted[d]>>
    BY <1>1, <1>3 DEF DupInv, IInv, Shape, TypeOK
  <2>2. \A v \in Workers : WorksOn(v, d)' =>
            WorksOn(v, d) /\ UNCHANGED <<wPc[v], wClaim[v], wResult[v]>>
    BY <1>1, <1>2, <1>3 DEF WorksOn, Active
  <2>. QED
    BY <1>1, <2>1, <2>2, SingleStays
<1>4. CASE e = d
  <2>1. dStatus[d] \in Waiting
    <3>1. dStatus[d] \in Waiting \/ (dStatus[d] = "PROCESSING" /\ dLease[d] <= 0)
      BY <1>4 DEF Claim, NextCandidate, Claimable
    <3>2. dStatus[d] = "PROCESSING" => dLease[d] > 0
      BY <1>1 DEF Single
    <3>3. dLease[d] \in Nat
      BY DEF DupInv, IInv, Shape, TypeOK
    <3>. QED
      BY <3>1, <3>2, <3>3
  <2>2. accepted[d] = 0 /\ \A v \in Workers : ~WorksOn(v, d)
    BY <1>1, <2>1 DEF Single, Waiting
  <2>3. dStatus'[d] = "PROCESSING" /\ dToken'[d] = t /\ dLease'[d] > 0 /\ accepted'[d] = 0
    BY <1>1, <1>4, <2>2 DEF DupInv, IInv, Shape, TypeOK
  <2>4. \A v \in Workers : WorksOn(v, d)' => v = w
    BY <1>2, <2>2 DEF WorksOn, Active
  <2>. QED
    BY <1>2, <2>3, <2>4 DEF Single
<1>. QED
  BY <1>3, <1>4

\* Two workers on one delivery would hold its lease with one token.
LEMMA WorksAlone ==
    ASSUME DupInv, NEW d \in Deliveries \ lapsed, NEW v \in Workers, NEW w \in Workers,
           WorksOn(v, d), WorksOn(w, d)
    PROVE  v = w
BY DEF DupInv, Single, IInv, DistinctTokens, WorksOn

LEMMA PostSingle ==
    ASSUME DupInv, NEW w \in Workers, NEW result \in Results, NEW lost \in BOOLEAN,
           Post(w, result, lost), NEW d \in Deliveries \ lapsed'
    PROVE  Single(d)'
<1> DEFINE e == wClaim[w].delivery
<1>1. /\ d \in Deliveries \ lapsed /\ Single(d) /\ wPc[w] = "post" /\ WorksOn(w, e)
      /\ wResult' = [wResult EXCEPT ![w] = result]
      /\ wPc' = [wPc EXCEPT ![w] = "complete"]
      /\ accepted' = IF result = "2xx" \/ lost THEN [accepted EXCEPT ![e] = @ + 1] ELSE accepted
      /\ lost => e \in lapsed'
      /\ UNCHANGED <<dStatus, dToken, dLease, wClaim>>
  BY DEF Post, DupInv, deliveryVars, WorksOn, Active
<1>2. /\ \A v \in Workers : v # w => wPc'[v] = wPc[v] /\ wResult'[v] = wResult[v]
      /\ wPc'[w] = "complete" /\ wResult'[w] = result
  BY <1>1 DEF DupInv, IInv, Shape, TypeOK
<1>3. \A v \in Workers, x \in Deliveries : WorksOn(v, x)' <=> WorksOn(v, x)
  BY <1>1, <1>2 DEF WorksOn, Active
<1>4. e \in Deliveries
  BY <1>1 DEF DupInv, IInv, Shape, ClaimShape
<1>5. CASE e # d
  <2>1. accepted'[d] = accepted[d]
    BY <1>1, <1>4, <1>5 DEF DupInv, IInv, Shape, TypeOK
  <2>2. \A v \in Workers : WorksOn(v, d)' =>
            WorksOn(v, d) /\ UNCHANGED <<wPc[v], wClaim[v], wResult[v]>>
    BY <1>1, <1>2, <1>3, <1>5 DEF WorksOn
  <2>. QED
    BY <1>1, <2>1, <2>2, SingleStays
<1>6. CASE e = d
  <2>1. ~lost
    BY <1>1, <1>6
  <2>2. accepted[d] = 0 /\ dStatus[d] = "PROCESSING" /\ dLease[d] > 0
    BY <1>1, <1>6 DEF Single
  <2>3. accepted'[d] = IF result = "2xx" THEN 1 ELSE 0
    BY <1>1, <1>4, <1>6, <2>1, <2>2 DEF DupInv, IInv, Shape, TypeOK
  <2>4. \A v \in Workers : WorksOn(v, d)' => v = w
    BY <1>1, <1>3, <1>6, WorksAlone
  <2>5. \A v \in Workers : WorksOn(v, d)' => dToken[d] = wClaim[v].token
    BY <1>1, <1>3 DEF Single
  <2>. QED
    BY <1>1, <1>2, <2>2, <2>3, <2>4, <2>5 DEF Single
<1>. QED
  BY <1>5, <1>6

LEMMA CompleteSingle ==
    ASSUME DupInv, NEW w \in Workers, Complete(w), NEW d \in Deliveries \ lapsed'
    PROVE  Single(d)'
<1>0. PICK e : e = wClaim[w].delivery
  OBVIOUS
<1>1. PICK outcome : outcome = Outcome(wClaim[w].attempts + 1, wResult[w])
  OBVIOUS
<1>2. /\ d \in Deliveries \ lapsed /\ Single(d) /\ wPc[w] = "complete" /\ WorksOn(w, e)
      /\ dStatus' = [dStatus EXCEPT ![e] = outcome]
      /\ dToken' = [dToken EXCEPT ![e] = NoToken]
      /\ dLease' = [dLease EXCEPT ![e] = 0]
      /\ wPc' = [wPc EXCEPT ![w] = "loop"]
      /\ wClaim' = [wClaim EXCEPT ![w] = NoClaim]
      /\ wResult' = [wResult EXCEPT ![w] = "none"]
      /\ UNCHANGED accepted
  BY <1>0, <1>1 DEF Complete, DupInv, WorksOn, Active, ghostVars
<1>3. /\ \A v \in Workers : v # w => UNCHANGED <<wPc[v], wClaim[v], wResult[v]>>
      /\ wPc'[w] = "loop"
  BY <1>2 DEF DupInv, IInv, Shape, TypeOK
<1>4. \A v \in Workers : WorksOn(v, d)' =>
          v # w /\ WorksOn(v, d) /\ UNCHANGED <<wPc[v], wClaim[v], wResult[v]>>
  BY <1>3 DEF WorksOn, Active
<1>5. CASE e # d
  <2>1. UNCHANGED <<dStatus[d], dToken[d], dLease[d], accepted[d]>>
    BY <1>2, <1>5 DEF DupInv, IInv, Shape, TypeOK
  <2>. QED
    BY <1>2, <1>4, <2>1, SingleStays
<1>6. CASE e = d
  <2>1. ASSUME NEW v \in Workers, WorksOn(v, d)' PROVE FALSE
    <3>1. v # w /\ WorksOn(v, d) /\ WorksOn(w, d)
      BY <1>2, <1>4, <1>6, <2>1
    <3>. QED
      BY <1>2, <3>1, WorksAlone
  <2>2. outcome # "PROCESSING" /\ (wResult[w] = "2xx" => outcome = "DELIVERED")
    <3>1. outcome # "PROCESSING"
      BY <1>1, OutcomeType DEF LogOutcomes
    <3>2. wResult[w] = "2xx" => outcome = "DELIVERED"
      BY <1>1 DEF Outcome, Retryable, Disabling
    <3>. QED
      BY <3>1, <3>2
  <2>3. dStatus'[d] = outcome
    BY <1>2, <1>6 DEF DupInv, IInv, Shape, TypeOK
  <2>4. dStatus[d] = "PROCESSING" /\ (accepted[d] # 0 => accepted[d] = 1 /\ wResult[w] = "2xx")
    BY <1>2, <1>6 DEF Single
  <2>5. dStatus'[d] # "PROCESSING"
    BY <2>2, <2>3
  <2>6. accepted'[d] # 0 => accepted'[d] = 1 /\ dStatus'[d] = "DELIVERED"
    BY <1>2, <2>2, <2>3, <2>4
  <2>. QED
    BY <2>1, <2>5, <2>6 DEF Single
<1>. QED
  BY <1>5, <1>6

LEMMA DupStep == DupInv /\ [Next]_vars => DupInv'
<1>. SUFFICES ASSUME DupInv, [Next]_vars PROVE DupInv'
  OBVIOUS
<1>0. IInv /\ IInv'
  BY IInvStep DEF DupInv
<1>. SUFFICES ASSUME NEW d \in Deliveries \ lapsed' PROVE Single(d)'
  BY <1>0 DEF DupInv
<1>1. ASSUME UNCHANGED <<dStatus, dToken, dLease, accepted, wResult, lapsed>>,
             \A w \in Workers : Active(w)' => Active(w) /\ UNCHANGED <<wPc[w], wClaim[w]>>
      PROVE  Single(d)'
  BY <1>1, SingleStays DEF DupInv, WorksOn
<1>2. CASE UNCHANGED vars
  BY <1>1, <1>2 DEF vars, deliveryVars, workerVars, ghostVars, Active
<1>3. ASSUME NEW e \in Deliveries, NEW s, InsertDelivery(e, s) PROVE Single(d)'
  BY <1>3, InsertSingle
<1>4. ASSUME NEW w \in Workers, NEW e \in Deliveries, NEW t \in Tokens, Claim(w, e, t)
      PROVE  Single(d)'
  BY <1>4, ClaimSingle
<1>5. ASSUME NEW w \in Workers, NEW result \in Results, NEW lost \in BOOLEAN,
             Post(w, result, lost)
      PROVE  Single(d)'
  BY <1>5, PostSingle
<1>6. ASSUME NEW w \in Workers, Complete(w) PROVE Single(d)'
  BY <1>6, CompleteSingle
<1>7. ASSUME NEW w \in Workers, StartCycle(w) PROVE Single(d)'
  BY <1>0, <1>1, <1>7 DEF StartCycle, deliveryVars, ghostVars, Active, IInv, Shape, TypeOK
<1>8. ASSUME NEW w \in Workers,
             EndCycle(w) \/ CompletionRefused(w) \/ LeaseLost(w) \/ Crash(w)
      PROVE  Single(d)'
  <2>1. /\ wPc' = [wPc EXCEPT ![w] = "off"]
        /\ wClaim' = [wClaim EXCEPT ![w] = NoClaim]
        /\ wResult' = [wResult EXCEPT ![w] = "none"]
        /\ UNCHANGED <<dStatus, dToken, dLease, accepted, lapsed>>
    BY <1>8 DEF EndCycle, CompletionRefused, LeaseLost, Crash, LeaveCycle, deliveryVars, ghostVars
  <2>2. \A v \in Workers : Active(v)' => Active(v) /\ UNCHANGED <<wPc[v], wClaim[v], wResult[v]>>
    BY <1>0, <2>1 DEF Active, IInv, Shape, TypeOK
  <2>. QED
    BY <2>1, <2>2, SingleStays DEF DupInv, WorksOn
<1>9. CASE AdminStep
  BY <1>1, <1>3, <1>9 DEF AdminStep, Enqueue, Replay, Patch, deliveryVars, workerVars,
                          ghostVars, Active
<1>10. ASSUME NEW w \in Workers, WorkerStep(w) \/ Crash(w) PROVE Single(d)'
  BY <1>4, <1>5, <1>6, <1>7, <1>8, <1>10 DEF WorkerStep
<1>11. CASE Tick
  <2>1. /\ dLease' = [x \in Deliveries |-> IF dLease[x] > 0 THEN dLease[x] - 1 ELSE 0]
        /\ lapsed' = lapsed \union {x \in Deliveries : dLease[x] = 1}
        /\ UNCHANGED <<dStatus, dToken, accepted, wPc, wClaim, wResult>>
    BY <1>11 DEF Tick, workerVars
  <2>2. Single(d) /\ d \in Deliveries /\ dLease[d] # 1 /\ dLease[d] \in Nat
    BY <1>0, <2>1 DEF DupInv, IInv, Shape, TypeOK
  <2>3. \A w \in Workers : WorksOn(w, d)' <=> WorksOn(w, d)
    BY <2>1 DEF WorksOn, Active
  <2>4. dStatus[d] = "PROCESSING" => dLease'[d] > 0
    BY <2>1, <2>2 DEF Single
  <2>. QED
    BY <2>1, <2>2, <2>3, <2>4 DEF Single
<1>. QED
  BY <1>2, <1>9, <1>10, <1>11 DEF Next

(* An endpoint sees a delivery twice only after the lease of the delivery    *)
(* ran out or an answer was lost, for any number of workers and attempts.    *)
THEOREM DuplicatesAreProvoked == Spec => []NoUnprovokedDuplicate
<1>1. Init => DupInv
  BY InitIInv DEF Init, DupInv, Single, WorksOn, Active
<1>2. DupInv => NoUnprovokedDuplicate
  <2>. SUFFICES ASSUME DupInv, NEW d \in Deliveries, accepted[d] > 1, d \notin lapsed PROVE FALSE
    BY DEF NoUnprovokedDuplicate
  <2>1. accepted[d] \in Nat /\ accepted[d] # 0
    BY DEF DupInv, IInv, Shape, TypeOK
  <2>2. accepted[d] = 1
    BY <2>1 DEF DupInv, Single
  <2>. QED
    BY <2>2
<1>. QED
  BY <1>1, <1>2, DupStep, PTL DEF Spec
=============================================================================
