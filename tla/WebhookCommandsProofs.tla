------------------------ MODULE WebhookCommandsProofs ------------------------
(* Proofs about WebhookCommands, for any requests, keys, calls and times.    *)
EXTENDS WebhookCommands, TLAPS

------------------------------------------------------------------------------
(* Receipts prove effects.                                                   *)

\* A call that is under way, or was, is a call of some request.
CallsHaveRequests == \A c \in Calls : pc[c] # "idle" => callReq[c] \in Requests

\* A receipt is stored under the kind and the key of its own request, and a
\* rotation's receipt has a secret.
ReceiptsArePlaced ==
    \A k \in Kinds \X Keys :
        receipts[k].body # None =>
            /\ ReceiptKey(receipts[k].body) = k
            /\ k[1] = "rotate" => receipts[k].secret \in Calls

\* A request took effect once if its receipt is there, and never otherwise.
EffectsHaveReceipts ==
    \A r \in Requests :
        effects[r] = IF receipts[ReceiptKey(r)].body = r THEN 1 ELSE 0

\* A returned secret is the one sealed in the receipt of its request.
SecretsAreSealed ==
    \A r \in Requests : \A a \in returned[r] :
        receipts[ReceiptKey(r)] = [body |-> r, secret |-> a]

ReceiptInv ==
    /\ TypeOK
    /\ CallsHaveRequests
    /\ ReceiptsArePlaced
    /\ EffectsHaveReceipts
    /\ SecretsAreSealed

LEMMA KeysArePairs ==
  ASSUME NEW r \in Requests
  PROVE  ReceiptKey(r) \in Kinds \X Keys
  BY RequestAssumption DEF ReceiptKey

\* A time in milliseconds is a time, and not a later one.
LEMMA TruncateType ==
  ASSUME NEW time \in Nat
  PROVE  Truncate(time) \in Nat /\ Truncate(time) <= time
  <1> DEFINE ms == time \div TicksPerMs
  <1>1. ms \in Nat /\ ms * TicksPerMs <= time
    BY NumberAssumption
  <1>2. ms * TicksPerMs \in Nat
    BY <1>1, NumberAssumption
  <1>3. QED
    BY <1>1, <1>2 DEF Truncate

LEMMA InitReceiptInv == Init => ReceiptInv
  <1> SUFFICES ASSUME Init PROVE ReceiptInv
    OBVIOUS
  <1>1. TypeOK
    <2>1. {now, version, changes} \subseteq Nat
      BY NumberAssumption DEF Init
    <2>2. QED
      BY <2>1 DEF Init, TypeOK, NoReceipt, Answers
  <1>2. CallsHaveRequests /\ ReceiptsArePlaced
    BY DEF Init, CallsHaveRequests, ReceiptsArePlaced, NoReceipt
  <1>3. EffectsHaveReceipts /\ SecretsAreSealed
    BY KeysArePairs, NoneAssumption DEF Init, EffectsHaveReceipts, SecretsAreSealed, NoReceipt
  <1>4. QED
    BY <1>1, <1>2, <1>3 DEF ReceiptInv

\* Steps that touch neither receipts nor what requests brought about.
LEMMA QuietKeeps ==
  ASSUME ReceiptInv, TypeOK', CallsHaveRequests', UNCHANGED <<receipts, effects, returned>>
  PROVE  ReceiptInv'
  BY DEF ReceiptInv, ReceiptsArePlaced, EffectsHaveReceipts, SecretsAreSealed

LEMMA CheckReceiptKeeps ==
  ASSUME ReceiptInv, NEW c \in Calls, CheckReceipt(c)
  PROVE  ReceiptInv'
  <1> DEFINE r == callReq[c]
  <1> USE DEF ReceiptInv
  <1>1. r \in Requests /\ ReceiptKey(r) \in Kinds \X Keys
    BY KeysArePairs DEF CheckReceipt, CallsHaveRequests, TypeOK
  <1>2. ASSUME receipts[ReceiptKey(r)].body = r, KindOf[r] = "rotate"
        PROVE  /\ StoredSecret(c) \in Calls
               /\ receipts[ReceiptKey(r)] = [body |-> r, secret |-> StoredSecret(c)]
    BY <1>1, <1>2, NoneAssumption DEF ReceiptsArePlaced, ReceiptKey, StoredSecret, TypeOK
  <1>3. \/ UNCHANGED returned
        \/ /\ receipts[ReceiptKey(r)].body = r /\ KindOf[r] = "rotate"
           /\ returned' = [returned EXCEPT ![r] = @ \union {StoredSecret(c)}]
    BY DEF CheckReceipt
  <1>4. TypeOK'
    <2>1. returned' \in [Requests -> SUBSET Calls]
      BY <1>1, <1>2, <1>3 DEF TypeOK
    <2>2. \/ pc' = [pc EXCEPT ![c] = "apply"] /\ UNCHANGED answer
          \/ Answer(c, "key reused")
          \/ Answer(c, "replayed")
      BY DEF CheckReceipt
    <2>3. now' \in Nat /\ start' \in [Calls -> Nat]
      <3>1. now' = now + 1 /\ start' = [start EXCEPT ![c] = now]
        BY DEF CheckReceipt
      <3>2. QED
        BY <3>1 DEF TypeOK
    <2>4. QED
      <3>1. pc' \in [Calls -> {"idle", "sent", "apply", "done"}] /\ answer' \in [Calls -> Answers]
        <4>1. /\ pc \in [Calls -> {"idle", "sent", "apply", "done"}]
              /\ answer \in [Calls -> Answers]
          BY DEF TypeOK
        <4>2. CASE pc' = [pc EXCEPT ![c] = "apply"] /\ UNCHANGED answer
          BY <4>1, <4>2
        <4>3. ASSUME NEW text \in {"key reused", "replayed"}, Answer(c, text)
              PROVE  /\ pc' \in [Calls -> {"idle", "sent", "apply", "done"}]
                     /\ answer' \in [Calls -> Answers]
          BY <4>1, <4>3 DEF Answer, Answers
        <4>4. QED
          BY <2>2, <4>2, <4>3
      <3>2. UNCHANGED <<subVars, requestVars, receipts, callReq, effects, stale, rewound>>
        BY DEF CheckReceipt
      <3>3. /\ {version', changes'} \subseteq Nat /\ bumps' \subseteq Nat
            /\ secret' \in Calls \union {None}
        BY <3>2 DEF TypeOK, subVars
      <3>4. QED
        BY <2>1, <2>3, <3>1, <3>2, <3>3 DEF TypeOK, requestVars
  <1>5. CallsHaveRequests'
    BY <1>1 DEF CheckReceipt, Answer, CallsHaveRequests, TypeOK
  <1>6. ReceiptsArePlaced' /\ EffectsHaveReceipts'
    BY DEF CheckReceipt, ReceiptsArePlaced, EffectsHaveReceipts
  <1>7. SecretsAreSealed'
    <2> SUFFICES ASSUME NEW q \in Requests, NEW a \in returned'[q]
                 PROVE  receipts[ReceiptKey(q)] = [body |-> q, secret |-> a]
      BY DEF CheckReceipt, SecretsAreSealed
    <2>1. CASE a \in returned[q]
      BY <2>1 DEF SecretsAreSealed
    <2>2. CASE a \notin returned[q]
      <3>1. /\ receipts[ReceiptKey(r)].body = r /\ KindOf[r] = "rotate"
            /\ q = r /\ a = StoredSecret(c)
        BY <1>1, <1>3, <2>2 DEF TypeOK
      <3>2. QED
        BY <1>2, <3>1
    <2>3. QED
      BY <2>1, <2>2
  <1>8. QED
    BY <1>4, <1>5, <1>6, <1>7

\* The receipt of a key is inserted with the effect of its request, once.
LEMMA ApplyKeeps ==
  ASSUME ReceiptInv, NEW c \in Calls, Apply(c)
  PROVE  ReceiptInv'
  <1> DEFINE r == callReq[c]
             secretOf == IF KindOf[r] = "rotate" THEN NewSecret(c) ELSE None
             new == [body |-> r, secret |-> secretOf]
  <1> USE DEF ReceiptInv
  <1>1. r \in Requests /\ ReceiptKey(r) \in Kinds \X Keys
    BY KeysArePairs DEF Apply, CallsHaveRequests, TypeOK
  <1>2. /\ receipts' = [receipts EXCEPT ![ReceiptKey(r)] = new]
        /\ effects' = [effects EXCEPT ![r] = @ + 1]
        /\ returned' = IF KindOf[r] = "rotate"
                       THEN [returned EXCEPT ![r] = @ \union {c}] ELSE returned
    BY DEF Apply, NewSecret
  <1>3. receipts[ReceiptKey(r)].body = None
    BY DEF Apply, ReceiptFree, NoReceipt
  <1>4. TypeOK'
    <2>1. receipts' \in [Kinds \X Keys ->
              [body : Requests \union {None}, secret : Calls \union {None}]]
      BY <1>1, <1>2 DEF TypeOK, NewSecret
    <2>2. effects' \in [Requests -> Nat] /\ returned' \in [Requests -> SUBSET Calls]
      BY <1>1, <1>2 DEF TypeOK
    <2>3. /\ {version', changes'} \subseteq Nat
          /\ secret' \in Calls \union {None}
          /\ stale' \subseteq Requests /\ rewound' \subseteq Requests
      BY <1>1 DEF Apply, NewSecret, TypeOK
    <2>4. pc' \in [Calls -> {"idle", "sent", "apply", "done"}] /\ answer' \in [Calls -> Answers]
      BY DEF Apply, Answer, TypeOK, Answers
    <2>5. QED
      BY <2>1, <2>2, <2>3, <2>4 DEF Apply, TypeOK, requestVars
  <1>5. CallsHaveRequests'
    BY <1>1 DEF Apply, Answer, CallsHaveRequests, TypeOK
  <1>6. ReceiptsArePlaced'
    BY <1>1, <1>2 DEF ReceiptsArePlaced, ReceiptKey, NewSecret, TypeOK
  <1>7. EffectsHaveReceipts'
    <2> SUFFICES ASSUME NEW q \in Requests
                 PROVE  effects'[q] = IF receipts'[ReceiptKey(q)].body = q THEN 1 ELSE 0
      BY DEF EffectsHaveReceipts
    <2>1. ReceiptKey(q) \in Kinds \X Keys /\ q # None
      BY KeysArePairs, NoneAssumption
    <2>2. CASE ReceiptKey(q) = ReceiptKey(r)
      BY <1>1, <1>2, <1>3, <2>1, <2>2, NoneAssumption DEF EffectsHaveReceipts, TypeOK
    <2>3. CASE ReceiptKey(q) # ReceiptKey(r)
      BY <1>1, <1>2, <2>1, <2>3 DEF EffectsHaveReceipts, TypeOK
    <2>4. QED
      BY <2>2, <2>3
  <1>8. SecretsAreSealed'
    <2> SUFFICES ASSUME NEW q \in Requests, NEW a \in returned'[q]
                 PROVE  receipts'[ReceiptKey(q)] = [body |-> q, secret |-> a]
      BY DEF SecretsAreSealed
    <2>1. ReceiptKey(q) \in Kinds \X Keys /\ q # None
      BY KeysArePairs, NoneAssumption
    <2>2. CASE a \in returned[q]
      <3>1. receipts[ReceiptKey(q)] = [body |-> q, secret |-> a]
        BY <2>2 DEF SecretsAreSealed
      <3>2. ReceiptKey(q) # ReceiptKey(r)
        BY <1>3, <2>1, <3>1
      <3>3. QED
        BY <1>1, <1>2, <2>1, <3>1, <3>2 DEF TypeOK
    <2>3. CASE a \notin returned[q]
      <3>1. q = r /\ a = c /\ KindOf[r] = "rotate"
        BY <1>1, <1>2, <2>3 DEF TypeOK
      <3>2. QED
        BY <1>1, <1>2, <3>1 DEF TypeOK, NewSecret
    <2>4. QED
      BY <2>2, <2>3
  <1>9. QED
    BY <1>4, <1>5, <1>6, <1>7, <1>8

LEMMA NextReceiptInv == ReceiptInv /\ [Next]_vars => ReceiptInv'
  <1> SUFFICES ASSUME ReceiptInv, [Next]_vars PROVE ReceiptInv'
    OBVIOUS
  <1> USE DEF subVars, requestVars, callVars, ghostVars
  <1>1. ASSUME NEW r \in Requests, Build(r) PROVE ReceiptInv'
    BY <1>1, QuietKeeps, TruncateType DEF Build, ReceiptInv, TypeOK, CallsHaveRequests
  <1>2. ASSUME NEW c \in Calls, NEW r \in Requests, Send(c, r) PROVE ReceiptInv'
    BY <1>2, QuietKeeps DEF Send, ReceiptInv, TypeOK, CallsHaveRequests
  <1>3. ASSUME NEW c \in Calls, Refuse(c) \/ Abort(c) PROVE ReceiptInv'
    <2>1. \E text \in Answers : Answer(c, text)
      BY <1>3 DEF Refuse, Abort, Answers
    <2>2. /\ UNCHANGED <<now, subVars, requestVars, receipts, callReq, start, ghostVars>>
          /\ pc[c] # "idle"
      BY <1>3 DEF Refuse, Abort
    <2>3. QED
      BY <2>1, <2>2, QuietKeeps DEF Answer, ReceiptInv, TypeOK, CallsHaveRequests
  <1>4. CASE BumpBegin
    <2>1. TypeOK'
      <3>1. now' \in Nat /\ bumps' \subseteq Nat
        <4>1. now \in Nat /\ bumps \subseteq Nat
          BY DEF ReceiptInv, TypeOK
        <4>2. now' = now + 1 /\ bumps' = bumps \union {now}
          BY <1>4 DEF BumpBegin
        <4>3. QED
          BY <4>1, <4>2
      <3>2. UNCHANGED <<version, secret, changes, requestVars, receipts, callVars, ghostVars>>
        BY <1>4 DEF BumpBegin
      <3>3. QED
        BY <3>1, <3>2 DEF ReceiptInv, TypeOK
    <2>2. QED
      BY <1>4, <2>1, QuietKeeps DEF BumpBegin, ReceiptInv, CallsHaveRequests
  <1>5. ASSUME NEW time \in bumps, BumpCommit(time) PROVE ReceiptInv'
    <2>1. TypeOK'
      BY <1>5 DEF BumpCommit, ReceiptInv, TypeOK
    <2>2. QED
      BY <1>5, <2>1, QuietKeeps DEF BumpCommit, ReceiptInv, CallsHaveRequests
  <1>6. CASE UNCHANGED vars
    BY <1>6, QuietKeeps DEF vars, ReceiptInv, TypeOK, CallsHaveRequests
  <1>7. QED
    BY <1>1, <1>2, <1>3, <1>4, <1>5, <1>6, CheckReceiptKeeps, ApplyKeeps DEF Next

LEMMA ReceiptInvHolds == Spec => []ReceiptInv
  BY InitReceiptInv, NextReceiptInv, PTL DEF Spec

\* Every variable has its type.
THEOREM CommandTypes == Spec => []TypeOK
  <1>1. ReceiptInv => TypeOK
    BY DEF ReceiptInv
  <1>2. QED
    BY <1>1, ReceiptInvHolds, PTL

\* A request takes effect at most once, and exactly if its receipt is there, however
\* its calls overlap: receipt and effect are one transaction, and the key is unique.
THEOREM CommandsTakeEffectOnce == Spec => []AtMostOneEffect
  <1>1. ReceiptInv => AtMostOneEffect
    BY DEF ReceiptInv, EffectsHaveReceipts, AtMostOneEffect
  <1>2. QED
    BY <1>1, ReceiptInvHolds, PTL

\* All successful answers to a rotation carry the secret sealed in its receipt.
THEOREM RotationsReturnOneSecret == Spec => []OneSecretPerRotation
  <1>1. ReceiptInv => OneSecretPerRotation
    <2> SUFFICES ASSUME ReceiptInv, NEW r \in Requests, NEW a \in returned[r], NEW b \in returned[r]
                 PROVE  a = b
      BY DEF OneSecretPerRotation
    <2>1. [body |-> r, secret |-> a] = [body |-> r, secret |-> b]
      BY DEF ReceiptInv, SecretsAreSealed
    <2>2. QED
      BY <2>1
  <1>2. QED
    BY <1>1, ReceiptInvHolds, PTL
------------------------------------------------------------------------------
(* Versions.  What a client is shown is its version cut to milliseconds, so    *)
(* it is at most the version.  As long as every change moves updated_at        *)
(* forward, a change after the read leaves updated_at above what the client    *)
(* was shown, for any precision of either; only completions can move it back.  *)

\* All times that were given out lie in the past.
TimesArePast ==
    /\ version < now
    /\ \A r \in Requests : expected[r] < now

\* Whatever was sent was built, and a transaction starts after its request was built.
StartsAreLater ==
    \A c \in Calls : pc[c] # "idle" =>
        /\ expected[callReq[c]] # 0
        /\ pc[c] = "apply" => expected[callReq[c]] < start[c] /\ start[c] < now

BumpsArePast == \A time \in bumps : time < now

\* Unless updated_at was moved back meanwhile, it is above what a client was shown
\* once the subscription has changed.
ChangesMoveForward ==
    \A r \in Requests : expected[r] # 0 /\ r \notin rewound =>
        /\ expected[r] <= version
        /\ changes # seen[r] => seen[r] < changes /\ expected[r] < version

VersionInv ==
    /\ TimesArePast
    /\ StartsAreLater
    /\ BumpsArePast
    /\ ChangesMoveForward
    /\ LostOnlyAfterRewind

LEMMA InitVersionInv ==
  ASSUME Init
  PROVE  VersionInv
  <1>1. TimesArePast
    BY NumberAssumption DEF Init, TimesArePast
  <1>2. StartsAreLater /\ BumpsArePast /\ ChangesMoveForward /\ LostOnlyAfterRewind
    BY DEF Init, StartsAreLater, BumpsArePast, ChangesMoveForward, LostOnlyAfterRewind
  <1>3. QED
    BY <1>1, <1>2 DEF VersionInv

LEMMA BuildVersions ==
  ASSUME ReceiptInv, VersionInv, NEW r \in Requests, Build(r)
  PROVE  VersionInv'
  <1> USE DEF VersionInv
  <1>1. TypeOK /\ CallsHaveRequests
    BY DEF ReceiptInv
  <1>2. PICK shown \in Nat : shown = Truncate(version) /\ shown <= version
    BY <1>1, TruncateType DEF TypeOK
  <1>3. /\ expected' = [expected EXCEPT ![r] = shown]
        /\ seen' = [seen EXCEPT ![r] = changes]
        /\ UNCHANGED <<now, version, changes, bumps, pc, callReq, start, stale, rewound>>
        /\ \A c \in Calls : callReq[c] # r
    BY <1>2 DEF Build, subVars, callVars, ghostVars
  <1>4. TimesArePast'
    BY <1>1, <1>2, <1>3 DEF TimesArePast, TypeOK
  <1>5. StartsAreLater' /\ BumpsArePast'
    BY <1>1, <1>3 DEF StartsAreLater, BumpsArePast, CallsHaveRequests, TypeOK
  <1>6. ChangesMoveForward' /\ LostOnlyAfterRewind'
    BY <1>1, <1>2, <1>3 DEF ChangesMoveForward, LostOnlyAfterRewind, TypeOK
  <1>7. QED
    BY <1>4, <1>5, <1>6

\* Steps of a call that leave the subscription and what clients were shown alone.
LEMMA CallVersions ==
  ASSUME ReceiptInv, VersionInv, now' \in Nat, now <= now', StartsAreLater',
         UNCHANGED <<version, changes, bumps, expected, seen, stale, rewound>>
  PROVE  VersionInv'
  <1>1. TypeOK
    BY DEF ReceiptInv
  <1>2. TimesArePast' /\ BumpsArePast'
    BY <1>1 DEF VersionInv, TimesArePast, BumpsArePast, TypeOK
  <1>3. ChangesMoveForward' /\ LostOnlyAfterRewind'
    BY DEF VersionInv, ChangesMoveForward, LostOnlyAfterRewind
  <1>4. QED
    BY <1>2, <1>3 DEF VersionInv

LEMMA CheckReceiptVersions ==
  ASSUME ReceiptInv, VersionInv, NEW c \in Calls, CheckReceipt(c)
  PROVE  VersionInv'
  <1>1. TypeOK /\ callReq[c] \in Requests
    BY DEF ReceiptInv, CallsHaveRequests, CheckReceipt
  <1>2. /\ now' = now + 1
        /\ start' = [start EXCEPT ![c] = now]
        /\ pc[c] = "sent"
        /\ UNCHANGED <<version, changes, bumps, expected, seen, callReq, stale, rewound>>
    BY DEF CheckReceipt, subVars, requestVars
  <1>3. pc' = [pc EXCEPT ![c] = "apply"] \/ pc' = [pc EXCEPT ![c] = "done"]
    BY DEF CheckReceipt, Answer
  <1>4. StartsAreLater'
    <2> SUFFICES ASSUME NEW d \in Calls, pc'[d] # "idle"
                 PROVE  /\ expected[callReq[d]] # 0
                        /\ pc'[d] = "apply" =>
                              expected[callReq[d]] < start'[d] /\ start'[d] < now'
      BY <1>2 DEF StartsAreLater
    <2>1. CASE d = c
      BY <1>1, <1>2, <1>3, <2>1 DEF VersionInv, StartsAreLater, TimesArePast, TypeOK
    <2>2. CASE d # c
      BY <1>1, <1>2, <1>3, <2>2 DEF VersionInv, StartsAreLater, TypeOK
    <2>3. QED
      BY <2>1, <2>2
  <1>5. QED
    BY <1>1, <1>2, <1>4, CallVersions DEF TypeOK

LEMMA SendOrEndVersions ==
  ASSUME ReceiptInv, VersionInv, NEW c \in Calls,
         \/ \E r \in Requests : expected[r] # 0 /\ Send(c, r)
         \/ Refuse(c) \/ Abort(c)
  PROVE  VersionInv'
  <1>1. TypeOK
    BY DEF ReceiptInv
  <1>2. UNCHANGED <<now, version, changes, bumps, expected, seen, start, stale, rewound>>
    BY DEF Send, Refuse, Abort, subVars, requestVars, ghostVars
  <1>3. \/ /\ pc' = [pc EXCEPT ![c] = "sent"]
           /\ \E r \in Requests : expected[r] # 0 /\ callReq' = [callReq EXCEPT ![c] = r]
        \/ /\ pc[c] # "idle" /\ pc' = [pc EXCEPT ![c] = "done"] /\ UNCHANGED callReq
    BY DEF Send, Refuse, Abort, Answer
  <1>4. StartsAreLater'
    BY <1>1, <1>2, <1>3 DEF VersionInv, StartsAreLater, TypeOK
  <1>5. QED
    BY <1>1, <1>2, <1>4, CallVersions DEF TypeOK

\* A command finds the time it expects and sets its own start time, which is later:
\* its client built the request before.
LEMMA ApplyVersions ==
  ASSUME ReceiptInv, VersionInv, NEW c \in Calls, Apply(c)
  PROVE  VersionInv'
  <1> USE DEF VersionInv
  <1>1. TypeOK /\ callReq[c] \in Requests
    BY DEF Apply, ReceiptInv, CallsHaveRequests
  <1>2. /\ pc[c] = "apply"
        /\ pc' = [pc EXCEPT ![c] = "done"]
        /\ UNCHANGED <<now, bumps, expected, seen, callReq, start, rewound>>
    BY DEF Apply, Answer, requestVars
  <1>3. /\ expected[callReq[c]] # 0
        /\ expected[callReq[c]] < start[c] /\ start[c] < now
    BY <1>2 DEF StartsAreLater
  <1>4. StartsAreLater' /\ BumpsArePast'
    BY <1>1, <1>2 DEF StartsAreLater, BumpsArePast, TypeOK
  <1>5. CASE UNCHANGED <<version, changes, stale>>
    BY <1>2, <1>4, <1>5 DEF TimesArePast, ChangesMoveForward, LostOnlyAfterRewind
  <1>6. CASE /\ version' = start[c] /\ changes' = changes + 1
             /\ stale' = IF changes # seen[callReq[c]] THEN stale \union {callReq[c]} ELSE stale
             /\ version = expected[callReq[c]]
    <2>1. TimesArePast'
      BY <1>2, <1>3, <1>6 DEF TimesArePast
    <2>2. ChangesMoveForward'
      <3> SUFFICES ASSUME NEW r \in Requests, expected[r] # 0, r \notin rewound
                   PROVE  seen[r] < changes' /\ expected[r] < version'
        BY <1>1, <1>2, <1>3, <1>6 DEF ChangesMoveForward, TypeOK
      <3>1. /\ expected[r] <= version
            /\ changes # seen[r] => seen[r] < changes
        BY DEF ChangesMoveForward
      <3>2. version < version'
        BY <1>3, <1>6
      <3>3. QED
        BY <1>1, <1>6, <3>1, <3>2 DEF TypeOK
    <2>3. changes # seen[callReq[c]] => callReq[c] \in rewound
      <3> SUFFICES ASSUME changes # seen[callReq[c]], callReq[c] \notin rewound PROVE FALSE
        OBVIOUS
      <3>1. expected[callReq[c]] < version
        BY <1>1, <1>3 DEF ChangesMoveForward
      <3>2. QED
        BY <1>1, <1>6, <3>1 DEF TypeOK
    <2>4. LostOnlyAfterRewind'
      BY <1>2, <1>6, <2>3 DEF LostOnlyAfterRewind
    <2>5. QED
      BY <1>4, <2>1, <2>2, <2>4
  <1>7. QED
    BY <1>5, <1>6 DEF Apply, VersionMatches

LEMMA BumpVersions ==
  ASSUME ReceiptInv, VersionInv, BumpBegin \/ \E time \in bumps : BumpCommit(time)
  PROVE  VersionInv'
  <1> USE DEF VersionInv
  <1>1. TypeOK
    BY DEF ReceiptInv
  <1>2. UNCHANGED <<expected, seen, pc, callReq, start, stale>>
    BY DEF BumpBegin, BumpCommit, requestVars, callVars, ghostVars
  <1>3. CASE BumpBegin
    <2>1. /\ now' = now + 1 /\ bumps' = bumps \union {now}
          /\ UNCHANGED <<version, changes, rewound>>
      BY <1>3 DEF BumpBegin, ghostVars
    <2>2. TimesArePast' /\ BumpsArePast'
      BY <1>1, <1>2, <2>1 DEF TimesArePast, BumpsArePast, TypeOK
    <2>3. StartsAreLater'
      BY <1>1, <1>2, <2>1 DEF StartsAreLater, TypeOK
    <2>4. ChangesMoveForward' /\ LostOnlyAfterRewind'
      BY <1>2, <2>1 DEF ChangesMoveForward, LostOnlyAfterRewind
    <2>5. QED
      BY <2>2, <2>3, <2>4
  <1>4. ASSUME NEW time \in bumps, BumpCommit(time) PROVE VersionInv'
    <2>1. /\ version' = time /\ changes' = changes + 1 /\ now' = now
          /\ bumps' = bumps \ {time}
          /\ rewound' = IF time > version THEN rewound
                        ELSE rewound \union {r \in Requests : expected[r] # 0}
      BY <1>4 DEF BumpCommit
    <2>2. TimesArePast' /\ BumpsArePast' /\ StartsAreLater'
      BY <1>1, <1>2, <2>1 DEF TimesArePast, BumpsArePast, StartsAreLater, TypeOK
    <2>3. ChangesMoveForward'
      <3> SUFFICES ASSUME NEW r \in Requests, expected[r] # 0, r \notin rewound'
                   PROVE  seen[r] < changes' /\ expected[r] < version'
        BY <1>1, <1>2, <2>1 DEF ChangesMoveForward, TypeOK
      <3>1. time > version /\ r \notin rewound
        BY <2>1
      <3>2. expected[r] <= version /\ (changes # seen[r] => seen[r] < changes)
        BY <3>1 DEF ChangesMoveForward
      <3>3. QED
        BY <1>1, <2>1, <3>1, <3>2 DEF TypeOK
    <2>4. LostOnlyAfterRewind'
      BY <1>2, <2>1 DEF LostOnlyAfterRewind
    <2>5. QED
      BY <2>2, <2>3, <2>4
  <1>5. QED
    BY <1>3, <1>4

LEMMA NextVersionInv == ReceiptInv /\ VersionInv /\ [Next]_vars => VersionInv'
  <1> SUFFICES ASSUME ReceiptInv, VersionInv, [Next]_vars PROVE VersionInv'
    OBVIOUS
  <1>1. CASE UNCHANGED vars
    <2>1. TypeOK
      BY DEF ReceiptInv
    <2>2. StartsAreLater'
      BY <1>1 DEF vars, callVars, requestVars, VersionInv, StartsAreLater
    <2>3. QED
      BY <1>1, <2>1, <2>2, CallVersions
      DEF vars, subVars, requestVars, callVars, ghostVars, TypeOK
  <1>2. QED
    BY <1>1, BuildVersions, SendOrEndVersions, CheckReceiptVersions, ApplyVersions, BumpVersions
    DEF Next

\* For any precision of the database's clock and of the API, and any number of calls
\* and completions: a command writes over a change its client has not seen only if a
\* completion moved updated_at back after the client had read it.
THEOREM UpdatesAreLostByRewinds == Spec => []LostOnlyAfterRewind
  <1>1. Init => VersionInv
    BY InitVersionInv
  <1>2. VersionInv => LostOnlyAfterRewind
    BY DEF VersionInv
  <1>3. QED
    BY <1>1, <1>2, NextVersionInv, ReceiptInvHolds, PTL DEF Spec
=============================================================================
