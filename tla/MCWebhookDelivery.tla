------------------------- MODULE MCWebhookDelivery -------------------------
(* Small instances of WebhookDelivery for TLC.  Every behaviour follows one  *)
(* scenario.  "race": two workers, one delivery, and an administrator who    *)
(* activates the subscription again after an answer has disabled it.         *)
(* "replay": one worker, a delivery and its replay, and an administrator who *)
(* does what he likes; no lease runs out, so no completion is refused.       *)
EXTENDS WebhookDelivery, TLC

CONSTANTS Original, Helper

VARIABLE scenario

InScenario ==
    \/ /\ scenario = "race"
       /\ \A d \in Deliveries \ {Original} : ~Exists(d)
       /\ \A s \in Subs : subStatus[s] # "PAUSED" /\ subReason[s] # "MANUAL"
    \/ /\ scenario = "replay"
       /\ wPc[Helper] = "off"
       /\ crashes = 0 /\ overruns = 0 /\ lapsed = {}
       /\ \A w \in Workers : wResult[w] # "undefined"

MCInit == Init /\ scenario \in {"race", "replay"}
MCNext == UNCHANGED scenario /\ Next /\ InScenario'

(* The fairness of WebhookDelivery, over the steps the scenario has.         *)
Here(action) == action /\ UNCHANGED scenario /\ InScenario'

MCFairness ==
    /\ WF_<<vars, scenario>>(Here(Tick))
    /\ \A w \in Workers : WF_<<vars, scenario>>(Here(WorkerStep(w)))

MCSpec == MCInit /\ [][MCNext]_<<vars, scenario>> /\ MCFairness
=============================================================================
