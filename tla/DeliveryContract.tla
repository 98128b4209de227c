-------------------------- MODULE DeliveryContract --------------------------
(* What the webhook boundary promises of a delivery, whatever workers,      *)
(* leases and clocks do: it is attempted a bounded number of times, it ends *)
(* at most once, and it ends delivered only if its endpoint was reached.    *)
EXTENDS Naturals

CONSTANTS Deliveries, MaxAttempts

VARIABLES
    state,     \* none, open, DELIVERED or DEAD_LETTER
    tries,     \* attempts recorded
    reached    \* deliveries their endpoint has accepted at least once

contractVars == <<state, tries, reached>>

Init ==
    /\ state = [d \in Deliveries |-> "none"]
    /\ tries = [d \in Deliveries |-> 0]
    /\ reached = {}

Submit(d) ==
    /\ state[d] = "none"
    /\ state' = [state EXCEPT ![d] = "open"]
    /\ UNCHANGED <<tries, reached>>

\* A late duplicate may still reach the endpoint after the delivery ended.
Reach(d) ==
    /\ state[d] # "none"
    /\ reached' = reached \union {d}
    /\ UNCHANGED <<state, tries>>

\* An attempt is recorded; only the last permitted one must end the delivery.
Record(d, end) ==
    /\ state[d] = "open"
    /\ tries[d] < MaxAttempts
    /\ end = "open" => tries[d] + 1 < MaxAttempts
    /\ end = "DELIVERED" => d \in reached
    /\ state' = [state EXCEPT ![d] = end]
    /\ tries' = [tries EXCEPT ![d] = @ + 1]
    /\ UNCHANGED reached

Next == \E d \in Deliveries :
    \/ Submit(d)
    \/ Reach(d)
    \/ \E end \in {"open", "DELIVERED", "DEAD_LETTER"} : Record(d, end)

Spec == Init /\ [][Next]_contractVars
=============================================================================
