-------------------------- MODULE MCRealtimeDrain --------------------------
(* Small instances of RealtimeDrain for TLC.  Every behaviour follows one    *)
(* scenario, so that what is rare in one of them is not multiplied by what   *)
(* is rare in another.                                                       *)
EXTENDS RealtimeDrain, TLC

CONSTANT Scenarios

VARIABLE scenario

\* Odd and even numbers belong to different streams.
Alternating == [s \in Seqs |-> IF s % 2 = 0 THEN "even" ELSE "odd"]

NoBarrier == burns = 0 /\ lost = 0
HealthyOnly == \A c \in Failing : connects[c] = 0

\* "recipients": a healthy client, one that always fails, and expiry;
\* "expiry": a healthy client alone, with more events and a failure or restart;
\* "barrier": a barrier instead of expiry, and its notification may get lost.
InScenario ==
    \/ scenario = "recipients" /\ NoBarrier /\ last <= 2 /\ faults = 0
    \/ scenario = "expiry" /\ NoBarrier /\ HealthyOnly
    \/ scenario = "barrier" /\ HealthyOnly /\ expiries = 0

MCInit == Init /\ scenario \in Scenarios
MCNext == UNCHANGED scenario /\ Next /\ InScenario'
MCSpec == MCInit /\ [][MCNext]_<<vars, scenario>> /\ Fairness

\* Without a failing recipient every event reaches the client that waits for
\* it, or the client is told to refetch: barriers, expiry, restarts and lost
\* notifications strand none.
HealthyClientsAreServed == scenario # "recipients" => EveryEventIsSent
=============================================================================
