--------------------------- MODULE MCSmallProtocols ---------------------------
(* Three protocols that share nothing, on small instances, in one run: the   *)
(* initial state says which of them runs, and the others stand still.        *)
EXTENDS EntityLocks, ChatPresence, StockCompensation

VARIABLE protocol

Of == [c \in Conns |-> 1]

mcVars == <<lockVars, presenceVars, compVars, protocol>>

MCInit ==
    /\ LockInit /\ PresenceInit /\ CompInit
    /\ protocol \in {"locks", "presence", "compensation"}

MCNext ==
    /\ \/ protocol = "locks" /\ LockNext /\ UNCHANGED <<presenceVars, compVars>>
       \/ protocol = "presence" /\ PresenceNext /\ UNCHANGED <<lockVars, compVars>>
       \/ protocol = "compensation" /\ CompNext /\ UNCHANGED <<lockVars, presenceVars>>
    /\ UNCHANGED protocol

(* The fairness of EntityLocks and of ChatPresence, each where it runs.      *)
Locks(action) == protocol = "locks" /\ action
Presence(action) == protocol = "presence" /\ action

MCFairness ==
    /\ \A t \in LockTxs : WF_lockVars(Locks(LockTxStep(t)))
    /\ \A p \in Sweepers : WF_lockVars(Locks(LockSweep(p)))
    /\ \A c \in Conns :
           /\ WF_presenceVars(Presence(Beat(c)))
           /\ WF_presenceVars(Presence(c \notin timer /\ Lapse(c)))
    /\ \A x \in Calls :
           /\ SF_presenceVars(Presence(Run(x)))
           /\ WF_presenceVars(Presence(CommitCall(x)))
    /\ SF_presenceVars(Presence(SweepUser))
    /\ WF_presenceVars(Presence(BeginSweep \/ CommitSweep))

MCSpec == MCInit /\ [][MCNext]_mcVars /\ MCFairness
===============================================================================
