----------------------------- MODULE MCCommands -----------------------------
(* The commands on a webhook subscription, the import of batches and the       *)
(* transactions that publish events, which share nothing, on small instances  *)
(* in one run: the initial state says which of them runs, and the others      *)
(* stand still.                                                               *)
EXTENDS MCWebhookCommands, ImportBatch, CommitReconciliation

CONSTANTS b1, b2, i1, i2, i3, legacy1, legacy2

VARIABLE protocol

\* Two rows of one batch and one of another, which has a key of the first.
InTwoBatches == (i1 :> b1) @@ (i2 :> b1) @@ (i3 :> b2)
SharedKey == (i1 :> legacy1) @@ (i2 :> legacy2) @@ (i3 :> legacy1)

mcVars == <<vars, importVars, commitVars, protocol>>

MCInit ==
    /\ Init /\ ImportInit /\ CommitInit
    /\ protocol \in {"keys", "changes", "import", "commit"}

\* The requests clients build: two test events of one key beside a rotation, or
\* a rotation beside a patch.
Built == IF protocol = "keys" THEN {r1, r2, r3} ELSE {r3, r4}

MCNext ==
    /\ \/ /\ protocol \in {"keys", "changes"} /\ Next
          /\ UNCHANGED <<importVars, commitVars>>
          /\ \A r \in Requests : expected'[r] # 0 => r \in Built
       \/ protocol = "import" /\ ImportNext /\ UNCHANGED <<vars, commitVars>>
       \/ protocol = "commit" /\ CommitNext /\ UNCHANGED <<vars, importVars>>
    /\ UNCHANGED protocol

MCSpec == MCInit /\ [][MCNext]_mcVars
===============================================================================
