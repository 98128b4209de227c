------------------------- MODULE MCWebhookCommands -------------------------
(* Small instances of WebhookCommands for TLC.                             *)
EXTENDS WebhookCommands, TLC

CONSTANTS r1, r2, r3, r4, k1, k2

\* Two different test events under one key, a rotation and a patch.
MixedKeys == (r1 :> k1) @@ (r2 :> k1) @@ (r3 :> k2) @@ (r4 :> k2)
MixedKinds == (r1 :> "test") @@ (r2 :> "test") @@ (r3 :> "rotate") @@ (r4 :> "patch")

\* One patch.
PatchKeys == (r1 :> k1)
PatchKinds == (r1 :> "patch")

Symmetry == Permutations(Calls)
=============================================================================
