--------------------------- MODULE MCRealtimeLog ---------------------------
(* Small instances of RealtimeLog for TLC.                                  *)
EXTENDS RealtimeLog, TLC

CONSTANTS k1, k2, k3, k4, a, b

\* Three events of one stream and one of another.
TwoStreams == (k1 :> a) @@ (k2 :> a) @@ (k3 :> a) @@ (k4 :> b)

\* Every event in one stream.
OneStream == [k \in OutboxKeys |-> a]

Symmetry == Permutations(Txs) \union Permutations(Flushers)
=============================================================================
