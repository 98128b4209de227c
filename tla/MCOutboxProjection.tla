------------------------- MODULE MCOutboxProjection -------------------------
(* Small instances of OutboxProjection for TLC.                             *)
EXTENDS OutboxProjection, TLC

Symmetry == Permutations(Writers) \union Permutations(Projectors)
=============================================================================
