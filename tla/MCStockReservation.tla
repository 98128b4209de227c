------------------------ MODULE MCStockReservation ------------------------
(* Small instances of StockReservation for TLC.                            *)
EXTENDS StockReservation

CONSTANTS l1, l2, b1, b2, b3, out, in, line, bl

TwoLevels == [b \in {b1, b2, b3} |-> IF b = b3 THEN l2 ELSE l1]
Quantities == [r \in {l1, l2, b1, b2, b3} |-> IF r = l1 THEN 3 ELSE IF r = b1 THEN 2 ELSE 1]
Order == <<l1, l2, b1, b2, b3>>
From == [m \in {out, in} |-> IF m = out THEN b1 ELSE b3]
To == [m \in {out, in} |-> IF m = out THEN None ELSE b1]
Moved == [m \in {out, in} |-> 1]
Ordered == [l \in {line} |-> 2]
ForLine == [d \in {bl} |-> line]

Symmetry == Permutations(Txs) \union Permutations(Keys)
=============================================================================
