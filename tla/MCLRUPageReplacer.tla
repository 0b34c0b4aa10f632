------------------------- MODULE MCLRUPageReplacer -------------------------
(* Four records: enough for a removal from either end and from the middle. *)
EXTENDS LRUPageReplacer

CONSTANTS r1, r2, r3, r4

Records == {r1, r2, r3, r4}
=============================================================================
