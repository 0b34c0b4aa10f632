--------------------------- MODULE MCBatchBuffer ---------------------------
(***************************************************************************)
(* Small buffers over a small tree.  No action reads call, and LRU only    *)
(* compares times: a state is seen with their distances from now.          *)
(***************************************************************************)
EXTENDS BatchBuffer

Aged == [i \in DOMAIN entries |-> [entries[i] EXCEPT !.time = ts - @]]
AgedPages == IF policy = "LRU" THEN {[p EXCEPT !.count = ts - @] : p \in pids} ELSE pids

StateView == <<policy, tree, cuts, nLeaves, Aged, size, free, AgedPages>>
=============================================================================
