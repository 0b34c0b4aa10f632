----------------------- MODULE MCDirectlyMappedArray -----------------------
(***************************************************************************)
(* Two blocks of two keys, the second one only half used.                  *)
(***************************************************************************)
EXTENDS DirectlyMappedArrayHistory

(* No action reads call, and no guard reads nnz: once nothing is claimed   *)
(* of it, its value in memory and on disk may be forgotten.                *)
Blocks(f) == [p \in BlockPage |-> f[p]]
CountView ==
  IF counting THEN <<frame[HeaderPage], stored[HeaderPage]>>
  ELSE frame[HeaderPage].dirty
StateView ==
  <<bits, Blocks(frame), Blocks(stored), storedBits, phase, job, recent, CountView>>
=============================================================================
