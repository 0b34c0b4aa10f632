-------------------------- MODULE MCBufferManager --------------------------
(***************************************************************************)
(* A pool of NumSlots slots over NumBits pages, fewer slots than pages, so *)
(* that a miss has to evict.                                               *)
(***************************************************************************)
EXTENDS BufferManagerHistory

CONSTANTS zero, a

Contents == {zero, a}
Positions == 1..NumSlots

(* No action reads result but those of a flush under way. *)
StateView ==
  <<storage, bufferVars, phase, todo, leaked, recent,
    IF phase \in {"flushing", "header"} THEN result ELSE Returned("start", OK)>>
=============================================================================
