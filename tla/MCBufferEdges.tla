--------------------------- MODULE MCBufferEdges ---------------------------
(***************************************************************************)
(* Two slots, callers that reach past the bitmap, and no history: the      *)
(* failed evictions and the slots they lose.                               *)
(***************************************************************************)
EXTENDS BufferManager

CONSTANTS zero, a

Contents == {zero, a}
Positions == 1..NumSlots

(* No action reads result but those of a flush under way. *)
StateView ==
  <<storage, bufferVars, phase, todo,
    IF phase \in {"flushing", "header"} THEN result ELSE Returned("start", OK)>>
=============================================================================
