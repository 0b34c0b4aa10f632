---------------------------- MODULE MCLeafBlock ----------------------------
(***************************************************************************)
(* A sparse leaf of three entries and a dense one of five cells: half of   *)
(* what overflows a dense leaf still fits a sparse one, as with the        *)
(* default capacities 511 and 1021.                                        *)
(***************************************************************************)
EXTENDS LeafBlock

MCThreshold == <<7, 10>>

(* No action reads call. *)
StateView == <<block, useDense, splitter>>
=============================================================================
