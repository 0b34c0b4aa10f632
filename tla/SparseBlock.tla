---------------------------- MODULE SparseBlock ----------------------------
(***************************************************************************)
(* btree/BtreeSparseBlock.cpp: a sorted sequence of cells, a key with its  *)
(* value, in a sparse leaf (data) or an internal block (pids of children). *)
(* Indices count from 0, as the code's do.                                 *)
(***************************************************************************)
EXTENDS Integers, FiniteSets, Sequences, SequencesExt

Cells(key, value) == [key |-> key, value |-> value]

(* search: the index of the first cell whose key is not smaller; the cells *)
(* are sorted, so the binary search finds it.                              *)
Search(cells, key) == Cardinality({i \in DOMAIN cells : cells[i].key < key})

HasKeyAt(cells, index, key) == index < Len(cells) /\ cells[index + 1].key = key

(* put(index, key, v) of a block with room, or the block with its overflow *)
(* entry in its place (getRangeWithOverflow).                              *)
Inserted(cells, index, key, value) ==
  IF HasKeyAt(cells, index, key)
  THEN [cells EXCEPT ![index + 1].value = value]
  ELSE InsertAt(cells, index + 1, Cells(key, value))

Deleted(cells, index) == RemoveAt(cells, index + 1)

(* truncate(sp, spKey): the overflow entry, at index over, counts among    *)
(* the first sp entries or has gone to the other half.  No overflow: -1.   *)
Truncated(cells, over, entry, sp) ==
  IF over = -1 \/ sp <= over THEN SubSeq(cells, 1, sp)
  ELSE InsertAt(SubSeq(cells, 1, sp - 1), over + 1, entry)
=============================================================================
