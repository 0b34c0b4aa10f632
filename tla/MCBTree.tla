------------------------------ MODULE MCBTree ------------------------------
(***************************************************************************)
(* Small blocks, so that few keys give a tree of three levels.             *)
(***************************************************************************)
EXTENDS BTree

MCThreshold == <<7, 10>>

(* Pids are names: a state is seen through the tree they span.  No action  *)
(* reads call, and none but Reopen reads the counts.                       *)
RECURSIVE Shape(_)
Shape(pid) ==
  IF page[pid].type = "internal"
  THEN [i \in DOMAIN page[pid].kids |->
          <<page[pid].kids[i].key, Shape(page[pid].kids[i].value)>>]
  ELSE <<page[pid].type, page[pid].entries>>

LowerOf(pid) == {b.lower : b \in {b \in Blocks[header.depth] : b.pid = pid}}

StateView ==
  <<Shape(header.root), header.depth, header.useDense, header.splitter,
    {<<b.lower, LowerOf(page[b.pid].next)>> : b \in Blocks[header.depth]},
    {<<LowerOf(p), bounds[p]>> : p \in DOMAIN bounds},
    [i \in DOMAIN cursor |-> <<cursor[i].index, cursor[i].lower, cursor[i].upper>>],
    job>>
=============================================================================
