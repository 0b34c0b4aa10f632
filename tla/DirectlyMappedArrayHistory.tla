--------------------- MODULE DirectlyMappedArrayHistory ---------------------
(***************************************************************************)
(* DirectlyMappedArray with two history variables: the data each key had   *)
(* since the last flush ended, and whether nnz can be trusted.             *)
(***************************************************************************)
EXTENDS DirectlyMappedArray

VARIABLES
  recent,   \* the data of each key since the last flush
  counting  \* every change was a counting put of this process

HInit ==
  /\ Init
  /\ recent = [k \in Key |-> {Default}]
  /\ counting = TRUE

HNext ==
  /\ Next
  /\ recent' = IF call'.op \in {"flushing", "closing", "crash"}
               THEN [k \in Key |-> {DatumAt(k)'}]
               ELSE [k \in Key |-> recent[k] \cup {DatumAt(k)'}]
  /\ counting' = (counting /\ call'.op \notin {"crash", "batchPutRange", "closing"})

HSpec == HInit /\ [][HNext]_<<vars, recent, counting>>

-----------------------------------------------------------------------------
(* Put, cached, evicted, read back, flushed or found after a crash, a key  *)
(* has the datum its callers gave it, and every form of get answers it     *)
(* (DirectlyMappedArray.cpp:62-344).                                       *)
Store == INSTANCE ArrayStore
           WITH val <- [k \in Key |-> DatumAt(k)], pending <- job.entries,
                OutOfRange <- NA, PutAnswers <- {"AC_OK"}
ImplementsArray == Store!ASpec

Entries == Cardinality({k \in Key : DatumAt(k) # Default})

(* nnz is the number of entries that are not the default value, block      *)
(* after block and put after put, until the array is closed                *)
(* (DirectlyMappedArray.cpp:201, 232, 277).                                *)
NnzCounts == counting => nnz = Entries

(* "Blocks are not read into memory since they are overwritten anyway"     *)
(* (DirectlyMappedArray.cpp:323): what a range does not cover stays.       *)
RangeKeeps ==
  call'.op = "batchPutRange"
    => \A k \in Key : \/ \E i \in DOMAIN call'.arg.group : call'.arg.group[i].key = k
                      \/ DatumAt(k)' = DatumAt(k)
RangePutsKeepTheRest == [][RangeKeeps]_vars
=============================================================================
