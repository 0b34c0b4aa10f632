-------------------------- MODULE LRUPageReplacer --------------------------
(***************************************************************************)
(* lower/LRUPageReplacer.cpp driven as BufferManager drives it: a record   *)
(* taken by selectToReplace or remove belongs to the buffer until it comes *)
(* back through add (unpinned) or addback (recycled after a failed read).  *)
(* The list itself is in LRUList.                                          *)
(***************************************************************************)
EXTENDS LRUList, FiniteSets, Sequences

(* The buffer has an array of page records (BufferManager.cpp:44). *)
ASSUME SlotFinite == IsFiniteSet(Slot)

VARIABLES
  lru,    \* the replacer: links and counter
  call    \* the last call: its name and the record it was given or handed out

RC_OutOfSpace == "RC_OutOfSpace"

Operation == {"new", "selectToReplace", "add", "addback", "remove"}
Called(op, s) == [op |-> op, record |-> s]

vars == <<lru, call>>

TypeOK ==
  /\ lru \in List
  /\ call \in [op : Operation, record : Slot \cup {NULL, RC_OutOfSpace}]

(* The constructor. *)
Init ==
  /\ lru = EmptyList
  /\ call = Called("new", NULL)

SelectToReplace ==
  IF IsEmpty(lru)
  THEN call' = Called("selectToReplace", RC_OutOfSpace) /\ UNCHANGED lru
  ELSE /\ call' = Called("selectToReplace", Victim(lru))
       /\ lru' = RemoveSlot(lru, Victim(lru))

(* The buffer's protocol: it adds only a record it holds ... *)
AddRecord(s) ==
  /\ s \notin Listed(lru)
  /\ lru' = Add(lru, s)
  /\ call' = Called("add", s)

AddBackRecord(s) ==
  /\ s \notin Listed(lru)
  /\ lru' = AddBack(lru, s)
  /\ call' = Called("addback", s)

(* ... and removes only one that waits. *)
RemoveRecord(s) ==
  /\ s \in Listed(lru)
  /\ lru' = RemoveSlot(lru, s)
  /\ call' = Called("remove", s)

Next ==
  \/ SelectToReplace
  \/ \E s \in Slot : AddRecord(s) \/ AddBackRecord(s) \/ RemoveRecord(s)

Spec == Init /\ [][Next]_vars

-----------------------------------------------------------------------------
(* The links stay mutually inverse whatever order the operations come in   *)
(* (LRUPageReplacer.cpp:18-50).                                            *)
LinksInverse == WellLinked(lru)

(* The records met by following f from node x until the sentinel, at most  *)
(* n of them: print() walks the list this way with f = next.               *)
Walk(f, n) ==
  LET walk[k \in 0..n] ==
        IF k = 0 THEN [at |-> f[HEAD], seen |-> <<>>]
        ELSE IF walk[k-1].at \in {HEAD, NULL} THEN walk[k-1]
        ELSE [at |-> f[walk[k-1].at], seen |-> Append(walk[k-1].seen, walk[k-1].at)]
  IN  walk[n].seen

(* The list from the least to the most recently used record. *)
Order(l) == Walk(l.next, Cardinality(Slot) + 1)

(* Forward and backward walks meet the same records, once each, and every  *)
(* linked record is met: none is lost on an unreachable cycle.             *)
WalksAgree ==
  LET forward == Order(lru)
      backward == Walk(lru.prev, Cardinality(Slot) + 1)
  IN  /\ Len(forward) = Cardinality(Listed(lru))
      /\ Len(backward) = Len(forward)
      /\ \A i \in 1..Len(forward) : /\ backward[Len(forward) + 1 - i] = forward[i]
                                    /\ forward[i] \in Listed(lru)
      /\ \A i, j \in 1..Len(forward) : forward[i] = forward[j] => i = j

(* The pointer list implements the abstract queue: the same calls, and the *)
(* same victims in answer (LRUPageReplacer.cpp:17-50).                     *)
Abstract == INSTANCE LRUQueue WITH queue <- Order(lru), OutOfSpace <- RC_OutOfSpace
ImplementsQueue == Abstract!Spec
=============================================================================
