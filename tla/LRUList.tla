------------------------------ MODULE LRUList ------------------------------
(***************************************************************************)
(* The intrusive doubly-linked list of lower/LRUPageReplacer.cpp, as       *)
(* operators on a value l = [next, prev, count].  HEAD is the sentinel     *)
(* PageRec of the replacer: next[HEAD] is the least recently used record,  *)
(* prev[HEAD] the most recently used one.  A record off the list has both  *)
(* links NULL, as PageRec::reset and LRUPageReplacer::remove leave them.   *)
(* The operators are exactly the code's pointer assignments, in order;     *)
(* applied where the code would follow a NULL link they have no meaning,   *)
(* and CanUnlink says when that is.                                        *)
(***************************************************************************)
EXTENDS Integers

CONSTANTS
  Slot,   \* the PageRec headers of the buffer pool
  HEAD,   \* the sentinel LRUPageReplacer::head
  NULL,   \* the null pointer
  CountMod \* 2^64: the size_t counter of the list wraps

ASSUME SlotAssumption == HEAD \notin Slot /\ NULL \notin Slot /\ HEAD # NULL
ASSUME CountModAssumption == CountMod \in Nat \ {0}

Node == Slot \cup {HEAD}

List == [next : [Node -> Node \cup {NULL}],
         prev : [Node -> Node \cup {NULL}],
         count : 0..CountMod-1]

(* LRUPageReplacer::LRUPageReplacer over freshly reset records. *)
EmptyList ==
  LET linked == [x \in Node |-> IF x = HEAD THEN HEAD ELSE NULL]
  IN  [next |-> linked, prev |-> linked, count |-> 0]

IsEmpty(l) == l.next[HEAD] = HEAD

(* Mutant: the most recently used record. *)
Victim_MostRecent(l) == l.prev[HEAD]

(* The record selectToReplace hands out and removes. *)
Victim(l) == l.next[HEAD]

(* add: link s in front of the sentinel, at the most recently used end. *)
Add(l, s) ==
  LET last == l.prev[HEAD]
  IN  [next  |-> [[l.next EXCEPT ![last] = s] EXCEPT ![s] = HEAD],
       prev  |-> [[l.prev EXCEPT ![s] = last] EXCEPT ![HEAD] = s],
       count |-> (l.count + 1) % CountMod]

(* Mutants: the old first record keeps its link to the sentinel; the record *)
(* is not linked at all.                                                   *)
AddBack_OneWay(l, s) ==
  LET first == l.next[HEAD]
  IN  [next  |-> [[l.next EXCEPT ![s] = first] EXCEPT ![HEAD] = s],
       prev  |-> [l.prev EXCEPT ![s] = HEAD],
       count |-> l.count]
AddBack_Lost(l, s) == l

(* addback: link s at the least recently used end.  The code does not      *)
(* count it.                                                               *)
AddBack(l, s) ==
  LET first == l.next[HEAD]
  IN  [next  |-> [[l.next EXCEPT ![s] = first] EXCEPT ![HEAD] = s],
       prev  |-> [[l.prev EXCEPT ![first] = s] EXCEPT ![s] = HEAD],
       count |-> l.count]

(* remove: both neighbours are dereferenced, so neither may be NULL. *)
CanUnlink(l, s) == l.next[s] # NULL /\ l.prev[s] # NULL

(* Mutants: the link back of the next record is left; the counter does not  *)
(* wrap.                                                                   *)
RemoveSlot_OneWay(l, s) ==
  [next  |-> [[l.next EXCEPT ![l.prev[s]] = l.next[s]] EXCEPT ![s] = NULL],
   prev  |-> [l.prev EXCEPT ![s] = NULL],
   count |-> (l.count - 1) % CountMod]
RemoveSlot_NoWrap(l, s) ==
  [next  |-> [[l.next EXCEPT ![l.prev[s]] = l.next[s]] EXCEPT ![s] = NULL],
   prev  |-> [[l.prev EXCEPT ![l.next[s]] = l.prev[s]] EXCEPT ![s] = NULL],
   count |-> l.count - 1]

RemoveSlot(l, s) ==
  [next  |-> [[l.next EXCEPT ![l.prev[s]] = l.next[s]] EXCEPT ![s] = NULL],
   prev  |-> [[l.prev EXCEPT ![l.next[s]] = l.prev[s]] EXCEPT ![s] = NULL],
   count |-> (l.count - 1) % CountMod]

(* The links of PageRec::reset. *)
Reset(l, s) ==
  [next  |-> [l.next EXCEPT ![s] = NULL],
   prev  |-> [l.prev EXCEPT ![s] = NULL],
   count |-> l.count]

-----------------------------------------------------------------------------
(* The records that are on the list, judged by their own links. *)
Listed(l) == {s \in Slot : l.next[s] # NULL}

(* Every link of a listed node leads to a listed node whose opposite link  *)
(* leads back; a record off the list keeps no link.                        *)
WellLinked(l) ==
  LET On == Listed(l) \cup {HEAD}
  IN  /\ l.next[HEAD] # NULL
      /\ \A x \in On : /\ l.next[x] \in On
                       /\ l.prev[x] \in On
                       /\ l.prev[l.next[x]] = x
                       /\ l.next[l.prev[x]] = x
      /\ \A x \in Node \ On : l.prev[x] = NULL
=============================================================================
