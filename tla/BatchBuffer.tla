---------------------------- MODULE BatchBuffer ----------------------------
(***************************************************************************)
(* A BTree with a batch buffer (btree/BatchBuffer.h and the policies FWF,  *)
(* LS, SP, LRU, LS_RAND and LG_RAND): put keeps the entries, and when the  *)
(* buffer is full the policy chooses groups of them to write, a group      *)
(* being what goes to one leaf.  get asks the buffer first; the batch      *)
(* calls do not.                                                           *)
(*                                                                         *)
(* The tree below is the map that BTree.tla implements, and where its      *)
(* leaves begin.                                                           *)
(***************************************************************************)
EXTENDS Integers, FiniteSetsExt, SequencesExt

CONSTANTS
  EndsBy,    \* the keys are 0..EndsBy-1
  Used,      \* those that are used, and EndsBy or more for out of bound
  Value, Default,
  Capacity,  \* the effective capacity of the buffer
  LSBytes,   \* the bytes LS may use, 16 + 24 for each entry it was given room for
  Keep,      \* config->batchKeepPidCount
  Boundary,  \* config->denseLeafCapacity, where the B splitter cuts
  Policy,    \* the batch methods
  MaxTime,   \* bound on the puts LRU times
  NA,        \* what a get out of range leaves its caller with
  Careful    \* no put of a pending key, no batch call over pending entries

ASSUME BufferAssumption ==
  /\ EndsBy \in Nat \ {0} /\ Used \subseteq Nat /\ Capacity \in Nat \ {0} /\ LSBytes \in Nat /\ Keep \in Nat
  /\ Boundary \in Nat \ {0} /\ MaxTime \in Nat
  /\ Default \in Value /\ Careful \in BOOLEAN
  /\ Policy \subseteq {"FWF", "LS", "SP", "LRU", "LS_RAND", "LG_RAND"}

VARIABLES
  policy,
  tree,     \* what the tree holds
  cuts,     \* the lower bounds of its leaves
  nLeaves,  \* the header's count of them
  entries,  \* the pending entries, by key; LS has the newest first
  size,     \* how many the buffer thinks it has
  free,     \* the free slots of the policies with an array of entries
  pids,     \* the pages the policy remembers, with their counts or times
  ts,       \* LRU's pseudo-timestamp
  call

buffer == <<entries, size, free, pids, ts>>
vars == <<policy, tree, cuts, nLeaves, buffer, call>>

Key == 0..EndsBy-1
Entry == [key : Used, datum : Value]
Slotted == policy \in {"LRU", "LS_RAND", "LG_RAND"}

InPage(page, key) == page.lower <= key /\ key < page.upper
Index(key) == Cardinality({i \in DOMAIN entries : entries[i].key < key}) + 1

(* find, and get *)
Pending(key) == \E i \in DOMAIN entries : entries[i].key = key
(* Mutant: the tree is asked first. *)
Found_TreeFirst(key) ==
  IF tree[key] # Default \/ ~Pending(key) THEN tree[key] ELSE entries[Index(key)].datum
Found(key) == IF Pending(key) THEN entries[Index(key)].datum ELSE tree[key]

-----------------------------------------------------------------------------
(* BTree::locate: the bounds of the leaf of a key, computed when almost    *)
(* all leaves are present ("Assumptions: the B split strategy is used").   *)
Located(c, n, key) ==
  LET cell == (key \div Boundary) * Boundary
  IN  IF 3 * n > 2 * (EndsBy \div Boundary) THEN <<cell, cell + Boundary>>
      ELSE <<Max({x \in c : x <= key}), Min({x \in c : key < x} \cup {EndsBy})>>

(* A page has the number of its entries or, for LRU, the time of the last  *)
(* of them.                                                                *)
PageOf(key) ==
  LET b == Located(cuts, nLeaves, key)
      mine == {i \in DOMAIN entries : b[1] <= entries[i].key /\ entries[i].key < b[2]}
  IN  [lower |-> b[1], upper |-> b[2],
       count |-> IF policy = "LRU" THEN Max({entries[i].time : i \in mine})
                 ELSE Cardinality(mine)]

Groups ==
  UNION {LET known == {p \in pids : InPage(p, entries[i].key)}
         IN  IF known # {} THEN known ELSE {PageOf(entries[i].key)} : i \in DOMAIN entries}

(* computePids of SP and getLRU: along the pending keys, the first page    *)
(* with the smallest count, where SP stops at a count of one; new pages    *)
(* are remembered while there is room.  The page that is forgotten in the  *)
(* end is the last candidate that was remembered.                          *)
Visit(r) ==
  LET p == CHOOSE p \in r.rest : \A q \in r.rest : p.lower <= q.lower
      lighter == p.count < r.least
      room == p \notin pids /\ Cardinality(r.keep) < Keep
  IN  IF policy = "SP" /\ r.least <= 1 THEN r
      ELSE [rest |-> r.rest \ {p},
            least |-> IF lighter THEN p.count ELSE r.least,
            out |-> IF lighter THEN {p} ELSE r.out,
            keep |-> IF room THEN r.keep \cup {p} ELSE r.keep,
            lit |-> IF lighter /\ (room \/ p \in pids) THEN {p} ELSE r.lit]

Lightest ==
  LET visited == Groups \cup {p \in pids : \E i \in DOMAIN entries : p.lower <= entries[i].key}
      look[n \in 0..Cardinality(visited)] ==
        IF n = 0 THEN [rest |-> visited, out |-> {}, keep |-> pids, lit |-> {},
                       least |-> IF policy = "SP" THEN Capacity + 1 ELSE MaxTime + 2]
        ELSE Visit(look[n-1])
      r == look[Cardinality(visited)]
  IN  [out |-> r.out, keep |-> r.keep \ r.lit]

(* The floor of the binary logarithm, the size class of a group. *)
SizeClass(n) == Max({e \in 0..n : 2^e <= n})

(* The pages LS's heap may have at its root. *)
HeapRoots == {p \in pids : \A q \in pids : q.count <= p.count}

-----------------------------------------------------------------------------
(* Where leaves may split when these keys are written: within the leaves   *)
(* of the keys, at a multiple of Boundary if the B splitter is used.       *)
NewCuts(keys, c) ==
  {x \in Key : /\ Careful => x % Boundary = 0
               /\ \E k \in keys : LET b == Located(c, 0, k) IN b[1] < x /\ x < b[2]}

PendingKeys(is) == {entries[i].key : i \in is}

(* A choice: the keys to write, the pages to remember, and the cuts there  *)
(* are then.                                                               *)
WaysToWrite(goes, keep) ==
  {[goes |-> goes, keep |-> keep, cuts |-> cuts \cup new] :
     new \in SUBSET NewCuts(PendingKeys(DOMAIN entries) \cap goes, cuts)}

KeysIn(page) == {k \in Key : InPage(page, k)}

(* Mutant: the leaves are located before anything is written. *)
Turn_LocatedOnce(w, class) ==
  LET upper == Located(cuts, nLeaves, entries[w.at].key)[2]
      group == {i \in w.at..Len(entries) : entries[i].key < upper}
      on == [w EXCEPT !.at = @ + Cardinality(group)]
  IN  IF SizeClass(Cardinality(group)) # class THEN {on}
      ELSE {[on EXCEPT !.goes = @ \cup PendingKeys(group), !.cuts = @ \cup new, !.n = @ + Cardinality(new)] :
              new \in SUBSET NewCuts(PendingKeys(group), w.cuts)}

(* LG_RAND goes along the pending entries.  A turn locates the leaf of the *)
(* next entry, in the tree as it is by then, and takes the entries up to   *)
(* its end as a group, which is written if it has the size class.          *)
Turn(w, class) ==
  LET upper == Located(w.cuts, w.n, entries[w.at].key)[2]
      group == {i \in w.at..Len(entries) : entries[i].key < upper}
      on == [w EXCEPT !.at = @ + Cardinality(group)]
  IN  IF SizeClass(Cardinality(group)) # class THEN {on}
      ELSE {[on EXCEPT !.goes = @ \cup PendingKeys(group), !.cuts = @ \cup new, !.n = @ + Cardinality(new)] :
              new \in SUBSET NewCuts(PendingKeys(group), w.cuts)}

Walks(class) ==
  LET start == [at |-> 1, goes |-> {}, cuts |-> cuts, n |-> nLeaves]
      walks[t \in 0..Len(entries)] ==
        IF t = 0 THEN {start}
        ELSE UNION {IF w.at > Len(entries) THEN {w} ELSE Turn(w, class) : w \in walks[t-1]}
  IN  walks[Len(entries)]

(* What a full buffer may write, and the pages it remembers then.          *)
Evictions ==
  CASE policy = "FWF" -> WaysToWrite(Key, {})
    [] policy = "LS" -> UNION {WaysToWrite(KeysIn(p), pids \ {p}) : p \in HeapRoots}
    [] policy = "LS_RAND" -> UNION {WaysToWrite(KeysIn(g), {}) : g \in Groups}
    [] policy = "LG_RAND" ->
         {[goes |-> w.goes, keep |-> {}, cuts |-> w.cuts] :
            w \in UNION {Walks(SizeClass(g.count)) : g \in Groups}}
    [] OTHER -> WaysToWrite(UNION {KeysIn(p) : p \in Lightest.out}, Lightest.keep)

(* LS counts the bytes of its entries and pages. *)
IsFull ==
  IF policy = "LS" THEN 18 * size + 58 * Cardinality(pids) >= LSBytes
  ELSE size = Capacity

-----------------------------------------------------------------------------
After(m, es) ==
  [k \in Key |-> LET own == {i \in DOMAIN es : es[i].key = k}
                 IN  IF own = {} THEN m[k] ELSE es[Max(own)].datum]

(* The tree takes entries, and the leaves they go to may split.            *)
Written(es) ==
  /\ tree' = After(tree, es)
  /\ \E new \in SUBSET NewCuts({es[i].key : i \in DOMAIN es}, cuts) : cuts' = cuts \cup new

Counted == nLeaves' = nLeaves + Cardinality(cuts' \ cuts)

(* Mutant: the pages LS has are not counted up. *)
Remembered_NotCounted(keep, key) ==
  LET b == Located(cuts', nLeaves', key)
  IN  IF policy = "LS" /\ ~\E p \in keep : InPage(p, key)
      THEN keep \cup {[lower |-> b[1], upper |-> b[2], count |-> 1]} ELSE keep

(* The pages after a put of key: the count of its page goes up, or LRU's   *)
(* time is set; LS makes a page where it has none.                         *)
Remembered(keep, key) ==
  LET known == {p \in keep : InPage(p, key)}
      b == Located(cuts', nLeaves', key)
  IN  CASE known # {} ->
             (keep \ known) \cup
             {[p EXCEPT !.count = IF policy = "LRU" THEN ts' ELSE @ + 1] : p \in known}
        [] known = {} /\ policy = "LS" ->
             keep \cup {[lower |-> b[1], upper |-> b[2], count |-> 1]}
        [] OTHER -> keep

Called(op, arg, answer) == [op |-> op, arg |-> arg, answer |-> answer]

(* The entries with these keys. *)
Within(es, ks) ==
  LET within[n \in 0..Len(es)] ==
        IF n = 0 THEN <<>>
        ELSE IF es[n].key \in ks THEN Append(within[n-1], es[n]) ELSE within[n-1]
  IN  within[Len(es)]

(* The set refuses an entry whose key it has, but the entry is counted and *)
(* takes a slot; the list of LS takes it.  FWF starts its count anew when  *)
(* it is full.                                                             *)
Put(e) ==
  LET choices == IF IsFull THEN Evictions ELSE WaysToWrite({}, pids)
      new == [key |-> e.key, datum |-> e.datum, time |-> ts]
  IN  /\ e.key \in Key
      /\ policy = "LRU" => ts < MaxTime
      /\ Careful => ~Pending(e.key)
      /\ ts' = IF policy = "LRU" THEN ts + 1 ELSE ts
      /\ \E v \in choices :
           LET out == Within(entries, v.goes)
               left == Within(entries, Key \ v.goes)
               i == Cardinality({j \in DOMAIN left : left[j].key < e.key}) + 1
           IN  /\ tree' = After(tree, out)
               /\ cuts' = v.cuts /\ Counted
               /\ entries' = IF policy # "LS" /\ \E j \in DOMAIN left : left[j].key = e.key
                             THEN left ELSE InsertAt(left, i, new)
               /\ size' = 1 + IF policy = "FWF" /\ IsFull THEN 0 ELSE size - Len(out)
               /\ free' = IF Slotted THEN free + Len(out) - 1 ELSE free
               /\ pids' = Remembered(v.keep, e.key)
      /\ call' = Called("put", e, "kOK")
      /\ UNCHANGED policy

PutOutOfBound(e) ==
  /\ e.key \notin Key
  /\ call' = Called("put", e, "kOutOfBound")
  /\ UNCHANGED <<policy, tree, cuts, nLeaves, buffer>>

Get(key) ==
  /\ call' = Called("get", key, IF key \in Key THEN Found(key) ELSE NA)
  /\ UNCHANGED <<policy, tree, cuts, nLeaves, buffer>>

(* The batch calls go to the tree. *)
BatchGet(keys) ==
  /\ Careful => entries = <<>>
  /\ call' = Called("batchGet", keys, [i \in DOMAIN keys |-> tree[keys[i]]])
  /\ UNCHANGED <<policy, tree, cuts, nLeaves, buffer>>

BatchPut(es) ==
  /\ Careful => entries = <<>>
  /\ Written(es) /\ Counted
  /\ call' = Called("batchPut", [left |-> es, group |-> es], "AC_OK")
  /\ UNCHANGED <<policy, buffer>>

(* Mutant: the list of free slots is not made anew. *)
Emptied_SlotsKept ==
  /\ policy # "LS"
  /\ Written(entries)
  /\ entries' = <<>> /\ size' = 0 /\ pids' = {} /\ free' = free
  /\ UNCHANGED policy

(* flushAll of LS erases the nodes its iterator stands on and leaves its   *)
(* pages in the heap: LS is not followed there.                            *)
Emptied ==
  /\ policy # "LS"
  /\ Written(entries)
  /\ entries' = <<>> /\ size' = 0 /\ pids' = {}
  /\ free' = IF Slotted THEN Capacity ELSE free
  /\ UNCHANGED policy

Flush ==
  /\ Emptied /\ Counted
  /\ ts' = ts
  /\ call' = Called("quiet", 0, "kOK")

(* The destructor writes the pending entries.  The header that the next    *)
(* BTree reads may be older than the last splits, those of the root apart. *)
Reopen ==
  /\ Emptied
  /\ nLeaves' \in IF cuts' = {0} THEN {2} ELSE 3..nLeaves + Cardinality(cuts' \ cuts)
  /\ ts' = 0
  /\ call' = Called("reopen", 0, "kOK")

-----------------------------------------------------------------------------
Init ==
  /\ policy \in Policy
  /\ tree = [k \in Key |-> Default]
  /\ cuts = {0} /\ nLeaves = 2
  /\ entries = <<>> /\ size = 0 /\ pids = {} /\ ts = 0
  /\ free = IF Slotted THEN Capacity ELSE 0
  /\ call = Called("create", 0, "kOK")

Next ==
  \/ \E e \in Entry : Put(e) \/ PutOutOfBound(e)
  \/ \E key \in Used : Get(key)
  \/ \E key \in Used : key \in Key /\ BatchGet(<<key>>)
  \/ \E e \in Entry : e.key \in Key /\ BatchPut(<<e>>)
  \/ Flush
  \/ Reopen

Spec == Init /\ [][Next]_vars

-----------------------------------------------------------------------------
Times(is) == {entries[i].time : i \in is}
Members(p) == {i \in DOMAIN entries : InPage(p, entries[i].key)}

(* The variables keep their types, and the pending keys ascend.            *)
TypeOK ==
  /\ policy \in Policy
  /\ tree \in [Key -> Value] /\ cuts \subseteq Key /\ 0 \in cuts /\ nLeaves \in Nat
  /\ entries \in Seq([key : Key, datum : Value, time : 0..MaxTime])
  /\ \A i \in 1..Len(entries)-1 : entries[i].key < entries[i + 1].key
  /\ pids \subseteq [lower : Key, upper : 1..EndsBy+Boundary, count : Nat]
  /\ free \in 0..Capacity /\ ts \in 0..MaxTime

(* The buffer knows what it has: size and the free slots count the         *)
(* entries, which never exceed the capacity; the remembered pages do not   *)
(* overlap, and each has the count of its entries, or a time that is their *)
(* last one or the next ("assert(c == smallest.count)",                    *)
(* BatchBufferSP.h:110; BatchBufferLS.h:106).                              *)
CountsMatch ==
  /\ size = Len(entries)
  /\ policy # "LS" => size <= Capacity
  /\ Slotted => free = Capacity - size
  /\ \A p \in pids :
       /\ Members(p) # {}
       /\ IF policy = "LRU" THEN p.count - Max(Times(Members(p))) \in {0, 1}
          ELSE p.count = Cardinality(Members(p))
       /\ \A q \in pids \ {p} : p.upper <= q.lower \/ q.upper <= p.lower

(* The group of an entry when LG_RAND comes to it: the leaves before its   *)
(* own have split by then.                                                 *)
MetWith(i) ==
  LET key == entries[i].key
      split == {c \in cuts' \ cuts : c < Located(cuts, 0, key)[1]}
      b == Located(cuts, nLeaves + Cardinality(split), key)
  IN  {j \in DOMAIN entries : b[1] <= entries[j].key /\ entries[j].key < b[2]}

(* An entry of group g came after its page was remembered. *)
Late(g) == \E p \in pids : Members(p) = g /\ p.count = Max(Times(g)) + 1

(* A full buffer writes what its policy names, whole groups and nothing    *)
(* else: all (FWF), a largest group (LS), a smallest (SP), any (LS_RAND)   *)
(* or the least recently used (LRU), whose times compare with those of     *)
(* later puts as if they were one more (BatchBufferLRU.h:108-116, 159);    *)
(* LG_RAND all groups of the size class that some group had, where an      *)
(* entry's group is its leaf's until the splits of this eviction have      *)
(* nearly filled the tree, and then its cell's (BatchBufferLGRand.h:86-97, *)
(* Btree.cpp:194).                                                         *)
Evicts ==
  LET gone == {i \in DOMAIN entries : ~\E j \in DOMAIN entries' : entries'[j] = entries[i]}
      groups == {Members(p) : p \in Groups}
      Class(g) == SizeClass(Cardinality(g))
      LastUse(g) == Max(Times(g)) + IF Late(g) THEN 1 ELSE 0
  IN  call'.op = "put" /\ gone # {} =>
        CASE policy = "FWF" -> gone = DOMAIN entries
          [] policy = "LG_RAND" ->
               \E h \in groups : gone = {i \in DOMAIN entries : Class(MetWith(i)) = Class(h)}
          [] OTHER ->
               /\ gone \in groups
               /\ \A g \in groups :
                    /\ policy = "LS" => Cardinality(g) <= Cardinality(gone)
                    /\ policy = "SP" => Cardinality(gone) <= Cardinality(g)
                    /\ policy = "LRU" => LastUse(gone) <= LastUse(g)
EvictsAsNamed == [][Evicts]_vars

(* Through evictions, flushes, splits of the leaves and reopening, the     *)
(* buffer over the tree answers like one map: what is pending hides what   *)
(* the tree has, and nothing pending is lost (Btree.cpp:235-281, 549-556). *)
Contents == [k \in Key |-> Found(k)]
Store == INSTANCE LinearStore
           WITH val <- Contents, pending <- <<>>, OutOfRange <- NA,
                PutAnswers <- {"kOK"}
ImplementsStore == Store!Spec

(* "Sets the datum for the specified key" (LinearStorage.h:81).            *)
Sets == call'.op = "put" /\ call'.answer = "kOK" => Contents'[call'.arg.key] = call'.arg.datum
PutSets == [][Sets]_vars
=============================================================================
