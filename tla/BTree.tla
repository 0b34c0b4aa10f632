------------------------------- MODULE BTree -------------------------------
(***************************************************************************)
(* btree/Btree.cpp without a batch buffer: a search tree whose internal    *)
(* blocks are sorted cells of pids and whose leaves hold entries and are   *)
(* chained from left to right.  A search starts from a cursor, the pinned  *)
(* path of the search before it in the same batch.                         *)
(*                                                                         *)
(* The bounds of a block are not on its page: its object gets them from    *)
(* the search that builds it, and keeps them as long as the page is        *)
(* cached.  The module records only bounds that differ from those the path *)
(* to the page gives; whether a page is cached matters nowhere else.       *)
(***************************************************************************)
EXTENDS LeafRules, SparseBlock

CONSTANTS
  EndsBy,       \* the keys are 0..EndsBy-1
  Value,        \* the data put, the default value included
  InternalCap,  \* config->internalCapacity
  Splitter,     \* the leaf splitters a tree may be created with
  MaxBatch,     \* bound on the length of a batch
  SizeMod,      \* 2^64: nLeaves and nnz are of type size_t
  NA,           \* what a get out of range leaves its caller with
  Careful       \* callers avoid what the violation runs show

ASSUME TreeAssumption ==
  /\ EndsBy \in Nat \ {0} /\ InternalCap \in Nat \ {0, 1}
  /\ Default \in Value /\ Careful \in BOOLEAN
  /\ Splitter \subseteq {"M", "T", "A", "RS"}
  /\ MaxBatch \in Nat \ {0} /\ SizeMod \in Nat \ {0, 1, 2}

(* The tree keeps a leaf as its entries; without a format they are lost.   *)
ASSUME SplitterAssumption == HalvesFit(Splitter)

VARIABLES
  page,    \* the pages of the tree, by pid
  header,  \* the image of the header page, and whether it is dirty
  stored,  \* its counts on disk
  bounds,  \* the bounds of the objects that have others than the path gives
  pins,    \* the pins of every page
  cursor,  \* the path the next search of the batch starts from
  job,     \* the entries of the batch still to be put
  call

vars == <<page, header, stored, bounds, pins, cursor, job, call>>

HeaderPage == 0
InvalidPid == -1

Leaf(type, entries, next) == [type |-> type, entries |-> entries, next |-> next]
Internal(kids) == [type |-> "internal", kids |-> kids]
Level(pid, index, b) == [pid |-> pid, index |-> index, lower |-> b[1], upper |-> b[2]]

InRange(level, key) == level.lower <= key /\ key < level.upper

(* getBlockObject: an object that is cached keeps the bounds it has. *)
ObjectBounds(t, pid, lower, upper) ==
  IF pid \in DOMAIN t.bounds THEN t.bounds[pid] ELSE <<lower, upper>>

-----------------------------------------------------------------------------
(* What one call does is written over t, the record of the state it works  *)
(* on: page, header, bounds, pins and cursor.                              *)
Tree == [page |-> page, header |-> header, bounds |-> bounds, pins |-> pins,
         cursor |-> cursor]

Pin(p, pids) == [q \in DOMAIN p |-> p[q] + Cardinality({i \in DOMAIN pids : pids[i] = q})]
Unpin(p, pids) == [q \in DOMAIN p |-> p[q] - Cardinality({i \in DOMAIN pids : pids[i] = q})]
Pids(levels) == [i \in DOMAIN levels |-> levels[i].pid]

(* Mutant: a key that is a separator goes to the child before it. *)
ChildIndex_Strict(t, level, key) == Max({0, Search(t.page[level.pid].kids, key) - 1})

ChildIndex(t, level, key) ==
  LET kids == t.page[level.pid].kids
      i == Search(kids, key)
  IN  IF HasKeyAt(kids, i, key) THEN i ELSE i - 1

Child(t, level) ==
  LET kids == t.page[level.pid].kids
      i == level.index + 1
      pid == kids[i].value
      upper == IF i = Len(kids) THEN level.upper ELSE kids[i + 1].key
  IN  Level(pid, 0, ObjectBounds(t, pid, kids[i].key, upper))

(* search: up the cursor to a block that has the key in its range, or back *)
(* to the root, then down to a leaf.                                       *)
LevelsKept(t, key) == Max({i \in DOMAIN t.cursor : InRange(t.cursor[i], key)} \cup {0})

PathTo(t, kept, key) ==
  LET from == IF kept > 0 THEN SubSeq(t.cursor, 1, kept)
              ELSE <<Level(t.header.root, 0, ObjectBounds(t, t.header.root, 0, EndsBy))>>
      Indexed(level, i) ==
        IF i < Len(from) \/ i = t.header.depth THEN level
        ELSE [level EXCEPT !.index = ChildIndex(t, level, key)]
      path[i \in 1..t.header.depth] ==
        Indexed(IF i <= Len(from) THEN from[i] ELSE Child(t, path[i - 1]), i)
  IN  SubSeq(path, 1, t.header.depth)

Moved(t, kept, path) ==
  [t EXCEPT !.cursor = path,
            !.pins = Pin(Unpin(@, Pids(SubSeq(t.cursor, kept + 1, Len(t.cursor)))),
                         Pids(SubSeq(path, kept + 1, Len(path))))]

Searched(t, key) ==
  Moved(t, LevelsKept(t, key), PathTo(t, LevelsKept(t, key), key))

(* Mutants: the pages stay pinned; the cursor keeps what it has unpinned. *)
Closed_Pinned(t) == [t EXCEPT !.cursor = <<>>]
Closed_Kept(t) == [t EXCEPT !.pins = Unpin(@, Pids(t.cursor))]

(* The cursor's destructor. *)
Closed(t) == [t EXCEPT !.cursor = <<>>, !.pins = Unpin(@, Pids(t.cursor))]

LeafOf(t) == t.cursor[Len(t.cursor)]
EntriesAt(t) == t.page[LeafOf(t).pid].entries
DatumIn(entries, key) == IF key \in DOMAIN entries THEN entries[key] ELSE Default

-----------------------------------------------------------------------------
Extended(f, x, v) == [y \in DOMAIN f \cup {x} |-> IF y = x THEN v ELSE f[y]]
NextPid(t) == Cardinality(DOMAIN t.page) + 1

(* Two blocks where there was one: level is the old block, with its bounds *)
(* cut at spKey, and right is the new one.  The cursor goes on with the    *)
(* one that has key in its range; the other, temp, is about to be          *)
(* unpinned.  index counts the cells of the new block from its first.      *)
Divide(t, i, key, spKey, left, right, sp) ==
  LET old == t.cursor[i]
      new == NextPid(t)
      l == [old EXCEPT !.upper = spKey]
      r == Level(new, old.index - sp, <<spKey, old.upper>>)
      takes == InRange(r, key)
  IN  [tree |-> [t EXCEPT
         !.page = Extended([@ EXCEPT ![old.pid] = left], new, right),
         !.bounds = IF old.pid \notin DOMAIN @ THEN @
                    ELSE Extended([@ EXCEPT ![old.pid] = <<l.lower, spKey>>],
                                  new, <<spKey, old.upper>>),
         !.pins = Extended(@, new, 1),
         !.cursor[i] = IF takes THEN r ELSE l],
       new |-> r, temp |-> IF takes THEN old.pid ELSE new, going |-> TRUE]

(* Mutant: the entry of the split key stays on the left. *)
LeftKeys_Through(m, spKey) == {k \in DOMAIN m : k <= spKey}
LeftKeys(m, spKey) == {k \in DOMAIN m : k < spKey}

SplitLeaf(t, key, m, spKey) ==
  LET level == LeafOf(t)
      leaf == [type |-> t.page[level.pid].type, lower |-> level.lower, upper |-> level.upper]
      types == SplitTypes(leaf, DOMAIN m, spKey, t.header.useDense)
      before == LeftKeys(m, spKey)
      left == Leaf(types[1], [k \in before |-> m[k]], NextPid(t))
      right == Leaf(types[2], [k \in DOMAIN m \ before |-> m[k]], InvalidPid)
  IN  Divide([t EXCEPT !.header.nLeaves = (@ + 1) % SizeMod],
             Len(t.cursor), key, spKey, left, right, 0)

(* Mutant: the index stays. *)
IndexAfter_Stays(level, new, key) == level.index

(* The cursor's index in a parent once the new block is in it. *)
IndexAfter(level, new, key) == IF InRange(new, key) THEN level.index + 1 ELSE level.index

(* The parent at level i gets the new block; if it overflows it splits in  *)
(* the middle and the next level goes on.                                  *)
Attach(s, i, key) ==
  LET level == s.tree.cursor[i]
      index == IndexAfter(level, s.new, key)
      kids == Inserted(s.tree.page[level.pid].kids, level.index + 1, s.new.lower, s.new.pid)
      sp == Len(kids) \div 2
      t == [s.tree EXCEPT !.cursor[i].index = index, !.pins = Unpin(@, <<s.temp>>)]
  IN  IF ~s.going THEN s
      ELSE IF Len(kids) <= InternalCap
      THEN [tree |-> [t EXCEPT !.page[level.pid] = Internal(kids)],
            new |-> s.new, temp |-> s.temp, going |-> FALSE]
      ELSE Divide(t, i, key, kids[sp + 1].key, Internal(SubSeq(kids, 1, sp)),
                  Internal(SubSeq(kids, sp + 1, Len(kids))), sp)

(* The root itself has split: a new root over the two halves. *)
GrowRoot(s, key) ==
  LET t == s.tree
      root == NextPid(t)
      index == IF InRange(s.new, key) THEN 1 ELSE 0
      kids == Inserted(Inserted(<<>>, 0, 0, t.header.root), 1, s.new.lower, s.new.pid)
  IN  [page |-> Extended(t.page, root, Internal(kids)),
       header |-> [t.header EXCEPT !.root = root, !.depth = @ + 1, !.dirty = TRUE],
       bounds |-> t.bounds,
       pins |-> Unpin(Pin(Extended(t.pins, root, 1), <<root>>), <<t.header.root, s.temp>>),
       cursor |-> <<Level(root, index, <<0, EndsBy>>)>> \o t.cursor]

(* split: from the leaf up to a block that has room, or a new root. *)
Split(t, key, m, spKey) ==
  LET n == Len(t.cursor)
      rising[i \in 0..n-1] ==
        IF i = 0 THEN SplitLeaf(t, key, m, spKey) ELSE Attach(rising[i - 1], n - i, key)
      top == rising[n - 1]
  IN  IF top.going THEN GrowRoot(top, key) ELSE top.tree

(* Mutant: every put counts. *)
NnzAfter_EveryPut(nnz, old, new) == (nnz + 1) % SizeMod

NnzAfter(nnz, old, new) ==
  (nnz + Cardinality(DOMAIN new) - Cardinality(DOMAIN old)) % SizeMod

(* What a put into the leaf at level may leave behind, when the leaf then  *)
(* has the entries m.                                                      *)
LeafPut(t, level, leaf, key, m) ==
  LET answer == PutAnswer(leaf.type, DOMAIN m)
      bounded == [type |-> leaf.type, lower |-> level.lower, upper |-> level.upper]
  IN  CASE answer = "kOK" -> {[t EXCEPT !.page[level.pid].entries = m]}
        [] answer = "kSwitchFormat" /\ t.header.useDense ->
             {[t EXCEPT !.page[level.pid] = Leaf(Other(leaf.type), m, InvalidPid)]}
        [] OTHER ->
             {Split(t, key, m, spKey) :
                spKey \in SplitKeys(t.header.splitter, bounded, DOMAIN m, t.header.useDense)}

(* putHelper, once the search is done: its answer and the states it may    *)
(* leave behind.                                                           *)
PutThere(t, leaf, key, m) ==
  [answer |-> PutAnswer(leaf.type, DOMAIN m),
   trees |-> LeafPut([t EXCEPT !.header.nnz = NnzAfter(@, leaf.entries, m)],
                     LeafOf(t), leaf, key, m)]

PutAt(t, key, datum) ==
  PutThere(t, t.page[LeafOf(t).pid], key, WithEntry(EntriesAt(t), key, datum))

PutHelper(t, key, datum) == PutAt(Searched(t, key), key, datum)

-----------------------------------------------------------------------------
Called(op, arg, answer) == [op |-> op, arg |-> arg, answer |-> answer]

Becomes(t) ==
  /\ page' = t.page /\ header' = t.header /\ bounds' = t.bounds
  /\ pins' = t.pins /\ cursor' = t.cursor

(* The constructor that creates the file: one empty leaf is the root.      *)
(* nLeaves is set to 1 and then counts the leaf once more.                 *)
Init ==
  /\ \E dense \in BOOLEAN, sp \in Splitter :
       header = [root |-> 1, depth |-> 1, nLeaves |-> 2, nnz |-> 0, dirty |-> TRUE,
                 useDense |-> dense, splitter |-> sp]
  /\ page = [p \in {1} |-> Leaf("sparse", NoEntries, InvalidPid)]
  /\ stored = [nLeaves |-> 0, nnz |-> 0]
  /\ bounds = [p \in {} |-> <<0, 0>>]
  /\ pins = [p \in {HeaderPage, 1} |-> 1]
  /\ cursor = <<>> /\ job = <<>>
  /\ call = Called("create", 0, "kOK")

Key == 0..EndsBy-1
Entry == [key : 0..EndsBy, datum : Value]

TreePut(e) ==
  /\ job = <<>>
  /\ UNCHANGED <<stored, job>>
  /\ \/ /\ e.key >= EndsBy
        /\ call' = Called("put", e, "kOutOfBound")
        /\ UNCHANGED <<page, header, bounds, pins, cursor>>
     \/ /\ e.key < EndsBy
        /\ LET r == PutHelper(Tree, e.key, e.datum)
           IN  /\ call' = Called("put", e, r.answer)
               /\ \E t \in r.trees : Becomes(Closed(t))

(* One entry of a batch.  The cursor dies with the last one. *)
BatchStep(left) ==
  LET e == Head(left)
      After(t) == IF Len(left) = 1 THEN Closed(t) ELSE t
  IN  /\ job' = Tail(left)
      /\ call' = Called("batchPut", [left |-> left, group |-> <<e>>], "AC_OK")
      /\ UNCHANGED stored
      /\ \/ /\ e.key >= EndsBy
            /\ Becomes(After(Tree))
         \/ /\ e.key < EndsBy
            /\ \E t \in PutHelper(Tree, e.key, e.datum).trees : Becomes(After(t))

(* A batch is safe where a block may have wrong bounds only if its keys    *)
(* ascend.                                                                 *)
Ascending(keys) == \A i \in 1..Len(keys)-1 : keys[i] <= keys[i + 1]
SafeOrder(keys) == Careful => bounds = [p \in {} |-> <<0, 0>>] \/ Ascending(keys)

BatchPut(es) ==
  /\ job = <<>>
  /\ SafeOrder([i \in DOMAIN es |-> es[i].key])
  /\ BatchStep(es)

BatchPutNext == job # <<>> /\ BatchStep(job)

-----------------------------------------------------------------------------
Unchanged == UNCHANGED <<page, header, stored, bounds, pins, cursor, job>>

Get(key) ==
  /\ job = <<>>
  /\ call' = Called("get", key, IF key >= EndsBy THEN NA
                                ELSE DatumIn(EntriesAt(Searched(Tree, key)), key))
  /\ Unchanged

(* One cursor for all the keys. *)
BatchGet(keys) ==
  /\ job = <<>>
  /\ SafeOrder(keys)
  /\ LET Next1(r, key) ==
           IF key >= EndsBy THEN [r EXCEPT !.data = Append(@, Default)]
           ELSE LET t == Searched(r.tree, key)
                IN  [tree |-> t, data |-> Append(r.data, DatumIn(EntriesAt(t), key))]
         got[i \in 0..Len(keys)] ==
           IF i = 0 THEN [tree |-> Tree, data |-> <<>>] ELSE Next1(got[i - 1], keys[i])
     IN  call' = Called("batchGet", keys, got[Len(keys)].data)
  /\ Unchanged

(* The leaves a range get visits: along the chain, up to the leaf of the   *)
(* last key or the end of the chain.                                       *)
LeafPid(key) == LeafOf(Searched(Tree, key)).pid

Visited(beginsAt, endsBy) ==
  LET last == LeafPid(endsBy - 1)
      Onward(v) == IF Last(v) = last \/ page[Last(v)].next = InvalidPid THEN v
                   ELSE Append(v, page[Last(v)].next)
      walk[i \in 0..NextPid(Tree)] ==
        IF i = 0 THEN <<LeafPid(beginsAt)>> ELSE Onward(walk[i - 1])
  IN  walk[NextPid(Tree)]

ChainReaches(beginsAt, endsBy) ==
  LET v == Visited(beginsAt, endsBy) IN v[Len(v)] = LeafPid(endsBy - 1)

(* The leaves between the first and the last get an object with bounds     *)
(* (0, 0), unless their page has one in the cache.                         *)
RangeGet(beginsAt, endsBy) ==
  LET v == Visited(beginsAt, endsBy)
      middle == {v[i] : i \in DOMAIN v} \ {v[1], LeafPid(endsBy - 1)}
      Found(p) == Part(page[p].entries, beginsAt, endsBy)
      Sorted(m) == [i \in 1..Cardinality(DOMAIN m) |->
                      LET k == KeyAt(DOMAIN m, i - 1) IN [key |-> k, datum |-> m[k]]]
  IN  /\ job = <<>>
      /\ Careful => ChainReaches(beginsAt, endsBy)
      /\ call' = Called("batchGetVector", <<beginsAt, endsBy>>,
                        FlattenSeq([i \in DOMAIN v |-> Sorted(Found(v[i]))]))
      /\ \E built \in SUBSET (middle \ DOMAIN bounds) :
           bounds' = [p \in DOMAIN bounds \cup built |->
                        IF p \in built THEN <<0, 0>> ELSE bounds[p]]
      /\ UNCHANGED <<page, header, stored, pins, cursor, job>>

-----------------------------------------------------------------------------
(* The buffer replaces an unpinned page; its object goes with it. *)
Evict(p) ==
  /\ p \in DOMAIN bounds /\ pins[p] = 0
  /\ bounds' = [q \in DOMAIN bounds \ {p} |-> bounds[q]]
  /\ call' = Called("quiet", p, "kOK")
  /\ UNCHANGED <<page, header, stored, pins, cursor, job>>

(* flush, and the destructor with the constructor that opens the file: a   *)
(* header page that is not dirty is not written.                           *)
Written ==
  IF header.dirty THEN [nLeaves |-> header.nLeaves, nnz |-> header.nnz] ELSE stored

Flush ==
  /\ job = <<>>
  /\ stored' = Written
  /\ header' = [header EXCEPT !.dirty = FALSE]
  /\ call' = Called("quiet", 0, "kOK")
  /\ UNCHANGED <<page, bounds, pins, cursor, job>>

Reopen ==
  /\ job = <<>>
  /\ stored' = Written
  /\ header' = [header EXCEPT !.dirty = FALSE, !.nLeaves = Written.nLeaves, !.nnz = Written.nnz]
  /\ bounds' = [p \in {} |-> <<0, 0>>]
  /\ pins' = Pin(Unpin(pins, <<HeaderPage, header.root>>), <<HeaderPage, header.root>>)
  /\ call' = Called("reopen", 0, "kOK")
  /\ UNCHANGED <<page, cursor, job>>

Next ==
  \/ \E e \in Entry : TreePut(e)
  \/ \E n \in 1..MaxBatch : \E es \in [1..n -> Entry] : BatchPut(es)
  \/ BatchPutNext
  \/ \E key \in 0..EndsBy : Get(key)
  \/ \E n \in 1..MaxBatch : \E keys \in [1..n -> 0..EndsBy] : BatchGet(keys)
  \/ \E b \in 0..EndsBy-1 : \E e \in b+1..EndsBy : RangeGet(b, e)
  \/ \E p \in DOMAIN page : Evict(p)
  \/ Flush
  \/ Reopen

Spec == Init /\ [][Next]_vars

-----------------------------------------------------------------------------
(* The variables keep their types.                                         *)
LeafPage == [type : {"sparse", "dense"},
             entries : UNION {[ks -> Value \ {Default}] : ks \in SUBSET Key},
             next : DOMAIN page \cup {InvalidPid}]
InternalPage == [type : {"internal"}, kids : Seq([key : Key, value : DOMAIN page])]
TypeOK ==
  /\ page \in [DOMAIN page -> LeafPage \cup InternalPage]
  /\ header \in [root : DOMAIN page, depth : Nat \ {0}, nLeaves : 0..SizeMod-1,
                 nnz : 0..SizeMod-1, dirty : BOOLEAN, useDense : BOOLEAN, splitter : Splitter]
  /\ stored \in [nLeaves : 0..SizeMod-1, nnz : 0..SizeMod-1]
  /\ DOMAIN bounds \subseteq DOMAIN page
  /\ bounds \in [DOMAIN bounds -> Nat \X Nat]
  /\ pins \in [DOMAIN page \cup {HeaderPage} -> Nat]
  /\ Len(cursor) \in {0, header.depth}
  /\ job \in UNION {[1..n -> Entry] : n \in 0..MaxBatch-1}

(* The blocks of every level, with the bounds their separators give.       *)
Children(b) ==
  LET kids == page[b.pid].kids
  IN  {[pid |-> kids[i].value, lower |-> kids[i].key,
        upper |-> IF i = Len(kids) THEN b.upper ELSE kids[i + 1].key] : i \in DOMAIN kids}

Blocks ==
  LET level[i \in 1..header.depth] ==
        IF i = 1 THEN {[pid |-> header.root, lower |-> 0, upper |-> EndsBy]}
        ELSE UNION {Children(b) : b \in level[i - 1]}
  IN  level

(* Splits on every level keep the keys of a block within its separators,   *)
(* all leaves at one depth, no block over its capacity, and every page     *)
(* that was ever allocated in the tree, once (Btree.cpp:319-404).          *)
BlockSound(b) ==
  LET node == page[b.pid]
  IN  IF node.type = "internal"
      THEN /\ Len(node.kids) \in 1..InternalCap
           /\ node.kids[1].key = b.lower
           /\ \A i \in DOMAIN node.kids : node.kids[i].key < b.upper
           /\ \A i \in 1..Len(node.kids)-1 : node.kids[i].key < node.kids[i + 1].key
      ELSE /\ DOMAIN node.entries \subseteq b.lower..b.upper-1
           /\ Fits(node.type, DOMAIN node.entries)
TreeSound ==
  /\ \A i \in 1..header.depth : \A b \in Blocks[i] :
       (page[b.pid].type = "internal" <=> i < header.depth) /\ BlockSound(b)
  /\ UNION {{b.pid : b \in Blocks[i]} : i \in 1..header.depth} = DOMAIN page
  /\ Cardinality(UNION {Blocks[i] : i \in 1..header.depth}) <= Cardinality(DOMAIN page)

(* "First up the tree and then down" (Btree.h:92): after splits and a new  *)
(* root the cursor still is a path from the root to a leaf, with the       *)
(* indices and bounds the next search relies on.  A stale object may break *)
(* the path, for keys that the search then does not look for.              *)
CursorIsPath ==
  bounds = [p \in {} |-> <<0, 0>>] =>
    \A i \in DOMAIN cursor :
      /\ [pid |-> cursor[i].pid, lower |-> cursor[i].lower, upper |-> cursor[i].upper]
           \in Blocks[i]
      /\ i < Len(cursor) =>
           page[cursor[i].pid].kids[cursor[i].index + 1].value = cursor[i + 1].pid

(* The header and the root are pinned once while the tree is open, and     *)
(* else only the cursor's path is (asserts at Btree.cpp:124, 126).         *)
PinsBalance ==
  \A p \in DOMAIN pins :
    pins[p] = Cardinality({i \in DOMAIN cursor : cursor[i].pid = p})
              + IF p \in {HeaderPage, header.root} THEN 1 ELSE 0

(* What is stored in the tree, wherever it is.                             *)
Leaves == {p \in DOMAIN page : page[p].type # "internal"}
Stored == UNION {{<<k, page[p].entries[k]>> : k \in DOMAIN page[p].entries} : p \in Leaves}
Contents ==
  [k \in Key |-> IF \E e \in Stored : e[1] = k THEN (CHOOSE e \in Stored : e[1] = k)[2]
                 ELSE Default]

(* Through splits, changes of format, cursors kept from one entry of a     *)
(* batch to the next, and the stale bounds of range gets, the tree answers *)
(* with what was put (Btree.cpp:235-547).  "We don't know the bounds, but  *)
(* that won't affect the batchGet op" (Btree.cpp:535).                     *)
Store == INSTANCE LinearStore
           WITH val <- Contents, pending <- job, OutOfRange <- NA,
                PutAnswers <- {"kOK", "kOverflow", "kSwitchFormat"}
ImplementsMap == Store!Spec

(* nnz follows the number of entries, put after put (Btree.cpp:291-293),   *)
(* until the tree is closed.                                               *)
Entries == Cardinality(Stored)
CountFollows ==
  call'.op # "reopen" =>
    (header'.nnz - header.nnz) % SizeMod = (Entries' - Entries) % SizeMod
NnzFollows == [][CountFollows]_vars

(* "Gets nonzero key-value pairs in range [beginsAt, endsBy)"              *)
(* (LinearStorage.h:78).                                                   *)
FindsAll ==
  call'.op = "batchGetVector" =>
    {e.key : e \in {call'.answer[i] : i \in DOMAIN call'.answer}}
      = {e[1] : e \in {e \in Stored : call'.arg[1] <= e[1] /\ e[1] < call'.arg[2]}}
RangeGetsFindAll == [][FindsAll]_<<call.op, vars>>
=============================================================================
