----------------------------- MODULE LeafBlock -----------------------------
(***************************************************************************)
(* One leaf of the B-tree, sparse or dense, through the calls BTree makes  *)
(* on it (btree/Btree.cpp: putHelper, split, switchFormat, getHelper and   *)
(* the range batchGet).  After a split the module follows either half.     *)
(***************************************************************************)
EXTENDS DenseLeafBlock, SparseBlock

CONSTANTS
  EndsBy,    \* the keys of the tree are 0..EndsBy-1
  Value,     \* the data put, the default value included
  Splitter   \* the splitters a tree may be created with

ASSUME LeafAssumption ==
  EndsBy \in Nat /\ Default \in Value /\ Splitter \subseteq {"M", "A", "T", "RS"}

VARIABLES block, useDense, splitter, call

vars == <<block, useDense, splitter, call>>

Called(op, arg, answer) == [op |-> op, arg |-> arg, answer |-> answer]

SparseCreated(lower, upper) ==
  [type |-> "sparse", lower |-> lower, upper |-> upper, cells |-> <<>>,
   isOverflowed |-> FALSE, overflow |-> NoOverflow]

Create(type, lower, upper) ==
  IF type = "dense" THEN DenseCreated(lower, upper) ELSE SparseCreated(lower, upper)

SparsePut(b, key, datum) ==
  LET i == Search(b.cells, key)
  IN  CASE datum = Default -> IF HasKeyAt(b.cells, i, key)
                              THEN [b EXCEPT !.cells = Deleted(@, i)] ELSE b
        [] datum # Default /\ (HasKeyAt(b.cells, i, key) \/ Len(b.cells) < SparseCap) ->
             [b EXCEPT !.cells = Inserted(@, i, key, datum)]
        [] OTHER -> [b EXCEPT !.isOverflowed = TRUE,
                              !.overflow = [index |-> i, key |-> key, datum |-> datum]]

LeafPut(b, key, datum) ==
  IF b.type = "dense" THEN Put(b, key, datum) ELSE SparsePut(b, key, datum)

(* getRangeWithOverflow(0, sizeWithOverflow()) *)
OwnEntries(b) ==
  IF b.type = "dense" THEN Stored(b)
  ELSE [k \in {b.cells[i].key : i \in DOMAIN b.cells} |->
          b.cells[Search(b.cells, k) + 1].value]

EntriesOf(b) ==
  IF b.isOverflowed THEN WithEntry(OwnEntries(b), b.overflow.key, b.overflow.datum)
  ELSE OwnEntries(b)

(* canSwitchFormat of either block, asked when put has overflowed. *)
CanSwitchFormat(b) ==
  IF b.type = "dense" THEN SwitchesFormat(b) ELSE Span(DOMAIN EntriesOf(b)) <= DenseCap

AnswerOf(b) ==
  CASE ~b.isOverflowed -> "kOK"
    [] b.isOverflowed /\ CanSwitchFormat(b) -> "kSwitchFormat"
    [] OTHER -> "kOverflow"

(* putRangeSorted into a new block stops when an entry overflows. *)
Fills(b, m) ==
  LET fill[i \in 0..Cardinality(DOMAIN m)] ==
        IF i = 0 THEN b
        ELSE IF fill[i-1].isOverflowed THEN fill[i-1]
        ELSE LeafPut(fill[i-1], KeyAt(DOMAIN m, i-1), m[KeyAt(DOMAIN m, i-1)])
  IN  fill

Filled(b, m) == Fills(b, m)[Cardinality(DOMAIN m)]

SwitchFormat(b) == Filled(Create(Other(b.type), b.lower, b.upper), EntriesOf(b))

LeafTruncated(b, sp, spKey) ==
  IF b.type = "dense" THEN Truncate(b, sp, spKey)
  ELSE [b EXCEPT !.upper = spKey,
                 !.cells = Truncated(@, IF b.isOverflowed THEN b.overflow.index ELSE -1,
                                     Cells(b.overflow.key, b.overflow.datum), sp),
                 !.isOverflowed = FALSE, !.overflow = NoOverflow]

(* Splitter::splitHelper with these types, and the switch of the left half *)
(* that it asks of BTree::split.                                           *)
Halves(b, spKey, types) ==
  LET m == EntriesOf(b)
      left == LeafTruncated(b, Cardinality({k \in DOMAIN m : k < spKey}), spKey)
  IN  <<IF types[1] = b.type THEN left ELSE SwitchFormat(left),
        Filled(Create(types[2], spKey, b.upper), Part(m, spKey, b.upper))>>

-----------------------------------------------------------------------------
Init ==
  /\ block = SparseCreated(0, EndsBy)
  /\ useDense \in BOOLEAN
  /\ splitter \in Splitter
  /\ call = Called("create", 0, "kOK")

PutEntry(key, datum) ==
  LET b == LeafPut(block, key, datum)
      ks == DOMAIN EntriesOf(b)
  IN  /\ call' = Called("put", [key |-> key, datum |-> datum], AnswerOf(b))
      /\ CASE AnswerOf(b) = "kOK" -> block' = b
           [] AnswerOf(b) = "kSwitchFormat" /\ useDense -> block' = SwitchFormat(b)
           [] OTHER -> \E spKey \in SplitKeys(splitter, b, ks, useDense) :
                       \E types \in TypesUsed(SplitTypes(b, ks, spKey, useDense)), i \in 1..2 :
                         block' = Halves(b, spKey, types)[i]
      /\ UNCHANGED <<useDense, splitter>>

Get(key) ==
  /\ call' = Called("get", key,
       IF block.type = "dense" THEN DatumOf(block, key)
       ELSE LET i == Search(block.cells, key)
            IN  IF HasKeyAt(block.cells, i, key) THEN block.cells[i + 1].value ELSE Default)
  /\ UNCHANGED <<block, useDense, splitter>>

BatchGet(beginsAt, endsBy) ==
  /\ call' = Called("batchGet", <<beginsAt, endsBy>>,
       IF block.type = "dense"
       THEN LET m == Part(Stored(block), beginsAt, endsBy)
            IN  [i \in 1..Cardinality(DOMAIN m) |->
                   LET k == KeyAt(DOMAIN m, i - 1) IN [key |-> k, datum |-> m[k]]]
       ELSE LET s == SubSeq(block.cells, Search(block.cells, beginsAt) + 1,
                            Search(block.cells, endsBy))
            IN  [i \in DOMAIN s |-> [key |-> s[i].key, datum |-> s[i].value]])
  /\ UNCHANGED <<block, useDense, splitter>>

(* The page loses its block object, and the next search builds another. *)
Reload ==
  /\ block' = IF block.type = "dense" THEN Loaded(block) ELSE block
  /\ call' = Called("reload", 0, "kOK")
  /\ UNCHANGED <<useDense, splitter>>

Next ==
  \/ \E key \in block.lower..block.upper-1, datum \in Value : PutEntry(key, datum)
  \/ \E key \in block.lower..block.upper-1 : Get(key)
  \/ \E b, e \in 0..EndsBy : b < e /\ BatchGet(b, e)
  \/ Reload

Spec == Init /\ [][Next]_vars

-----------------------------------------------------------------------------
(* The variables keep their types; a dense block's indices stay within the *)
(* buffer (DenseLeafBlock::Header, BtreeDenseLeafBlock.h:15-20).           *)
TypeOK ==
  /\ block.type \in {"sparse", "dense"}
  /\ block.lower \in 0..EndsBy /\ block.upper \in 0..EndsBy
  /\ block.type = "dense" =>
       /\ block.headIndex \in 0..DenseCap-1 /\ block.tailIndex \in 0..DenseCap-1
       /\ block.nEntries \in 0..DenseCap
       /\ block.data \in [0..DenseCap-1 -> Value]
  /\ block.type = "sparse" => Len(block.cells) <= SparseCap
  /\ useDense \in BOOLEAN /\ splitter \in Splitter

(* A dense leaf counts its cells right, its segment is no longer than the  *)
(* buffer and lies within the bounds; nEntries alone tells a full buffer   *)
(* from an empty one when the page is read again                           *)
(* (BtreeDenseLeafBlock.h:31-33).                                          *)
SegmentSound ==
  block.type = "dense" =>
    /\ block.nEntries = Cardinality(DOMAIN Stored(block))
    /\ block.nEntries > 0 => /\ block.lower <= block.headKey
                             /\ block.headKey < block.tailKey
                             /\ block.tailKey <= block.upper
                             /\ block.tailKey - block.headKey <= DenseCap
                             /\ Loaded(block).tailKey = block.tailKey

(* No call returns with an entry that is only in the object: what a split, *)
(* a truncation or a change of format could not place would be lost with   *)
(* it ("put could return kSwitchFormat, which will be dealt by the         *)
(* caller", BtreeDenseLeafBlock.cpp:324).                                  *)
NothingOverflows == ~block.isOverflowed

(* Through overflows, splits, changes of format and reloading the leaf     *)
(* answers every get with what was put (BtreeDenseLeafBlock.cpp,           *)
(* BtreeSparseBlock.cpp).                                                  *)
Leaf == INSTANCE LeafStore
          WITH entries <- EntriesOf(block), lower <- block.lower, upper <- block.upper,
               type <- block.type
ImplementsLeaf == Leaf!Spec
=============================================================================
