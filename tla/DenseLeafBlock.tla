-------------------------- MODULE DenseLeafBlock --------------------------
(***************************************************************************)
(* btree/BtreeDenseLeafBlock.cpp: a leaf that stores the data of the keys  *)
(* from headKey up to tailKey in a circular buffer of DenseCap cells.      *)
(* headIndex is the cell of headKey and tailIndex the cell after the last  *)
(* one; when they coincide nEntries tells a full buffer from an empty one. *)
(* tailKey is not on the page: an object derives it when it is built.      *)
(***************************************************************************)
EXTENDS LeafRules

NoOverflow == [index |-> 0, key |-> 0, datum |-> Default]

Wrapped(i) == IF i < 0 THEN i + DenseCap ELSE IF i >= DenseCap THEN i - DenseCap ELSE i

(* value_(index) *)
Cell(b, index) == Wrapped(b.headIndex + index)

DenseCreated(lower, upper) ==
  [type |-> "dense", lower |-> lower, upper |-> upper,
   nEntries |-> 0, headIndex |-> 0, tailIndex |-> 0, headKey |-> lower,
   data |-> [i \in 0..DenseCap-1 |-> Default],
   tailKey |-> lower, isOverflowed |-> FALSE, overflow |-> NoOverflow]

(* Mutant: a full buffer is taken for an empty one. *)
Loaded_EmptyWhenFull(b) ==
  [b EXCEPT !.tailKey = b.headKey + Wrapped(b.tailIndex - b.headIndex),
            !.isOverflowed = FALSE, !.overflow = NoOverflow]

(* The constructor over a page that holds a dense leaf. *)
Loaded(b) ==
  LET diff == Wrapped(b.tailIndex - b.headIndex)
  IN  [b EXCEPT !.tailKey = b.headKey + IF diff = 0 /\ b.nEntries > 0 THEN DenseCap ELSE diff,
                !.isOverflowed = FALSE, !.overflow = NoOverflow]

(* n cells from index i on set to the default value, around the end. *)
Cleared(data, i, n) ==
  [c \in DOMAIN data |-> IF \E j \in 0..n-1 : c = Wrapped(i + j) THEN Default ELSE data[c]]

(* extendStoredRange moves the end of the segment over default values only *)
(* when the new key does not fit otherwise.                                *)
TailTightened(b) ==
  LET n == Min({j \in 0..DenseCap-1 : b.data[Wrapped(b.tailIndex - 1 - j)] # Default})
  IN  [b EXCEPT !.tailIndex = Wrapped(b.tailIndex - n), !.tailKey = @ - n]

(* Mutant: the first key stays the same. *)
HeadTightened_KeyKept(b) ==
  LET n == Min({j \in 0..DenseCap-1 : b.data[Wrapped(b.headIndex + j)] # Default})
  IN  [b EXCEPT !.headIndex = Wrapped(b.headIndex + n)]

HeadTightened(b) ==
  LET n == Min({j \in 0..DenseCap-1 : b.data[Wrapped(b.headIndex + j)] # Default})
  IN  [b EXCEPT !.headIndex = Wrapped(b.headIndex + n), !.headKey = @ + n]

ExtendDown(b, key) ==
  LET t == IF b.tailKey - key > DenseCap THEN TailTightened(b) ELSE b
      n == t.headKey - key
      head == Wrapped(t.headIndex - n)
  IN  IF t.tailKey - key > DenseCap THEN t
      ELSE [t EXCEPT !.headIndex = head, !.headKey = key, !.data = Cleared(@, head, n)]

(* Mutant: tailIndex stays past the end of the buffer. *)
ExtendUp_NoWrap(b, key) ==
  LET t == IF key + 1 - b.headKey > DenseCap THEN HeadTightened(b) ELSE b
      n == key + 1 - t.tailKey
  IN  IF key + 1 - t.headKey > DenseCap THEN t
      ELSE [t EXCEPT !.tailIndex = @ + n, !.tailKey = key + 1,
                     !.data = Cleared(@, t.tailIndex, n)]

ExtendUp(b, key) ==
  LET t == IF key + 1 - b.headKey > DenseCap THEN HeadTightened(b) ELSE b
      n == key + 1 - t.tailKey
  IN  IF key + 1 - t.headKey > DenseCap THEN t
      ELSE [t EXCEPT !.tailIndex = Wrapped(@ + n), !.tailKey = key + 1,
                     !.data = Cleared(@, t.tailIndex, n)]

ExtendStoredRange(b, key) ==
  IF b.nEntries = 0
  THEN [b EXCEPT !.headKey = key, !.headIndex = 0, !.tailIndex = 1, !.tailKey = key + 1,
                 !.data[0] = Default]
  ELSE IF key < b.headKey THEN ExtendDown(b, key)
  ELSE IF key >= b.tailKey THEN ExtendUp(b, key)
  ELSE b

Holds(b, key) == b.headKey <= key /\ key < b.tailKey

DatumOf(b, key) == IF Holds(b, key) THEN b.data[Cell(b, key - b.headKey)] ELSE Default

(* put of the default value: del, when the key has another one. *)
Delete(b, key) ==
  IF b.nEntries = 0 \/ DatumOf(b, key) = Default THEN b
  ELSE [b EXCEPT !.data[Cell(b, key - b.headKey)] = Default, !.nEntries = @ - 1]

(* A key that does not fit stays in the object as the overflow entry. *)
Put(b, key, datum) ==
  IF datum = Default THEN Delete(b, key)
  ELSE LET e == ExtendStoredRange(b, key)
       IN  IF Holds(e, key)
           THEN [e EXCEPT !.data[Cell(e, key - e.headKey)] = datum,
                          !.nEntries = IF DatumOf(e, key) = Default THEN @ + 1 ELSE @]
           ELSE [e EXCEPT !.isOverflowed = TRUE,
                          !.overflow = [index |-> key - e.headKey, key |-> key,
                                        datum |-> datum]]

SwitchesFormat(b) == b.nEntries + 1 <= SparseCap

(* The non-default cells, as SparseIterator finds them. *)
Stored(b) ==
  LET ks == {k \in b.headKey .. b.tailKey-1 : DatumOf(b, k) # Default}
  IN  [k \in ks |-> DatumOf(b, k)]

(* truncate(pos, end): the entries from the pos-th on have gone to the new *)
(* leaf.  pos counts an overflow entry that lies before the segment.       *)
Truncate(b, pos, end) ==
  LET front == b.isOverflowed /\ b.overflow.index <= 0
      stop == IF ~front /\ end > b.tailKey THEN b.tailKey ELSE end
      from == IF front /\ b.headKey > stop THEN b.headKey ELSE stop
      cut == [b EXCEPT !.upper = end,
                       !.nEntries = IF front THEN pos - 1 ELSE pos,
                       !.data = [c \in DOMAIN @ |->
                                   IF \E k \in from..b.tailKey-1 : c = Cell(b, k - b.headKey)
                                   THEN Default ELSE @[c]],
                       !.tailIndex = IF @ < b.tailKey - stop THEN @ - (b.tailKey - stop) + DenseCap
                                     ELSE @ - (b.tailKey - stop),
                       !.tailKey = stop]
      done == [cut EXCEPT !.isOverflowed = FALSE, !.overflow = NoOverflow]
  IN  IF front THEN Put(done, b.overflow.key, b.overflow.datum) ELSE done
=============================================================================
