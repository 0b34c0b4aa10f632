--------------------------- MODULE LeafBlockProofs ---------------------------
(***************************************************************************)
(* A leaf holds what was put into it, for every tree and set of data, and  *)
(* for all capacities and splitters that give every half of a leaf that is *)
(* split a format (HalvesFit): the default 511 and 1021 with any splitter, *)
(* riotrc's 500 and 1000 with "A" or "RS" and not with "M" or "T".         *)
(*                                                                         *)
(* The argument goes up in four parts.  A dense block is good when its     *)
(* segment is (Segment) and its count is; a sparse one when its cells      *)
(* ascend; every operation of either keeps that and changes the entries as *)
(* the rules say.  A new block filled with entries that fit holds them.    *)
(* Wherever a splitter cuts an overfull leaf, both halves fit the formats  *)
(* chosen for them (SplitSound).  Then each action of LeafBlock is a step  *)
(* of LeafStore.                                                           *)
(***************************************************************************)
EXTENDS LeafBlock, OperatorProofs


-----------------------------------------------------------------------------
(* The shape of a dense block, and its segment. *)
Overflow == [index : Int, key : Int, datum : Value]

DenseLeaf ==
  [type : {"dense"}, lower : Int, upper : Int, nEntries : Nat,
   headIndex : 0..DenseCap-1, tailIndex : 0..DenseCap-1, headKey : Int,
   data : [0..DenseCap-1 -> Value], tailKey : Int,
   isOverflowed : BOOLEAN, overflow : Overflow]

Segment(b) ==
  /\ b.lower <= b.headKey /\ b.headKey <= b.tailKey /\ b.tailKey <= b.upper
  /\ b.tailKey - b.headKey <= DenseCap
  /\ b.tailIndex = Wrapped(b.headIndex + (b.tailKey - b.headKey))

Keys(b) == {k \in Int : DatumOf(b, k) # Default}

(* What the assumptions say of the capacities. *)
LEMMA CapsAre ==
  /\ DenseCap \in Nat /\ DenseCap > 1 /\ SparseCap \in Nat /\ SparseCap > 0
  /\ EndsBy \in Nat /\ Default \in Value
BY CapAssumption, LeafAssumption

LEMMA DenseIs ==
  ASSUME NEW b \in DenseLeaf
  PROVE  /\ b.lower \in Int /\ b.upper \in Int /\ b.nEntries \in Nat /\ b.type = "dense"
         /\ b.headIndex \in Int /\ 0 <= b.headIndex /\ b.headIndex < DenseCap
         /\ b.tailIndex \in Int /\ 0 <= b.tailIndex /\ b.tailIndex < DenseCap
         /\ b.headKey \in Int /\ b.tailKey \in Int
         /\ b.data \in [0..DenseCap-1 -> Value]
         /\ b.isOverflowed \in BOOLEAN /\ b.overflow \in Overflow
BY CapsAre DEF DenseLeaf

(* The cells of different keys of the segment are different. *)
LEMMA CellIs ==
  ASSUME NEW b \in DenseLeaf, NEW i \in Int, 0 <= i, i < DenseCap
  PROVE  /\ Cell(b, i) \in 0..DenseCap-1
         /\ \A j \in Int : 0 <= j /\ j < DenseCap /\ Cell(b, j) = Cell(b, i) => j = i
BY CapsAre, DenseIs DEF Cell, Wrapped

LEMMA DatumIs ==
  ASSUME NEW b \in DenseLeaf, Segment(b), NEW k \in Int
  PROVE  /\ DatumOf(b, k) \in Value
         /\ Holds(b, k) => /\ k - b.headKey \in Int /\ 0 <= k - b.headKey
                           /\ k - b.headKey < DenseCap
                           /\ Cell(b, k - b.headKey) \in 0..DenseCap-1
         /\ ~Holds(b, k) => DatumOf(b, k) = Default
<1>1. Holds(b, k) => k - b.headKey \in Int /\ 0 <= k - b.headKey /\ k - b.headKey < DenseCap
  BY CapsAre, DenseIs DEF Holds, Segment
<1>2. Holds(b, k) => Cell(b, k - b.headKey) \in 0..DenseCap-1
  BY <1>1, CellIs
<1> QED BY <1>1, <1>2, CapsAre, DenseIs DEF DatumOf

(* The entries are those of the keys with another datum than the default. *)
LEMMA StoredIs ==
  ASSUME NEW b \in DenseLeaf
  PROVE  /\ Stored(b) = [k \in Keys(b) |-> DatumOf(b, k)]
         /\ \A k \in Keys(b) : k \in Int /\ Holds(b, k) /\ b.headKey <= k /\ k < b.tailKey
         /\ IsFiniteSet(Keys(b))
<1>0. b.headKey \in Int /\ b.tailKey \in Int
  BY DenseIs
<1>1. \A k \in Keys(b) : k \in Int /\ Holds(b, k) /\ b.headKey <= k /\ k < b.tailKey
  BY DEF Keys, DatumOf, Holds
<1>2. {k \in b.headKey .. b.tailKey-1 : DatumOf(b, k) # Default} = Keys(b)
  <2>1. \A k \in Keys(b) : k \in b.headKey .. b.tailKey-1
    BY <1>0, <1>1
  <2> QED BY <1>0, <2>1 DEF Keys
<1>3. IsFiniteSet(b.headKey .. b.tailKey-1)
  BY <1>0, FS_Interval
<1>4. IsFiniteSet(Keys(b))
  BY <1>2, <1>3, FS_Subset
<1> QED BY <1>1, <1>2, <1>4 DEF Stored

(* The end of the segment moves over default values only. *)
LEMMA TailTightenedIs ==
  ASSUME NEW b \in DenseLeaf, Segment(b), Keys(b) # {}
  PROVE  LET r == TailTightened(b)
         IN  /\ r \in DenseLeaf /\ Segment(r)
             /\ r = [b EXCEPT !.tailIndex = r.tailIndex, !.tailKey = r.tailKey]
             /\ r.headKey < r.tailKey /\ r.tailKey <= b.tailKey
             /\ DatumOf(r, r.tailKey - 1) # Default
             /\ \A k \in Int : DatumOf(r, k) = DatumOf(b, k)
<1> DEFINE J == {j \in 0..DenseCap-1 : b.data[Wrapped(b.tailIndex - 1 - j)] # Default}
           n == Min(J)
           r == TailTightened(b)
           len == b.tailKey - b.headKey
<1>1. /\ len = b.tailKey - b.headKey /\ b.headKey \in Int /\ b.tailKey \in Int
      /\ len \in Int /\ 0 <= len /\ len <= DenseCap /\ DenseCap \in Int /\ DenseCap > 1
      /\ b.headIndex \in Int /\ 0 <= b.headIndex /\ b.headIndex < DenseCap
      /\ b.tailIndex = Wrapped(b.headIndex + len)
  BY CapsAre, DenseIs DEF Segment
<1>2. ASSUME NEW j \in Int, 0 <= j, j < len
      PROVE  /\ Wrapped(b.tailIndex - 1 - j) = Cell(b, b.tailKey - 1 - j - b.headKey)
             /\ DatumOf(b, b.tailKey - 1 - j) = b.data[Wrapped(b.tailIndex - 1 - j)]
  <2>1. b.tailKey - 1 - j - b.headKey = len - 1 - j /\ b.tailKey - 1 - j \in Int
    BY DenseIs
  <2>2. Wrapped(b.tailIndex - 1 - j) = Cell(b, len - 1 - j)
    BY <1>1, <1>2 DEF Wrapped, Cell
  <2>3. Holds(b, b.tailKey - 1 - j)
    BY <1>2, DenseIs DEF Holds
  <2> QED BY <2>1, <2>2, <2>3 DEF DatumOf
<1>3. PICK k \in Keys(b) : TRUE
  OBVIOUS
<1>4. k \in Int /\ b.headKey <= k /\ k < b.tailKey /\ DatumOf(b, k) # Default
  BY StoredIs DEF Keys
<1>5. b.tailKey - 1 - k \in J /\ 0 <= b.tailKey - 1 - k /\ b.tailKey - 1 - k < len
  <2> DEFINE j == b.tailKey - 1 - k
  <2>1. j \in Int /\ 0 <= j /\ j < len /\ b.tailKey - 1 - j = k
    BY <1>4, DenseIs
  <2>2. b.data[Wrapped(b.tailIndex - 1 - j)] # Default
    BY <1>2, <1>4, <2>1
  <2> QED BY <1>1, <2>1, <2>2
<1>6. n \in J /\ \A j \in J : n <= j
  <2>1. 0 \in Int /\ J \in SUBSET Int /\ J # {} /\ \A j \in J : j >= 0
    BY <1>1, <1>5
  <2> HIDE DEF J
  <2> QED BY <2>1, SmallestOf
<1>7. n \in Int /\ 0 <= n /\ n < len
  BY <1>1, <1>5, <1>6
<1>8. r = [b EXCEPT !.tailIndex = Wrapped(b.tailIndex - n), !.tailKey = b.tailKey - n]
  <2>1. r = [b EXCEPT !.tailIndex = Wrapped(b.tailIndex - n), !.tailKey = @ - n]
    BY DEF TailTightened
  <2> QED BY <2>1
<1>9. b.data[Wrapped(b.tailIndex - 1 - n)] # Default /\ \A j \in Int : 0 <= j /\ j < n => j \notin J
  <2> HIDE DEF n
  <2>1. b.data[Wrapped(b.tailIndex - 1 - n)] # Default
    BY <1>6
  <2> HIDE DEF J
  <2>2. \A j \in Int : 0 <= j /\ j < n => j \notin J
    BY <1>6, <1>7
  <2> QED BY <2>1, <2>2
<1>10. ASSUME NEW j \in Int, 0 <= j, j < n PROVE b.data[Wrapped(b.tailIndex - 1 - j)] = Default
  <2>1. j \in 0..DenseCap-1 /\ j \notin J
    <3> HIDE DEF J, n
    <3> QED BY <1>1, <1>7, <1>9, <1>10
  <2> QED BY <2>1
<1> HIDE DEF J, n, r, len
<1>11. Wrapped(b.tailIndex - n) = Wrapped(b.headIndex + (len - n))
      /\ Wrapped(b.tailIndex - n) \in 0..DenseCap-1
  BY <1>1, <1>7 DEF Wrapped
<1>12. /\ r.tailIndex = Wrapped(b.tailIndex - n) /\ r.tailKey = b.tailKey - n
       /\ r.headIndex = b.headIndex /\ r.headKey = b.headKey /\ r.data = b.data
       /\ r.lower = b.lower /\ r.upper = b.upper
       /\ r = [b EXCEPT !.tailIndex = r.tailIndex, !.tailKey = r.tailKey]
  BY <1>8 DEF DenseLeaf
<1>13. r \in DenseLeaf
  <2>1. b.tailKey - n \in Int
    BY <1>7, DenseIs
  <2> QED BY <1>8, <1>11, <2>1 DEF DenseLeaf
<1>14. /\ r.headKey < r.tailKey /\ r.tailKey <= b.tailKey /\ r.tailKey - r.headKey = len - n
       /\ r.headKey \in Int /\ r.tailKey \in Int
  BY <1>1, <1>7, <1>12
<1>15. Segment(r)
  <2>1. b.lower <= b.headKey /\ b.tailKey <= b.upper /\ b.lower \in Int /\ b.upper \in Int
    BY DenseIs DEF Segment
  <2>2. r.tailIndex = Wrapped(r.headIndex + (r.tailKey - r.headKey))
    BY <1>11, <1>12, <1>14
  <2>3. /\ r.lower <= r.headKey /\ r.headKey <= r.tailKey /\ r.tailKey <= r.upper
        /\ r.tailKey - r.headKey <= DenseCap
    <3>1. r.lower = b.lower /\ r.upper = b.upper /\ r.headKey >= b.headKey /\ r.tailKey <= b.tailKey
      BY <1>1, <1>7, <1>12
    <3> QED BY <1>1, <1>7, <1>14, <2>1, <3>1
  <2> QED BY <2>2, <2>3 DEF Segment
<1>16. ASSUME NEW x \in Int PROVE DatumOf(r, x) = DatumOf(b, x)
  <2>1. CASE Holds(r, x)
    <3>1. Holds(b, x)
      BY <1>1, <1>7, <1>12, <1>14, <2>1 DEF Holds
    <3>2. Cell(r, x - r.headKey) = Cell(b, x - b.headKey)
      BY <1>12 DEF Cell
    <3> QED BY <1>12, <2>1, <3>1, <3>2 DEF DatumOf
  <2>2. CASE ~Holds(r, x) /\ Holds(b, x)
    <3> DEFINE j == b.tailKey - 1 - x
    <3>1. j \in Int /\ 0 <= j /\ j < n /\ j < len /\ b.tailKey - 1 - j = x
      BY <1>1, <1>7, <1>12, <2>2 DEF Holds
    <3>2. DatumOf(b, x) = Default
      BY <1>2, <1>10, <3>1
    <3> QED BY <2>2, <3>2 DEF DatumOf
  <2>3. CASE ~Holds(r, x) /\ ~Holds(b, x)
    BY <2>3 DEF DatumOf
  <2> QED BY <2>1, <2>2, <2>3
<1>17. DatumOf(r, r.tailKey - 1) # Default
  <2>1. r.tailKey - 1 = b.tailKey - 1 - n /\ r.tailKey - 1 \in Int
    BY <1>7, <1>12, DenseIs
  <2>2. DatumOf(b, b.tailKey - 1 - n) # Default
    BY <1>2, <1>7, <1>9
  <2> QED BY <1>16, <2>1, <2>2
<1> QED BY <1>12, <1>13, <1>14, <1>15, <1>16, <1>17 DEF r

(* The same at the other end. *)
LEMMA HeadTightenedIs ==
  ASSUME NEW b \in DenseLeaf, Segment(b), Keys(b) # {}
  PROVE  LET r == HeadTightened(b)
         IN  /\ r \in DenseLeaf /\ Segment(r)
             /\ r = [b EXCEPT !.headIndex = r.headIndex, !.headKey = r.headKey]
             /\ r.headKey < r.tailKey /\ b.headKey <= r.headKey
             /\ DatumOf(r, r.headKey) # Default
             /\ \A k \in Int : DatumOf(r, k) = DatumOf(b, k)
<1> DEFINE J == {j \in 0..DenseCap-1 : b.data[Wrapped(b.headIndex + j)] # Default}
           n == Min(J)
           r == HeadTightened(b)
           len == b.tailKey - b.headKey
<1>1. /\ len = b.tailKey - b.headKey /\ b.headKey \in Int /\ b.tailKey \in Int
      /\ len \in Int /\ 0 <= len /\ len <= DenseCap /\ DenseCap \in Int /\ DenseCap > 1
      /\ b.headIndex \in Int /\ 0 <= b.headIndex /\ b.headIndex < DenseCap
      /\ b.tailIndex = Wrapped(b.headIndex + len)
  BY CapsAre, DenseIs DEF Segment
<1>2. ASSUME NEW j \in Int, 0 <= j, j < len
      PROVE  DatumOf(b, b.headKey + j) = b.data[Wrapped(b.headIndex + j)]
  <2> DEFINE k == b.headKey + j
  <2>1. k \in Int /\ k - b.headKey = j /\ b.headKey <= k /\ k < b.tailKey
    BY <1>1, <1>2
  <2> HIDE DEF k
  <2>2. Holds(b, k) /\ Cell(b, k - b.headKey) = Wrapped(b.headIndex + j)
    BY <2>1 DEF Holds, Cell
  <2>3. DatumOf(b, k) = b.data[Wrapped(b.headIndex + j)]
    BY <2>2 DEF DatumOf
  <2> QED BY <2>3 DEF k
<1>3. PICK k \in Keys(b) : TRUE
  OBVIOUS
<1>4. k \in Int /\ b.headKey <= k /\ k < b.tailKey /\ DatumOf(b, k) # Default
  BY StoredIs DEF Keys
<1>5. k - b.headKey \in J /\ 0 <= k - b.headKey /\ k - b.headKey < len
  <2> DEFINE j == k - b.headKey
  <2>1. j \in Int /\ 0 <= j /\ j < len /\ b.headKey + j = k
    BY <1>4, DenseIs
  <2>2. b.data[Wrapped(b.headIndex + j)] # Default
    BY <1>2, <1>4, <2>1
  <2> QED BY <1>1, <2>1, <2>2
<1>6. n \in J /\ \A j \in J : n <= j
  <2>1. 0 \in Int /\ J \in SUBSET Int /\ J # {} /\ \A j \in J : j >= 0
    BY <1>1, <1>5
  <2> HIDE DEF J
  <2> QED BY <2>1, SmallestOf
<1>7. n \in Int /\ 0 <= n /\ n < len
  BY <1>1, <1>5, <1>6
<1>8. r = [b EXCEPT !.headIndex = Wrapped(b.headIndex + n), !.headKey = b.headKey + n]
  <2>1. r = [b EXCEPT !.headIndex = Wrapped(b.headIndex + n), !.headKey = @ + n]
    BY DEF HeadTightened
  <2> QED BY <2>1
<1>9. b.data[Wrapped(b.headIndex + n)] # Default /\ \A j \in Int : 0 <= j /\ j < n => j \notin J
  <2> HIDE DEF n
  <2>1. b.data[Wrapped(b.headIndex + n)] # Default
    BY <1>6
  <2> HIDE DEF J
  <2>2. \A j \in Int : 0 <= j /\ j < n => j \notin J
    BY <1>6, <1>7
  <2> QED BY <2>1, <2>2
<1>10. ASSUME NEW j \in Int, 0 <= j, j < n PROVE b.data[Wrapped(b.headIndex + j)] = Default
  <2>1. j \in 0..DenseCap-1 /\ j \notin J
    <3> HIDE DEF J, n
    <3> QED BY <1>1, <1>7, <1>9, <1>10
  <2> QED BY <2>1
<1> HIDE DEF J, n, r, len
<1>11. /\ \A i \in Int : 0 <= i /\ i <= len - n =>
             Wrapped(Wrapped(b.headIndex + n) + i) = Wrapped(b.headIndex + (n + i))
       /\ Wrapped(b.headIndex + n) \in 0..DenseCap-1
  BY <1>1, <1>7 DEF Wrapped
<1>12. /\ r.headIndex = Wrapped(b.headIndex + n) /\ r.headKey = b.headKey + n
       /\ r.tailIndex = b.tailIndex /\ r.tailKey = b.tailKey /\ r.data = b.data
       /\ r.lower = b.lower /\ r.upper = b.upper
       /\ r = [b EXCEPT !.headIndex = r.headIndex, !.headKey = r.headKey]
  BY <1>8 DEF DenseLeaf
<1>13. r \in DenseLeaf
  <2>1. b.headKey + n \in Int
    BY <1>7, DenseIs
  <2> QED BY <1>8, <1>11, <2>1 DEF DenseLeaf
<1>14. /\ r.headKey < r.tailKey /\ b.headKey <= r.headKey /\ r.tailKey - r.headKey = len - n
       /\ r.headKey \in Int /\ r.tailKey \in Int
  BY <1>1, <1>7, <1>12
<1>15. Segment(r)
  <2>1. Wrapped(r.headIndex + (len - n)) = Wrapped(b.headIndex + len)
    <3>1. len - n \in Int /\ 0 <= len - n /\ n + (len - n) = len
      BY <1>1, <1>7
    <3> QED BY <1>11, <1>12, <3>1
  <2>2. b.lower <= b.headKey /\ b.tailKey <= b.upper /\ b.lower \in Int /\ b.upper \in Int
    BY DenseIs DEF Segment
  <2>3. r.tailIndex = Wrapped(r.headIndex + (r.tailKey - r.headKey))
    BY <1>1, <1>12, <1>14, <2>1
  <2>4. /\ r.lower <= r.headKey /\ r.headKey <= r.tailKey /\ r.tailKey <= r.upper
        /\ r.tailKey - r.headKey <= DenseCap
    <3>1. r.lower = b.lower /\ r.upper = b.upper /\ r.headKey >= b.headKey /\ r.tailKey <= b.tailKey
      BY <1>1, <1>7, <1>12
    <3> QED BY <1>1, <1>7, <1>14, <2>2, <3>1
  <2> QED BY <2>3, <2>4 DEF Segment
<1>16. ASSUME NEW x \in Int PROVE DatumOf(r, x) = DatumOf(b, x)
  <2>1. CASE Holds(r, x)
    <3>1. Holds(b, x)
      BY <1>1, <1>7, <1>12, <1>14, <2>1 DEF Holds
    <3> DEFINE i == x - r.headKey
    <3>2. i \in Int /\ 0 <= i /\ i <= len - n /\ n + i = x - b.headKey
      BY <1>1, <1>7, <1>12, <1>14, <2>1 DEF Holds
    <3>3. Cell(r, i) = Cell(b, x - b.headKey)
      BY <1>11, <1>12, <3>2 DEF Cell
    <3> QED BY <1>12, <2>1, <3>1, <3>3 DEF DatumOf
  <2>2. CASE ~Holds(r, x) /\ Holds(b, x)
    <3> DEFINE j == x - b.headKey
    <3>1. j \in Int /\ 0 <= j /\ j < n /\ j < len /\ b.headKey + j = x
      BY <1>1, <1>7, <1>12, <2>2 DEF Holds
    <3>2. DatumOf(b, x) = Default
      BY <1>2, <1>10, <3>1
    <3> QED BY <2>2, <3>2 DEF DatumOf
  <2>3. CASE ~Holds(r, x) /\ ~Holds(b, x)
    BY <2>3 DEF DatumOf
  <2> QED BY <2>1, <2>2, <2>3
<1>17. DatumOf(r, r.headKey) # Default
  <2>1. r.headKey = b.headKey + n /\ r.headKey \in Int
    BY <1>7, <1>12, DenseIs
  <2>2. DatumOf(b, b.headKey + n) # Default
    BY <1>2, <1>7, <1>9
  <2> QED BY <1>16, <2>1, <2>2
<1> QED BY <1>12, <1>13, <1>14, <1>15, <1>16, <1>17 DEF r

(* What moving the ends of the segment leaves alone. *)
SameEntries(b, r) ==
  /\ r.lower = b.lower /\ r.upper = b.upper /\ r.nEntries = b.nEntries
  /\ r.isOverflowed = b.isOverflowed /\ r.overflow = b.overflow
  /\ \A k \in Int : DatumOf(r, k) = DatumOf(b, k)

(* extendStoredRange at the tail: the same entries, and the segment holds the key *)
(* unless it would then be longer than the buffer.                              *)
LEMMA ExtendUpIs ==
  ASSUME NEW b \in DenseLeaf, Segment(b), Keys(b) # {}, NEW key \in Int,
         b.tailKey <= key, key < b.upper
  PROVE  LET r == ExtendUp(b, key)
         IN  /\ r \in DenseLeaf /\ Segment(r) /\ SameEntries(b, r)
             /\ Holds(r, key)
                \/ /\ DatumOf(r, r.headKey) # Default /\ key + 1 - r.headKey > DenseCap
                   /\ r.tailKey <= key
<1> DEFINE t == IF key + 1 - b.headKey > DenseCap THEN HeadTightened(b) ELSE b
           n == key + 1 - t.tailKey
           r == ExtendUp(b, key)
<1>1. /\ t \in DenseLeaf /\ Segment(t) /\ t.tailKey = b.tailKey /\ SameEntries(b, t)
      /\ key + 1 - t.headKey > DenseCap => DatumOf(t, t.headKey) # Default
  <2>1. CASE key + 1 - b.headKey > DenseCap
    <3> DEFINE h == HeadTightened(b)
    <3>1. /\ h \in DenseLeaf /\ Segment(h)
          /\ h = [b EXCEPT !.headIndex = h.headIndex, !.headKey = h.headKey]
          /\ DatumOf(h, h.headKey) # Default
          /\ \A k \in Int : DatumOf(h, k) = DatumOf(b, k)
      BY HeadTightenedIs
    <3>2. t = h
      BY <2>1
    <3> HIDE DEF h, t
    <3>3. /\ h.lower = b.lower /\ h.upper = b.upper /\ h.nEntries = b.nEntries
          /\ h.isOverflowed = b.isOverflowed /\ h.overflow = b.overflow /\ h.tailKey = b.tailKey
      BY <3>1 DEF DenseLeaf
    <3> QED BY <3>1, <3>2, <3>3 DEF SameEntries
  <2>2. CASE ~(key + 1 - b.headKey > DenseCap)
    BY <2>2 DEF SameEntries
  <2> QED BY <2>1, <2>2
<1>2. r = IF key + 1 - t.headKey > DenseCap THEN t
          ELSE [t EXCEPT !.tailIndex = Wrapped(t.tailIndex + n), !.tailKey = key + 1,
                         !.data = Cleared(t.data, t.tailIndex, n)]
  BY DEF ExtendUp
<1> HIDE DEF t, n, r
<1>3. /\ t.headKey \in Int /\ t.tailKey \in Int /\ t.headKey <= t.tailKey
      /\ t.tailKey - t.headKey <= DenseCap /\ t.lower <= t.headKey /\ t.tailKey <= key
      /\ t.headIndex \in Int /\ 0 <= t.headIndex /\ t.headIndex < DenseCap
      /\ DenseCap \in Int /\ DenseCap > 1 /\ n = key + 1 - t.tailKey
      /\ t.tailIndex = Wrapped(t.headIndex + (t.tailKey - t.headKey))
      /\ t.upper \in Int /\ key < t.upper /\ t.lower \in Int
  BY <1>1, CapsAre, DenseIs DEF Segment, n, SameEntries
<1>4. CASE key + 1 - t.headKey > DenseCap
  <2>1. r = t
    BY <1>2, <1>4
  <2> QED BY <1>1, <1>3, <1>4, <2>1 DEF r
<1>5. CASE ~(key + 1 - t.headKey > DenseCap)
  <2> DEFINE len == t.tailKey - t.headKey
             data == Cleared(t.data, t.tailIndex, n)
  <2>0. r = [t EXCEPT !.tailIndex = Wrapped(t.tailIndex + n), !.tailKey = key + 1, !.data = data]
    BY <1>2, <1>5
  <2>1. len \in Int /\ n \in Int /\ 0 <= len /\ 1 <= n /\ len + n <= DenseCap
        /\ len + n = key + 1 - t.headKey
    BY <1>3, <1>5
  <2>2. /\ Wrapped(t.tailIndex + n) = Wrapped(t.headIndex + (len + n))
        /\ Wrapped(t.tailIndex + n) \in 0..DenseCap-1
    BY <1>3, <2>1 DEF Wrapped
  <2>3. \A j \in Int : 0 <= j /\ j < n => Wrapped(t.tailIndex + j) = Cell(t, len + j)
    BY <1>3, <2>1 DEF Wrapped, Cell
  <2>4. /\ t.data \in [0..DenseCap-1 -> Value] /\ Default \in Value
        /\ data = [c \in 0..DenseCap-1 |-> IF \E j \in 0..n-1 : c = Wrapped(t.tailIndex + j)
                                          THEN Default ELSE t.data[c]]
    <3>1. t.data \in [0..DenseCap-1 -> Value] /\ Default \in Value
      BY <1>1, DenseIs, CapsAre
    <3> QED BY <3>1 DEF Cleared
  <2>5. data \in [0..DenseCap-1 -> Value]
    BY <2>4
  <2>6. /\ \A j \in Int : 0 <= j /\ j < len => data[Cell(t, j)] = t.data[Cell(t, j)]
        /\ \A j \in Int : len <= j /\ j < len + n => data[Cell(t, j)] = Default
    <3>1. ASSUME NEW j \in Int, 0 <= j, j < len PROVE data[Cell(t, j)] = t.data[Cell(t, j)]
      <4>1. j < DenseCap /\ Cell(t, j) \in 0..DenseCap-1
        BY <1>1, <1>3, <2>1, <3>1, CellIs
      <4>2. ASSUME NEW i \in 0..n-1, Cell(t, j) = Wrapped(t.tailIndex + i) PROVE FALSE
        <5>1. i \in Int /\ 0 <= i /\ i < n /\ len + i \in Int /\ 0 <= len + i /\ len + i < DenseCap
          BY <1>3, <2>1
        <5>2. Cell(t, j) = Cell(t, len + i)
          BY <2>3, <4>2, <5>1
        <5>3. j = len + i
          BY <1>1, <3>1, <4>1, <5>1, <5>2, CellIs
        <5> QED BY <2>1, <3>1, <5>1, <5>3
      <4> HIDE DEF data
      <4> QED BY <2>4, <4>1, <4>2
    <3>2. ASSUME NEW j \in Int, len <= j, j < len + n PROVE data[Cell(t, j)] = Default
      <4>1. 0 <= j /\ j < DenseCap /\ j - len \in 0..n-1 /\ len + (j - len) = j /\ j - len \in Int
              /\ 0 <= j - len /\ j - len < n
        BY <1>3, <2>1, <3>2
      <4>2. Cell(t, j) \in 0..DenseCap-1
        BY <1>1, <4>1, CellIs
      <4>3. Cell(t, j) = Wrapped(t.tailIndex + (j - len))
        BY <2>3, <4>1
      <4> HIDE DEF data
      <4> QED BY <2>4, <4>1, <4>2, <4>3
    <3> QED BY <3>1, <3>2
  <2> HIDE DEF data
  <2>7. /\ r.headKey = t.headKey /\ r.tailKey = key + 1 /\ r.headIndex = t.headIndex /\ r.data = data
        /\ r.tailIndex = Wrapped(t.tailIndex + n) /\ r.lower = t.lower /\ r.upper = t.upper
        /\ r.nEntries = t.nEntries /\ r.isOverflowed = t.isOverflowed /\ r.overflow = t.overflow
    BY <1>1, <2>0 DEF DenseLeaf
  <2>8. r \in DenseLeaf
    <3>1. key + 1 \in Int
      OBVIOUS
    <3> QED BY <1>1, <2>0, <2>2, <2>5, <3>1 DEF DenseLeaf
  <2>9. Segment(r)
    <3>1. r.tailIndex = Wrapped(r.headIndex + (r.tailKey - r.headKey))
      <4>1. r.tailKey - r.headKey = len + n /\ r.headIndex = t.headIndex
        <5>1. r.tailKey = key + 1 /\ r.headKey = t.headKey /\ r.headIndex = t.headIndex
          BY <2>7
        <5>2. key + 1 - t.headKey = len + n /\ t.headKey \in Int /\ t.tailKey \in Int /\ n \in Int
          BY <1>3, <2>1
        <5> QED BY <5>1, <5>2
      <4> QED BY <2>2, <2>7, <4>1
    <3>2. /\ r.lower <= r.headKey /\ r.headKey <= r.tailKey /\ r.tailKey <= r.upper
          /\ r.tailKey - r.headKey <= DenseCap
      BY <1>3, <1>5, <2>7
    <3> QED BY <3>1, <3>2 DEF Segment
  <2>10. ASSUME NEW x \in Int PROVE DatumOf(r, x) = DatumOf(t, x)
    <3> DEFINE j == x - t.headKey
    <3>0. Cell(r, x - r.headKey) = Cell(t, j) /\ j \in Int
      BY <1>3, <2>7 DEF Cell
    <3>1. CASE Holds(t, x)
      <4>1. Holds(r, x) /\ 0 <= j /\ j < len
        BY <1>3, <2>7, <3>1 DEF Holds
      <4> HIDE DEF j, len
      <4> QED BY <2>6, <2>7, <3>0, <3>1, <4>1 DEF DatumOf, j
    <3>2. CASE ~Holds(t, x) /\ Holds(r, x)
      <4>1. len <= j /\ j < len + n
        BY <1>3, <2>1, <2>7, <3>2 DEF Holds
      <4> HIDE DEF j, len
      <4> QED BY <2>6, <2>7, <3>0, <3>2, <4>1 DEF DatumOf
    <3>3. CASE ~Holds(t, x) /\ ~Holds(r, x)
      BY <3>3 DEF DatumOf
    <3> QED BY <3>1, <3>2, <3>3
  <2>11. Holds(r, key)
    BY <1>3, <2>7 DEF Holds
  <2>12. SameEntries(b, r)
    BY <1>1, <2>7, <2>10 DEF SameEntries
  <2> QED BY <2>8, <2>9, <2>11, <2>12 DEF r
<1> QED BY <1>4, <1>5 DEF r

(* extendStoredRange at the head. *)
LEMMA ExtendDownIs ==
  ASSUME NEW b \in DenseLeaf, Segment(b), Keys(b) # {}, NEW key \in Int,
         key < b.headKey, b.lower <= key
  PROVE  LET r == ExtendDown(b, key)
         IN  /\ r \in DenseLeaf /\ Segment(r) /\ SameEntries(b, r)
             /\ Holds(r, key)
                \/ /\ DatumOf(r, r.tailKey - 1) # Default /\ r.tailKey - key > DenseCap
                   /\ key < r.headKey
<1> DEFINE t == IF b.tailKey - key > DenseCap THEN TailTightened(b) ELSE b
           n == t.headKey - key
           head == Wrapped(t.headIndex - n)
           r == ExtendDown(b, key)
<1>1. /\ t \in DenseLeaf /\ Segment(t) /\ t.headKey = b.headKey /\ SameEntries(b, t)
      /\ t.tailKey - key > DenseCap => DatumOf(t, t.tailKey - 1) # Default
  <2>1. CASE b.tailKey - key > DenseCap
    <3> DEFINE h == TailTightened(b)
    <3>1. /\ h \in DenseLeaf /\ Segment(h)
          /\ h = [b EXCEPT !.tailIndex = h.tailIndex, !.tailKey = h.tailKey]
          /\ DatumOf(h, h.tailKey - 1) # Default
          /\ \A k \in Int : DatumOf(h, k) = DatumOf(b, k)
      BY TailTightenedIs
    <3>2. t = h
      BY <2>1
    <3> HIDE DEF h, t
    <3>3. /\ h.lower = b.lower /\ h.upper = b.upper /\ h.nEntries = b.nEntries
          /\ h.isOverflowed = b.isOverflowed /\ h.overflow = b.overflow /\ h.headKey = b.headKey
      BY <3>1 DEF DenseLeaf
    <3> QED BY <3>1, <3>2, <3>3 DEF SameEntries
  <2>2. CASE ~(b.tailKey - key > DenseCap)
    BY <2>2 DEF SameEntries
  <2> QED BY <2>1, <2>2
<1>2. r = IF t.tailKey - key > DenseCap THEN t
          ELSE [t EXCEPT !.headIndex = head, !.headKey = key, !.data = Cleared(t.data, head, n)]
  BY DEF ExtendDown
<1>3. head = Wrapped(t.headIndex - n) /\ n = t.headKey - key
  OBVIOUS
<1> HIDE DEF t, n, head, r
<1>4. /\ t.headKey \in Int /\ t.tailKey \in Int /\ t.headKey <= t.tailKey
      /\ t.tailKey - t.headKey <= DenseCap /\ t.lower <= key /\ t.tailKey <= t.upper
      /\ t.headIndex \in Int /\ 0 <= t.headIndex /\ t.headIndex < DenseCap
      /\ DenseCap \in Int /\ DenseCap > 1 /\ key < t.headKey
      /\ t.tailIndex = Wrapped(t.headIndex + (t.tailKey - t.headKey))
      /\ t.upper \in Int /\ t.lower \in Int
  BY <1>1, CapsAre, DenseIs DEF Segment, SameEntries
<1>5. CASE t.tailKey - key > DenseCap
  <2>1. r = t
    BY <1>2, <1>5
  <2> QED BY <1>1, <1>4, <1>5, <2>1 DEF r
<1>6. CASE ~(t.tailKey - key > DenseCap)
  <2> DEFINE len == t.tailKey - t.headKey
             data == Cleared(t.data, head, n)
  <2>0. r = [t EXCEPT !.headIndex = head, !.headKey = key, !.data = data]
    BY <1>2, <1>6
  <2>1. len \in Int /\ n \in Int /\ 0 <= len /\ 1 <= n /\ len + n <= DenseCap
        /\ len + n = t.tailKey - key
    BY <1>3, <1>4, <1>6
  <2>2. /\ head \in 0..DenseCap-1 /\ head \in Int
        /\ Wrapped(head + (len + n)) = Wrapped(t.headIndex + len)
        /\ \A j \in Int : 0 <= j /\ j < len + n => Wrapped(head + j) \in 0..DenseCap-1
        /\ \A j \in Int : 0 <= j /\ j < len => Wrapped(head + (j + n)) = Wrapped(t.headIndex + j)
        /\ \A i, j \in Int : 0 <= i /\ i < len + n /\ 0 <= j /\ j < len + n
                               /\ Wrapped(head + i) = Wrapped(head + j) => i = j
    BY <1>3, <1>4, <2>1 DEF Wrapped
  <2>4. /\ t.data \in [0..DenseCap-1 -> Value] /\ Default \in Value
        /\ data = [c \in 0..DenseCap-1 |-> IF \E j \in 0..n-1 : c = Wrapped(head + j)
                                          THEN Default ELSE t.data[c]]
    <3>1. t.data \in [0..DenseCap-1 -> Value] /\ Default \in Value
      BY <1>1, DenseIs, CapsAre
    <3> QED BY <3>1 DEF Cleared
  <2>5. data \in [0..DenseCap-1 -> Value]
    BY <2>4
  <2>6. /\ \A j \in Int : 0 <= j /\ j < len =>
             data[Wrapped(head + (j + n))] = t.data[Wrapped(t.headIndex + j)]
        /\ \A j \in Int : 0 <= j /\ j < n => data[Wrapped(head + j)] = Default
    <3>1. ASSUME NEW j \in Int, 0 <= j, j < len
          PROVE  data[Wrapped(head + (j + n))] = t.data[Wrapped(t.headIndex + j)]
      <4>1. j + n \in Int /\ 0 <= j + n /\ j + n < len + n
        BY <2>1, <3>1
      <4>2. ASSUME NEW i \in 0..n-1, Wrapped(head + (j + n)) = Wrapped(head + i) PROVE FALSE
        <5>1. i \in Int /\ 0 <= i /\ i < n /\ i < len + n
          BY <2>1
        <5>2. j + n = i
          BY <2>2, <4>1, <4>2, <5>1
        <5> QED BY <2>1, <3>1, <5>1, <5>2
      <4>3. Wrapped(head + (j + n)) \in 0..DenseCap-1
            /\ Wrapped(head + (j + n)) = Wrapped(t.headIndex + j)
        BY <2>2, <3>1, <4>1
      <4> HIDE DEF data
      <4> QED BY <2>4, <4>2, <4>3
    <3>2. ASSUME NEW j \in Int, 0 <= j, j < n PROVE data[Wrapped(head + j)] = Default
      <4>1. j \in 0..n-1 /\ j < len + n
        BY <2>1, <3>2
      <4>2. Wrapped(head + j) \in 0..DenseCap-1
        BY <2>2, <3>2, <4>1
      <4> HIDE DEF data
      <4> QED BY <2>4, <4>1, <4>2
    <3> QED BY <3>1, <3>2
  <2> HIDE DEF data
  <2>7. /\ r.headKey = key /\ r.tailKey = t.tailKey /\ r.headIndex = head /\ r.data = data
        /\ r.tailIndex = t.tailIndex /\ r.lower = t.lower /\ r.upper = t.upper
        /\ r.nEntries = t.nEntries /\ r.isOverflowed = t.isOverflowed /\ r.overflow = t.overflow
    BY <1>1, <2>0 DEF DenseLeaf
  <2>8. r \in DenseLeaf
    BY <1>1, <2>0, <2>2, <2>5 DEF DenseLeaf
  <2>9. Segment(r)
    <3>1. r.tailIndex = Wrapped(r.headIndex + (r.tailKey - r.headKey))
      BY <1>4, <2>1, <2>2, <2>7
    <3>2. /\ r.lower <= r.headKey /\ r.headKey <= r.tailKey /\ r.tailKey <= r.upper
          /\ r.tailKey - r.headKey <= DenseCap
      BY <1>4, <1>6, <2>7
    <3> QED BY <3>1, <3>2 DEF Segment
  <2>10. ASSUME NEW x \in Int PROVE DatumOf(r, x) = DatumOf(t, x)
    <3> DEFINE j == x - t.headKey
               i == x - key
    <3>0. j \in Int /\ i \in Int /\ i = j + n /\ Cell(r, x - r.headKey) = Wrapped(head + i)
            /\ Cell(t, x - t.headKey) = Wrapped(t.headIndex + j)
      BY <1>3, <1>4, <2>7 DEF Cell
    <3>1. CASE Holds(t, x)
      <4>1. Holds(r, x) /\ 0 <= j /\ j < len
        BY <1>4, <2>7, <3>1 DEF Holds
      <4> HIDE DEF j, i, len
      <4>2. data[Wrapped(head + i)] = t.data[Wrapped(t.headIndex + j)]
        BY <2>6, <3>0, <4>1
      <4> QED BY <2>7, <3>0, <3>1, <4>1, <4>2 DEF DatumOf
    <3>2. CASE ~Holds(t, x) /\ Holds(r, x)
      <4>1. 0 <= i /\ i < n
        BY <1>3, <1>4, <2>1, <2>7, <3>2 DEF Holds
      <4> HIDE DEF j, i, len
      <4> QED BY <2>6, <2>7, <3>0, <3>2, <4>1 DEF DatumOf
    <3>3. CASE ~Holds(t, x) /\ ~Holds(r, x)
      BY <3>3 DEF DatumOf
    <3> QED BY <3>1, <3>2, <3>3
  <2>11. Holds(r, key)
    BY <1>4, <2>7 DEF Holds
  <2>12. SameEntries(b, r)
    BY <1>1, <2>7, <2>10 DEF SameEntries
  <2> QED BY <2>8, <2>9, <2>11, <2>12 DEF r
<1> QED BY <1>5, <1>6 DEF r

(* A dense block that counts its entries right.  An entry in the object    *)
(* only is too far from the one at the other end of the segment.           *)
DenseOver(b) ==
  /\ b.overflow.index = b.overflow.key - b.headKey
  /\ b.overflow.datum # Default /\ Keys(b) # {}
  /\ b.lower <= b.overflow.key /\ b.overflow.key < b.upper
  /\ \/ /\ b.tailKey <= b.overflow.key /\ DatumOf(b, b.headKey) # Default
        /\ b.overflow.key + 1 - b.headKey > DenseCap
     \/ /\ b.overflow.key < b.headKey /\ DatumOf(b, b.tailKey - 1) # Default
        /\ b.tailKey - b.overflow.key > DenseCap

DenseGood(b) ==
  /\ b \in DenseLeaf /\ Segment(b)
  /\ b.nEntries = Cardinality(Keys(b))
  /\ b.isOverflowed => DenseOver(b)

(* One cell of the segment is set. *)
WithCell(e, key, v, n) == [e EXCEPT !.data[Cell(e, key - e.headKey)] = v, !.nEntries = n]

LEMMA SetIs ==
  ASSUME NEW e \in DenseLeaf, Segment(e), NEW key \in Int, Holds(e, key), NEW v \in Value, NEW n \in Nat
  PROVE  LET r == WithCell(e, key, v, n)
         IN  /\ r \in DenseLeaf /\ Segment(r) /\ r.nEntries = n
             /\ r.lower = e.lower /\ r.upper = e.upper /\ r.isOverflowed = e.isOverflowed
             /\ r.headKey = e.headKey /\ r.tailKey = e.tailKey
             /\ \A k \in Int : DatumOf(r, k) = IF k = key THEN v ELSE DatumOf(e, k)
<1> DEFINE c == Cell(e, key - e.headKey)
           d == [e.data EXCEPT ![c] = v]
           r == WithCell(e, key, v, n)
<1>1. c \in 0..DenseCap-1 /\ key - e.headKey \in Int /\ 0 <= key - e.headKey
      /\ key - e.headKey < DenseCap
  BY DatumIs
<1>2. e.data \in [0..DenseCap-1 -> Value]
  BY DenseIs
<1>3. r = [e EXCEPT !.data = d, !.nEntries = n]
  BY DEF WithCell
<1> HIDE DEF c
<1>4. d \in [0..DenseCap-1 -> Value] /\ d[c] = v /\ \A i \in 0..DenseCap-1 : i # c => d[i] = e.data[i]
  BY <1>1, <1>2
<1> HIDE DEF d, r
<1>5. r \in DenseLeaf
  BY <1>3, <1>4 DEF DenseLeaf
<1>6. /\ r.data = d /\ r.nEntries = n /\ r.headKey = e.headKey /\ r.tailKey = e.tailKey
      /\ r.headIndex = e.headIndex /\ r.tailIndex = e.tailIndex
      /\ r.lower = e.lower /\ r.upper = e.upper /\ r.isOverflowed = e.isOverflowed
  BY <1>3 DEF DenseLeaf
<1>7. Segment(r)
  BY <1>6 DEF Segment
<1>8. ASSUME NEW k \in Int PROVE DatumOf(r, k) = IF k = key THEN v ELSE DatumOf(e, k)
  <2>1. Holds(r, k) = Holds(e, k) /\ Cell(r, k - r.headKey) = Cell(e, k - e.headKey)
    BY <1>6 DEF Holds, Cell
  <2>2. CASE k = key
    BY <1>4, <1>6, <2>1, <2>2 DEF DatumOf, c
  <2>3. CASE k # key /\ Holds(e, k)
    <3> DEFINE i == k - e.headKey
    <3>1. /\ Cell(e, i) \in 0..DenseCap-1 /\ i \in Int /\ 0 <= i /\ i < DenseCap
      BY <2>3, DatumIs
    <3>2. i # key - e.headKey
      BY <2>3, DenseIs
    <3> HIDE DEF i
    <3>3. Cell(e, i) # c
      BY <1>1, <3>1, <3>2, CellIs DEF c
    <3>4. d[Cell(e, i)] = e.data[Cell(e, i)]
      BY <1>4, <3>1, <3>3
    <3> QED BY <1>6, <2>1, <2>3, <3>4 DEF DatumOf, i
  <2>4. CASE k # key /\ ~Holds(e, k)
    BY <2>1, <2>4 DEF DatumOf
  <2> QED BY <2>2, <2>3, <2>4
<1> QED BY <1>5, <1>6, <1>7, <1>8 DEF r, c

(* What one changed datum makes of the entries and of their number. *)
LEMMA EntrySet ==
  ASSUME NEW b \in DenseLeaf, NEW r \in DenseLeaf, NEW key \in Int, NEW v,
         \A k \in Int : DatumOf(r, k) = IF k = key THEN v ELSE DatumOf(b, k)
  PROVE  /\ Stored(r) = WithEntry(Stored(b), key, v)
         /\ Keys(r) = IF v = Default THEN Keys(b) \ {key} ELSE Keys(b) \cup {key}
         /\ Cardinality(Keys(b)) \in Nat /\ Cardinality(Keys(r)) \in Nat
         /\ v = Default /\ DatumOf(b, key) # Default =>
              Cardinality(Keys(b)) > 0 /\ Cardinality(Keys(r)) = Cardinality(Keys(b)) - 1
         /\ v # Default /\ DatumOf(b, key) = Default =>
              Cardinality(Keys(r)) = Cardinality(Keys(b)) + 1
         /\ v # Default /\ DatumOf(b, key) # Default =>
              Cardinality(Keys(r)) = Cardinality(Keys(b))
<1>1. Keys(r) = IF v = Default THEN Keys(b) \ {key} ELSE Keys(b) \cup {key}
  BY DEF Keys
<1>2. /\ Stored(b) = [k \in Keys(b) |-> DatumOf(b, k)] /\ Stored(r) = [k \in Keys(r) |-> DatumOf(r, k)]
      /\ IsFiniteSet(Keys(b)) /\ IsFiniteSet(Keys(r))
      /\ \A k \in Keys(b) : k \in Int
  BY StoredIs
<1>3. key \in Keys(b) <=> DatumOf(b, key) # Default
  BY DEF Keys
<1>4. Cardinality(Keys(b)) \in Nat /\ Cardinality(Keys(r)) \in Nat
  BY <1>2, FS_CardinalityType
<1>5. CASE v = Default
  <2>1. WithEntry(Stored(b), key, v) = [k \in Keys(b) \ {key} |-> DatumOf(b, k)]
    BY <1>2, <1>5 DEF WithEntry
  <2>2. Stored(r) = [k \in Keys(b) \ {key} |-> DatumOf(b, k)]
    BY <1>1, <1>2, <1>5
  <2>3. DatumOf(b, key) # Default => Cardinality(Keys(r)) = Cardinality(Keys(b)) - 1
    BY <1>1, <1>2, <1>3, <1>5, FS_RemoveElement
  <2>4. DatumOf(b, key) # Default => Cardinality(Keys(b)) > 0
    BY <1>4, <2>3
  <2> QED BY <1>1, <1>4, <1>5, <2>1, <2>2, <2>3, <2>4
<1>6. CASE v # Default
  <2>1. WithEntry(Stored(b), key, v) = [k \in Keys(b) \cup {key} |-> IF k = key THEN v
        ELSE DatumOf(b, k)]
    <3>1. DOMAIN Stored(b) = Keys(b) /\ \A k \in Keys(b) : Stored(b)[k] = DatumOf(b, k)
      BY <1>2
    <3> QED BY <1>6, <3>1 DEF WithEntry
  <2>2. Stored(r) = [k \in Keys(b) \cup {key} |-> IF k = key THEN v ELSE DatumOf(b, k)]
    BY <1>1, <1>2, <1>6
  <2>3. DatumOf(b, key) = Default => Cardinality(Keys(r)) = Cardinality(Keys(b)) + 1
    BY <1>1, <1>2, <1>3, <1>6, FS_AddElement
  <2>4. DatumOf(b, key) # Default => Keys(r) = Keys(b)
    BY <1>1, <1>3, <1>6
  <2> QED BY <1>1, <1>4, <1>6, <2>1, <2>2, <2>3, <2>4
<1> QED BY <1>5, <1>6

LEMMA NoKeys ==
  ASSUME NEW b \in DenseLeaf, b.nEntries = Cardinality(Keys(b))
  PROVE  b.nEntries = 0 <=> Keys(b) = {}
<1>1. IsFiniteSet(Keys(b))
  BY StoredIs
<1> QED BY <1>1, FS_EmptySet

(* del keeps a block good and takes the key's entry away. *)
LEMMA DeleteIs ==
  ASSUME NEW b, DenseGood(b), ~b.isOverflowed, NEW key \in Int
  PROVE  LET r == Delete(b, key)
         IN  /\ DenseGood(r) /\ r.lower = b.lower /\ r.upper = b.upper /\ ~r.isOverflowed
             /\ Stored(r) = WithEntry(Stored(b), key, Default)
<1>0. b \in DenseLeaf /\ Segment(b) /\ b.nEntries = Cardinality(Keys(b)) /\ Default \in Value
  BY CapsAre DEF DenseGood
<1>1. CASE b.nEntries = 0 \/ DatumOf(b, key) = Default
  <2>1. DatumOf(b, key) = Default
    BY <1>0, <1>1, NoKeys DEF Keys
  <2>2. \A k \in Int : DatumOf(b, k) = IF k = key THEN Default ELSE DatumOf(b, k)
    BY <2>1
  <2>3. Stored(b) = WithEntry(Stored(b), key, Default)
    BY <1>0, <2>2, EntrySet
  <2> QED BY <1>1, <2>3 DEF Delete
<1>2. CASE ~(b.nEntries = 0 \/ DatumOf(b, key) = Default)
  <2> DEFINE n == b.nEntries - 1
             r == WithCell(b, key, Default, n)
  <2>1. Delete(b, key) = r
    BY <1>2 DEF Delete, WithCell
  <2>2. n \in Nat
    BY <1>0, <1>2, DenseIs
  <2>3. Holds(b, key)
    BY <1>0, <1>2, DatumIs
  <2> HIDE DEF n
  <2>4. /\ r \in DenseLeaf /\ Segment(r) /\ r.nEntries = n
        /\ r.lower = b.lower /\ r.upper = b.upper /\ r.isOverflowed = b.isOverflowed
        /\ \A k \in Int : DatumOf(r, k) = IF k = key THEN Default ELSE DatumOf(b, k)
    BY <1>0, <2>2, <2>3, SetIs
  <2> HIDE DEF r
  <2>5. /\ Stored(r) = WithEntry(Stored(b), key, Default)
        /\ Cardinality(Keys(r)) = Cardinality(Keys(b)) - 1
    BY SMTT(30), <1>0, <1>2, <2>4, EntrySet
  <2>6. DenseGood(r)
    BY <1>0, <2>4, <2>5 DEF DenseGood, n
  <2> QED BY <2>1, <2>4, <2>5, <2>6
<1> QED BY <1>1, <1>2

(* The segment reaches the key, or is as short as can be and does not. *)
LEMMA ExtendIs ==
  ASSUME NEW b, DenseGood(b), ~b.isOverflowed, NEW key \in Int, b.lower <= key, key < b.upper
  PROVE  LET e == ExtendStoredRange(b, key)
         IN  /\ e \in DenseLeaf /\ Segment(e) /\ SameEntries(b, e)
             /\ \/ Holds(e, key)
                \/ /\ Keys(e) # {} /\ DatumOf(e, e.headKey) # Default
                   /\ e.tailKey <= key /\ key + 1 - e.headKey > DenseCap
                \/ /\ Keys(e) # {} /\ DatumOf(e, e.tailKey - 1) # Default
                   /\ key < e.headKey /\ e.tailKey - key > DenseCap
<1> DEFINE e == ExtendStoredRange(b, key)
<1>0. /\ b \in DenseLeaf /\ Segment(b) /\ b.nEntries = Cardinality(Keys(b)) /\ Default \in Value
      /\ b.headKey \in Int /\ b.tailKey \in Int
      /\ b.nEntries = 0 <=> Keys(b) = {}
  BY CapsAre, DenseIs, NoKeys DEF DenseGood
<1>1. CASE b.nEntries = 0
  <2> DEFINE d == [b.data EXCEPT ![0] = Default]
  <2>1. e = [b EXCEPT !.headKey = key, !.headIndex = 0, !.tailIndex = 1, !.tailKey = key + 1, !.data = d]
    BY <1>1 DEF ExtendStoredRange
  <2>2. b.data \in [0..DenseCap-1 -> Value] /\ 0 \in 0..DenseCap-1 /\ 1 \in 0..DenseCap-1
        /\ DenseCap \in Int /\ DenseCap > 1
    BY <1>0, CapsAre, DenseIs
  <2>3. d \in [0..DenseCap-1 -> Value] /\ d[0] = Default
    BY <1>0, <2>2
  <2> HIDE DEF d, e
  <2>4. /\ e.headKey = key /\ e.headIndex = 0 /\ e.tailIndex = 1 /\ e.tailKey = key + 1 /\ e.data = d
        /\ e.lower = b.lower /\ e.upper = b.upper /\ e.nEntries = b.nEntries
        /\ e.isOverflowed = b.isOverflowed /\ e.overflow = b.overflow
    BY <1>0, <2>1 DEF DenseLeaf
  <2>5. e \in DenseLeaf
    <3>1. key + 1 \in Int
      OBVIOUS
    <3> QED BY <1>0, <2>1, <2>2, <2>3, <3>1 DEF DenseLeaf
  <2>6. Segment(e)
    <3>1. Wrapped(0 + ((key + 1) - key)) = 1
      BY <2>2 DEF Wrapped
    <3>2. b.lower \in Int /\ b.upper \in Int
      BY <1>0, DenseIs
    <3> QED BY <2>2, <2>4, <3>1, <3>2 DEF Segment
  <2>7. ASSUME NEW k \in Int PROVE DatumOf(e, k) = DatumOf(b, k)
    <3>1. DatumOf(b, k) = Default
      BY <1>0, <1>1 DEF Keys
    <3>2. Holds(e, k) => k = key
      BY <2>4 DEF Holds
    <3>3. Cell(e, key - e.headKey) = 0
      BY <2>2, <2>4 DEF Cell, Wrapped
    <3>4. DatumOf(e, k) = Default
      BY <2>3, <2>4, <3>2, <3>3 DEF DatumOf
    <3> QED BY <3>1, <3>4
  <2>8. SameEntries(b, e)
    BY <2>4, <2>7 DEF SameEntries
  <2>9. Holds(e, key)
    BY <2>4 DEF Holds
  <2> QED BY <2>5, <2>6, <2>8, <2>9 DEF e
<1>2. CASE b.nEntries # 0 /\ key < b.headKey
  <2>1. e = ExtendDown(b, key)
    BY <1>2 DEF ExtendStoredRange
  <2>2. /\ e \in DenseLeaf /\ Segment(e) /\ SameEntries(b, e)
        /\ Holds(e, key)
           \/ /\ DatumOf(e, e.tailKey - 1) # Default /\ e.tailKey - key > DenseCap
              /\ key < e.headKey
    BY <1>0, <1>2, <2>1, ExtendDownIs
  <2> HIDE DEF e
  <2>3. e.tailKey - 1 \in Int
    BY <2>2, DenseIs
  <2> QED BY <2>2, <2>3 DEF e, Keys
<1>3. CASE b.nEntries # 0 /\ ~(key < b.headKey) /\ key >= b.tailKey
  <2>1. e = ExtendUp(b, key)
    BY <1>3 DEF ExtendStoredRange
  <2>2. /\ e \in DenseLeaf /\ Segment(e) /\ SameEntries(b, e)
        /\ Holds(e, key)
           \/ /\ DatumOf(e, e.headKey) # Default /\ key + 1 - e.headKey > DenseCap
              /\ e.tailKey <= key
    BY <1>0, <1>3, <2>1, ExtendUpIs
  <2> HIDE DEF e
  <2>3. e.headKey \in Int
    BY <2>2, DenseIs
  <2> QED BY <2>2, <2>3 DEF e, Keys
<1>4. CASE b.nEntries # 0 /\ ~(key < b.headKey) /\ ~(key >= b.tailKey)
  <2>1. e = b
    BY <1>4 DEF ExtendStoredRange
  <2>2. Holds(b, key)
    BY <1>0, <1>4 DEF Holds
  <2>3. SameEntries(b, b)
    BY DEF SameEntries
  <2> QED BY <1>0, <2>1, <2>2, <2>3
<1> QED BY <1>1, <1>2, <1>3, <1>4

(* put of a dense block. *)
LEMMA DensePutIs ==
  ASSUME NEW b, DenseGood(b), ~b.isOverflowed, NEW key \in Int, b.lower <= key, key < b.upper,
         NEW datum \in Value
  PROVE  LET r == Put(b, key, datum)
         IN  /\ DenseGood(r) /\ r.lower = b.lower /\ r.upper = b.upper
             /\ IF r.isOverflowed
                THEN /\ Stored(r) = Stored(b) /\ r.overflow.key = key /\ r.overflow.datum = datum
                ELSE Stored(r) = WithEntry(Stored(b), key, datum)
<1> DEFINE r == Put(b, key, datum)
           e == ExtendStoredRange(b, key)
<1>1. CASE datum = Default
  <2>1. r = Delete(b, key)
    BY <1>1 DEF Put
  <2> QED BY <1>1, <2>1, DeleteIs
<1>2. CASE datum # Default
  <2>0. b \in DenseLeaf /\ b.nEntries = Cardinality(Keys(b)) /\ Segment(b)
    BY DEF DenseGood
  <2>1. /\ e \in DenseLeaf /\ Segment(e) /\ SameEntries(b, e)
        /\ \/ Holds(e, key)
           \/ /\ Keys(e) # {} /\ DatumOf(e, e.headKey) # Default
              /\ e.tailKey <= key /\ key + 1 - e.headKey > DenseCap
           \/ /\ Keys(e) # {} /\ DatumOf(e, e.tailKey - 1) # Default
              /\ key < e.headKey /\ e.tailKey - key > DenseCap
    BY ExtendIs
  <2> DEFINE n == IF DatumOf(e, key) = Default THEN e.nEntries + 1 ELSE e.nEntries
             s == WithCell(e, key, datum, n)
             o == [e EXCEPT !.isOverflowed = TRUE,
                            !.overflow = [index |-> key - e.headKey, key |-> key, datum |-> datum]]
  <2>2. r = IF Holds(e, key) THEN s ELSE o
    BY <1>2 DEF Put, WithCell
  <2> HIDE DEF e, r
  <2>3. CASE Holds(e, key)
    <3>1. n \in Nat
      BY <2>1, DenseIs
    <3> HIDE DEF n
    <3>2. /\ s \in DenseLeaf /\ Segment(s) /\ s.nEntries = n
          /\ s.lower = e.lower /\ s.upper = e.upper /\ s.isOverflowed = e.isOverflowed
          /\ \A k \in Int : DatumOf(s, k) = IF k = key THEN datum ELSE DatumOf(e, k)
      BY <2>1, <2>3, <3>1, SetIs
    <3>3. r = s
      BY <2>2, <2>3
    <3> HIDE DEF s
    <3>4. /\ \A k \in Int : DatumOf(s, k) = IF k = key THEN datum ELSE DatumOf(b, k)
          /\ s.lower = b.lower /\ s.upper = b.upper /\ ~s.isOverflowed
                /\ DatumOf(e, key) = DatumOf(b, key)
          /\ e.nEntries = b.nEntries
      BY <2>1, <3>2 DEF SameEntries
    <3>5. /\ Stored(s) = WithEntry(Stored(b), key, datum)
          /\ Cardinality(Keys(b)) \in Nat
          /\ DatumOf(b, key) = Default => Cardinality(Keys(s)) = Cardinality(Keys(b)) + 1
          /\ DatumOf(b, key) # Default => Cardinality(Keys(s)) = Cardinality(Keys(b))
      BY <1>2, <2>0, <3>2, <3>4, EntrySet
    <3>6. n = Cardinality(Keys(s))
      BY <2>0, <3>4, <3>5 DEF n
    <3>7. DenseGood(s)
      BY <3>2, <3>4, <3>6 DEF DenseGood
    <3> QED BY <3>3, <3>4, <3>5, <3>7 DEF r
  <2>4. CASE ~Holds(e, key)
    <3>1. r = o
      BY <2>2, <2>4
    <3> DEFINE x == [index |-> key - e.headKey, key |-> key, datum |-> datum]
    <3>2. key - e.headKey \in Int /\ x \in Overflow /\ x.index = key - e.headKey /\ x.key = key
          /\ x.datum = datum
      BY <2>1, DenseIs DEF Overflow
    <3>3. o = [e EXCEPT !.isOverflowed = TRUE, !.overflow = x]
      OBVIOUS
    <3> HIDE DEF o, x
    <3>4. o \in DenseLeaf
      BY <2>1, <3>2, <3>3 DEF DenseLeaf
    <3>5. /\ o.isOverflowed /\ o.overflow = x /\ o.headKey = e.headKey /\ o.tailKey = e.tailKey
          /\ o.data = e.data /\ o.headIndex = e.headIndex /\ o.tailIndex = e.tailIndex
          /\ o.lower = e.lower /\ o.upper = e.upper /\ o.nEntries = e.nEntries
      BY <2>1, <3>3 DEF DenseLeaf
    <3>6. Segment(o)
      BY <2>1, <3>5 DEF Segment
    <3>7. \A k \in Int : DatumOf(o, k) = DatumOf(e, k)
      BY <3>5 DEF DatumOf, Holds, Cell
    <3>8. \A k \in Int : DatumOf(o, k) = DatumOf(b, k)
      BY <2>1, <3>7 DEF SameEntries
    <3>9. Keys(o) = Keys(e) /\ Keys(o) = Keys(b)
      BY <3>7, <3>8 DEF Keys
    <3>10. Stored(o) = Stored(b)
      <4>1. /\ Stored(b) = [k \in Keys(b) |-> DatumOf(b, k)]
            /\ Stored(o) = [k \in Keys(o) |-> DatumOf(o, k)]
            /\ \A k \in Keys(b) : k \in Int
        BY <2>0, <3>4, StoredIs
      <4> QED BY <3>8, <3>9, <4>1
    <3>11. o.lower = b.lower /\ o.upper = b.upper /\ o.nEntries = b.nEntries
      BY <2>1, <3>5 DEF SameEntries
    <3>12. e.headKey \in Int /\ e.tailKey - 1 \in Int
      BY <2>1, DenseIs
    <3>13. DenseOver(o)
      <4>1. /\ o.overflow.index = key - o.headKey /\ o.overflow.key = key /\ o.overflow.datum = datum
            /\ o.lower <= key /\ key < o.upper
        BY <3>2, <3>5, <3>11
      <4>2. \/ /\ Keys(o) # {} /\ DatumOf(o, o.headKey) # Default
               /\ o.tailKey <= key /\ key + 1 - o.headKey > DenseCap
            \/ /\ Keys(o) # {} /\ DatumOf(o, o.tailKey - 1) # Default
               /\ key < o.headKey /\ o.tailKey - key > DenseCap
        BY <2>1, <2>4, <3>5, <3>7, <3>9, <3>12
      <4> QED BY <1>2, <4>1, <4>2 DEF DenseOver
    <3>14. DenseGood(o)
      BY <2>0, <3>4, <3>6, <3>9, <3>11, <3>13 DEF DenseGood
    <3> QED BY <3>1, <3>2, <3>5, <3>10, <3>11, <3>14 DEF r
  <2> QED BY <2>3, <2>4
<1> QED BY <1>1, <1>2

(* put of a dense block, said of its entries. *)
LEMMA DensePutEntries ==
  ASSUME NEW b, DenseGood(b), ~b.isOverflowed, NEW key \in Int, b.lower <= key, key < b.upper,
         NEW datum \in Value
  PROVE  LET r == Put(b, key, datum)
         IN  /\ DenseGood(r) /\ r.lower = b.lower /\ r.upper = b.upper
             /\ EntriesOf(r) = WithEntry(EntriesOf(b), key, datum)
<1> DEFINE r == Put(b, key, datum)
<1>1. /\ DenseGood(r) /\ r.lower = b.lower /\ r.upper = b.upper
      /\ IF r.isOverflowed
         THEN Stored(r) = Stored(b) /\ r.overflow.key = key /\ r.overflow.datum = datum
         ELSE Stored(r) = WithEntry(Stored(b), key, datum)
  BY DensePutIs
<1>2. b.type = "dense" /\ r.type = "dense"
  BY <1>1, DenseIs DEF DenseGood
<1> HIDE DEF r
<1>3. EntriesOf(r) = WithEntry(EntriesOf(b), key, datum)
  BY <1>1, <1>2 DEF EntriesOf, OwnEntries
<1> QED BY <1>1, <1>3 DEF r

(* A dense block cut off before stop. *)
CutAt(b, end, n, stop, from) ==
  [[b EXCEPT !.upper = end, !.nEntries = n,
             !.data = [c \in DOMAIN @ |->
                         IF \E k \in from..b.tailKey-1 : c = Cell(b, k - b.headKey)
                         THEN Default ELSE @[c]],
             !.tailIndex = IF @ < b.tailKey - stop THEN @ - (b.tailKey - stop) + DenseCap
                           ELSE @ - (b.tailKey - stop),
             !.tailKey = stop]
   EXCEPT !.isOverflowed = FALSE, !.overflow = NoOverflow]

LEMMA WrappedBack ==
  ASSUME NEW h \in Int, NEW p \in Int, NEW g \in Int, 0 <= h, h < DenseCap, 0 <= p, 0 <= g, p + g <= DenseCap
  PROVE  LET t == Wrapped(h + (p + g))
             back == IF t < g THEN t - g + DenseCap ELSE t - g
         IN  back \in 0..DenseCap-1 /\ back = Wrapped(h + p)
BY CapsAre DEF Wrapped

LEMMA CutIs ==
  ASSUME NEW b \in DenseLeaf, Segment(b), NEW stop \in Int, NEW end \in Int, NEW n \in Nat,
         b.headKey <= stop, stop <= b.tailKey, stop <= end
  PROVE  LET r == CutAt(b, end, n, stop, stop)
         IN  /\ r \in DenseLeaf /\ Segment(r) /\ r.nEntries = n /\ ~r.isOverflowed
             /\ r.lower = b.lower /\ r.upper = end
             /\ \A k \in Int : DatumOf(r, k) = IF k < stop THEN DatumOf(b, k) ELSE Default
<1> DEFINE r == CutAt(b, end, n, stop, stop)
           gone == b.tailKey - stop
           data == [c \in 0..DenseCap-1 |->
                      IF \E k \in stop..b.tailKey-1 : c = Cell(b, k - b.headKey)
                      THEN Default ELSE b.data[c]]
           tailIndex == IF b.tailIndex < gone THEN b.tailIndex - gone + DenseCap ELSE b.tailIndex - gone
<1>1. /\ b.headKey \in Int /\ b.tailKey \in Int /\ gone \in Int /\ DenseCap \in Int /\ DenseCap > 1
      /\ b.headIndex \in Int /\ 0 <= b.headIndex /\ b.headIndex < DenseCap
      /\ b.tailIndex \in Int /\ b.tailIndex = Wrapped(b.headIndex + (b.tailKey - b.headKey))
      /\ b.tailKey - b.headKey <= DenseCap /\ b.lower <= b.headKey /\ b.lower \in Int
      /\ b.data \in [0..DenseCap-1 -> Value] /\ Default \in Value
  BY CapsAre, DenseIs DEF Segment
<1>2. data \in [0..DenseCap-1 -> Value]
  BY <1>1
<1>3. tailIndex \in 0..DenseCap-1 /\ tailIndex = Wrapped(b.headIndex + (stop - b.headKey))
  <2> DEFINE p == stop - b.headKey
             len == b.tailKey - b.headKey
  <2>0. /\ stop \in Int /\ b.headKey \in Int /\ b.tailKey \in Int /\ DenseCap \in Int
        /\ b.headKey <= stop /\ stop <= b.tailKey /\ b.tailKey - b.headKey <= DenseCap
    BY <1>1
  <2>1. p \in Int /\ len \in Int /\ 0 <= p /\ 0 <= gone /\ len = p + gone /\ len <= DenseCap
    BY <2>0
  <2>2. b.tailIndex = Wrapped(b.headIndex + (p + gone))
    <3>1. b.tailIndex = Wrapped(b.headIndex + len)
      BY <1>1
    <3> HIDE DEF p, len, gone
    <3> QED BY <2>1, <3>1
  <2> HIDE DEF p, len, gone
  <2>3. tailIndex \in 0..DenseCap-1 /\ tailIndex = Wrapped(b.headIndex + p)
    BY <1>1, <2>1, <2>2, WrappedBack
  <2> QED BY <2>3 DEF p
<1>4. r = [b EXCEPT !.upper = end, !.nEntries = n, !.data = data, !.tailIndex = tailIndex,
                    !.tailKey = stop, !.isOverflowed = FALSE, !.overflow = NoOverflow]
  <2>1. DOMAIN b.data = 0..DenseCap-1
    BY <1>1
  <2> QED BY <2>1 DEF CutAt, DenseLeaf
<1>5. NoOverflow \in Overflow
  BY <1>1 DEF NoOverflow, Overflow
<1>6. \A k \in Int : Holds(b, k) /\ k < stop => data[Cell(b, k - b.headKey)]
      = b.data[Cell(b, k - b.headKey)]
  <2> TAKE k \in Int
  <2> HAVE Holds(b, k) /\ k < stop
  <2>1. /\ k - b.headKey \in Int /\ 0 <= k - b.headKey /\ k - b.headKey < DenseCap
        /\ Cell(b, k - b.headKey) \in 0..DenseCap-1
    BY DatumIs
  <2>2. ASSUME NEW j \in stop..b.tailKey-1, Cell(b, k - b.headKey) = Cell(b, j - b.headKey) PROVE FALSE
    <3>1. j - b.headKey \in Int /\ 0 <= j - b.headKey /\ j - b.headKey < DenseCap /\ j \in Int
          /\ j >= stop
      BY SMTT(30), <1>1
    <3>2. j - b.headKey = k - b.headKey
      BY <2>1, <2>2, <3>1, CellIs
    <3> QED BY <1>1, <3>1, <3>2
  <2> QED BY <2>1, <2>2
<1> HIDE DEF r, data, tailIndex, gone
<1>7. r \in DenseLeaf
  BY <1>2, <1>3, <1>4, <1>5 DEF DenseLeaf
<1>8. /\ r.headKey = b.headKey /\ r.tailKey = stop /\ r.headIndex = b.headIndex
      /\ r.tailIndex = tailIndex
      /\ r.lower = b.lower /\ r.upper = end /\ r.nEntries = n /\ ~r.isOverflowed /\ r.data = data
  BY <1>4 DEF DenseLeaf
<1>9. Segment(r)
  <2>1. r.tailIndex = Wrapped(r.headIndex + (r.tailKey - r.headKey))
    BY <1>3, <1>8
  <2>2. /\ r.lower <= r.headKey /\ r.headKey <= r.tailKey /\ r.tailKey <= r.upper
        /\ r.tailKey - r.headKey <= DenseCap
    BY <1>1, <1>8
  <2> QED BY <2>1, <2>2 DEF Segment
<1>10. ASSUME NEW k \in Int PROVE DatumOf(r, k) = IF k < stop THEN DatumOf(b, k) ELSE Default
  <2>1. Holds(r, k) <=> Holds(b, k) /\ k < stop
    BY <1>1, <1>8 DEF Holds
  <2>2. Cell(r, k - r.headKey) = Cell(b, k - b.headKey)
    BY <1>8 DEF Cell
  <2>3. ~(k < stop) => ~Holds(r, k)
    BY <2>1
  <2> QED BY <1>6, <1>8, <2>1, <2>2, <2>3 DEF DatumOf
<1> QED BY <1>7, <1>8, <1>9, <1>10 DEF r

(* Extending a block without entries sets all of its segment. *)
LEMMA Overwritten ==
  ASSUME NEW d, NEW h, NEW hi, NEW ti, NEW k, NEW h2, NEW hi2, NEW ti2, NEW k2, NEW data
  PROVE  [[d EXCEPT !.headKey = h, !.headIndex = hi, !.tailIndex = ti, !.tailKey = k]
            EXCEPT !.headKey = h2, !.headIndex = hi2, !.tailIndex = ti2, !.tailKey = k2, !.data = data]
         = [d EXCEPT !.headKey = h2, !.headIndex = hi2, !.tailIndex = ti2, !.tailKey = k2, !.data = data]
OBVIOUS

Emptied(d, key) == [d EXCEPT !.headKey = key, !.headIndex = 0, !.tailIndex = 0, !.tailKey = key]

LEMMA EmptyPut ==
  ASSUME NEW d, NEW key, NEW datum, datum # Default, d.nEntries = 0,
         Emptied(d, key).nEntries = 0, Emptied(d, key).data = d.data
  PROVE  Put(d, key, datum) = Put(Emptied(d, key), key, datum)
<1> DEFINE x == Emptied(d, key)
<1>0. x = [d EXCEPT !.headKey = key, !.headIndex = 0, !.tailIndex = 0, !.tailKey = key]
  BY DEF Emptied
<1> HIDE DEF x
<1>4. x.nEntries = 0 /\ x.data = d.data
  BY DEF x
<1> DEFINE data == [d.data EXCEPT ![0] = Default]
<1>1. ExtendStoredRange(d, key) = [d EXCEPT !.headKey = key, !.headIndex = 0, !.tailIndex = 1,
                                            !.tailKey = key + 1, !.data = data]
  BY DEF ExtendStoredRange
<1>2. ExtendStoredRange(x, key) = [x EXCEPT !.headKey = key, !.headIndex = 0, !.tailIndex = 1,
                                            !.tailKey = key + 1, !.data = data]
  BY <1>4 DEF ExtendStoredRange
<1> HIDE DEF data
<1>3. ExtendStoredRange(d, key) = ExtendStoredRange(x, key)
  BY <1>0, <1>1, <1>2, Overwritten
<1> QED BY <1>3 DEF Put, x

(* The entries of an overflowed dense block, the one in the object among   *)
(* them.                                                                   *)
LEMMA DenseEntries ==
  ASSUME NEW b, DenseGood(b)
  PROVE  /\ b.type = "dense" /\ b.lower \in Int /\ b.upper \in Int
         /\ ~b.isOverflowed => EntriesOf(b) = Stored(b) /\ DOMAIN EntriesOf(b) = Keys(b)
         /\ b.isOverflowed =>
              /\ b.overflow.key \in Int /\ b.overflow.datum \in Value /\ b.overflow.datum # Default
              /\ b.overflow.key \notin Keys(b)
              /\ EntriesOf(b) = [k \in Keys(b) \cup {b.overflow.key} |->
                                   IF k = b.overflow.key THEN b.overflow.datum ELSE DatumOf(b, k)]
         /\ IsFiniteSet(Keys(b)) /\ IsFiniteSet(DOMAIN EntriesOf(b))
         /\ \A k \in DOMAIN EntriesOf(b) : /\ k \in Int /\ b.lower <= k /\ k < b.upper
                                           /\ EntriesOf(b)[k] \in Value \ {Default}
<1>1. /\ b \in DenseLeaf /\ Segment(b) /\ b.type = "dense" /\ b.lower \in Int /\ b.upper \in Int
      /\ b.headKey \in Int /\ b.tailKey \in Int
      /\ b.lower <= b.headKey /\ b.tailKey <= b.upper
  BY DenseIs DEF DenseGood, Segment
<1>2. /\ Stored(b) = [k \in Keys(b) |-> DatumOf(b, k)]
      /\ \A k \in Keys(b) : /\ k \in Int /\ b.headKey <= k /\ k < b.tailKey /\ Holds(b, k)
                            /\ DatumOf(b, k) # Default /\ DatumOf(b, k) \in Value
      /\ IsFiniteSet(Keys(b))
  <2>1. \A k \in Keys(b) : DatumOf(b, k) # Default /\ k \in Int
    BY DEF Keys
  <2>2. \A k \in Keys(b) : DatumOf(b, k) \in Value
    BY <1>1, <2>1, DatumIs
  <2> QED BY <1>1, <2>1, <2>2, StoredIs
<1>3. \A k \in Keys(b) : b.lower <= k /\ k < b.upper
  BY <1>1, <1>2
<1>4. CASE ~b.isOverflowed
  <2>1. EntriesOf(b) = Stored(b)
    BY <1>1, <1>4 DEF EntriesOf, OwnEntries
  <2> QED BY <1>1, <1>2, <1>3, <1>4, <2>1
<1>5. CASE b.isOverflowed
  <2> DEFINE x == b.overflow.key
             v == b.overflow.datum
  <2>1. DenseOver(b)
    BY <1>5 DEF DenseGood
  <2>2. x \in Int /\ v \in Value
    BY <1>1, DenseIs DEF Overflow
  <2>3. v # Default /\ b.lower <= x /\ x < b.upper /\ x \notin Keys(b)
    BY <1>1, <1>2, <2>1, <2>2 DEF DenseOver
  <2>4. EntriesOf(b) = WithEntry(Stored(b), x, v)
    BY <1>1, <1>5 DEF EntriesOf, OwnEntries
  <2> HIDE DEF x, v
  <2>5. EntriesOf(b) = [k \in Keys(b) \cup {x} |-> IF k = x THEN v ELSE DatumOf(b, k)]
    <3>1. DOMAIN Stored(b) = Keys(b) /\ \A k \in Keys(b) : Stored(b)[k] = DatumOf(b, k)
      BY <1>2
    <3> QED BY <2>3, <2>4, <3>1 DEF WithEntry
  <2>6. IsFiniteSet(Keys(b) \cup {x})
    BY <1>2, FS_AddElement
  <2>7. \A k \in DOMAIN EntriesOf(b) : /\ k \in Int /\ b.lower <= k /\ k < b.upper
                                       /\ EntriesOf(b)[k] \in Value \ {Default}
    BY <1>2, <1>3, <2>2, <2>3, <2>5
  <2> QED BY <1>1, <1>2, <1>5, <2>2, <2>3, <2>5, <2>6, <2>7 DEF x, v
<1> QED BY <1>4, <1>5

(* The left half of a dense leaf, its overflow entry in its place. *)
LEMMA DenseTruncateIs ==
  ASSUME NEW b, DenseGood(b), b.isOverflowed, NEW spKey \in Int,
         \E k \in DOMAIN EntriesOf(b) : k < spKey, \E k \in DOMAIN EntriesOf(b) : spKey <= k
  PROVE  LET r == Truncate(b, Cardinality({k \in DOMAIN EntriesOf(b) : k < spKey}), spKey)
         IN  /\ DenseGood(r) /\ r.lower = b.lower /\ r.upper = spKey
             /\ EntriesOf(r) = Part(EntriesOf(b), b.lower, spKey)
<1> DEFINE x == b.overflow.key
           v == b.overflow.datum
           low == {k \in Keys(b) : k < spKey}
           pos == Cardinality({k \in DOMAIN EntriesOf(b) : k < spKey})
           r == Truncate(b, pos, spKey)
<1>1. /\ b \in DenseLeaf /\ Segment(b) /\ b.lower \in Int /\ b.upper \in Int
      /\ b.headKey \in Int /\ b.tailKey \in Int /\ b.headKey <= b.tailKey
      /\ b.lower <= b.headKey /\ b.tailKey <= b.upper /\ b.isOverflowed
  BY DenseIs DEF DenseGood, Segment
<1>2. /\ x \in Int /\ v \in Value /\ v # Default /\ x \notin Keys(b)
      /\ EntriesOf(b) = [k \in Keys(b) \cup {x} |-> IF k = x THEN v ELSE DatumOf(b, k)]
      /\ IsFiniteSet(Keys(b))
      /\ \A k \in DOMAIN EntriesOf(b) : k \in Int /\ b.lower <= k /\ k < b.upper
  BY DenseEntries
<1>3. \A k \in Keys(b) : k \in Int /\ b.headKey <= k /\ k < b.tailKey
  BY <1>1, StoredIs
<1>4. /\ b.overflow.index = x - b.headKey /\ b.lower <= x /\ x < b.upper
      /\ b.headKey < b.tailKey /\ (b.tailKey <= x \/ x < b.headKey)
  <2>1. /\ b.overflow.index = x - b.headKey /\ Keys(b) # {}
        /\ b.lower <= x /\ x < b.upper /\ (b.tailKey <= x \/ x < b.headKey)
    BY DEF DenseGood, DenseOver
  <2> QED BY <1>1, <1>3, <2>1
<1>5. IsFiniteSet(low) /\ Cardinality(low) \in Nat
  BY <1>2, FS_Subset, FS_CardinalityType
<1>6. Part(EntriesOf(b), b.lower, spKey) =
        [k \in {k \in Keys(b) \cup {x} : k < spKey} |-> IF k = x THEN v ELSE DatumOf(b, k)]
  <2>1. {k \in DOMAIN EntriesOf(b) : b.lower <= k /\ k < spKey} = {k \in Keys(b) \cup {x} : k < spKey}
    BY <1>2
  <2>2. \A k \in Keys(b) \cup {x} : EntriesOf(b)[k] = IF k = x THEN v ELSE DatumOf(b, k)
    BY <1>2
  <2> QED BY <2>1, <2>2 DEF Part
<1>7. \E k \in Keys(b) \cup {x} : k < spKey
  BY <1>2
<1>8. \E k \in Keys(b) \cup {x} : spKey <= k
  BY <1>2
<1>9. pos = Cardinality({k \in Keys(b) \cup {x} : k < spKey})
  BY <1>2
<1> HIDE DEF x, v, low, pos, r
<1>10. CASE b.tailKey <= x
  <2> DEFINE stop == IF spKey > b.tailKey THEN b.tailKey ELSE spKey
             c == CutAt(b, spKey, pos, stop, stop)
  <2>1. b.headKey < spKey /\ spKey <= x
    BY <1>1, <1>2, <1>3, <1>4, <1>7, <1>8, <1>10
  <2>2. ~(b.overflow.index <= 0)
    BY <1>1, <1>2, <1>4, <1>10
  <2>3. r = c
    BY <2>2 DEF r, Truncate, CutAt
  <2>4. low = {k \in Keys(b) \cup {x} : k < spKey} /\ pos = Cardinality(low)
    BY <1>2, <1>9, <2>1 DEF low
  <2>5. stop \in Int /\ b.headKey <= stop /\ stop <= b.tailKey /\ stop <= spKey /\ pos \in Nat
    BY <1>1, <1>5, <2>1, <2>4
  <2>6. /\ c \in DenseLeaf /\ Segment(c) /\ c.nEntries = pos /\ ~c.isOverflowed
        /\ c.lower = b.lower /\ c.upper = spKey
        /\ \A k \in Int : DatumOf(c, k) = IF k < stop THEN DatumOf(b, k) ELSE Default
    <3> HIDE DEF stop
    <3> QED BY <1>1, <2>5, CutIs
  <2> HIDE DEF c
  <2>7. \A k \in Int : DatumOf(c, k) = IF k < spKey THEN DatumOf(b, k) ELSE Default
    <3> TAKE k \in Int
    <3>1. ~(k < stop) /\ k < spKey => DatumOf(b, k) = Default
      BY <1>1, <1>3 DEF Keys
    <3>2. k < stop => k < spKey
      BY <1>1
    <3> QED BY <2>6, <3>1, <3>2
  <2>8. Keys(c) = low
    BY <1>3, <2>7 DEF Keys, low
  <2>9. DenseGood(c)
    BY <2>4, <2>6, <2>8 DEF DenseGood
  <2>10. EntriesOf(c) = [k \in low |-> DatumOf(b, k)]
    <3>1. EntriesOf(c) = Stored(c)
      BY <2>6, <2>9, DenseEntries
    <3>2. Stored(c) = [k \in Keys(c) |-> DatumOf(c, k)]
      BY <2>6, StoredIs
    <3>3. \A k \in low : DatumOf(c, k) = DatumOf(b, k)
      BY <1>3, <2>7 DEF low
    <3> QED BY <2>8, <3>1, <3>2, <3>3
  <2>11. EntriesOf(c) = Part(EntriesOf(b), b.lower, spKey)
    <3>1. \A k \in low : k # x
      BY <1>2 DEF low
    <3> QED BY <1>6, <2>4, <2>10, <3>1
  <2> QED BY <2>3, <2>6, <2>9, <2>11 DEF r, pos
<1>11. CASE x < b.headKey
  <2>1. x < spKey /\ spKey < b.tailKey
    BY <1>1, <1>2, <1>3, <1>4, <1>7, <1>8, <1>11
  <2>2. b.overflow.index <= 0
    BY <1>1, <1>2, <1>4, <1>11
  <2>3. {k \in Keys(b) \cup {x} : k < spKey} = low \cup {x} /\ x \notin low
    BY <1>2, <2>1 DEF low
  <2>4. pos = Cardinality(low) + 1 /\ pos - 1 = Cardinality(low)
    <3>1. pos = Cardinality(low) + 1
      BY <1>5, <1>9, <2>3, FS_AddElement
    <3> QED BY <1>5, <3>1
  <2> DEFINE n == Cardinality(low)
             from == IF b.headKey > spKey THEN b.headKey ELSE spKey
             done == CutAt(b, spKey, n, spKey, from)
  <2>5. r = Put(done, x, v)
    BY <1>1, <2>2, <2>4 DEF r, Truncate, CutAt, x, v
  <2>6. ASSUME NEW c, DenseGood(c), ~c.isOverflowed, c.lower = b.lower, c.upper = spKey,
               r = Put(c, x, v), EntriesOf(c) = [k \in low |-> DatumOf(b, k)]
        PROVE  /\ DenseGood(r) /\ r.lower = b.lower /\ r.upper = spKey
               /\ EntriesOf(r) = Part(EntriesOf(b), b.lower, spKey)
    <3>1. /\ DenseGood(r) /\ r.lower = c.lower /\ r.upper = c.upper
          /\ EntriesOf(r) = WithEntry(EntriesOf(c), x, v)
      BY <1>2, <1>4, <2>1, <2>6, DensePutEntries
    <3>2. WithEntry(EntriesOf(c), x, v) = [k \in low \cup {x} |-> IF k = x THEN v ELSE DatumOf(b, k)]
      <4>1. DOMAIN EntriesOf(c) = low /\ \A k \in low : EntriesOf(c)[k] = DatumOf(b, k)
        BY <2>6
      <4> QED BY <1>2, <4>1 DEF WithEntry
    <3> QED BY <1>6, <2>3, <2>6, <3>1, <3>2
  <2>7. CASE ~(b.headKey > spKey)
    <3>1. done = CutAt(b, spKey, n, spKey, spKey)
      BY <2>7
    <3>2. /\ done \in DenseLeaf /\ Segment(done) /\ done.nEntries = n /\ ~done.isOverflowed
          /\ done.lower = b.lower /\ done.upper = spKey
          /\ \A k \in Int : DatumOf(done, k) = IF k < spKey THEN DatumOf(b, k) ELSE Default
      <4> HIDE DEF done
      <4>1. b.headKey <= spKey /\ spKey <= b.tailKey /\ spKey <= spKey
        BY <1>1, <2>1, <2>7
      <4> QED BY <1>1, <1>5, <3>1, <4>1, CutIs
    <3> HIDE DEF done
    <3>3. Keys(done) = low
      BY <1>3, <3>2 DEF Keys, low
    <3>4. DenseGood(done)
      BY <3>2, <3>3 DEF DenseGood
    <3>5. EntriesOf(done) = [k \in low |-> DatumOf(b, k)]
      <4>1. EntriesOf(done) = Stored(done)
        BY <3>2, <3>4, DenseEntries
      <4>2. Stored(done) = [k \in Keys(done) |-> DatumOf(done, k)]
        BY <3>2, StoredIs
      <4>3. \A k \in low : DatumOf(done, k) = DatumOf(b, k)
        BY <1>3, <3>2 DEF low
      <4> QED BY <3>3, <4>1, <4>2, <4>3
    <3> QED BY <2>5, <2>6, <3>2, <3>4, <3>5 DEF r, pos
  <2>8. CASE b.headKey > spKey
    <3> DEFINE c == [done EXCEPT !.headKey = x, !.headIndex = 0, !.tailIndex = 0, !.tailKey = x]
               data == [i \in 0..DenseCap-1 |->
                          IF \E k \in b.headKey..b.tailKey-1 : i = Cell(b, k - b.headKey)
                          THEN Default ELSE b.data[i]]
               junk == IF b.tailIndex < b.tailKey - spKey THEN b.tailIndex - (b.tailKey - spKey) + DenseCap
                       ELSE b.tailIndex - (b.tailKey - spKey)
    <3>0. /\ b.data \in [0..DenseCap-1 -> Value] /\ Default \in Value /\ 0 \in 0..DenseCap-1
          /\ DOMAIN b.data = 0..DenseCap-1 /\ DenseCap \in Int /\ DenseCap > 1
      BY <1>1, CapsAre, DenseIs
    <3>1. low = {} /\ n = 0
      <4>1. low = {}
        BY <1>1, <1>3, <2>8 DEF low
      <4> QED BY <4>1, FS_EmptySet
    <3>2. data \in [0..DenseCap-1 -> Value]
      BY <3>0
    <3>3. done = [b EXCEPT !.upper = spKey, !.nEntries = 0, !.data = data, !.tailIndex = junk,
                           !.tailKey = spKey, !.isOverflowed = FALSE, !.overflow = NoOverflow]
      BY <1>1, <2>8, <3>0, <3>1 DEF CutAt, DenseLeaf
    <3>4. NoOverflow \in Overflow
      BY <3>0 DEF NoOverflow, Overflow
    <3> HIDE DEF done, data, junk
    <3>5. c = [b EXCEPT !.upper = spKey, !.nEntries = 0, !.data = data, !.tailIndex = 0, !.headIndex = 0,
                        !.headKey = x, !.tailKey = x, !.isOverflowed = FALSE, !.overflow = NoOverflow]
      BY <1>1, <3>3 DEF DenseLeaf
    <3>6. done.nEntries = 0 /\ done.data = data
      BY <1>1, <3>3 DEF DenseLeaf
    <3>14. c = Emptied(done, x)
      BY DEF Emptied
    <3> HIDE DEF c
    <3>7. c \in DenseLeaf
      BY <1>1, <1>2, <3>0, <3>2, <3>4, <3>5 DEF DenseLeaf
    <3>8. /\ c.headKey = x /\ c.tailKey = x /\ c.headIndex = 0 /\ c.tailIndex = 0 /\ c.nEntries = 0
          /\ c.data = data /\ c.lower = b.lower /\ c.upper = spKey /\ ~c.isOverflowed
      BY <1>1, <3>5 DEF DenseLeaf
    <3>9. Segment(c)
      <4>1. Wrapped(0 + (x - x)) = 0
        BY <1>2, <3>0 DEF Wrapped
      <4> QED BY <1>1, <1>2, <1>4, <2>1, <3>0, <3>8, <4>1 DEF Segment
    <3>10. Keys(c) = {} /\ Stored(c) = [k \in low |-> DatumOf(b, k)]
      <4>1. Keys(c) = {}
        BY <1>2, <3>8 DEF Keys, DatumOf, Holds
      <4>2. Stored(c) = [k \in Keys(c) |-> DatumOf(c, k)]
        BY <3>7, StoredIs
      <4> QED BY <3>1, <4>1, <4>2
    <3>11. DenseGood(c)
      <4>1. Cardinality(Keys(c)) = 0
        BY <3>10, FS_EmptySet
      <4> QED BY <3>7, <3>8, <3>9, <4>1 DEF DenseGood
    <3>12. EntriesOf(c) = [k \in low |-> DatumOf(b, k)]
      BY <3>8, <3>10, <3>11, DenseEntries
    <3>13. Put(done, x, v) = Put(c, x, v)
      BY <1>2, <3>6, <3>8, <3>14, EmptyPut
    <3> QED BY <2>5, <2>6, <3>8, <3>11, <3>12, <3>13 DEF r, pos
  <2> QED BY <2>7, <2>8
<1> QED BY <1>4, <1>10, <1>11

-----------------------------------------------------------------------------
(* The cells of a sparse block in the order of their keys. *)
Pair == [key : Int, value : Value]
Ascending(s) == \A i, j \in DOMAIN s : i < j => s[i].key < s[j].key
Elements(s) == {s[i] : i \in DOMAIN s}
Below(s, k) == {i \in DOMAIN s : s[i].key < k}

LEMMA KeysAre ==
  ASSUME NEW s \in Seq(Pair)
  PROVE  /\ DOMAIN s = 1..Len(s) /\ Len(s) \in Nat
         /\ \A i \in DOMAIN s : s[i] \in Pair /\ s[i].key \in Int
         /\ \A x \in Elements(s) : x \in Pair /\ x.key \in Int
<1>1. \A x \in Pair : x.key \in Int
  BY DEF Pair
<1>2. DOMAIN s = 1..Len(s) /\ Len(s) \in Nat /\ \A i \in DOMAIN s : s[i] \in Pair
  OBVIOUS
<1> QED BY <1>1, <1>2 DEF Elements

LEMMA OneEntryPerKey ==
  ASSUME NEW s \in Seq(Pair), Ascending(s), NEW i \in DOMAIN s, NEW j \in DOMAIN s,
         s[i].key = s[j].key
  PROVE  i = j
<1>1. i \in Int /\ j \in Int /\ s[i].key \in Int
  BY KeysAre
<1>2. ~(i < j) /\ ~(j < i)
  BY <1>1 DEF Ascending
<1> QED BY <1>1, <1>2

(* The indices of the smaller keys are the first ones. *)
LEMMA SmallerFirst ==
  ASSUME NEW s \in Seq(Pair), Ascending(s), NEW k \in Int
  PROVE  /\ Cardinality(Below(s, k)) \in 0..Len(s)
         /\ Below(s, k) = 1..Cardinality(Below(s, k))
<1> DEFINE B == Below(s, k)
<1>1. B \subseteq 1..Len(s) /\ Len(s) \in Nat
  BY DEF Below
<1>2. ASSUME NEW m \in 0..Len(s), B = 1..m
      PROVE  Cardinality(B) \in 0..Len(s) /\ B = 1..Cardinality(B)
  <2>1. Cardinality(1..m) = m
    BY IntervalSize
  <2> QED BY <1>2, <2>1
<1>3. CASE B = {}
  <2>1. B = 1..0
    BY <1>3
  <2> QED BY <1>1, <1>2, <2>1
<1>4. CASE B # {}
  <2> DEFINE m == Max(B)
  <2>1. m \in B /\ \A n \in B : n <= m
    <3> HIDE DEF B
    <3>1. B \in SUBSET Int /\ Len(s) \in Int /\ \A n \in B : n <= Len(s)
      BY <1>1
    <3> QED BY <1>4, <3>1, GreatestOf
  <2> HIDE DEF m
  <2>2. m \in 1..Len(s) /\ s[m].key < k
    BY <2>1 DEF Below
  <2>3. ASSUME NEW i \in 1..m PROVE i \in B
    <3>1. i \in DOMAIN s /\ m \in DOMAIN s /\ s[i].key \in Int /\ s[m].key \in Int /\ i \in Int
          /\ m \in Int
      BY <1>1, <2>2, KeysAre
    <3>2. i < m => s[i].key < s[m].key
      BY <3>1 DEF Ascending
    <3>3. s[i].key < k
      BY <2>2, <3>1, <3>2
    <3> QED BY <3>1, <3>3 DEF Below
  <2>4. B = 1..m
    <3>1. ASSUME NEW i \in B PROVE i \in 1..m
      BY <1>1, <2>1, <2>2
    <3> HIDE DEF B
    <3> QED BY <2>3, <3>1
  <2> QED BY <1>2, <2>2, <2>4
<1> QED BY <1>3, <1>4

(* An element put where the search ends keeps the keys ascending. *)
LEMMA InsertedIs ==
  ASSUME NEW s \in Seq(Pair), Ascending(s), NEW e \in Pair, \A i \in DOMAIN s : s[i].key # e.key
  PROVE  LET t == InsertAt(s, Cardinality(Below(s, e.key)) + 1, e)
         IN  t \in Seq(Pair) /\ Ascending(t) /\ Elements(t) = Elements(s) \cup {e}
             /\ Len(t) = Len(s) + 1
<1> DEFINE c == Cardinality(Below(s, e.key))
           n == Len(s)
           t == SubSeq(s, 1, c) \o <<e>> \o SubSeq(s, c+1, n)
<1>1. n \in Nat /\ c \in 0..n /\ Below(s, e.key) = 1..c /\ e.key \in Int
  <2>1. e.key \in Int
    BY DEF Pair
  <2> QED BY <2>1, SmallerFirst, KeysAre
<1> HIDE DEF c
<1>2. InsertAt(s, c+1, e) = t
  <2>1. (c+1)-1 = c
    BY <1>1
  <2>2. InsertAt(s, c+1, e) = SubSeq(s, 1, (c+1)-1) \o <<e>> \o SubSeq(s, c+1, n)
    BY DEF InsertAt
  <2> QED BY <2>1, <2>2
<1>3. /\ t \in Seq(Pair) /\ Len(t) = n+1 /\ t[c+1] = e
      /\ \A i \in 1..c : t[i] = s[i]
      /\ \A i \in c+1..n : t[i+1] = s[i]
  <2> DEFINE u == SubSeq(s, 1, c)
             v == SubSeq(s, c+1, n)
             r == u \o <<e>>
  <2>1. u \in Seq(Pair) /\ Len(u) = c /\ \A i \in 1..c : u[i] = s[i]
    BY <1>1
  <2>2. v \in Seq(Pair) /\ Len(v) = n-c /\ \A i \in 1..n-c : v[i] = s[c+i]
    BY <1>1
  <2> HIDE DEF u, v, n
  <2>3. r \in Seq(Pair) /\ Len(r) = c+1 /\ r[c+1] = e /\ \A i \in 1..c : r[i] = s[i]
    BY <1>1, <2>1
  <2>4. t = r \o v
    BY DEF u, v
  <2> HIDE DEF r, t
  <2>5. /\ t \in Seq(Pair) /\ Len(t) = Len(r) + Len(v)
        /\ \A i \in 1..Len(r) : t[i] = r[i]
        /\ \A i \in 1..Len(v) : t[Len(r)+i] = v[i]
    BY SMTT(30), <2>2, <2>3, <2>4
  <2>6. ASSUME NEW i \in c+1..n PROVE t[i+1] = s[i]
    <3>1. i-c \in 1..n-c /\ (c+1)+(i-c) = i+1 /\ c+(i-c) = i
      BY <1>1
    <3> QED BY <2>2, <2>3, <2>5, <3>1
  <2>7. Len(t) = n+1
    BY <1>1, <2>2, <2>3, <2>5
  <2>8. t[c+1] = e /\ \A i \in 1..c : t[i] = s[i]
    <3>1. c+1 \in 1..Len(r) /\ \A i \in 1..c : i \in 1..Len(r)
      BY <1>1, <2>3
    <3> QED BY <2>3, <2>5, <3>1
  <2> QED BY <2>5, <2>6, <2>7, <2>8
<1> HIDE DEF t
<1>4. \A i \in 1..n+1 : i \in 1..c \/ i = c+1 \/ (i-1 \in c+1..n /\ (i-1)+1 = i)
  BY <1>1
<1>5. Elements(t) = Elements(s) \cup {e}
  <2>1. DOMAIN t = 1..n+1 /\ DOMAIN s = 1..n
    BY <1>3
  <2>2. \A i \in 1..c : i \in 1..n /\ i \in 1..n+1
    BY <1>1
  <2>3. \A i \in c+1..n : i \in 1..n /\ i+1 \in 1..n+1
    BY <1>1
  <2>4. c+1 \in 1..n+1 /\ \A i \in 1..n : i \in 1..c \/ i \in c+1..n
    BY <1>1
  <2>5. ASSUME NEW x \in Elements(t) PROVE x \in Elements(s) \cup {e}
    <3>1. PICK i \in 1..n+1 : x = t[i]
      BY <2>1 DEF Elements
    <3>2. CASE i \in 1..c
      BY <1>3, <2>1, <2>2, <3>1, <3>2 DEF Elements
    <3>3. CASE i = c+1
      BY <1>3, <3>1, <3>3
    <3>4. CASE i-1 \in c+1..n /\ (i-1)+1 = i
      BY <1>3, <2>1, <2>3, <3>1, <3>4 DEF Elements
    <3> QED BY <1>4, <3>2, <3>3, <3>4
  <2>6. ASSUME NEW x \in Elements(s) PROVE x \in Elements(t)
    <3>1. PICK i \in 1..n : x = s[i]
      BY <2>1 DEF Elements
    <3> QED BY <1>3, <2>1, <2>2, <2>3, <2>4, <3>1 DEF Elements
  <2>7. e \in Elements(t)
    BY <1>3, <2>1, <2>4 DEF Elements
  <2> QED BY <2>5, <2>6, <2>7
<1>6. /\ \A i \in 1..c : s[i].key < e.key
      /\ \A i \in c+1..n : e.key < s[i].key
  <2>1. ASSUME NEW i \in 1..c PROVE s[i].key < e.key
    BY <1>1 DEF Below
  <2>2. ASSUME NEW i \in c+1..n PROVE e.key < s[i].key
    <3>1. i \in DOMAIN s /\ i \notin 1..c
      BY <1>1
    <3>2. s[i].key \in Int
      BY <3>1, KeysAre
    <3>3. ~(s[i].key < e.key) /\ s[i].key # e.key
      BY <1>1, <3>1 DEF Below
    <3> QED BY <1>1, <3>2, <3>3
  <2> QED BY <2>1, <2>2
<1>7. ASSUME NEW i \in 1..n+1, NEW j \in 1..n+1, i < j PROVE t[i].key < t[j].key
  <2>0. DOMAIN s = 1..n
    OBVIOUS
  <2>1. CASE i \in 1..c /\ j \in 1..c
    <3>1. i \in 1..n /\ j \in 1..n
      BY <1>1, <2>1
    <3> QED BY <1>3, <1>7, <2>0, <2>1, <3>1 DEF Ascending
  <2>2. CASE i \in 1..c /\ j = c+1
    BY <1>3, <1>6, <2>2
  <2>3. CASE i \in 1..c /\ j-1 \in c+1..n /\ (j-1)+1 = j
    <3>1. i \in 1..n /\ j-1 \in 1..n /\ i < j-1
      BY <1>1, <2>3
    <3>2. t[i] = s[i] /\ t[j] = s[j-1]
      BY <1>3, <2>3
    <3> QED BY <2>0, <3>1, <3>2 DEF Ascending
  <2>4. CASE i = c+1 /\ j-1 \in c+1..n /\ (j-1)+1 = j
    <3>1. t[i] = e /\ t[j] = s[j-1]
      BY <1>3, <2>4
    <3> QED BY <1>6, <2>4, <3>1
  <2>5. CASE (i-1 \in c+1..n /\ (i-1)+1 = i) /\ (j-1 \in c+1..n /\ (j-1)+1 = j)
    <3>1. i-1 \in 1..n /\ j-1 \in 1..n /\ i-1 < j-1
      BY <1>1, <1>7, <2>5
    <3>2. t[i] = s[i-1] /\ t[j] = s[j-1]
      BY <1>3, <2>5
    <3> QED BY <2>0, <3>1, <3>2 DEF Ascending
  <2>6. CASE ~ (j \in 1..c \/ (i \in 1..c /\ j = c+1) \/ (j-1 \in c+1..n /\ (j-1)+1 = j))
    BY <1>1, <1>4, <1>7, <2>6
  <2>7. CASE j \in 1..c /\ i \notin 1..c
    BY <1>1, <1>7, <2>7
  <2> QED BY <1>4, <2>1, <2>2, <2>3, <2>4, <2>5, <2>6, <2>7
<1>8. Ascending(t)
  BY <1>3, <1>7 DEF Ascending
<1> QED BY <1>2, <1>3, <1>5, <1>8 DEF c

(* The search ends at the first cell whose key is not smaller. *)
LEMMA SearchIs ==
  ASSUME NEW s \in Seq(Pair), Ascending(s), NEW key \in Int
  PROVE  /\ Search(s, key) \in 0..Len(s) /\ Search(s, key) = Cardinality(Below(s, key))
         /\ \A i \in DOMAIN s : i <= Search(s, key) <=> s[i].key < key
         /\ \A i \in DOMAIN s : s[i].key = key => Search(s, key) = i - 1
               /\ HasKeyAt(s, Search(s, key), key)
         /\ HasKeyAt(s, Search(s, key), key) =>
              Search(s, key) + 1 \in DOMAIN s /\ s[Search(s, key) + 1].key = key
<1> DEFINE c == Search(s, key)
<1>1. c = Cardinality(Below(s, key))
  BY DEF Search, Below
<1>2. c \in 0..Len(s) /\ Below(s, key) = 1..c /\ Len(s) \in Nat /\ DOMAIN s = 1..Len(s)
  BY <1>1, SmallerFirst, KeysAre
<1> HIDE DEF c
<1>3. \A i \in DOMAIN s : i <= c <=> s[i].key < key
  BY <1>2 DEF Below
<1>4. ASSUME NEW i \in DOMAIN s, s[i].key = key PROVE c = i - 1 /\ HasKeyAt(s, c, key)
  <2>1. i \in Int /\ i > c
    BY <1>2, <1>3, <1>4
  <2>2. CASE c + 1 < i
    <3>1. c + 1 \in DOMAIN s /\ c + 1 \in Int /\ s[c+1].key \in Int
      BY <1>2, <2>1, <2>2, KeysAre
    <3>2. s[c+1].key < key
      BY <1>4, <2>2, <3>1 DEF Ascending
    <3>3. c + 1 <= c
      BY <1>3, <3>1, <3>2
    <3> QED BY <1>2, <3>3
  <2>3. CASE c + 1 = i
    BY <1>2, <1>4, <2>3 DEF HasKeyAt
  <2> QED BY <1>2, <2>1, <2>2, <2>3
<1>5. HasKeyAt(s, c, key) => c + 1 \in DOMAIN s /\ s[c+1].key = key
  BY <1>2 DEF HasKeyAt
<1> QED BY <1>1, <1>2, <1>3, <1>4, <1>5 DEF c

(* The entries of a sequence of cells. *)
KeysIn(s) == {s[i].key : i \in DOMAIN s}
MapOf(s) == [k \in KeysIn(s) |-> s[Search(s, k) + 1].value]

LEMMA MapIs ==
  ASSUME NEW s \in Seq(Pair), Ascending(s)
  PROVE  /\ DOMAIN MapOf(s) = KeysIn(s)
         /\ \A i \in DOMAIN s : s[i].key \in KeysIn(s) /\ MapOf(s)[s[i].key] = s[i].value
         /\ IsFiniteSet(KeysIn(s)) /\ Cardinality(KeysIn(s)) = Len(s)
<1>1. ASSUME NEW i \in DOMAIN s PROVE s[i].key \in KeysIn(s) /\ MapOf(s)[s[i].key] = s[i].value
  <2>1. s[i].key \in KeysIn(s) /\ s[i].key \in Int /\ i \in Int
    BY KeysAre DEF KeysIn
  <2>2. Search(s, s[i].key) = i - 1
    BY <2>1, SearchIs
  <2>3. Search(s, s[i].key) + 1 = i
    BY <2>1, <2>2
  <2> QED BY <2>1, <2>3 DEF MapOf
<1>2. DOMAIN MapOf(s) = KeysIn(s)
  BY DEF MapOf
<1>3. IsFiniteSet(KeysIn(s)) /\ Cardinality(KeysIn(s)) = Len(s)
  <2> DEFINE f == [i \in 1..Len(s) |-> s[i].key]
  <2>0. DOMAIN s = 1..Len(s) /\ Len(s) \in Nat
    BY KeysAre
  <2>1. f \in [1..Len(s) -> KeysIn(s)]
    BY <2>0 DEF KeysIn
  <2>2. \A i, j \in 1..Len(s) : f[i] = f[j] => i = j
    BY <2>0, OneEntryPerKey
  <2>3. \A k \in KeysIn(s) : \E i \in 1..Len(s) : f[i] = k
    BY <2>0 DEF KeysIn
  <2> HIDE DEF f
  <2>4. ExistsBijection(1..Len(s), KeysIn(s))
    BY <2>1, <2>2, <2>3 DEF ExistsBijection, Bijection, Injection, Surjection, IsInjective
  <2>5. IsFiniteSet(1..Len(s)) /\ Cardinality(1..Len(s)) = Len(s)
    BY <2>0, IntervalSize, FS_Interval
  <2> QED BY <2>4, <2>5, FS_Bijection
<1> QED BY <1>1, <1>2, <1>3

LEMMA MapBy ==
  ASSUME NEW s \in Seq(Pair), Ascending(s), NEW K, NEW m, m = [k \in K |-> m[k]],
         \A x \in Elements(s) : x.key \in K /\ m[x.key] = x.value,
         \A k \in K : \E x \in Elements(s) : x.key = k
  PROVE  MapOf(s) = m /\ KeysIn(s) = K
<1>1. KeysIn(s) = K
  BY DEF KeysIn, Elements
<1>2. ASSUME NEW k \in K PROVE MapOf(s)[k] = m[k]
  <2>1. PICK i \in DOMAIN s : s[i].key = k
    BY <1>1 DEF KeysIn
  <2> QED BY <2>1, MapIs DEF Elements
<1>3. MapOf(s) = [k \in K |-> MapOf(s)[k]]
  BY <1>1 DEF MapOf
<1>4. MapOf(s) = m
  BY <1>2, <1>3
<1> QED BY <1>1, <1>4

(* A new cell, a new value in a cell, a cell less, the first cells only. *)
LEMMA MapInserted ==
  ASSUME NEW s \in Seq(Pair), Ascending(s), NEW key \in Int, NEW v \in Value, v # Default,
         ~HasKeyAt(s, Search(s, key), key)
  PROVE  LET t == InsertAt(s, Search(s, key) + 1, Cells(key, v))
         IN  /\ t \in Seq(Pair) /\ Ascending(t) /\ Len(t) = Len(s) + 1
             /\ Elements(t) = Elements(s) \cup {Cells(key, v)}
             /\ MapOf(t) = WithEntry(MapOf(s), key, v)
<1> DEFINE e == Cells(key, v)
           t == InsertAt(s, Search(s, key) + 1, e)
           m == WithEntry(MapOf(s), key, v)
<1>1. e \in Pair /\ e.key = key /\ e.value = v
  BY DEF Pair, Cells
<1>2. Search(s, key) = Cardinality(Below(s, e.key)) /\ \A i \in DOMAIN s : s[i].key # e.key
  BY <1>1, SearchIs
<1> HIDE DEF e
<1>3. t \in Seq(Pair) /\ Ascending(t) /\ Elements(t) = Elements(s) \cup {e} /\ Len(t) = Len(s) + 1
  BY <1>1, <1>2, InsertedIs
<1> HIDE DEF t
<1>4. /\ DOMAIN MapOf(s) = KeysIn(s)
      /\ \A x \in Elements(s) : x.key \in KeysIn(s) /\ MapOf(s)[x.key] = x.value /\ x.key # key
      /\ \A k \in KeysIn(s) : \E x \in Elements(s) : x.key = k
  BY <1>1, <1>2, MapIs DEF Elements, KeysIn
<1>5. m = [k \in KeysIn(s) \cup {key} |-> IF k = key THEN v ELSE MapOf(s)[k]]
  BY <1>4 DEF WithEntry
<1> HIDE DEF m
<1>6. /\ \A x \in Elements(t) : x.key \in KeysIn(s) \cup {key} /\ m[x.key] = x.value
      /\ \A k \in KeysIn(s) \cup {key} : \E x \in Elements(t) : x.key = k
      /\ m = [k \in KeysIn(s) \cup {key} |-> m[k]]
  BY <1>1, <1>3, <1>4, <1>5
<1>7. MapOf(t) = m
  BY <1>3, <1>6, MapBy
<1> QED BY <1>3, <1>7 DEF t, m, e

LEMMA MapReplaced ==
  ASSUME NEW s \in Seq(Pair), Ascending(s), NEW key \in Int, NEW v \in Value, v # Default,
         HasKeyAt(s, Search(s, key), key)
  PROVE  LET t == [s EXCEPT ![Search(s, key) + 1].value = v]
         IN  /\ t \in Seq(Pair) /\ Ascending(t) /\ Len(t) = Len(s)
             /\ \A x \in Elements(t) : x \in Elements(s) \/ x = Cells(key, v)
             /\ MapOf(t) = WithEntry(MapOf(s), key, v)
<1> DEFINE c == Search(s, key) + 1
           t == [s EXCEPT ![c].value = v]
           m == WithEntry(MapOf(s), key, v)
<1>1. c \in DOMAIN s /\ s[c].key = key /\ s[c] \in Pair /\ Len(s) \in Nat /\ DOMAIN s = 1..Len(s)
  BY SearchIs, KeysAre
<1> HIDE DEF c
<1>2. /\ DOMAIN t = DOMAIN s /\ t[c] = [s[c] EXCEPT !.value = v]
      /\ \A i \in DOMAIN s : i # c => t[i] = s[i]
  BY <1>1
<1>3. t[c] = Cells(key, v) /\ t[c] \in Pair /\ t[c].key = key /\ t[c].value = v
  BY <1>1, <1>2 DEF Pair, Cells
<1> HIDE DEF t
<1>4. \A i \in DOMAIN s : t[i] \in Pair /\ t[i].key = s[i].key
  BY <1>1, <1>2, <1>3, KeysAre
<1>5. t \in Seq(Pair) /\ Len(t) = Len(s)
  <2>1. t = [i \in 1..Len(s) |-> t[i]]
    BY <1>1 DEF t
  <2>2. t \in [1..Len(s) -> Pair]
    BY <1>1, <1>4, <2>1
  <2> QED BY <1>1, <2>2
<1>6. Ascending(t)
  BY <1>2, <1>4 DEF Ascending
<1>7. /\ DOMAIN MapOf(s) = KeysIn(s) /\ key \in KeysIn(s)
      /\ \A i \in DOMAIN s : s[i].key \in KeysIn(s) /\ MapOf(s)[s[i].key] = s[i].value
  BY <1>1, MapIs
<1>8. m = [k \in KeysIn(s) |-> IF k = key THEN v ELSE MapOf(s)[k]]
  BY <1>7 DEF WithEntry
<1> HIDE DEF m
<1>9. ASSUME NEW i \in DOMAIN t PROVE t[i].key \in KeysIn(s) /\ m[t[i].key] = t[i].value
  <2>1. CASE i = c
    BY <1>3, <1>7, <1>8, <2>1
  <2>2. CASE i # c
    <3>1. t[i] = s[i] /\ i \in DOMAIN s
      BY <1>2, <2>2
    <3>2. s[i].key # key
      BY <1>1, <2>2, <3>1, OneEntryPerKey
    <3> QED BY <1>7, <1>8, <3>1, <3>2
  <2> QED BY <2>1, <2>2
<1>10. MapOf(t) = m
  <2>1. \A x \in Elements(t) : x.key \in KeysIn(s) /\ m[x.key] = x.value
    BY <1>9 DEF Elements
  <2>2. \A k \in KeysIn(s) : \E x \in Elements(t) : x.key = k
    BY <1>2, <1>4 DEF Elements, KeysIn
  <2>3. m = [k \in KeysIn(s) |-> m[k]]
    BY <1>8
  <2> QED BY <1>5, <1>6, <2>1, <2>2, <2>3, MapBy
<1>11. \A x \in Elements(t) : x \in Elements(s) \/ x = Cells(key, v)
  BY <1>2, <1>3 DEF Elements
<1> QED BY <1>5, <1>6, <1>10, <1>11 DEF t, m, c

LEMMA MapDeleted ==
  ASSUME NEW s \in Seq(Pair), Ascending(s), NEW key \in Int, HasKeyAt(s, Search(s, key), key)
  PROVE  LET t == Deleted(s, Search(s, key))
         IN  /\ t \in Seq(Pair) /\ Ascending(t) /\ Len(t) = Len(s) - 1
             /\ Elements(t) \subseteq Elements(s)
             /\ MapOf(t) = WithEntry(MapOf(s), key, Default)
<1> DEFINE c == Search(s, key) + 1
           t == Deleted(s, Search(s, key))
           m == WithEntry(MapOf(s), key, Default)
           n == Len(s)
<1>1. c \in 1..n /\ s[c].key = key /\ n \in Nat /\ DOMAIN s = 1..n /\ c \in DOMAIN s
  BY SearchIs, KeysAre
<1> HIDE DEF c, n
<1>2. t = SubSeq(s, 1, c-1) \o SubSeq(s, c+1, n)
  BY <1>1 DEF Deleted, RemoveAt, c, n
<1> HIDE DEF t
<1>3. /\ t \in Seq(Pair) /\ Len(t) = n-1
      /\ \A i \in 1..n-1 : t[i] = IF i < c THEN s[i] ELSE s[i+1]
  <2> DEFINE u == SubSeq(s, 1, c-1)
             w == SubSeq(s, c+1, n)
  <2>1. u \in Seq(Pair) /\ Len(u) = c-1 /\ \A i \in 1..c-1 : u[i] = s[i]
    BY <1>1 DEF n
  <2>2. w \in Seq(Pair) /\ Len(w) = n-c /\ \A i \in 1..n-c : w[i] = s[c+i]
    BY <1>1 DEF n
  <2>3. t = u \o w
    BY <1>2
  <2> HIDE DEF u, w
  <2>4. /\ t \in Seq(Pair) /\ Len(t) = Len(u) + Len(w)
        /\ \A i \in 1..Len(u) : t[i] = u[i]
        /\ \A i \in 1..Len(w) : t[Len(u)+i] = w[i]
    <3>1. u \in Seq(Pair) /\ w \in Seq(Pair)
      BY <2>1, <2>2
    <3> QED BY <2>3, <3>1
  <2>5. ASSUME NEW i \in 1..n-1 PROVE t[i] = IF i < c THEN s[i] ELSE s[i+1]
    <3>1. CASE i < c
      <4>1. i \in 1..c-1
        BY <1>1, <3>1
      <4> QED BY <2>1, <2>4, <3>1, <4>1
    <3>2. CASE ~(i < c)
      <4>1. i-(c-1) \in 1..n-c /\ (c-1)+(i-(c-1)) = i /\ c+(i-(c-1)) = i+1
        BY <1>1, <3>2
      <4>2. t[i] = w[i-(c-1)] /\ w[i-(c-1)] = s[i+1]
        BY <2>1, <2>2, <2>4, <4>1
      <4> QED BY <3>2, <4>2
    <3> QED BY <3>1, <3>2
  <2>6. Len(t) = n-1
    BY <1>1, <2>1, <2>2, <2>4
  <2> QED BY <2>4, <2>5, <2>6
<1>4. DOMAIN t = 1..n-1
  BY <1>3
<1>5. Ascending(t)
  <2> SUFFICES ASSUME NEW i \in 1..n-1, NEW j \in 1..n-1, i < j PROVE t[i].key < t[j].key
    BY <1>4 DEF Ascending
  <2> DEFINE p(x) == IF x < c THEN x ELSE x+1
  <2>1. p(i) \in 1..n /\ p(j) \in 1..n /\ p(i) < p(j)
    BY <1>1
  <2>2. t[i] = s[p(i)] /\ t[j] = s[p(j)]
    BY <1>3
  <2> HIDE DEF p
  <2> QED BY <1>1, <2>1, <2>2 DEF Ascending
<1>6. /\ DOMAIN MapOf(s) = KeysIn(s)
      /\ \A i \in DOMAIN s : s[i].key \in KeysIn(s) /\ MapOf(s)[s[i].key] = s[i].value
  BY MapIs
<1>7. m = [k \in KeysIn(s) \ {key} |-> MapOf(s)[k]]
  BY <1>6 DEF WithEntry
<1> HIDE DEF m
<1>8. ASSUME NEW i \in 1..n-1 PROVE t[i] \in Elements(s) /\ t[i].key \in KeysIn(s) \ {key}
      /\ m[t[i].key] = t[i].value
  <2>1. PICK j \in 1..n : t[i] = s[j] /\ j # c
    <3>1. CASE i < c
      BY <1>1, <1>3, <3>1
    <3>2. CASE ~(i < c)
      <4>1. i+1 \in 1..n /\ i+1 # c /\ t[i] = s[i+1]
        BY <1>1, <1>3, <3>2
      <4> QED BY <4>1
    <3> QED BY <3>1, <3>2
  <2>2. s[j].key # key
    BY <1>1, <2>1, OneEntryPerKey
  <2>3. t[i] \in Elements(s) /\ t[i].key \in KeysIn(s) /\ MapOf(s)[t[i].key] = t[i].value
    BY <1>1, <1>6, <2>1 DEF Elements
  <2> QED BY <1>7, <2>1, <2>2, <2>3
<1>9. ASSUME NEW k \in KeysIn(s) \ {key} PROVE \E x \in Elements(t) : x.key = k
  <2>1. PICK j \in 1..n : s[j].key = k
    BY <1>1 DEF KeysIn
  <2>2. j # c
    BY <1>1, <2>1
  <2>3. \E i \in 1..n-1 : t[i] = s[j]
    <3>1. CASE j < c
      <4>1. j \in 1..n-1 /\ t[j] = s[j]
        BY <1>1, <1>3, <3>1
      <4> QED BY <4>1
    <3>2. CASE ~(j < c)
      <4>1. j-1 \in 1..n-1 /\ ~(j-1 < c) /\ (j-1)+1 = j
        BY <1>1, <2>2, <3>2
      <4>2. t[j-1] = s[j]
        BY <1>3, <4>1
      <4> QED BY <4>1, <4>2
    <3> QED BY <3>1, <3>2
  <2> QED BY <1>4, <2>1, <2>3 DEF Elements
<1>10. MapOf(t) = m
  <2> DEFINE K == KeysIn(s) \ {key}
  <2>1. \A x \in Elements(t) : x.key \in K /\ m[x.key] = x.value
    BY <1>4, <1>8 DEF Elements
  <2>2. m = [k \in K |-> m[k]]
    BY <1>7
  <2>3. \A k \in K : \E x \in Elements(t) : x.key = k
    BY <1>9
  <2>4. t \in Seq(Pair)
    BY <1>3
  <2> HIDE DEF K
  <2> QED BY <1>5, <2>1, <2>2, <2>3, <2>4, MapBy
<1>11. Elements(t) \subseteq Elements(s)
  BY <1>4, <1>8 DEF Elements
<1> QED BY <1>3, <1>5, <1>10, <1>11 DEF t, m, n

LEMMA MapPrefix ==
  ASSUME NEW s \in Seq(Pair), Ascending(s), NEW u \in Int
  PROVE  LET t == SubSeq(s, 1, Search(s, u))
         IN  /\ t \in Seq(Pair) /\ Ascending(t) /\ Len(t) = Search(s, u)
             /\ Elements(t) = {x \in Elements(s) : x.key < u}
             /\ MapOf(t) = [k \in {k \in KeysIn(s) : k < u} |-> MapOf(s)[k]]
<1> DEFINE c == Search(s, u)
           t == SubSeq(s, 1, c)
           K == {k \in KeysIn(s) : k < u}
           m == [k \in K |-> MapOf(s)[k]]
<1>1. /\ c \in 0..Len(s) /\ DOMAIN s = 1..Len(s) /\ Len(s) \in Nat
      /\ \A i \in DOMAIN s : i <= c <=> s[i].key < u
  BY SearchIs, KeysAre
<1> HIDE DEF c
<1>2. t \in Seq(Pair) /\ Len(t) = c /\ DOMAIN t = 1..c /\ \A i \in 1..c : t[i] = s[i] /\ i \in DOMAIN s
  BY <1>1
<1> HIDE DEF t
<1>3. Ascending(t)
  BY <1>2 DEF Ascending
<1>4. Elements(t) = {x \in Elements(s) : x.key < u}
  <2>1. ASSUME NEW i \in 1..c PROVE t[i] \in Elements(s) /\ t[i].key < u
    BY <1>1, <1>2 DEF Elements
  <2>2. ASSUME NEW i \in DOMAIN s, s[i].key < u PROVE s[i] \in Elements(t)
    <3>1. i \in 1..c
      BY <1>1, <2>2
    <3> QED BY <1>2, <3>1 DEF Elements
  <2> QED BY <1>2, <2>1, <2>2 DEF Elements
<1>5. /\ \A x \in Elements(s) : x.key \in KeysIn(s) /\ MapOf(s)[x.key] = x.value
      /\ \A k \in KeysIn(s) : \E x \in Elements(s) : x.key = k
  BY MapIs DEF Elements, KeysIn
<1>6. MapOf(t) = m
  <2>3. m = [k \in K |-> m[k]]
    OBVIOUS
  <2> HIDE DEF m, K
  <2>1. \A x \in Elements(t) : x.key \in K /\ m[x.key] = x.value
    BY <1>4, <1>5 DEF m, K
  <2>2. \A k \in K : \E x \in Elements(t) : x.key = k
    BY <1>4, <1>5 DEF K
  <2>4. t \in Seq(Pair)
    BY <1>2
  <2> QED BY <1>3, <2>1, <2>2, <2>3, <2>4, MapBy
<1> QED BY <1>2, <1>3, <1>4, <1>6 DEF t, c

-----------------------------------------------------------------------------
(* A sparse block: its cells are in order and within its bounds, and when  *)
(* an entry did not fit they are as many as may be.                        *)
SparseLeaf ==
  [type : {"sparse"}, lower : Int, upper : Int, cells : Seq(Pair),
   isOverflowed : BOOLEAN, overflow : Overflow]

SparseOver(b) ==
  /\ b.overflow.index = Search(b.cells, b.overflow.key)
  /\ ~HasKeyAt(b.cells, b.overflow.index, b.overflow.key)
  /\ b.overflow.datum # Default
  /\ b.lower <= b.overflow.key /\ b.overflow.key < b.upper
  /\ Len(b.cells) = SparseCap

CellsWithin(s, l, u) == \A x \in Elements(s) : l <= x.key /\ x.key < u /\ x.value # Default

SparseGood(b) ==
  /\ b \in SparseLeaf /\ Ascending(b.cells) /\ Len(b.cells) <= SparseCap
  /\ CellsWithin(b.cells, b.lower, b.upper)
  /\ b.isOverflowed => SparseOver(b)

LEMMA SparseIs ==
  ASSUME NEW b \in SparseLeaf
  PROVE  /\ b.type = "sparse" /\ b.lower \in Int /\ b.upper \in Int /\ b.cells \in Seq(Pair)
         /\ b.isOverflowed \in BOOLEAN /\ b.overflow \in Overflow
         /\ b.overflow.key \in Int /\ b.overflow.datum \in Value
         /\ OwnEntries(b) = MapOf(b.cells)
BY DEF SparseLeaf, Overflow, OwnEntries, MapOf, KeysIn

(* A block whose cells have been changed. *)
LEMMA NewCells ==
  ASSUME NEW b, SparseGood(b), NEW t \in Seq(Pair), Ascending(t), Len(t) <= SparseCap,
         CellsWithin(t, b.lower, b.upper), ~b.isOverflowed
  PROVE  LET r == [b EXCEPT !.cells = t]
         IN  SparseGood(r) /\ r.lower = b.lower /\ r.upper = b.upper /\ ~r.isOverflowed /\ r.cells = t
<1> DEFINE r == [b EXCEPT !.cells = t]
<1>1. b \in SparseLeaf
  BY DEF SparseGood
<1>2. /\ r \in SparseLeaf /\ r.cells = t /\ r.lower = b.lower /\ r.upper = b.upper
      /\ r.isOverflowed = b.isOverflowed
  BY <1>1 DEF SparseLeaf
<1> HIDE DEF r
<1>3. SparseGood(r)
  BY <1>2 DEF SparseGood
<1> QED BY <1>2, <1>3 DEF r

(* put of a sparse block, said of its entries. *)
LEMMA SparsePutIs ==
  ASSUME NEW b, SparseGood(b), ~b.isOverflowed, NEW key \in Int, b.lower <= key, key < b.upper,
         NEW datum \in Value
  PROVE  LET r == SparsePut(b, key, datum)
         IN  /\ SparseGood(r) /\ r.lower = b.lower /\ r.upper = b.upper
             /\ EntriesOf(r) = WithEntry(EntriesOf(b), key, datum)
<1> DEFINE i == Search(b.cells, key)
           r == SparsePut(b, key, datum)
<1>1. /\ b \in SparseLeaf /\ b.type = "sparse" /\ b.cells \in Seq(Pair) /\ Ascending(b.cells)
      /\ Len(b.cells) <= SparseCap /\ CellsWithin(b.cells, b.lower, b.upper)
      /\ OwnEntries(b) = MapOf(b.cells) /\ EntriesOf(b) = MapOf(b.cells)
      /\ Len(b.cells) \in Nat /\ SparseCap \in Nat
  <2>1. b \in SparseLeaf /\ Ascending(b.cells) /\ Len(b.cells) <= SparseCap
          /\ CellsWithin(b.cells, b.lower, b.upper)
    BY DEF SparseGood
  <2>2. b.type = "sparse" /\ b.cells \in Seq(Pair) /\ OwnEntries(b) = MapOf(b.cells)
    BY <2>1, SparseIs
  <2>3. EntriesOf(b) = OwnEntries(b)
    BY DEF EntriesOf
  <2> QED BY <2>1, <2>2, <2>3, CapsAre
<1>2. /\ DOMAIN MapOf(b.cells) = KeysIn(b.cells)
      /\ HasKeyAt(b.cells, i, key) <=> key \in KeysIn(b.cells)
  <2>1. HasKeyAt(b.cells, i, key) <=> key \in KeysIn(b.cells)
    BY <1>1, SearchIs DEF KeysIn
  <2> QED BY <1>1, <2>1, MapIs
<1> HIDE DEF i
<1>3. ASSUME NEW t \in Seq(Pair), Ascending(t), Len(t) <= SparseCap,
             CellsWithin(t, b.lower, b.upper), r = [b EXCEPT !.cells = t],
             MapOf(t) = WithEntry(MapOf(b.cells), key, datum)
      PROVE  /\ SparseGood(r) /\ r.lower = b.lower /\ r.upper = b.upper
             /\ EntriesOf(r) = WithEntry(EntriesOf(b), key, datum)
  <2> HIDE DEF r
  <2>1. SparseGood(r) /\ r.lower = b.lower /\ r.upper = b.upper /\ ~r.isOverflowed /\ r.cells = t
    BY <1>3, NewCells
  <2>2. EntriesOf(r) = MapOf(t)
    <3>1. r \in SparseLeaf
      BY <2>1 DEF SparseGood
    <3>2. OwnEntries(r) = MapOf(r.cells)
      BY <3>1, SparseIs
    <3> QED BY <2>1, <3>2 DEF EntriesOf
  <2> QED BY <1>1, <1>3, <2>1, <2>2
<1>4. CASE datum = Default /\ ~HasKeyAt(b.cells, i, key)
  <2>1. r = b
    BY <1>4 DEF SparsePut, i
  <2>2. WithEntry(MapOf(b.cells), key, Default) = MapOf(b.cells)
    <3>1. KeysIn(b.cells) \ {key} = KeysIn(b.cells)
      BY <1>2, <1>4
    <3>2. MapOf(b.cells) = [k \in KeysIn(b.cells) |-> MapOf(b.cells)[k]]
      BY DEF MapOf
    <3> QED BY <1>2, <3>1, <3>2 DEF WithEntry
  <2> QED BY <1>1, <1>4, <2>1, <2>2
<1>5. CASE datum = Default /\ HasKeyAt(b.cells, i, key)
  <2> DEFINE t == Deleted(b.cells, i)
  <2>1. r = [b EXCEPT !.cells = t]
    BY <1>5 DEF SparsePut, i
  <2>2. /\ t \in Seq(Pair) /\ Ascending(t) /\ Len(t) = Len(b.cells) - 1
        /\ Elements(t) \subseteq Elements(b.cells)
        /\ MapOf(t) = WithEntry(MapOf(b.cells), key, Default)
    BY <1>1, <1>5, MapDeleted DEF i
  <2> HIDE DEF t, r
  <2>3. Len(t) <= SparseCap /\ CellsWithin(t, b.lower, b.upper)
    BY <1>1, <2>2 DEF CellsWithin
  <2> QED BY <1>3, <1>5, <2>1, <2>2, <2>3 DEF r
<1>6. CASE datum # Default /\ HasKeyAt(b.cells, i, key)
  <2> DEFINE t == [b.cells EXCEPT ![i + 1].value = datum]
  <2>1. r = [b EXCEPT !.cells = t]
    BY <1>6 DEF SparsePut, Inserted, i
  <2>2. /\ t \in Seq(Pair) /\ Ascending(t) /\ Len(t) = Len(b.cells)
        /\ \A x \in Elements(t) : x \in Elements(b.cells) \/ x = Cells(key, datum)
        /\ MapOf(t) = WithEntry(MapOf(b.cells), key, datum)
    BY <1>1, <1>6, MapReplaced DEF i
  <2> HIDE DEF t, r
  <2>3. Len(t) <= SparseCap /\ CellsWithin(t, b.lower, b.upper)
    BY <1>1, <1>6, <2>2 DEF CellsWithin, Cells
  <2> QED BY <1>3, <2>1, <2>2, <2>3 DEF r
<1>7. CASE datum # Default /\ ~HasKeyAt(b.cells, i, key) /\ Len(b.cells) < SparseCap
  <2> DEFINE t == InsertAt(b.cells, i + 1, Cells(key, datum))
  <2>1. r = [b EXCEPT !.cells = t]
    BY <1>7 DEF SparsePut, Inserted, i
  <2>2. /\ t \in Seq(Pair) /\ Ascending(t) /\ Len(t) = Len(b.cells) + 1
        /\ Elements(t) = Elements(b.cells) \cup {Cells(key, datum)}
        /\ MapOf(t) = WithEntry(MapOf(b.cells), key, datum)
    BY <1>1, <1>7, MapInserted DEF i
  <2> HIDE DEF t, r
  <2>3. Len(t) <= SparseCap /\ CellsWithin(t, b.lower, b.upper)
    BY <1>1, <1>7, <2>2 DEF CellsWithin, Cells
  <2> QED BY <1>3, <2>1, <2>2, <2>3 DEF r
<1>8. CASE datum # Default /\ ~HasKeyAt(b.cells, i, key) /\ ~(Len(b.cells) < SparseCap)
  <2> DEFINE x == [index |-> i, key |-> key, datum |-> datum]
  <2>1. r = [b EXCEPT !.isOverflowed = TRUE, !.overflow = x]
    BY <1>8 DEF SparsePut, i
  <2>2. x \in Overflow /\ x.index = i /\ x.key = key /\ x.datum = datum
    <3>1. i \in Int
      BY <1>1, SearchIs DEF i
    <3> QED BY <3>1 DEF Overflow
  <2> HIDE DEF x, r
  <2>3. /\ r \in SparseLeaf /\ r.cells = b.cells /\ r.lower = b.lower /\ r.upper = b.upper
        /\ r.isOverflowed /\ r.overflow = x
    BY <1>1, <2>1, <2>2 DEF SparseLeaf
  <2>4. SparseOver(r)
    BY <1>1, <1>8, <2>2, <2>3 DEF SparseOver, i
  <2>5. SparseGood(r)
    BY <1>1, <2>3, <2>4 DEF SparseGood
  <2>6. EntriesOf(r) = WithEntry(MapOf(b.cells), key, datum)
    <3>1. OwnEntries(r) = MapOf(b.cells)
      BY <2>3, SparseIs
    <3> QED BY <2>2, <2>3, <3>1 DEF EntriesOf
  <2> QED BY <1>1, <2>3, <2>5, <2>6 DEF r
<1> QED BY <1>4, <1>5, <1>6, <1>7, <1>8

(* The entries of a sparse block, the one that overflowed included. *)
LEMMA SparseEntries ==
  ASSUME NEW b, SparseGood(b)
  PROVE  /\ b.type = "sparse" /\ b.lower \in Int /\ b.upper \in Int
         /\ ~b.isOverflowed => EntriesOf(b) = MapOf(b.cells) /\ DOMAIN EntriesOf(b) = KeysIn(b.cells)
         /\ b.isOverflowed =>
              /\ b.overflow.key \in Int /\ b.overflow.datum \in Value /\ b.overflow.datum # Default
              /\ b.overflow.key \notin KeysIn(b.cells)
              /\ EntriesOf(b) = [k \in KeysIn(b.cells) \cup {b.overflow.key} |->
                                   IF k = b.overflow.key THEN b.overflow.datum ELSE MapOf(b.cells)[k]]
         /\ IsFiniteSet(KeysIn(b.cells)) /\ Cardinality(KeysIn(b.cells)) = Len(b.cells)
         /\ IsFiniteSet(DOMAIN EntriesOf(b))
         /\ \A k \in DOMAIN EntriesOf(b) : /\ k \in Int /\ b.lower <= k /\ k < b.upper
                                           /\ EntriesOf(b)[k] \in Value \ {Default}
<1>1. /\ b \in SparseLeaf /\ b.type = "sparse" /\ b.lower \in Int /\ b.upper \in Int
      /\ b.cells \in Seq(Pair) /\ Ascending(b.cells) /\ CellsWithin(b.cells, b.lower, b.upper)
      /\ OwnEntries(b) = MapOf(b.cells)
      /\ b.overflow.key \in Int /\ b.overflow.datum \in Value
  <2>1. b \in SparseLeaf /\ Ascending(b.cells) /\ CellsWithin(b.cells, b.lower, b.upper)
    BY DEF SparseGood
  <2> QED BY <2>1, SparseIs
<1>2. /\ DOMAIN MapOf(b.cells) = KeysIn(b.cells)
      /\ IsFiniteSet(KeysIn(b.cells)) /\ Cardinality(KeysIn(b.cells)) = Len(b.cells)
  BY <1>1, MapIs
<1>3. ASSUME NEW k \in KeysIn(b.cells)
      PROVE  k \in Int /\ b.lower <= k /\ k < b.upper /\ MapOf(b.cells)[k] \in Value \ {Default}
  <2>1. PICK i \in DOMAIN b.cells : b.cells[i].key = k
    BY DEF KeysIn
  <2>2. b.cells[i] \in Elements(b.cells) /\ b.cells[i] \in Pair /\ b.cells[i].key \in Int
    BY <1>1, KeysAre DEF Elements
  <2>3. MapOf(b.cells)[k] = b.cells[i].value /\ b.cells[i].value \in Value
    BY <1>1, <2>1, <2>2, MapIs DEF Pair
  <2> QED BY <1>1, <2>1, <2>2, <2>3 DEF CellsWithin
<1>4. CASE ~b.isOverflowed
  <2>1. EntriesOf(b) = MapOf(b.cells)
    BY <1>1, <1>4 DEF EntriesOf
  <2> QED BY <1>1, <1>2, <1>3, <1>4, <2>1
<1>5. CASE b.isOverflowed
  <2> DEFINE x == b.overflow.key
             v == b.overflow.datum
  <2>1. /\ v # Default /\ b.lower <= x /\ x < b.upper
        /\ ~HasKeyAt(b.cells, Search(b.cells, x), x)
    BY <1>5 DEF SparseGood, SparseOver
  <2>2. x \notin KeysIn(b.cells)
    BY <1>1, <2>1, SearchIs DEF KeysIn
  <2>3. EntriesOf(b) = WithEntry(MapOf(b.cells), x, v)
    BY <1>1, <1>5 DEF EntriesOf
  <2> HIDE DEF x, v
  <2>4. EntriesOf(b) = [k \in KeysIn(b.cells) \cup {x} |-> IF k = x THEN v ELSE MapOf(b.cells)[k]]
    BY <1>2, <2>1, <2>3 DEF WithEntry
  <2>5. IsFiniteSet(KeysIn(b.cells) \cup {x})
    BY <1>2, FS_AddElement
  <2>6. x \in Int /\ v \in Value
    BY <1>1 DEF x, v
  <2>7. \A k \in DOMAIN EntriesOf(b) : /\ k \in Int /\ b.lower <= k /\ k < b.upper
                                       /\ EntriesOf(b)[k] \in Value \ {Default}
    BY <1>3, <2>1, <2>4, <2>6
  <2> QED BY <1>1, <1>2, <1>5, <2>1, <2>2, <2>4, <2>5, <2>6, <2>7 DEF x, v
<1> QED BY <1>4, <1>5

(* The left half of a sparse block. *)
LEMMA SparseTruncateIs ==
  ASSUME NEW b, SparseGood(b), b.isOverflowed, NEW spKey \in Int,
         \E k \in DOMAIN EntriesOf(b) : k < spKey, \E k \in DOMAIN EntriesOf(b) : spKey <= k
  PROVE  LET r == LeafTruncated(b, Cardinality({k \in DOMAIN EntriesOf(b) : k < spKey}), spKey)
         IN  /\ SparseGood(r) /\ r.lower = b.lower /\ r.upper = spKey
             /\ EntriesOf(r) = Part(EntriesOf(b), b.lower, spKey)
<1> DEFINE x == b.overflow.key
           v == b.overflow.datum
           s == b.cells
           low == {k \in KeysIn(s) : k < spKey}
           pos == Cardinality({k \in DOMAIN EntriesOf(b) : k < spKey})
           r == LeafTruncated(b, pos, spKey)
           c == Search(s, spKey)
           p == SubSeq(s, 1, c)
           t == Truncated(s, b.overflow.index, Cells(x, v), pos)
<1>1. /\ b \in SparseLeaf /\ b.type = "sparse" /\ b.lower \in Int /\ b.upper \in Int
      /\ s \in Seq(Pair) /\ Ascending(s) /\ CellsWithin(s, b.lower, b.upper)
  <2>1. b \in SparseLeaf /\ Ascending(s) /\ CellsWithin(s, b.lower, b.upper)
    BY DEF SparseGood
  <2> QED BY <2>1, SparseIs
<1>2. /\ x \in Int /\ v \in Value /\ v # Default /\ x \notin KeysIn(s)
      /\ EntriesOf(b) = [k \in KeysIn(s) \cup {x} |-> IF k = x THEN v ELSE MapOf(s)[k]]
      /\ IsFiniteSet(KeysIn(s)) /\ Cardinality(KeysIn(s)) = Len(s)
      /\ \A k \in DOMAIN EntriesOf(b) : k \in Int /\ b.lower <= k /\ k < b.upper
  BY SparseEntries
<1>3. /\ b.overflow.index = Search(s, x) /\ ~HasKeyAt(s, Search(s, x), x)
      /\ b.lower <= x /\ x < b.upper /\ Len(s) = SparseCap
  BY DEF SparseGood, SparseOver
<1>4. /\ c \in 0..Len(s) /\ Search(s, x) \in 0..Len(s) /\ DOMAIN s = 1..Len(s) /\ Len(s) \in Nat
      /\ \A i \in DOMAIN s : s[i].key \in Int
      /\ \A i \in DOMAIN s : i <= c <=> s[i].key < spKey
      /\ \A i \in DOMAIN s : i <= Search(s, x) <=> s[i].key < x
  BY <1>1, <1>2, SearchIs, KeysAre
<1>5. /\ p \in Seq(Pair) /\ Ascending(p) /\ Len(p) = c
      /\ Elements(p) = {e \in Elements(s) : e.key < spKey}
      /\ MapOf(p) = [k \in low |-> MapOf(s)[k]]
  BY <1>1, MapPrefix
<1>6. IsFiniteSet(low) /\ Cardinality(low) = c
  <2>1. KeysIn(p) = low
    BY <1>5, MapIs
  <2> QED BY <1>5, <2>1, MapIs
<1>7. Part(EntriesOf(b), b.lower, spKey) =
        [k \in {k \in KeysIn(s) \cup {x} : k < spKey} |-> IF k = x THEN v ELSE MapOf(s)[k]]
  <2>1. {k \in DOMAIN EntriesOf(b) : b.lower <= k /\ k < spKey} = {k \in KeysIn(s) \cup {x} : k < spKey}
    BY <1>2
  <2>2. \A k \in KeysIn(s) \cup {x} : EntriesOf(b)[k] = IF k = x THEN v ELSE MapOf(s)[k]
    BY <1>2
  <2> QED BY <2>1, <2>2 DEF Part
<1>8. pos = Cardinality({k \in KeysIn(s) \cup {x} : k < spKey})
  BY <1>2
<1>9. /\ \E k \in KeysIn(s) \cup {x} : spKey <= k
      /\ b.lower < spKey /\ spKey < b.upper
  BY <1>1, <1>2
<1>10. r = [b EXCEPT !.upper = spKey, !.cells = t, !.isOverflowed = FALSE, !.overflow = NoOverflow]
  <2>1. b.isOverflowed /\ b.type # "dense"
    BY <1>1
  <2> QED BY <1>1, <2>1 DEF LeafTruncated, SparseLeaf
<1>11. NoOverflow \in Overflow
  BY CapsAre DEF NoOverflow, Overflow
<1> HIDE DEF x, v, s, low, pos, r, c, p, t
<1>12. ASSUME t \in Seq(Pair), Ascending(t), Len(t) <= SparseCap, CellsWithin(t, b.lower, spKey),
              MapOf(t) = Part(EntriesOf(b), b.lower, spKey)
       PROVE  /\ SparseGood(r) /\ r.lower = b.lower /\ r.upper = spKey
              /\ EntriesOf(r) = Part(EntriesOf(b), b.lower, spKey)
  <2>1. /\ r \in SparseLeaf /\ r.cells = t /\ r.lower = b.lower /\ r.upper = spKey /\ ~r.isOverflowed
    BY <1>1, <1>10, <1>11, <1>12 DEF SparseLeaf
  <2>2. SparseGood(r)
    BY <1>12, <2>1 DEF SparseGood
  <2>3. EntriesOf(r) = MapOf(t)
    BY <2>1, <2>2, SparseEntries
  <2> QED BY <1>12, <2>1, <2>2, <2>3
<1>13. CASE spKey <= x
  <2>1. {k \in KeysIn(s) \cup {x} : k < spKey} = low
    BY <1>2, <1>13 DEF low
  <2>2. pos = c
    BY <1>6, <1>8, <2>1
  <2>3. c <= Search(s, x)
    <3>1. CASE c = 0
      BY <1>4, <3>1
    <3>2. CASE c # 0
      <4>1. c \in DOMAIN s /\ s[c].key \in Int /\ c <= c
        BY <1>4, <3>2
      <4>2. s[c].key < spKey
        BY <1>4, <4>1
      <4>3. s[c].key < x
        BY <1>2, <1>13, <4>1, <4>2
      <4> QED BY <1>4, <4>1, <4>3
    <3> QED BY <3>1, <3>2
  <2>4. t = p
    BY <1>3, <1>4, <2>2, <2>3 DEF t, Truncated, p
  <2>5. CellsWithin(p, b.lower, spKey)
    BY <1>1, <1>5 DEF CellsWithin
  <2>6. MapOf(p) = Part(EntriesOf(b), b.lower, spKey)
    <3>1. \A k \in low : k # x
      BY <1>2 DEF low
    <3> QED BY <1>5, <1>7, <2>1, <3>1
  <2>7. Len(p) <= SparseCap
    BY <1>3, <1>4, <1>5
  <2> QED BY <1>5, <1>12, <2>4, <2>5, <2>6, <2>7 DEF r, pos
<1>14. CASE x < spKey
  <2>1. {k \in KeysIn(s) \cup {x} : k < spKey} = low \cup {x} /\ x \notin low
    BY <1>2, <1>14 DEF low
  <2>2. pos = c + 1 /\ pos - 1 = c
    <3>1. pos = Cardinality(low) + 1
      BY <1>6, <1>8, <2>1, FS_AddElement
    <3> QED BY <1>4, <1>6, <3>1
  <2>3. Search(s, x) <= c
    <3> DEFINE j == Search(s, x)
    <3>1. CASE j = 0
      BY <1>4, <3>1
    <3>2. CASE j # 0
      <4>1. j \in DOMAIN s /\ s[j].key \in Int /\ j <= j
        BY <1>4, <3>2
      <4>2. s[j].key < x
        BY <1>4, <4>1
      <4>3. s[j].key < spKey
        BY <1>2, <1>14, <4>1, <4>2
      <4> QED BY <1>4, <4>1, <4>3
    <3> QED BY <3>1, <3>2
  <2>4. t = InsertAt(p, Search(s, x) + 1, Cells(x, v))
    <3>1. ~(pos <= Search(s, x)) /\ Search(s, x) # -1
      BY <1>4, <2>2, <2>3
    <3> QED BY <1>3, <2>2, <3>1 DEF t, Truncated, p
  <2>5. Search(p, x) = Search(s, x)
    <3>1. DOMAIN p = 1..c /\ \A i \in 1..c : p[i] = s[i]
      BY <1>1, <1>4, <1>5 DEF p
    <3>2. {i \in DOMAIN p : p[i].key < x} = {i \in DOMAIN s : s[i].key < x}
      <4>1. ASSUME NEW i \in DOMAIN s, s[i].key < x PROVE i \in 1..c
        <5>1. s[i].key < spKey
          BY <1>2, <1>4, <1>14, <4>1
        <5> QED BY <1>4, <4>1, <5>1
      <4>2. 1..c \subseteq DOMAIN s
        BY <1>4
      <4> QED BY <3>1, <4>1, <4>2
    <3> QED BY <3>2 DEF Search
  <2>6. x \notin KeysIn(p) /\ KeysIn(p) = low
    <3>1. KeysIn(p) = low
      BY <1>5, MapIs
    <3> QED BY <2>1, <3>1
  <2>7. ~HasKeyAt(p, Search(p, x), x)
    BY <1>2, <1>5, <2>6, SearchIs DEF KeysIn
  <2>8. /\ t \in Seq(Pair) /\ Ascending(t) /\ Len(t) = Len(p) + 1
        /\ Elements(t) = Elements(p) \cup {Cells(x, v)}
        /\ MapOf(t) = WithEntry(MapOf(p), x, v)
    BY <1>2, <1>5, <2>4, <2>5, <2>7, MapInserted
  <2>9. CellsWithin(t, b.lower, spKey)
    BY <1>1, <1>2, <1>3, <1>5, <1>14, <2>8 DEF CellsWithin, Cells
  <2>10. Len(t) <= SparseCap
    <3>1. PICK k \in KeysIn(s) : spKey <= k
      BY <1>2, <1>9, <1>14
    <3>2. PICK i \in DOMAIN s : s[i].key = k
      BY DEF KeysIn
    <3>3. i \in Int /\ ~(s[i].key < spKey)
      BY <1>4, <3>1, <3>2
    <3>4. ~(i <= c)
      BY <1>4, <3>3
    <3> QED BY <1>3, <1>4, <1>5, <2>8, <3>3, <3>4
  <2>11. MapOf(t) = Part(EntriesOf(b), b.lower, spKey)
    <3>1. WithEntry(MapOf(p), x, v) = [k \in low \cup {x} |-> IF k = x THEN v ELSE MapOf(s)[k]]
      <4>1. DOMAIN MapOf(p) = low /\ \A k \in low : MapOf(p)[k] = MapOf(s)[k]
        BY <1>5
      <4> QED BY <1>2, <4>1 DEF WithEntry
    <3> QED BY <1>7, <2>1, <2>8, <3>1
  <2> QED BY <1>12, <2>8, <2>9, <2>10, <2>11 DEF r, pos
<1> QED BY <1>2, <1>13, <1>14

-----------------------------------------------------------------------------
(* Leaves of either format.  An entry is left over exactly when the        *)
(* format cannot hold the keys.                                            *)
LeafGood(b) ==
  /\ b.type \in {"dense", "sparse"}
  /\ b.type = "dense" => DenseGood(b)
  /\ b.type = "sparse" => SparseGood(b)

EntriesFit(m, l, u) ==
  /\ IsFiniteSet(DOMAIN m) /\ m = [k \in DOMAIN m |-> m[k]]
  /\ \A k \in DOMAIN m : k \in Int /\ l <= k /\ k < u /\ m[k] \in Value \ {Default}

LEMMA LeafEntries ==
  ASSUME NEW b, LeafGood(b)
  PROVE  /\ b.lower \in Int /\ b.upper \in Int /\ b.isOverflowed \in BOOLEAN
         /\ EntriesFit(EntriesOf(b), b.lower, b.upper)
         /\ b.isOverflowed <=> ~Fits(b.type, DOMAIN EntriesOf(b))
<1> DEFINE m == EntriesOf(b)
           ks == DOMAIN m
<1>0. DenseCap \in Nat /\ SparseCap \in Nat
  BY CapsAre
<1>1. CASE b.type = "dense"
  <2>1. DenseGood(b) /\ b \in DenseLeaf /\ Segment(b)
    BY <1>1 DEF LeafGood, DenseGood
  <2>2. /\ b.lower \in Int /\ b.upper \in Int /\ b.isOverflowed \in BOOLEAN
        /\ b.headKey \in Int /\ b.tailKey \in Int /\ b.tailKey - b.headKey <= DenseCap
    BY <2>1, DenseIs DEF Segment
  <2>3. /\ ~b.isOverflowed => m = Stored(b) /\ ks = Keys(b)
        /\ b.isOverflowed => m = [k \in Keys(b) \cup {b.overflow.key} |->
                                    IF k = b.overflow.key THEN b.overflow.datum ELSE DatumOf(b, k)]
        /\ IsFiniteSet(ks) /\ b.overflow.key \in Int
        /\ \A k \in ks : k \in Int /\ b.lower <= k /\ k < b.upper /\ m[k] \in Value \ {Default}
    <3>1. b.overflow.key \in Int
      BY <2>1, DenseIs DEF Overflow
    <3> QED BY <2>1, <3>1, DenseEntries
  <2>4. m = [k \in ks |-> m[k]]
    <3>1. Stored(b) = [k \in Keys(b) |-> DatumOf(b, k)]
      BY <2>1, StoredIs
    <3>2. CASE b.isOverflowed
      BY <2>3, <3>2
    <3>3. CASE ~b.isOverflowed
      BY <2>3, <3>1, <3>3
    <3> QED BY <3>2, <3>3
  <2>5. ASSUME ~b.isOverflowed PROVE Fits("dense", ks)
    <3>1. \A k \in ks : b.headKey <= k /\ k < b.tailKey
      BY <2>1, <2>3, <2>5, StoredIs
    <3>2. Span(ks) <= DenseCap
      <4> HIDE DEF ks
      <4> QED BY <1>0, <2>2, <2>3, <3>1, SpanIs
    <3> QED BY <3>2 DEF Fits
  <2>6. ASSUME b.isOverflowed PROVE ~Fits("dense", ks)
    <3>1. \/ /\ DatumOf(b, b.headKey) # Default /\ b.overflow.key + 1 - b.headKey > DenseCap
          \/ /\ DatumOf(b, b.tailKey - 1) # Default /\ b.tailKey - b.overflow.key > DenseCap
      BY <2>1, <2>6 DEF DenseGood, DenseOver
    <3>2. ks = Keys(b) \cup {b.overflow.key}
      BY <2>3, <2>6
    <3> DEFINE x == b.overflow.key
    <3>3. \E i, j \in ks : j + 1 - i > DenseCap
      <4>1. CASE DatumOf(b, b.headKey) # Default /\ x + 1 - b.headKey > DenseCap
        BY <2>2, <3>2, <4>1 DEF Keys
      <4>2. CASE DatumOf(b, b.tailKey - 1) # Default /\ b.tailKey - x > DenseCap
        <5>1. b.tailKey - 1 \in ks /\ (b.tailKey - 1) + 1 - x > DenseCap /\ x \in ks
          BY <2>2, <2>3, <3>2, <4>2 DEF Keys
        <5> QED BY <5>1
      <4> QED BY <3>1, <4>1, <4>2
    <3> HIDE DEF ks
    <3>4. Span(ks) \in Nat /\ \A i, j \in ks : Span(ks) >= j + 1 - i
      BY <1>0, <2>2, <2>3, SpanIs
    <3>5. ~(Span(ks) <= DenseCap)
      <4>1. PICK i \in ks, j \in ks : j + 1 - i > DenseCap
        BY <3>3
      <4>2. i \in Int /\ j \in Int /\ Span(ks) >= j + 1 - i
        BY <2>3, <3>4
      <4> QED BY <1>0, <3>4, <4>1, <4>2
    <3> QED BY <3>5 DEF Fits
  <2> QED BY <1>1, <2>2, <2>3, <2>4, <2>5, <2>6 DEF EntriesFit
<1>2. CASE b.type = "sparse"
  <2>1. SparseGood(b) /\ b \in SparseLeaf /\ Len(b.cells) <= SparseCap
          /\ b.cells \in Seq(Pair) /\ Len(b.cells) \in Nat /\ b.isOverflowed \in BOOLEAN
    <3>1. SparseGood(b) /\ b \in SparseLeaf /\ Len(b.cells) <= SparseCap
      BY <1>2 DEF LeafGood, SparseGood
    <3>2. b.cells \in Seq(Pair) /\ b.isOverflowed \in BOOLEAN
      BY <3>1, SparseIs
    <3> QED BY <3>1, <3>2, KeysAre
  <2>2. /\ b.lower \in Int /\ b.upper \in Int
        /\ ~b.isOverflowed => m = MapOf(b.cells) /\ ks = KeysIn(b.cells)
        /\ b.isOverflowed =>
              /\ b.overflow.key \notin KeysIn(b.cells)
              /\ m = [k \in KeysIn(b.cells) \cup {b.overflow.key} |->
                        IF k = b.overflow.key THEN b.overflow.datum ELSE MapOf(b.cells)[k]]
        /\ IsFiniteSet(KeysIn(b.cells)) /\ Cardinality(KeysIn(b.cells)) = Len(b.cells)
        /\ IsFiniteSet(ks)
        /\ \A k \in ks : k \in Int /\ b.lower <= k /\ k < b.upper /\ m[k] \in Value \ {Default}
    BY <2>1, SparseEntries
  <2>3. m = [k \in ks |-> m[k]]
    <3>1. CASE b.isOverflowed
      BY <2>2, <3>1
    <3>2. CASE ~b.isOverflowed
      BY <2>2, <3>2 DEF MapOf
    <3> QED BY <3>1, <3>2
  <2>4. ASSUME ~b.isOverflowed PROVE Fits("sparse", ks)
    BY <2>1, <2>2, <2>4 DEF Fits
  <2>5. ASSUME b.isOverflowed PROVE ~Fits("sparse", ks)
    <3>1. Len(b.cells) = SparseCap
      BY <2>1, <2>5 DEF SparseGood, SparseOver
    <3>2. ks = KeysIn(b.cells) \cup {b.overflow.key}
      BY <2>2, <2>5
    <3>3. Cardinality(ks) = SparseCap + 1
      <4> HIDE DEF ks
      <4> QED BY <2>2, <2>5, <3>1, <3>2, FS_AddElement
    <3> QED BY <1>0, <3>3 DEF Fits
  <2> QED BY <1>2, <2>1, <2>2, <2>3, <2>4, <2>5 DEF EntriesFit
<1> QED BY <1>1, <1>2 DEF LeafGood

(* put of a leaf. *)
LEMMA LeafPutIs ==
  ASSUME NEW b, LeafGood(b), ~b.isOverflowed, NEW key \in Int, b.lower <= key, key < b.upper,
         NEW datum \in Value
  PROVE  LET r == LeafPut(b, key, datum)
         IN  /\ LeafGood(r) /\ r.type = b.type /\ r.lower = b.lower /\ r.upper = b.upper
             /\ EntriesOf(r) = WithEntry(EntriesOf(b), key, datum)
<1> DEFINE r == LeafPut(b, key, datum)
<1>1. CASE b.type = "dense"
  <2>1. DenseGood(b) /\ r = Put(b, key, datum)
    BY <1>1 DEF LeafGood, LeafPut
  <2>2. /\ DenseGood(r) /\ r.lower = b.lower /\ r.upper = b.upper
        /\ EntriesOf(r) = WithEntry(EntriesOf(b), key, datum)
    BY <2>1, DensePutEntries
  <2> HIDE DEF r
  <2>3. r.type = "dense"
    BY <2>2, DenseEntries
  <2> QED BY <1>1, <2>2, <2>3 DEF LeafGood, r
<1>2. CASE b.type = "sparse"
  <2>1. SparseGood(b) /\ r = SparsePut(b, key, datum)
    BY <1>2 DEF LeafGood, LeafPut
  <2>2. /\ SparseGood(r) /\ r.lower = b.lower /\ r.upper = b.upper
        /\ EntriesOf(r) = WithEntry(EntriesOf(b), key, datum)
    BY <2>1, SparsePutIs
  <2> HIDE DEF r
  <2>3. r.type = "sparse"
    BY <2>2, SparseEntries
  <2> QED BY <1>2, <2>2, <2>3 DEF LeafGood, r
<1> QED BY <1>1, <1>2 DEF LeafGood

(* The left half in the leaf's own block. *)
LEMMA LeafTruncatedIs ==
  ASSUME NEW b, LeafGood(b), b.isOverflowed, NEW spKey \in Int,
         \E k \in DOMAIN EntriesOf(b) : k < spKey, \E k \in DOMAIN EntriesOf(b) : spKey <= k
  PROVE  LET r == LeafTruncated(b, Cardinality({k \in DOMAIN EntriesOf(b) : k < spKey}), spKey)
         IN  /\ LeafGood(r) /\ r.type = b.type /\ r.lower = b.lower /\ r.upper = spKey
             /\ EntriesOf(r) = Part(EntriesOf(b), b.lower, spKey)
<1> DEFINE pos == Cardinality({k \in DOMAIN EntriesOf(b) : k < spKey})
           r == LeafTruncated(b, pos, spKey)
<1>1. CASE b.type = "dense"
  <2>1. DenseGood(b) /\ r = Truncate(b, pos, spKey)
    BY <1>1 DEF LeafGood, LeafTruncated
  <2>2. /\ DenseGood(r) /\ r.lower = b.lower /\ r.upper = spKey
        /\ EntriesOf(r) = Part(EntriesOf(b), b.lower, spKey)
    BY <2>1, DenseTruncateIs
  <2> HIDE DEF r
  <2>3. r.type = "dense"
    BY <2>2, DenseEntries
  <2> QED BY <1>1, <2>2, <2>3 DEF LeafGood, r
<1>2. CASE b.type = "sparse"
  <2>1. SparseGood(b)
    BY <1>2 DEF LeafGood
  <2>2. /\ SparseGood(r) /\ r.lower = b.lower /\ r.upper = spKey
        /\ EntriesOf(r) = Part(EntriesOf(b), b.lower, spKey)
    BY <2>1, SparseTruncateIs
  <2> HIDE DEF r
  <2>3. r.type = "sparse"
    BY <2>2, SparseEntries
  <2> QED BY <1>2, <2>2, <2>3 DEF LeafGood, r
<1> QED BY <1>1, <1>2 DEF LeafGood

(* A new block is empty. *)
LEMMA CreateIs ==
  ASSUME NEW type \in {"sparse", "dense"}, NEW l \in Int, NEW u \in Int, l <= u
  PROVE  LET r == Create(type, l, u)
         IN  /\ LeafGood(r) /\ r.type = type /\ r.lower = l /\ r.upper = u /\ ~r.isOverflowed
             /\ EntriesOf(r) = NoEntries /\ DOMAIN EntriesOf(r) = {}
<1> DEFINE r == Create(type, l, u)
<1>1. NoOverflow \in Overflow /\ Default \in Value /\ DenseCap \in Int /\ DenseCap > 1
      /\ SparseCap \in Nat
  BY CapsAre DEF NoOverflow, Overflow
<1>2. CASE type = "dense"
  <2>1. r = [type |-> "dense", lower |-> l, upper |-> u,
             nEntries |-> 0, headIndex |-> 0, tailIndex |-> 0, headKey |-> l,
             data |-> [i \in 0..DenseCap-1 |-> Default],
             tailKey |-> l, isOverflowed |-> FALSE, overflow |-> NoOverflow]
    BY <1>2 DEF Create, DenseCreated
  <2> HIDE DEF r
  <2>2. /\ r \in DenseLeaf /\ r.type = "dense" /\ r.lower = l /\ r.upper = u /\ r.nEntries = 0
        /\ r.headKey = l /\ r.tailKey = l /\ ~r.isOverflowed /\ r.headIndex = 0 /\ r.tailIndex = 0
    BY <1>1, <2>1 DEF DenseLeaf
  <2>3. Segment(r)
    <3>1. Wrapped(0 + (l - l)) = 0
      BY <1>1 DEF Wrapped
    <3> QED BY <1>1, <2>2, <3>1 DEF Segment
  <2>4. Keys(r) = {}
    BY <2>2 DEF Keys, DatumOf, Holds
  <2>5. DenseGood(r)
    <3>1. Cardinality(Keys(r)) = 0
      BY <2>4, FS_EmptySet
    <3> QED BY <2>2, <2>3, <3>1 DEF DenseGood
  <2>6. EntriesOf(r) = NoEntries /\ DOMAIN EntriesOf(r) = {}
    <3>1. EntriesOf(r) = Stored(r) /\ Stored(r) = [k \in Keys(r) |-> DatumOf(r, k)]
      BY <2>2, <2>5, StoredIs, DenseEntries
    <3> QED BY <2>4, <3>1 DEF NoEntries
  <2> QED BY <1>2, <2>2, <2>5, <2>6 DEF LeafGood, r
<1>3. CASE type = "sparse"
  <2>1. r = [type |-> "sparse", lower |-> l, upper |-> u, cells |-> <<>>,
             isOverflowed |-> FALSE, overflow |-> NoOverflow]
    BY <1>3 DEF Create, SparseCreated
  <2>0. <<>> \in Seq(Pair) /\ Len(<<>>) = 0 /\ DOMAIN <<>> = {}
    OBVIOUS
  <2> HIDE DEF r
  <2>2. /\ r \in SparseLeaf /\ r.type = "sparse" /\ r.lower = l /\ r.upper = u
        /\ r.cells = <<>> /\ ~r.isOverflowed
    BY <1>1, <2>0, <2>1 DEF SparseLeaf
  <2>3. SparseGood(r)
    BY <1>1, <2>0, <2>2 DEF SparseGood, Ascending, CellsWithin, Elements
  <2>4. EntriesOf(r) = NoEntries /\ DOMAIN EntriesOf(r) = {}
    <3>1. EntriesOf(r) = MapOf(r.cells)
      BY <2>2, <2>3, SparseEntries
    <3>2. KeysIn(r.cells) = {}
      BY <2>0, <2>2 DEF KeysIn
    <3> QED BY <3>1, <3>2 DEF MapOf, NoEntries
  <2> QED BY <1>3, <2>2, <2>3, <2>4 DEF LeafGood, r
<1> QED BY <1>2, <1>3

(* Reading the page again finds the same entries. *)
LEMMA LoadedIs ==
  ASSUME NEW b, DenseGood(b), ~b.isOverflowed
  PROVE  LET r == Loaded(b)
         IN  /\ DenseGood(r) /\ r.lower = b.lower /\ r.upper = b.upper /\ ~r.isOverflowed
             /\ EntriesOf(r) = EntriesOf(b)
             /\ b.nEntries > 0 => r.tailKey = b.tailKey
<1> DEFINE r == Loaded(b)
           diff == Wrapped(b.tailIndex - b.headIndex)
           len == b.tailKey - b.headKey
           far == IF diff = 0 /\ b.nEntries > 0 THEN DenseCap ELSE diff
<1>1. /\ b \in DenseLeaf /\ Segment(b) /\ b.nEntries = Cardinality(Keys(b)) /\ b.nEntries \in Nat
      /\ b.headKey \in Int /\ b.tailKey \in Int /\ b.lower \in Int /\ b.upper \in Int
      /\ b.headIndex \in Int /\ 0 <= b.headIndex /\ b.headIndex < DenseCap
      /\ DenseCap \in Int /\ DenseCap > 1
      /\ b.nEntries = 0 <=> Keys(b) = {}
  BY CapsAre, DenseIs, NoKeys DEF DenseGood
<1>2. /\ len \in Int /\ 0 <= len /\ len <= DenseCap /\ b.tailIndex = Wrapped(b.headIndex + len)
      /\ len = b.tailKey - b.headKey
      /\ b.lower <= b.headKey /\ b.tailKey <= b.upper
  BY <1>1 DEF Segment
<1>3. b.nEntries > 0 => len > 0
  <2>1. ASSUME b.nEntries > 0 PROVE len > 0
    <3>1. PICK k \in Keys(b) : TRUE
      BY <1>1, <2>1
    <3>2. k \in Int /\ b.headKey <= k /\ k < b.tailKey
      BY <1>1, StoredIs
    <3> QED BY <1>1, <3>2
  <2> QED BY <2>1
<1>4. r = [b EXCEPT !.tailKey = b.headKey + far, !.isOverflowed = FALSE, !.overflow = NoOverflow]
  BY DEF Loaded
<1> HIDE DEF r, len
<1>5. diff = IF len = DenseCap THEN 0 ELSE len
  BY <1>1, <1>2 DEF Wrapped
<1> HIDE DEF diff
<1>6. /\ far \in Int /\ 0 <= far /\ far <= len /\ (b.nEntries > 0 => far = len)
      /\ Wrapped(b.headIndex + far) = Wrapped(b.headIndex + len)
  <2>1. CASE len = DenseCap /\ ~(b.nEntries > 0)
    <3>1. far = 0
      BY <1>5, <2>1
    <3> QED BY <1>1, <1>2, <2>1, <3>1 DEF Wrapped
  <2>2. CASE ~(len = DenseCap /\ ~(b.nEntries > 0))
    <3>1. far = len
      BY <1>1, <1>2, <1>3, <1>5, <2>2
    <3> QED BY <1>2, <3>1
  <2> QED BY <2>1, <2>2
<1> HIDE DEF far
<1>7. NoOverflow \in Overflow
  BY CapsAre DEF NoOverflow, Overflow
<1>8. b.headKey + far \in Int
  BY <1>1, <1>6
<1>9. /\ r \in DenseLeaf /\ r.headKey = b.headKey /\ r.tailKey = b.headKey + far
      /\ r.headIndex = b.headIndex /\ r.tailIndex = b.tailIndex /\ r.data = b.data
      /\ r.lower = b.lower /\ r.upper = b.upper /\ r.nEntries = b.nEntries /\ ~r.isOverflowed
  BY <1>1, <1>4, <1>7, <1>8 DEF DenseLeaf
<1>10. r.tailKey <= b.tailKey /\ r.tailKey \in Int /\ r.headKey <= r.tailKey
      /\ r.tailKey - r.headKey = far
       /\ (b.nEntries > 0 => r.tailKey = b.tailKey)
  BY <1>1, <1>2, <1>6, <1>9
<1>11. Segment(r)
  <2>1. r.tailIndex = Wrapped(r.headIndex + (r.tailKey - r.headKey))
    BY <1>2, <1>6, <1>9, <1>10
  <2>2. r.lower <= r.headKey /\ r.tailKey <= r.upper /\ r.tailKey - r.headKey <= DenseCap
    BY <1>1, <1>2, <1>6, <1>9, <1>10
  <2> QED BY <1>10, <2>1, <2>2 DEF Segment
<1>12. ASSUME NEW k \in Int PROVE DatumOf(r, k) = DatumOf(b, k)
  <2>1. CASE b.nEntries > 0
    BY <1>9, <1>10, <2>1 DEF DatumOf, Holds, Cell
  <2>2. CASE ~(b.nEntries > 0)
    <3>1. Keys(b) = {}
      BY <1>1, <2>2
    <3>2. DatumOf(b, k) = Default
      BY <3>1 DEF Keys
    <3>3. Holds(r, k) => Holds(b, k)
      BY <1>1, <1>9, <1>10 DEF Holds
    <3>4. Holds(r, k) => DatumOf(r, k) = DatumOf(b, k)
      BY <1>9, <3>3 DEF DatumOf, Cell
    <3>5. ~Holds(r, k) => DatumOf(r, k) = Default
      BY DEF DatumOf
    <3> QED BY <3>2, <3>4, <3>5
  <2> QED BY <2>1, <2>2
<1>13. Keys(r) = Keys(b)
  BY <1>12 DEF Keys
<1>14. DenseGood(r)
  BY <1>1, <1>9, <1>11, <1>13 DEF DenseGood
<1>15. EntriesOf(r) = EntriesOf(b)
  <2>1. EntriesOf(r) = Stored(r) /\ EntriesOf(b) = Stored(b)
    BY <1>9, <1>14, DenseEntries
  <2>2. Stored(r) = [k \in Keys(r) |-> DatumOf(r, k)] /\ Stored(b) = [k \in Keys(b) |-> DatumOf(b, k)]
    BY <1>1, <1>9, StoredIs
  <2>3. \A k \in Keys(b) : k \in Int
    BY DEF Keys
  <2> QED BY <1>12, <1>13, <2>1, <2>2, <2>3
<1> QED BY <1>9, <1>10, <1>14, <1>15 DEF r

-----------------------------------------------------------------------------
(* putRangeSorted, entry by entry. *)
PutNext(b, m, k) == IF b.isOverflowed THEN b ELSE LeafPut(b, k, m[k])

FillTo(b, m, N) ==
  CHOOSE fill : fill = [i \in 0..N |->
    IF i = 0 THEN b ELSE PutNext(fill[i-1], m, KeyAt(DOMAIN m, i-1))]

(* The recursive function of Fills is defined. *)
LEMMA FillExists ==
  ASSUME NEW b, NEW m, NEW N \in Nat
  PROVE  /\ FillTo(b, m, N)[0] = b
         /\ \A i \in 1..N : FillTo(b, m, N)[i] =
                              PutNext(FillTo(b, m, N)[i-1], m, KeyAt(DOMAIN m, i-1))
<1> DEFINE Step(c, i) == PutNext(c, m, KeyAt(DOMAIN m, i-1))
           IsFill(h, n) == h = [i \in 0..n |-> IF i = 0 THEN b ELSE Step(h[i-1], i)]
           S == {n \in 0..N : \E h : IsFill(h, n)}
<1>1. 0 \in S
  <2> DEFINE h == [i \in 0..0 |-> b]
  <2>1. IsFill(h, 0)
    OBVIOUS
  <2> HIDE DEF IsFill
  <2> QED BY <2>1
<1>2. ASSUME NEW n \in 0+1..N, n-1 \in S PROVE n \in S
  <2>1. PICK h : IsFill(h, n-1)
    BY <1>2
  <2> HIDE DEF Step
  <2> DEFINE g == [i \in 0..n |-> IF i = n THEN Step(h[n-1], n) ELSE h[i]]
  <2>2. \A i \in 0..n-1 : h[i] = IF i = 0 THEN b ELSE Step(h[i-1], i)
    BY <2>1
  <2>3. ASSUME NEW i \in 0..n PROVE g[i] = IF i = 0 THEN b ELSE Step(g[i-1], i)
    <3>1. CASE i = n
      <4>1. i # 0 /\ i-1 \in 0..n /\ i-1 # n
        BY <3>1
      <4>2. g[i-1] = h[i-1] /\ g[i] = Step(h[n-1], n)
        BY <3>1, <4>1
      <4> HIDE DEF g
      <4> QED BY <3>1, <4>1, <4>2
    <3>2. CASE i # n
      <4>1. i \in 0..n-1 /\ g[i] = h[i]
        BY <3>2
      <4>2. i # 0 => i-1 \in 0..n /\ i-1 # n
        BY <3>2
      <4>3. i # 0 => g[i-1] = h[i-1]
        BY <4>2
      <4> HIDE DEF g
      <4> QED BY <2>2, <4>1, <4>3
    <3> QED BY <3>1, <3>2
  <2>4. g = [i \in 0..n |-> g[i]]
    OBVIOUS
  <2>5. IsFill(g, n)
    <3> HIDE DEF g
    <3> QED BY <2>3, <2>4
  <2> HIDE DEF IsFill
  <2> QED BY <2>5
<1>3. N \in S
  <2>1. \A n \in 0..N : n \in S
    <3> HIDE DEF S
    <3> QED BY <1>1, <1>2, UpTo
  <2> QED BY <2>1
<1> DEFINE fill == FillTo(b, m, N)
<1>4. IsFill(fill, N)
  <2>1. PICK h : IsFill(h, N)
    BY <1>3
  <2> QED BY <2>1 DEF FillTo
<1> HIDE DEF fill, Step
<1>5. \A i \in 0..N : fill[i] = IF i = 0 THEN b ELSE Step(fill[i-1], i)
  BY <1>4
<1>6. fill[0] = b /\ \A i \in 1..N : fill[i] = Step(fill[i-1], i)
  BY <1>5
<1> QED BY <1>6 DEF fill, Step

(* Entries that fit a new block are its entries once it is filled. *)
LEMMA FilledIs ==
  ASSUME NEW b, LeafGood(b), ~b.isOverflowed, EntriesOf(b) = NoEntries, NEW m,
         EntriesFit(m, b.lower, b.upper), Fits(b.type, DOMAIN m)
  PROVE  LET r == Filled(b, m)
         IN  /\ LeafGood(r) /\ r.type = b.type /\ r.lower = b.lower /\ r.upper = b.upper
             /\ ~r.isOverflowed /\ EntriesOf(r) = m
<1> DEFINE ks == DOMAIN m
           N == Cardinality(ks)
           fill == FillTo(b, m, N)
           First(i) == [k \in FirstKeys(ks, i) |-> m[k]]
           Good(i) == /\ LeafGood(fill[i]) /\ fill[i].type = b.type
                      /\ fill[i].lower = b.lower /\ fill[i].upper = b.upper
                      /\ ~fill[i].isOverflowed /\ EntriesOf(fill[i]) = First(i)
           S == {i \in 0..N : Good(i)}
<1>1. b.lower \in Int /\ b.upper \in Int
  BY LeafEntries
<1>2. /\ IsFiniteSet(ks) /\ N \in Nat /\ m = [k \in ks |-> m[k]]
      /\ \A k \in ks : k \in Int /\ b.lower <= k /\ k < b.upper /\ m[k] \in Value \ {Default}
  BY FS_CardinalityType DEF EntriesFit
<1>3. Ordered(ks, b.lower)
  BY <1>2 DEF Ordered
<1>4. Filled(b, m) = fill[N]
  BY DEF Filled, Fills, FillTo, PutNext
<1> HIDE DEF ks, N
<1>5. /\ fill[0] = b
      /\ \A i \in 1..N : fill[i] = PutNext(fill[i-1], m, KeyAt(ks, i-1))
  BY <1>2, FillExists DEF ks
<1> HIDE DEF fill
<1>6. FirstKeys(ks, N) = ks /\ FirstKeys(ks, 0) = {}
  <2>1. FirstKeys(ks, N) = ks
    BY DEF FirstKeys, N
  <2>2. CASE N = 0
    <3>1. ks = {}
      BY <1>2, <2>2, FS_EmptySet DEF N
    <3> QED BY <2>1, <2>2, <3>1
  <2>3. CASE N # 0
    <3>1. 0 \in Int /\ 0 <= 0 /\ 0 < Cardinality(ks)
      BY <1>2, <2>3 DEF N
    <3> QED BY <1>1, <1>3, <2>1, <3>1, FirstKeysAre
  <2> QED BY <2>2, <2>3
<1>7. Good(0)
  <2>1. First(0) = NoEntries
    BY <1>6 DEF NoEntries
  <2> HIDE DEF First
  <2> QED BY <1>5, <2>1
<1>8. ASSUME NEW i \in 0+1..N, Good(i-1) PROVE Good(i)
  <2> DEFINE c == fill[i-1]
             k == KeyAt(ks, i-1)
             r == LeafPut(c, k, m[k])
  <2>1. i - 1 \in Int /\ 0 <= i-1 /\ i-1 < Cardinality(ks) /\ i \in 1..N /\ (i-1)+1 = i
    BY <1>2 DEF N
  <2>2. /\ k \in ks \ FirstKeys(ks, i-1) /\ k \in Int
        /\ FirstKeys(ks, (i-1)+1) = FirstKeys(ks, i-1) \cup {k}
        /\ \A j \in FirstKeys(ks, i-1) : j \in ks
    BY <1>1, <1>3, <2>1, FirstKeysAre
  <2>3. fill[i] = r
    <3>1. fill[i] = PutNext(c, m, k) /\ ~c.isOverflowed
      BY <1>5, <1>8, <2>1
    <3> HIDE DEF c, k
    <3> QED BY <3>1 DEF PutNext
  <2>4. /\ LeafGood(c) /\ ~c.isOverflowed /\ c.lower = b.lower /\ c.upper = b.upper /\ c.type = b.type
        /\ EntriesOf(c) = First(i-1)
    BY <1>8
  <2> HIDE DEF c, k
  <2>5. /\ k \in Int /\ c.lower <= k /\ k < c.upper /\ m[k] \in Value /\ m[k] # Default
    BY <1>2, <2>2, <2>4
  <2>6. /\ LeafGood(r) /\ r.type = c.type /\ r.lower = c.lower /\ r.upper = c.upper
        /\ EntriesOf(r) = WithEntry(EntriesOf(c), k, m[k])
    BY <2>4, <2>5, LeafPutIs
  <2> HIDE DEF r
  <2>7. EntriesOf(r) = First(i) /\ DOMAIN EntriesOf(r) \in SUBSET ks
    <3>1. FirstKeys(ks, i) = FirstKeys(ks, i-1) \cup {k}
      BY <2>1, <2>2
    <3>2. EntriesOf(r) = [x \in FirstKeys(ks, i-1) \cup {k} |->
                            IF x = k THEN m[k] ELSE First(i-1)[x]]
      BY <2>4, <2>5, <2>6 DEF WithEntry
    <3>3. EntriesOf(r) = First(i)
      BY <2>2, <3>1, <3>2
    <3> QED BY <2>2, <3>1, <3>2
  <2>8. ~r.isOverflowed
    <3>1. Fits(b.type, ks)
      BY DEF ks
    <3>2. Fits(r.type, DOMAIN EntriesOf(r))
      BY <1>1, <1>3, <2>4, <2>6, <2>7, <3>1, FitsFewer
    <3> QED BY <2>6, <3>2, LeafEntries
  <2> HIDE DEF First
  <2> QED BY <2>3, <2>4, <2>6, <2>7, <2>8
<1>9. Good(N)
  <2> HIDE DEF Good
  <2>1. 0 \in S /\ 0 \in Int /\ N \in Int
    BY <1>2, <1>7
  <2>2. ASSUME NEW i \in 0+1..N, i-1 \in S PROVE i \in S
    <3>1. i \in 0..N
      BY <1>2
    <3> QED BY <1>8, <2>2, <3>1
  <2> HIDE DEF S
  <2>3. \A i \in 0..N : i \in S
    BY <2>1, <2>2, UpTo
  <2> QED BY <1>2, <2>3 DEF S
<1>10. First(N) = m
  BY <1>2, <1>6
<1> HIDE DEF First
<1> QED BY <1>4, <1>9, <1>10

(* The leaf in the other format. *)
LEMMA SwitchFormatIs ==
  ASSUME NEW b, LeafGood(b), b.lower <= b.upper, Fits(Other(b.type), DOMAIN EntriesOf(b))
  PROVE  LET r == SwitchFormat(b)
         IN  /\ LeafGood(r) /\ r.type = Other(b.type) /\ r.lower = b.lower /\ r.upper = b.upper
             /\ ~r.isOverflowed /\ EntriesOf(r) = EntriesOf(b)
<1> DEFINE new == Create(Other(b.type), b.lower, b.upper)
<1>1. /\ b.lower \in Int /\ b.upper \in Int /\ Other(b.type) \in {"sparse", "dense"}
      /\ EntriesFit(EntriesOf(b), b.lower, b.upper)
  BY LeafEntries DEF Other
<1>2. /\ LeafGood(new) /\ new.type = Other(b.type) /\ new.lower = b.lower /\ new.upper = b.upper
      /\ ~new.isOverflowed /\ EntriesOf(new) = NoEntries
  BY <1>1, CreateIs
<1> HIDE DEF new
<1>3. SwitchFormat(b) = Filled(new, EntriesOf(b))
  BY DEF SwitchFormat, new
<1>4. EntriesFit(EntriesOf(b), new.lower, new.upper) /\ Fits(new.type, DOMAIN EntriesOf(b))
  BY <1>1, <1>2
<1> DEFINE m == EntriesOf(b)
<1> HIDE DEF m
<1>5. LET r == Filled(new, m)
      IN  /\ LeafGood(r) /\ r.type = new.type /\ r.lower = new.lower /\ r.upper = new.upper
          /\ ~r.isOverflowed /\ EntriesOf(r) = m
  <2>1. EntriesFit(m, new.lower, new.upper) /\ Fits(new.type, DOMAIN m)
    BY <1>4 DEF m
  <2> QED BY <1>2, <2>1, FilledIs
<1> QED BY <1>2, <1>3, <1>5 DEF m
(* put answers what the format and the keys say. *)
LEMMA AnswerIs ==
  ASSUME NEW b, LeafGood(b)
  PROVE  AnswerOf(b) = PutAnswer(b.type, DOMAIN EntriesOf(b))
<1> DEFINE ks == DOMAIN EntriesOf(b)
<1>1. b.isOverflowed \in BOOLEAN /\ (b.isOverflowed <=> ~Fits(b.type, ks))
  BY LeafEntries
<1>2. ASSUME b.isOverflowed PROVE CanSwitchFormat(b) <=> Fits(Other(b.type), ks)
  <2>1. CASE b.type = "sparse"
    BY <2>1 DEF CanSwitchFormat, Fits, Other
  <2>2. CASE b.type = "dense"
    <3>1. DenseGood(b)
      BY <2>2 DEF LeafGood
    <3>2. /\ b.overflow.key \notin Keys(b) /\ IsFiniteSet(Keys(b))
          /\ ks = Keys(b) \cup {b.overflow.key}
      BY <1>2, <3>1, DenseEntries
    <3>3. Cardinality(ks) = b.nEntries + 1
      <4>1. Cardinality(Keys(b) \cup {b.overflow.key}) = Cardinality(Keys(b)) + 1
        BY <3>2, FS_AddElement
      <4> QED BY <3>1, <3>2, <4>1 DEF DenseGood
    <3> QED BY <2>2, <3>3 DEF CanSwitchFormat, SwitchesFormat, Fits, Other
  <2> QED BY <2>1, <2>2 DEF LeafGood
<1> HIDE DEF ks
<1>3. AnswerOf(b) = PutAnswer(b.type, ks)
  BY <1>1, <1>2 DEF AnswerOf, PutAnswer
<1> QED BY <1>3 DEF ks

(* A leaf that has to be split holds one entry too many. *)
LEMMA OverfullLeaf ==
  ASSUME NEW b, LeafGood(b), ~b.isOverflowed, 0 <= b.lower,
         NEW key \in Int, b.lower <= key, key < b.upper, NEW datum \in Value,
         NEW dense \in BOOLEAN, ~dense => b.type = "sparse",
         AnswerOf(LeafPut(b, key, datum)) # "kOK",
         ~(AnswerOf(LeafPut(b, key, datum)) = "kSwitchFormat" /\ dense)
  PROVE  LET r == LeafPut(b, key, datum)
         IN  Overfull(r, DOMAIN EntriesOf(r), dense) /\ r.isOverflowed
<1> DEFINE r == LeafPut(b, key, datum)
           old == DOMAIN EntriesOf(b)
           ks == DOMAIN EntriesOf(r)
<1>1. /\ LeafGood(r) /\ r.type = b.type /\ r.lower = b.lower /\ r.upper = b.upper
      /\ EntriesOf(r) = WithEntry(EntriesOf(b), key, datum)
  BY LeafPutIs
<1>2. AnswerOf(r) # "kOK" /\ ~(AnswerOf(r) = "kSwitchFormat" /\ dense)
  OBVIOUS
<1> HIDE DEF r
<1>3. /\ b.type \in {"sparse", "dense"} /\ b.lower \in Int /\ b.upper \in Int
      /\ Fits(b.type, old) /\ IsFiniteSet(old)
      /\ \A k \in old : k \in Int /\ b.lower <= k
  BY LeafEntries DEF LeafGood, EntriesFit
<1>4. /\ IsFiniteSet(ks) /\ \A k \in ks : k \in Int /\ b.lower <= k /\ k < b.upper
  <2>1. EntriesFit(EntriesOf(r), r.lower, r.upper)
    BY <1>1, LeafEntries
  <2> QED BY <1>1, <2>1 DEF EntriesFit
<1>5. ~Fits(b.type, ks) /\ r.isOverflowed /\ ~(Fits(Other(b.type), ks) /\ dense)
  <2>1. AnswerOf(r) = PutAnswer(b.type, ks)
    BY <1>1, AnswerIs
  <2>2. ~Fits(b.type, ks) /\ ~(Fits(Other(b.type), ks) /\ dense)
    <3> HIDE DEF ks
    <3> QED BY <1>2, <2>1 DEF PutAnswer
  <2>3. r.isOverflowed <=> ~Fits(b.type, ks)
    BY <1>1, LeafEntries
  <2> QED BY <2>2, <2>3
<1>6. ks = old \cup {key}
  <2>1. CASE datum = Default
    <3>1. ks \in SUBSET old
      BY <1>1, <2>1 DEF WithEntry
    <3> HIDE DEF ks, old
    <3>2. Ordered(old, b.lower)
      BY <1>3 DEF Ordered
    <3>3. Fits(b.type, ks)
      BY <1>3, <3>1, <3>2, FitsFewer
    <3> QED BY <1>5, <3>3
  <2>2. CASE datum # Default
    BY <1>1, <2>2 DEF WithEntry
  <2> QED BY <2>1, <2>2
<1> HIDE DEF ks, old
<1>7. key \in ks /\ Fits(b.type, ks \ {key})
  <2>1. ks \ {key} \in SUBSET old /\ Ordered(old, b.lower)
    BY <1>3, <1>6 DEF Ordered
  <2> QED BY <1>3, <1>6, <2>1, FitsFewer
<1>8. Overfull(r, ks, dense)
  <2>1. KeysWithin(ks, b.lower, b.upper)
    BY <1>4 DEF KeysWithin
  <2> QED BY <1>1, <1>3, <1>5, <1>7, <2>1 DEF Overfull
<1> QED BY <1>5, <1>8 DEF r, ks

(* The entries of either half. *)
LEMMA PartIs ==
  ASSUME NEW m, NEW l \in Int, NEW u \in Int, EntriesFit(m, l, u), NEW s \in Int
  PROVE  /\ DOMAIN Part(m, l, s) = Low(DOMAIN m, s) /\ EntriesFit(Part(m, l, s), l, s)
         /\ DOMAIN Part(m, s, u) = High(DOMAIN m, s) /\ EntriesFit(Part(m, s, u), s, u)
<1> DEFINE ks == DOMAIN m
<1>1. /\ IsFiniteSet(ks)
      /\ \A k \in ks : k \in Int /\ l <= k /\ k < u /\ m[k] \in Value \ {Default}
  BY DEF EntriesFit
<1> HIDE DEF ks
<1>2. /\ {k \in ks : l <= k /\ k < s} = Low(ks, s)
      /\ {k \in ks : s <= k /\ k < u} = High(ks, s)
  BY <1>1 DEF Low, High
<1>3. Part(m, l, s) = [k \in Low(ks, s) |-> m[k]] /\ Part(m, s, u) = [k \in High(ks, s) |-> m[k]]
  BY <1>2 DEF Part, ks
<1>4. IsFiniteSet(Low(ks, s)) /\ IsFiniteSet(High(ks, s))
  <2>1. Low(ks, s) \in SUBSET ks /\ High(ks, s) \in SUBSET ks
    BY DEF Low, High
  <2> QED BY <1>1, <2>1, FS_Subset
<1>5. EntriesFit(Part(m, l, s), l, s)
  BY <1>1, <1>3, <1>4 DEF EntriesFit, Low
<1>6. EntriesFit(Part(m, s, u), s, u)
  BY <1>1, <1>3, <1>4 DEF EntriesFit, High
<1> QED BY <1>3, <1>5, <1>6 DEF ks

(* The blocks of the two halves. *)
LeftBlock(b, s) == LeafTruncated(b, Cardinality({k \in DOMAIN EntriesOf(b) : k < s}), s)

(* Each half is a good block with the entries within its bounds. *)
LEMMA HalvesAre ==
  ASSUME NEW b, LeafGood(b), b.isOverflowed, NEW dense \in BOOLEAN, NEW s,
         SplitSound(b, DOMAIN EntriesOf(b), s, dense)
  PROVE  LET m == EntriesOf(b)
             types == SplitTypes(b, DOMAIN m, s, dense)
             h == Halves(b, s, types)
         IN  /\ s \in Int /\ b.lower <= s /\ s <= b.upper
             /\ \A i \in 1..2 : LeafGood(h[i]) /\ ~h[i].isOverflowed /\ h[i].type = types[i]
             /\ h[1].lower = b.lower /\ h[1].upper = s /\ EntriesOf(h[1]) = Part(m, b.lower, s)
             /\ h[2].lower = s /\ h[2].upper = b.upper /\ EntriesOf(h[2]) = Part(m, s, b.upper)
<1> DEFINE m == EntriesOf(b)
           ks == DOMAIN m
           types == SplitTypes(b, ks, s, dense)
           t1 == types[1]
           t2 == types[2]
           left == LeftBlock(b, s)
           new == Create(t2, s, b.upper)
           h1 == IF t1 = b.type THEN left ELSE SwitchFormat(left)
           h2 == Filled(new, Part(m, s, b.upper))
<1>1. /\ b.lower \in Int /\ b.upper \in Int /\ EntriesFit(m, b.lower, b.upper)
      /\ b.type \in {"sparse", "dense"}
  BY LeafEntries DEF LeafGood
<1>2. /\ s \in Int /\ Low(ks, s) # {} /\ High(ks, s) # {}
      /\ t1 \in {"sparse", "dense"} /\ t2 \in {"sparse", "dense"}
      /\ Fits(t1, Low(ks, s)) /\ Fits(t2, High(ks, s))
  BY DEF SplitSound
<1>3. \A k \in ks : k \in Int /\ b.lower <= k /\ k < b.upper
  BY <1>1 DEF EntriesFit
<1>4. /\ \E k \in ks : k < s
      /\ \E k \in ks : s <= k
  BY <1>2, <1>3 DEF Low, High
<1>5. b.lower <= s /\ s <= b.upper
  BY <1>1, <1>2, <1>3, <1>4
<1>6. /\ DOMAIN Part(m, b.lower, s) = Low(ks, s)
      /\ DOMAIN Part(m, s, b.upper) = High(ks, s) /\ EntriesFit(Part(m, s, b.upper), s, b.upper)
  BY <1>1, <1>2, PartIs
<1>7. /\ LeafGood(left) /\ left.type = b.type /\ left.lower = b.lower /\ left.upper = s
      /\ EntriesOf(left) = Part(m, b.lower, s)
  BY <1>2, <1>4, LeafTruncatedIs DEF LeftBlock
<1>8. h1 = Halves(b, s, types)[1] /\ h2 = Halves(b, s, types)[2]
  BY DEF Halves, LeftBlock
<1> HIDE DEF left, t1, t2, types, m, ks
<1>9. /\ LeafGood(h1) /\ ~h1.isOverflowed /\ h1.type = t1 /\ h1.lower = b.lower /\ h1.upper = s
      /\ EntriesOf(h1) = Part(m, b.lower, s)
  <2>1. CASE t1 = b.type
    <3>1. ~left.isOverflowed
      BY <1>2, <1>6, <1>7, <2>1, LeafEntries
    <3> QED BY <1>7, <2>1, <3>1
  <2>2. CASE t1 # b.type
    <3>1. t1 = Other(left.type)
      BY <1>1, <1>2, <1>7, <2>2 DEF Other
    <3>2. left.lower <= left.upper /\ Fits(Other(left.type), DOMAIN EntriesOf(left))
      BY <1>2, <1>5, <1>6, <1>7, <3>1
    <3>3. h1 = SwitchFormat(left)
      BY <2>2
    <3>4. /\ LeafGood(h1) /\ h1.type = Other(left.type) /\ h1.lower = left.lower
          /\ h1.upper = left.upper /\ ~h1.isOverflowed /\ EntriesOf(h1) = EntriesOf(left)
      BY <1>7, <3>2, <3>3, SwitchFormatIs
    <3> QED BY <1>7, <3>1, <3>4
  <2> QED BY <2>1, <2>2
<1>10. /\ LeafGood(new) /\ new.type = t2 /\ new.lower = s /\ new.upper = b.upper
       /\ ~new.isOverflowed /\ EntriesOf(new) = NoEntries
  BY <1>1, <1>2, <1>5, CreateIs
<1> HIDE DEF new, h1
<1>11. /\ LeafGood(h2) /\ ~h2.isOverflowed /\ h2.type = t2 /\ h2.lower = s /\ h2.upper = b.upper
       /\ EntriesOf(h2) = Part(m, s, b.upper)
  <2> DEFINE p == Part(m, s, b.upper)
  <2>1. EntriesFit(p, new.lower, new.upper) /\ Fits(new.type, DOMAIN p)
    BY <1>2, <1>6, <1>10
  <2> HIDE DEF p
  <2>2. LET r == Filled(new, p)
        IN  /\ LeafGood(r) /\ r.type = new.type /\ r.lower = new.lower /\ r.upper = new.upper
            /\ ~r.isOverflowed /\ EntriesOf(r) = p
    BY <1>10, <2>1, FilledIs
  <2> QED BY <1>10, <2>2 DEF p
<1> HIDE DEF h2
<1> DEFINE h == Halves(b, s, types)
<1>12. h[1] = h1 /\ h[2] = h2
  BY <1>8
<1> HIDE DEF h
<1>13. ASSUME NEW i \in 1..2
       PROVE  LeafGood(h[i]) /\ ~h[i].isOverflowed /\ h[i].type = types[i]
  <2>1. CASE i = 1
    BY <1>9, <1>12, <2>1 DEF t1
  <2>2. CASE i = 2
    BY <1>11, <1>12, <2>2 DEF t2
  <2> QED BY <2>1, <2>2
<1> QED BY <1>2, <1>5, <1>9, <1>11, <1>12, <1>13 DEF h, types, ks, m

-----------------------------------------------------------------------------
(* The inductive invariant. *)
IInv ==
  /\ LeafGood(block) /\ ~block.isOverflowed
  /\ block.lower \in 0..EndsBy /\ block.upper \in 0..EndsBy /\ block.lower <= block.upper
  /\ useDense \in BOOLEAN /\ splitter \in Splitter
  /\ ~useDense => block.type = "sparse"

(* A new leaf is empty. *)
LEMMA InitLeaf == Init => IInv /\ EntriesOf(block) = NoEntries /\ block.type = "sparse"
<1> SUFFICES ASSUME Init PROVE IInv /\ EntriesOf(block) = NoEntries /\ block.type = "sparse"
  OBVIOUS
<1>1. block = Create("sparse", 0, EndsBy) /\ useDense \in BOOLEAN /\ splitter \in Splitter
  BY DEF Init, Create
<1>2. 0 \in 0..EndsBy /\ EndsBy \in 0..EndsBy /\ 0 \in Int /\ EndsBy \in Int /\ 0 <= EndsBy
  BY CapsAre
<1> DEFINE r == Create("sparse", 0, EndsBy)
<1>3. /\ LeafGood(r) /\ r.type = "sparse" /\ r.lower = 0 /\ r.upper = EndsBy
      /\ ~r.isOverflowed /\ EntriesOf(r) = NoEntries
  BY <1>2, CreateIs
<1> HIDE DEF r
<1> QED BY <1>1, <1>2, <1>3 DEF IInv, r

(* What put leaves of the leaf. *)
PutLeaves(key, datum) ==
  LET m == WithEntry(EntriesOf(block), key, datum)
      ks == DOMAIN m
      answer == PutAnswer(block.type, ks)
  IN  /\ call' = Called("put", [key |-> key, datum |-> datum], answer)
      /\ \/ /\ answer = "kOK"
            /\ EntriesOf(block') = m /\ block'.lower = block.lower /\ block'.upper = block.upper
            /\ block'.type = block.type
         \/ /\ answer = "kSwitchFormat" /\ useDense
            /\ EntriesOf(block') = m /\ block'.lower = block.lower /\ block'.upper = block.upper
            /\ block'.type = Other(block.type)
         \/ /\ answer # "kOK" /\ ~(answer = "kSwitchFormat" /\ useDense)
            /\ \E s \in SplitKeys(splitter, block, ks, useDense) :
               \E types \in TypesUsed(SplitTypes(block, ks, s, useDense)) :
                 \/ /\ block'.type = types[1]
                    /\ block'.lower = block.lower /\ block'.upper = s
                    /\ EntriesOf(block') = Part(m, block.lower, s)
                 \/ /\ block'.type = types[2]
                    /\ block'.lower = s /\ block'.upper = block.upper
                    /\ EntriesOf(block') = Part(m, s, block.upper)

(* Each action keeps the invariant; what put leaves is what LeafStore says. *)
LEMMA PutKeeps ==
  ASSUME HalvesFit(Splitter), IInv, NEW key \in block.lower..block.upper-1, NEW datum \in Value, PutEntry(key, datum)
  PROVE  IInv' /\ PutLeaves(key, datum)
<1> DEFINE r == LeafPut(block, key, datum)
           m == EntriesOf(r)
           ks == DOMAIN m
<1>1. /\ LeafGood(block) /\ ~block.isOverflowed
      /\ block.lower \in Int /\ block.upper \in Int /\ 0 <= block.lower /\ block.lower <= block.upper
      /\ block.upper <= EndsBy /\ EndsBy \in Int
      /\ key \in Int /\ block.lower <= key /\ key < block.upper
      /\ useDense \in BOOLEAN /\ splitter \in Splitter /\ (~useDense => block.type = "sparse")
      /\ block.type \in {"sparse", "dense"}
  BY CapsAre DEF IInv, LeafGood
<1>2. /\ LeafGood(r) /\ r.type = block.type /\ r.lower = block.lower /\ r.upper = block.upper
      /\ m = WithEntry(EntriesOf(block), key, datum)
  BY <1>1, LeafPutIs
<1>3. /\ AnswerOf(r) = PutAnswer(block.type, ks) /\ (r.isOverflowed <=> ~Fits(block.type, ks))
      /\ r.isOverflowed \in BOOLEAN
  BY <1>2, AnswerIs, LeafEntries
<1>4. /\ call' = Called("put", [key |-> key, datum |-> datum], AnswerOf(r))
      /\ useDense' = useDense /\ splitter' = splitter
      /\ AnswerOf(r) = "kOK" => block' = r
      /\ AnswerOf(r) = "kSwitchFormat" /\ useDense => block' = SwitchFormat(r)
      /\ AnswerOf(r) # "kOK" /\ ~(AnswerOf(r) = "kSwitchFormat" /\ useDense) =>
           \E s \in SplitKeys(splitter, r, ks, useDense) :
           \E types \in TypesUsed(SplitTypes(r, ks, s, useDense)), i \in 1..2 :
             block' = Halves(r, s, types)[i]
  <2> HIDE DEF r
  <2> QED BY DEF PutEntry, r
<1>5. ASSUME AnswerOf(r) # "kOK", ~(AnswerOf(r) = "kSwitchFormat" /\ useDense)
      PROVE  Overfull(r, ks, useDense) /\ r.isOverflowed
  BY <1>1, <1>5, OverfullLeaf
<1> HIDE DEF r, m, ks
<1>6. CASE AnswerOf(r) = "kOK"
  <2>1. block' = r /\ ~r.isOverflowed
    BY <1>1, <1>3, <1>4, <1>6 DEF PutAnswer
  <2>2. IInv'
    BY <1>1, <1>2, <1>4, <2>1 DEF IInv
  <2>3. PutLeaves(key, datum)
    BY <1>2, <1>3, <1>4, <1>6, <2>1 DEF PutLeaves, m, ks
  <2> QED BY <2>2, <2>3
<1>7. CASE AnswerOf(r) = "kSwitchFormat" /\ useDense
  <2>1. block' = SwitchFormat(r) /\ Fits(Other(r.type), ks)
    BY <1>2, <1>3, <1>4, <1>7 DEF PutAnswer
  <2>2. /\ LeafGood(block') /\ block'.type = Other(r.type) /\ block'.lower = r.lower
        /\ block'.upper = r.upper /\ ~block'.isOverflowed /\ EntriesOf(block') = m
    BY <1>1, <1>2, <2>1, SwitchFormatIs DEF ks, m
  <2>3. IInv'
    BY <1>1, <1>2, <1>4, <1>7, <2>2 DEF IInv
  <2>4. PutLeaves(key, datum)
    BY <1>2, <1>3, <1>4, <1>7, <2>2 DEF PutLeaves, m, ks
  <2> QED BY <2>3, <2>4
<1>8. CASE AnswerOf(r) # "kOK" /\ ~(AnswerOf(r) = "kSwitchFormat" /\ useDense)
  <2>1. PICK s \in SplitKeys(splitter, r, ks, useDense) :
          \E types \in TypesUsed(SplitTypes(r, ks, s, useDense)), i \in 1..2 :
            block' = Halves(r, s, types)[i]
    BY <1>4, <1>8
  <2>2. Overfull(r, ks, useDense) /\ r.isOverflowed
    BY <1>5, <1>8
  <2>3. SplitSound(r, ks, s, useDense)
    <3>1. splitter \in {"M", "A", "T", "RS"}
      BY <1>1, LeafAssumption
    <3>2. HalvesFit({splitter})
      BY <1>1, OneSplitter
    <3> QED BY <2>1, <2>2, <3>1, <3>2, SplitKeysSound
  <2> DEFINE types == SplitTypes(r, ks, s, useDense)
             h == Halves(r, s, types)
  <2>10. TypesUsed(types) = {types}
    <3>1. types = <<types[1], types[2]>>
      BY DEF SplitTypes
    <3>2. types[1] \in {"sparse", "dense"} /\ types[2] \in {"sparse", "dense"}
      BY <2>3 DEF SplitSound
    <3> HIDE DEF types
    <3> QED BY <3>1, <3>2, TypesSet
  <2>11. PICK i \in 1..2 : block' = h[i]
    BY <2>1, <2>10
  <2>4. /\ s \in Int /\ r.lower <= s /\ s <= r.upper
        /\ \A j \in 1..2 : LeafGood(h[j]) /\ ~h[j].isOverflowed /\ h[j].type = types[j]
        /\ h[1].lower = r.lower /\ h[1].upper = s /\ EntriesOf(h[1]) = Part(m, r.lower, s)
        /\ h[2].lower = s /\ h[2].upper = r.upper /\ EntriesOf(h[2]) = Part(m, s, r.upper)
    BY <1>1, <1>2, <2>2, <2>3, HalvesAre DEF m, ks
  <2>5. ~useDense => types[1] = "sparse" /\ types[2] = "sparse"
    BY <1>1, <1>2 DEF SplitTypes, HalfType
  <2>6. /\ SplitKeys(splitter, r, ks, useDense) = SplitKeys(splitter, block, ks, useDense)
        /\ types \in TypesUsed(SplitTypes(block, ks, s, useDense))
    <3>1. types = SplitTypes(block, ks, s, useDense)
          /\ SplitKeys(splitter, r, ks, useDense) = SplitKeys(splitter, block, ks, useDense)
      BY <1>2, SplitKeysOf
    <3> QED BY <2>10, <3>1
  <2>7. block' = h[i]
    BY <2>11
  <2> HIDE DEF h, types
  <2>8. IInv'
    <3>1. CASE i = 1
      <4>1. block'.lower \in 0..EndsBy /\ block'.upper \in 0..EndsBy /\ block'.lower <= block'.upper
        BY <1>1, <1>2, <2>4, <2>7, <3>1
      <4> QED BY <1>1, <1>4, <2>4, <2>5, <2>7, <3>1, <4>1 DEF IInv
    <3>2. CASE i = 2
      <4>1. block'.lower \in 0..EndsBy /\ block'.upper \in 0..EndsBy /\ block'.lower <= block'.upper
        BY <1>1, <1>2, <2>4, <2>7, <3>2
      <4> QED BY <1>1, <1>4, <2>4, <2>5, <2>7, <3>2, <4>1 DEF IInv
    <3> QED BY <3>1, <3>2
  <2>9. PutLeaves(key, datum)
    <3>1. s \in SplitKeys(splitter, block, ks, useDense)
      BY <2>1, <2>6
    <3>2. \/ /\ block'.type = types[1]
             /\ block'.lower = block.lower /\ block'.upper = s
             /\ EntriesOf(block') = Part(m, block.lower, s)
          \/ /\ block'.type = types[2]
             /\ block'.lower = s /\ block'.upper = block.upper
             /\ EntriesOf(block') = Part(m, s, block.upper)
      <4>1. CASE i = 1
        BY <1>2, <2>4, <2>6, <2>7, <4>1
      <4>2. CASE i = 2
        BY <1>2, <2>4, <2>6, <2>7, <4>2
      <4> QED BY <4>1, <4>2
    <3> QED BY <1>2, <1>3, <1>4, <1>8, <2>6, <3>1, <3>2 DEF PutLeaves, m, ks
  <2> QED BY <2>8, <2>9
<1> QED BY <1>6, <1>7, <1>8

LEMMA ReloadKeeps ==
  ASSUME IInv, Reload
  PROVE  /\ IInv' /\ EntriesOf(block') = EntriesOf(block) /\ block'.lower = block.lower
         /\ block'.upper = block.upper /\ block'.type = block.type
         /\ call' = Called("reload", 0, "kOK") /\ UNCHANGED <<useDense, splitter>>
<1>1. LeafGood(block) /\ ~block.isOverflowed
  BY DEF IInv
<1>2. /\ block' = (IF block.type = "dense" THEN Loaded(block) ELSE block)
      /\ call' = Called("reload", 0, "kOK") /\ UNCHANGED <<useDense, splitter>>
  BY DEF Reload
<1>3. CASE block.type = "dense"
  <2> DEFINE r == Loaded(block)
  <2>1. DenseGood(block)
    BY <1>1, <1>3 DEF LeafGood
  <2>2. /\ DenseGood(r) /\ r.lower = block.lower /\ r.upper = block.upper /\ ~r.isOverflowed
        /\ EntriesOf(r) = EntriesOf(block)
    BY <1>1, <2>1, LoadedIs
  <2> HIDE DEF r
  <2>3. r.type = "dense" /\ block' = r
    BY <1>2, <1>3, <2>2, DenseEntries DEF r
  <2>4. IInv'
    BY <1>2, <1>3, <2>2, <2>3 DEF IInv, LeafGood
  <2> QED BY <1>2, <1>3, <2>2, <2>3, <2>4
<1>4. CASE block.type # "dense"
  BY <1>2, <1>4 DEF IInv
<1> QED BY <1>3, <1>4

LEMMA NextKeeps ==
  ASSUME HalvesFit(Splitter)
  PROVE  IInv /\ [Next]_vars => IInv'
<1> SUFFICES ASSUME IInv, [Next]_vars PROVE IInv'
  OBVIOUS
<1>1. ASSUME NEW key \in block.lower..block.upper-1, NEW datum \in Value, PutEntry(key, datum)
      PROVE  IInv'
  BY <1>1, PutKeeps
<1>2. ASSUME NEW key, Get(key) PROVE IInv'
  BY <1>2 DEF Get, IInv
<1>3. ASSUME NEW b, NEW e, BatchGet(b, e) PROVE IInv'
  BY <1>3 DEF BatchGet, IInv
<1>4. ASSUME Reload PROVE IInv'
  BY <1>4, ReloadKeeps
<1>5. CASE UNCHANGED vars
  BY <1>5 DEF vars, IInv
<1> QED BY <1>1, <1>2, <1>3, <1>4, <1>5 DEF Next

LEMMA AlwaysIInv ==
  ASSUME HalvesFit(Splitter)
  PROVE  Spec => []IInv
<1>1. Init => IInv
  BY InitLeaf
<1>2. IInv /\ [Next]_vars => IInv'
  BY NextKeeps
<1> QED BY <1>1, <1>2, PTL DEF Spec

(* The properties follow from the invariant. *)
LEMMA IInvMeans == IInv => TypeOK /\ SegmentSound /\ NothingOverflows
<1> SUFFICES ASSUME IInv PROVE TypeOK /\ SegmentSound /\ NothingOverflows
  OBVIOUS
<1>1. LeafGood(block) /\ ~block.isOverflowed
  BY DEF IInv
<1>2. ASSUME block.type = "dense"
      PROVE  /\ block.headIndex \in 0..DenseCap-1 /\ block.tailIndex \in 0..DenseCap-1
             /\ block.nEntries \in 0..DenseCap /\ block.data \in [0..DenseCap-1 -> Value]
             /\ SegmentSound
  <2>1. DenseGood(block) /\ block \in DenseLeaf /\ Segment(block)
    BY <1>1, <1>2 DEF LeafGood, DenseGood
  <2>2. /\ block.nEntries \in Nat /\ block.nEntries = Cardinality(Keys(block))
        /\ block.lower \in Int /\ block.upper \in Int
        /\ block.headKey \in Int /\ block.tailKey \in Int /\ DenseCap \in Nat
        /\ block.headIndex \in 0..DenseCap-1 /\ block.tailIndex \in 0..DenseCap-1
        /\ block.data \in [0..DenseCap-1 -> Value]
    BY <2>1, CapsAre, DenseIs DEF DenseGood
  <2>3. /\ block.lower <= block.headKey /\ block.headKey <= block.tailKey
        /\ block.tailKey <= block.upper /\ block.tailKey - block.headKey <= DenseCap
    BY <2>1 DEF Segment
  <2>4. /\ IsFiniteSet(Keys(block)) /\ DOMAIN Stored(block) = Keys(block)
        /\ \A k \in Keys(block) : k \in Int /\ block.headKey <= k /\ k < block.tailKey
    BY <2>1, StoredIs
  <2>5. block.nEntries <= DenseCap
    <3>1. KeysWithin(Keys(block), block.headKey, block.tailKey)
      BY <2>4 DEF KeysWithin
    <3>2. Cardinality(Keys(block)) <= block.tailKey - block.headKey
      BY <2>2, <2>3, <3>1, WithinIs
    <3> QED BY <2>2, <2>3, <3>2
  <2>6. block.nEntries > 0 => block.headKey < block.tailKey
    <3>1. ASSUME block.nEntries > 0 PROVE Keys(block) # {}
      BY <2>1, <2>2, <3>1, NoKeys
    <3>2. ASSUME NEW k \in Keys(block) PROVE block.headKey < block.tailKey
      BY <2>2, <2>4
    <3> QED BY <3>1, <3>2
  <2>7. block.nEntries > 0 => Loaded(block).tailKey = block.tailKey
    BY <1>1, <2>1, LoadedIs
  <2> QED BY <2>2, <2>3, <2>4, <2>5, <2>6, <2>7 DEF SegmentSound
<1>3. block.type = "sparse" => Len(block.cells) <= SparseCap
  BY <1>1 DEF LeafGood, SparseGood
<1>4. TypeOK
  BY <1>1, <1>2, <1>3 DEF IInv, TypeOK, LeafGood
<1>5. SegmentSound
  <2>1. CASE block.type # "dense"
    BY <2>1 DEF SegmentSound
  <2> QED BY <1>2, <2>1
<1> QED BY <1>1, <1>4, <1>5 DEF NothingOverflows

(* LeafBlock.TypeOK, for every tree and set of data, and all capacities     *)
(* and splitters that give every half a format.                             *)
THEOREM TypeCorrect ==
  ASSUME HalvesFit(Splitter)
  PROVE  Spec => []TypeOK
BY AlwaysIInv, IInvMeans, PTL

(* LeafBlock.SegmentSound: through overflows, splits at either end, changes *)
(* of format and reloading, a dense leaf counts its cells right and tells   *)
(* a full buffer from an empty one.                                         *)
THEOREM AlwaysSegmentSound ==
  ASSUME HalvesFit(Splitter)
  PROVE  Spec => []SegmentSound
BY AlwaysIInv, IInvMeans, PTL

(* LeafBlock.NothingOverflows: a splitter splits where both halves fit      *)
(* their formats, so no put leaves an entry behind in the object.  "A" and  *)
(* "RS" do so whenever a sparse leaf holds no more records than a dense     *)
(* one; "M" and "T" ignore what splitTypes answers (Splitter.cpp:88), and   *)
(* do so where half of an overflowing dense leaf always fits a sparse one.  *)
THEOREM NothingEverOverflows ==
  ASSUME HalvesFit(Splitter)
  PROVE  Spec => []NothingOverflows
BY AlwaysIInv, IInvMeans, PTL

-----------------------------------------------------------------------------
(* The cells of a sparse leaf between two keys. *)
LEMMA SparseLists ==
  ASSUME NEW s \in Seq(Pair), Ascending(s), NEW l \in Int, NEW u \in Int, l < u
  PROVE  LET t == SubSeq(s, Search(s, l) + 1, Search(s, u))
         IN  Lists([i \in DOMAIN t |-> [key |-> t[i].key, datum |-> t[i].value]],
                   Part(MapOf(s), l, u))
<1> DEFINE c == Search(s, l)
           d == Search(s, u)
           t == SubSeq(s, c + 1, d)
           answer == [i \in DOMAIN t |-> [key |-> t[i].key, datum |-> t[i].value]]
           m == Part(MapOf(s), l, u)
<1>1. /\ DOMAIN s = 1..Len(s) /\ Len(s) \in Nat
      /\ \A i \in DOMAIN s : s[i] \in Pair /\ s[i].key \in Int
  BY KeysAre
<1>2. /\ c \in 0..Len(s) /\ d \in 0..Len(s)
      /\ \A i \in DOMAIN s : i <= c <=> s[i].key < l
      /\ \A i \in DOMAIN s : i <= d <=> s[i].key < u
  BY SearchIs
<1> HIDE DEF c, d
<1>3. c <= d
  <2>1. CASE c = 0
    BY <1>2, <2>1
  <2>2. CASE c # 0
    <3>1. c \in DOMAIN s /\ c <= c /\ s[c].key \in Int
      BY <1>1, <1>2, <2>2
    <3>2. s[c].key < u
      BY <1>2, <3>1
    <3> QED BY <1>2, <3>1, <3>2
  <2> QED BY <2>1, <2>2
<1>4. DOMAIN t = 1..d-c /\ \A i \in 1..d-c : t[i] = s[c+i] /\ c+i \in DOMAIN s
  <2>1. c+1 \in Int /\ d \in Int /\ Len(t) = d-c
    BY <1>1, <1>2, <1>3
  <2> QED BY <1>1, <1>2, <1>3, <2>1
<1> HIDE DEF t
<1>5. /\ DOMAIN answer = 1..d-c
      /\ \A i \in 1..d-c : answer[i] = [key |-> s[c+i].key, datum |-> s[c+i].value]
  BY <1>4
<1> HIDE DEF answer
<1>6. /\ DOMAIN m = {k \in KeysIn(s) : l <= k /\ k < u}
      /\ \A k \in DOMAIN m : m[k] = MapOf(s)[k]
  BY MapIs DEF Part
<1> HIDE DEF m
<1>7. \A i \in DOMAIN s : s[i].key \in KeysIn(s) /\ MapOf(s)[s[i].key] = s[i].value
  BY MapIs
<1>8. ASSUME NEW i \in 1..d-c
      PROVE  answer[i] \in EntryRecords(m)
  <2>0. c+i \in DOMAIN s
    BY <1>4
  <2>1. c+i \in DOMAIN s /\ ~(c+i <= c) /\ c+i <= d /\ s[c+i].key \in Int
    <3>1. c \in Int /\ d \in Int /\ i \in Int /\ 1 <= i /\ i <= d - c
      BY <1>2
    <3>2. ~(c+i <= c) /\ c+i <= d
      BY <3>1
    <3>3. s[c+i].key \in Int
      BY <1>1, <2>0
    <3> QED BY <2>0, <3>2, <3>3
  <2>2. s[c+i].key \in DOMAIN m /\ m[s[c+i].key] = s[c+i].value
    BY <1>2, <1>6, <1>7, <2>1
  <2> QED BY <1>5, <2>2 DEF EntryRecords
<1>9. ASSUME NEW e \in EntryRecords(m) PROVE \E i \in 1..d-c : answer[i] = e
  <2>1. PICK k \in DOMAIN m : e = [key |-> k, datum |-> m[k]]
    BY DEF EntryRecords
  <2>2. PICK j \in DOMAIN s : s[j].key = k
    BY <1>6, <2>1 DEF KeysIn
  <2>3. l <= k /\ k < u /\ m[k] = s[j].value /\ k \in Int /\ j \in Int
    BY <1>1, <1>6, <1>7, <2>1, <2>2
  <2>4. ~(j <= c) /\ j <= d
    BY <1>2, <2>2, <2>3
  <2>5. j-c \in 1..d-c /\ c + (j-c) = j
    BY <1>2, <2>3, <2>4
  <2>6. answer[j-c] = [key |-> s[j].key, datum |-> s[j].value]
    BY <1>5, <2>5
  <2> QED BY <2>1, <2>2, <2>3, <2>5, <2>6
<1>10. ASSUME NEW i \in 1..d-c, NEW j \in 1..d-c, i < j PROVE answer[i].key < answer[j].key
  <2>1. c+i \in DOMAIN s /\ c+j \in DOMAIN s /\ c+i < c+j
    BY <1>2, <1>4, <1>10
  <2>2. s[c+i].key < s[c+j].key
    BY <2>1 DEF Ascending
  <2> QED BY <1>5, <2>2
<1>11. answer \in Seq(EntryRecords(m))
  <2>1. answer = [i \in 1..d-c |-> answer[i]]
    BY <1>4 DEF answer
  <2>2. answer \in [1..d-c -> EntryRecords(m)] /\ d-c \in Nat
    BY <1>2, <1>3, <1>8, <2>1
  <2> QED BY <2>2
<1>12. Lists(answer, m)
  BY <1>5, <1>8, <1>9, <1>10, <1>11 DEF Lists
<1> QED BY <1>12 DEF answer, t, c, d, m

-----------------------------------------------------------------------------
(* The rules are the same in the leaf and in its specification. *)
LEMMA SameRules ==
  /\ Leaf!NoEntries = NoEntries
  /\ \A m, k, v : Leaf!WithEntry(m, k, v) = WithEntry(m, k, v)
  /\ \A m, l, u : Leaf!Part(m, l, u) = Part(m, l, u)
  /\ \A type, ks : Leaf!PutAnswer(type, ks) = PutAnswer(type, ks)
  /\ \A type : Leaf!Other(type) = Other(type)
  /\ \A leaf, ks, s, dense : Leaf!SplitTypes(leaf, ks, s, dense) = SplitTypes(leaf, ks, s, dense)
  /\ \A types : Leaf!TypesUsed(types) = TypesUsed(types)
  /\ \A which, leaf, ks, dense :
       Leaf!SplitKeys(which, leaf, ks, dense) = SplitKeys(which, leaf, ks, dense)
<1>1. Leaf!NoEntries = NoEntries
  BY DEF Leaf!NoEntries, NoEntries
<1>2. ASSUME NEW m, NEW k, NEW v PROVE Leaf!WithEntry(m, k, v) = WithEntry(m, k, v)
  BY DEF Leaf!WithEntry, WithEntry
<1>3. ASSUME NEW m, NEW l, NEW u PROVE Leaf!Part(m, l, u) = Part(m, l, u)
  BY DEF Leaf!Part, Part
<1>4. ASSUME NEW type, NEW ks PROVE Leaf!Fits(type, ks) = Fits(type, ks)
  <2>1. Leaf!Cardinality(ks) = Cardinality(ks)
    BY DEF Leaf!Cardinality, Cardinality
  <2>2. Leaf!Span(ks) = Span(ks)
    BY DEF Leaf!Span, Span, Leaf!Max, Max, Leaf!Min, Min
  <2> QED BY <2>1, <2>2 DEF Leaf!Fits, Fits
<1>5. ASSUME NEW type PROVE Leaf!Other(type) = Other(type)
  BY DEF Leaf!Other, Other
<1>6. ASSUME NEW type, NEW ks PROVE Leaf!PutAnswer(type, ks) = PutAnswer(type, ks)
  BY <1>4, <1>5 DEF Leaf!PutAnswer, PutAnswer
<1>7. ASSUME NEW leaf, NEW ks, NEW s, NEW dense
      PROVE  Leaf!SplitTypes(leaf, ks, s, dense) = SplitTypes(leaf, ks, s, dense)
  <2>1. ASSUME NEW type, NEW i, NEW part, NEW bound
        PROVE  Leaf!HalfType(type, i, part, bound, dense) = HalfType(type, i, part, bound, dense)
    <3>1. Leaf!Cardinality(part) = Cardinality(part)
      BY DEF Leaf!Cardinality, Cardinality
    <3> QED BY <1>4, <3>1 DEF Leaf!HalfType, HalfType
  <2> QED BY <2>1 DEF Leaf!SplitTypes, SplitTypes
<1>8. ASSUME NEW ks, NEW sp PROVE Leaf!KeyAt(ks, sp) = KeyAt(ks, sp)
  BY DEF Leaf!KeyAt, KeyAt, Leaf!Cardinality, Cardinality
<1>9. ASSUME NEW leaf, NEW ks, NEW dense
      PROVE  Leaf!ThresholdKey(leaf, ks, dense) = ThresholdKey(leaf, ks, dense)
  BY SMTT(30) DEF Leaf!ThresholdKey, ThresholdKey, Leaf!MiddleKey, MiddleKey, Leaf!KeyAt, KeyAt,
         Leaf!Cardinality, Cardinality
<1>10. ASSUME NEW leaf, NEW ks, NEW n, NEW dense
       PROVE  Leaf!BoundaryKey(leaf, ks, n, dense) = BoundaryKey(leaf, ks, n, dense)
  BY Zenon DEF Leaf!BoundaryKey, BoundaryKey, Leaf!MiddleKey, MiddleKey, Leaf!KeyAt, KeyAt,
         Leaf!BoundaryBefore, BoundaryBefore, Leaf!SplitTypes, SplitTypes, Leaf!HalfType, HalfType,
         Leaf!Fits, Fits, Leaf!Span, Span, Leaf!Max, Max, Leaf!Min, Min,
         Leaf!Cardinality, Cardinality
<1>11. ASSUME NEW which, NEW leaf, NEW ks, NEW dense
       PROVE  Leaf!SplitKeys(which, leaf, ks, dense) = SplitKeys(which, leaf, ks, dense)
  <2>1. Leaf!MiddleKey(ks) = MiddleKey(ks)
    BY DEF Leaf!MiddleKey, MiddleKey, Leaf!KeyAt, KeyAt, Leaf!Cardinality, Cardinality
  <2>2. {k \in ks \ {Leaf!Min(ks)} : \A i \in 1..2 : Leaf!SplitTypes(leaf, ks, k, dense)[i] # "none"}
          = {k \in ks \ {Min(ks)} : \A i \in 1..2 : SplitTypes(leaf, ks, k, dense)[i] # "none"}
    <3>1. Leaf!Min(ks) = Min(ks)
      BY DEF Leaf!Min, Min
    <3> QED BY <1>7, <3>1
  <2> QED BY <1>9, <1>10, <2>1, <2>2 DEF Leaf!SplitKeys, SplitKeys
<1>12. ASSUME NEW types PROVE Leaf!TypesUsed(types) = TypesUsed(types)
  BY DEF Leaf!TypesUsed, TypesUsed
<1> QED BY <1>1, <1>2, <1>3, <1>5, <1>6, <1>7, <1>11, <1>12

(* Each action is a step of LeafStore. *)
LEMMA InitMaps == Init => Leaf!Init
<1> SUFFICES ASSUME Init PROVE Leaf!Init
  OBVIOUS
<1>1. EntriesOf(block) = NoEntries /\ block.type = "sparse"
  BY InitLeaf
<1>2. call.op = "create"
  BY DEF Init, Called
<1> QED BY <1>1, <1>2, SameRules DEF Leaf!Init

LEMMA PutMaps ==
  ASSUME HalvesFit(Splitter), IInv, NEW key \in block.lower..block.upper-1, NEW datum \in Value, PutEntry(key, datum)
  PROVE  Leaf!Put /\ UNCHANGED <<useDense, splitter>>
<1> DEFINE m == WithEntry(EntriesOf(block), key, datum)
           ks == DOMAIN m
           answer == PutAnswer(block.type, ks)
           leaf == [type |-> block.type, lower |-> block.lower, upper |-> block.upper]
<1>1. UNCHANGED <<useDense, splitter>>
  BY DEF PutEntry
<1>2. PutLeaves(key, datum)
  BY PutKeeps
<1>3. call' = Called("put", [key |-> key, datum |-> datum], answer)
  BY <1>2 DEF PutLeaves
<1>4. /\ call'.op = "put" /\ call'.answer = answer
      /\ call'.arg.key = key /\ call'.arg.datum = datum
  BY <1>3 DEF Called
<1>5. /\ \A which, kk, dense : SplitKeys(which, leaf, kk, dense) = SplitKeys(which, block, kk, dense)
      /\ \A kk, s, dense : SplitTypes(leaf, kk, s, dense) = SplitTypes(block, kk, s, dense)
  <2>1. leaf.type = block.type /\ leaf.lower = block.lower /\ leaf.upper = block.upper
    OBVIOUS
  <2> HIDE DEF leaf
  <2>2. ASSUME NEW which, NEW kk, NEW dense
        PROVE  /\ SplitKeys(which, leaf, kk, dense) = SplitKeys(which, block, kk, dense)
               /\ \A s : SplitTypes(leaf, kk, s, dense) = SplitTypes(block, kk, s, dense)
    BY <2>1, SplitKeysOf
  <2> QED BY <2>2
<1>6. \/ /\ answer = "kOK"
         /\ EntriesOf(block') = m /\ block'.lower = block.lower /\ block'.upper = block.upper
         /\ block'.type = block.type
      \/ /\ answer = "kSwitchFormat" /\ useDense
         /\ EntriesOf(block') = m /\ block'.lower = block.lower /\ block'.upper = block.upper
         /\ block'.type = Other(block.type)
      \/ /\ answer # "kOK" /\ ~(answer = "kSwitchFormat" /\ useDense)
         /\ \E s \in SplitKeys(splitter, block, ks, useDense) :
            \E types \in TypesUsed(SplitTypes(block, ks, s, useDense)) :
              \/ /\ block'.type = types[1]
                 /\ block'.lower = block.lower /\ block'.upper = s
                 /\ EntriesOf(block') = Part(m, block.lower, s)
              \/ /\ block'.type = types[2]
                 /\ block'.lower = s /\ block'.upper = block.upper
                 /\ EntriesOf(block') = Part(m, s, block.upper)
  BY <1>2 DEF PutLeaves
<1> DEFINE Half(s, i) ==
             /\ \E types \in TypesUsed(SplitTypes(leaf, ks, s, useDense)) : block'.type = types[i]
             /\ block'.lower = IF i = 1 THEN block.lower ELSE s
             /\ block'.upper = IF i = 1 THEN s ELSE block.upper
             /\ EntriesOf(block') = Part(m, block'.lower, block'.upper)
           Splits == \E s \in SplitKeys(splitter, leaf, ks, useDense), i \in 1..2 : Half(s, i)
<1> HIDE DEF m, ks, answer, leaf
<1>7. \/ /\ answer = "kOK"
         /\ EntriesOf(block') = m /\ block'.lower = block.lower /\ block'.upper = block.upper
         /\ block'.type = block.type
      \/ /\ answer = "kSwitchFormat" /\ useDense
         /\ EntriesOf(block') = m /\ block'.lower = block.lower /\ block'.upper = block.upper
         /\ block'.type = Other(block.type)
      \/ /\ answer # "kOK" /\ ~(answer = "kSwitchFormat" /\ useDense)
         /\ Splits
  <2>1. ASSUME NEW s \in SplitKeys(splitter, block, ks, useDense),
               NEW types \in TypesUsed(SplitTypes(block, ks, s, useDense)), block'.type = types[1],
               block'.lower = block.lower, block'.upper = s,
               EntriesOf(block') = Part(m, block.lower, s)
        PROVE  Splits
    <3>1. Half(s, 1) /\ s \in SplitKeys(splitter, leaf, ks, useDense) /\ 1 \in 1..2
      BY <1>5, <2>1
    <3> HIDE DEF Half
    <3> QED BY <3>1
  <2>2. ASSUME NEW s \in SplitKeys(splitter, block, ks, useDense),
               NEW types \in TypesUsed(SplitTypes(block, ks, s, useDense)), block'.type = types[2],
               block'.lower = s, block'.upper = block.upper,
               EntriesOf(block') = Part(m, s, block.upper)
        PROVE  Splits
    <3>1. Half(s, 2) /\ s \in SplitKeys(splitter, leaf, ks, useDense) /\ 2 \in 1..2
      BY <1>5, <2>2
    <3> HIDE DEF Half
    <3> QED BY <3>1
  <2> HIDE DEF Splits
  <2> QED BY <1>6, <2>1, <2>2
<1> HIDE DEF Splits
<1>8. CASE /\ answer = "kOK"
           /\ EntriesOf(block') = m /\ block'.lower = block.lower /\ block'.upper = block.upper
           /\ block'.type = block.type
  <2>1. call'.answer = "kOK" /\ call'.answer # "kSwitchFormat"
    BY <1>4, <1>8
  <2>2. /\ EntriesOf(block') = WithEntry(EntriesOf(block), call'.arg.key, call'.arg.datum)
        /\ call'.answer =
             PutAnswer(block.type, DOMAIN WithEntry(EntriesOf(block), call'.arg.key, call'.arg.datum))
    BY <1>4, <1>8 DEF m, answer, ks
  <2> QED BY <1>1, <1>4, <1>8, <2>1, <2>2, SameRules DEF Leaf!Put
<1>9. CASE /\ answer = "kSwitchFormat" /\ useDense
           /\ EntriesOf(block') = m /\ block'.lower = block.lower /\ block'.upper = block.upper
           /\ block'.type = Other(block.type)
  <2>1. call'.answer = "kSwitchFormat" /\ call'.answer # "kOK"
    BY <1>4, <1>9
  <2>2. /\ EntriesOf(block') = WithEntry(EntriesOf(block), call'.arg.key, call'.arg.datum)
        /\ call'.answer =
             PutAnswer(block.type, DOMAIN WithEntry(EntriesOf(block), call'.arg.key, call'.arg.datum))
    BY <1>4, <1>9 DEF m, answer, ks
  <2> QED BY <1>1, <1>4, <1>9, <2>1, <2>2, SameRules DEF Leaf!Put
<1>10. CASE answer # "kOK" /\ ~(answer = "kSwitchFormat" /\ useDense) /\ Splits
  <2>1. call'.answer # "kOK" /\ ~(call'.answer = "kSwitchFormat" /\ useDense)
    BY <1>4, <1>10
  <2>2. m = WithEntry(EntriesOf(block), call'.arg.key, call'.arg.datum)
    BY <1>4 DEF m
  <2>3. PICK s \in SplitKeys(splitter, leaf, ks, useDense), i \in 1..2 : Half(s, i)
    BY <1>10 DEF Splits
  <2>4. /\ call'.answer = PutAnswer(block.type, DOMAIN m) /\ ks = DOMAIN m
        /\ leaf = [type |-> block.type, lower |-> block.lower, upper |-> block.upper]
    BY <1>4 DEF answer, ks, leaf
  <2> QED BY <1>1, <1>4, <2>1, <2>2, <2>3, <2>4, SameRules DEF Leaf!Put
<1> QED BY <1>1, <1>7, <1>8, <1>9, <1>10

LEMMA GetMaps ==
  ASSUME IInv, NEW key \in block.lower..block.upper-1, Get(key)
  PROVE  Leaf!Read /\ UNCHANGED <<useDense, splitter>>
<1> DEFINE m == EntriesOf(block)
           found == IF key \in DOMAIN m THEN m[key] ELSE Default
<1>1. LeafGood(block) /\ ~block.isOverflowed
  BY DEF IInv
<1>2. key \in Int
  BY CapsAre DEF IInv
<1>3. UNCHANGED <<block, useDense, splitter>> /\ call'.op = "get" /\ call'.arg = key
  BY DEF Get, Called
<1>4. call'.answer = found
  <2>1. CASE block.type = "dense"
    <3>1. DenseGood(block) /\ block \in DenseLeaf
      BY <1>1, <2>1 DEF LeafGood, DenseGood
    <3>2. call'.answer = DatumOf(block, key)
      BY <2>1 DEF Get, Called
    <3>3. m = [k \in Keys(block) |-> DatumOf(block, k)]
      BY <1>1, <3>1, DenseEntries, StoredIs
    <3>4. key \notin Keys(block) => DatumOf(block, key) = Default
      BY <1>2 DEF Keys
    <3> HIDE DEF m
    <3> QED BY <3>2, <3>3, <3>4
  <2>2. CASE block.type = "sparse"
    <3> DEFINE s == block.cells
               i == Search(s, key)
    <3>1. SparseGood(block) /\ s \in Seq(Pair) /\ Ascending(s)
      BY <1>1, <2>2, SparseIs DEF LeafGood, SparseGood
    <3>2. call'.answer = IF HasKeyAt(s, i, key) THEN s[i + 1].value ELSE Default
      BY <2>2 DEF Get, Called
    <3>3. m = MapOf(s) /\ DOMAIN m = KeysIn(s)
      BY <1>1, <3>1, SparseEntries
    <3> HIDE DEF m, s
    <3>4. CASE HasKeyAt(s, i, key)
      <4>1. i+1 \in DOMAIN s /\ s[i+1].key = key
        BY <1>2, <3>1, <3>4, SearchIs
      <4> QED BY <3>1, <3>2, <3>3, <3>4, <4>1, MapIs
    <3>5. CASE ~HasKeyAt(s, i, key)
      <4>1. key \notin KeysIn(s)
        BY <1>2, <3>1, <3>5, SearchIs DEF KeysIn
      <4> QED BY <3>2, <3>3, <3>5, <4>1
    <3> QED BY <3>4, <3>5
  <2> QED BY <1>1, <2>1, <2>2 DEF LeafGood
<1> QED BY <1>3, <1>4 DEF Leaf!Read, Leaf!leafVars

LEMMA BatchGetMaps ==
  ASSUME IInv, NEW b \in 0..EndsBy, NEW e \in 0..EndsBy, b < e, BatchGet(b, e)
  PROVE  Leaf!Read /\ UNCHANGED <<useDense, splitter>>
<1> DEFINE m == Part(EntriesOf(block), b, e)
<1>1. LeafGood(block) /\ ~block.isOverflowed
  BY DEF IInv
<1>2. b \in Int /\ e \in Int
  BY CapsAre
<1>3. UNCHANGED <<block, useDense, splitter>> /\ call'.op = "batchGet" /\ call'.arg = <<b, e>>
  BY DEF BatchGet, Called
<1>4. Lists(call'.answer, m)
  <2>1. CASE block.type = "dense"
    <3>1. DenseGood(block)
      BY <1>1, <2>1 DEF LeafGood
    <3>2. EntriesOf(block) = Stored(block)
      BY <1>1, <3>1, DenseEntries
    <3>3. call'.answer = [i \in 1..Cardinality(DOMAIN m) |->
                            LET k == KeyAt(DOMAIN m, i - 1) IN [key |-> k, datum |-> m[k]]]
      BY <2>1, <3>2 DEF BatchGet, Called
    <3>4. Ordered(DOMAIN m, b)
      <4>1. EntriesFit(EntriesOf(block), block.lower, block.upper)
        BY <1>1, LeafEntries
      <4>2. DOMAIN m \in SUBSET DOMAIN EntriesOf(block) /\ \A k \in DOMAIN m : b <= k
        BY DEF Part
      <4>3. IsFiniteSet(DOMAIN m)
        BY <4>1, <4>2, FS_Subset DEF EntriesFit
      <4> QED BY <4>1, <4>2, <4>3 DEF EntriesFit, Ordered
    <3> HIDE DEF m
    <3> QED BY <1>2, <3>3, <3>4, DenseLists
  <2>2. CASE block.type = "sparse"
    <3> DEFINE s == block.cells
    <3>1. SparseGood(block) /\ s \in Seq(Pair) /\ Ascending(s)
      BY <1>1, <2>2, SparseIs DEF LeafGood, SparseGood
    <3>2. EntriesOf(block) = MapOf(s)
      BY <1>1, <3>1, SparseEntries
    <3> DEFINE t == SubSeq(s, Search(s, b) + 1, Search(s, e))
    <3>3. call'.answer = [i \in DOMAIN t |-> [key |-> t[i].key, datum |-> t[i].value]]
      BY <2>2 DEF BatchGet, Called
    <3> HIDE DEF s
    <3>4. Lists([i \in DOMAIN t |-> [key |-> t[i].key, datum |-> t[i].value]], Part(MapOf(s), b, e))
      BY <1>2, <3>1, SparseLists
    <3> HIDE DEF t
    <3> QED BY <3>2, <3>3, <3>4
  <2> QED BY <1>1, <2>1, <2>2 DEF LeafGood
<1>5. m = Leaf!Part(EntriesOf(block), call'.arg[1], call'.arg[2])
  BY <1>3, SameRules
<1> HIDE DEF m
<1> DEFINE answer == call'.answer
           found == {[key |-> k, datum |-> m[k]] : k \in DOMAIN m}
<1>6. /\ answer \in Seq(found) /\ Leaf!Range(answer) = found
      /\ \A i, j \in DOMAIN answer : i < j => answer[i].key < answer[j].key
  BY <1>4 DEF Lists, EntryRecords, Leaf!Range
<1>7. UNCHANGED <<EntriesOf(block), block.lower, block.upper, block.type>>
  BY <1>3
<1> HIDE DEF answer
<1> QED BY <1>3, <1>5, <1>6, <1>7 DEF Leaf!Read, Leaf!leafVars, answer

LEMMA StepMaps ==
  ASSUME HalvesFit(Splitter)
  PROVE  IInv /\ [Next]_vars
           => [Leaf!Next]_<<EntriesOf(block), block.lower, block.upper, block.type,
                            useDense, splitter, call.op, call>>
<1> DEFINE mapped == <<EntriesOf(block), block.lower, block.upper, block.type,
                       useDense, splitter, call.op, call>>
<1> SUFFICES ASSUME IInv, [Next]_vars PROVE [Leaf!Next]_mapped
  OBVIOUS
<1>1. ASSUME NEW key \in block.lower..block.upper-1, NEW datum \in Value, PutEntry(key, datum)
      PROVE  Leaf!Next
  BY <1>1, PutMaps DEF Leaf!Next
<1>2. ASSUME NEW key \in block.lower..block.upper-1, Get(key) PROVE Leaf!Next
  BY <1>2, GetMaps DEF Leaf!Next
<1>3. ASSUME NEW b \in 0..EndsBy, NEW e \in 0..EndsBy, b < e, BatchGet(b, e) PROVE Leaf!Next
  BY <1>3, BatchGetMaps DEF Leaf!Next
<1>4. ASSUME Reload PROVE Leaf!Next
  <2>1. /\ EntriesOf(block') = EntriesOf(block) /\ block'.lower = block.lower
        /\ block'.upper = block.upper /\ block'.type = block.type
        /\ call'.op = "reload" /\ UNCHANGED <<useDense, splitter>>
    BY <1>4, ReloadKeeps DEF Called
  <2> QED BY <2>1 DEF Leaf!Next, Leaf!Read, Leaf!leafVars
<1>5. CASE UNCHANGED vars
  BY <1>5 DEF vars
<1> HIDE DEF mapped
<1> QED BY <1>1, <1>2, <1>3, <1>4, <1>5 DEF Next, mapped

(* LeafBlock.ImplementsLeaf: a leaf holds exactly what was put into it,     *)
(* answers put as its format and the keys say and every get and batchGet    *)
(* with its entries, in order, and each half of a split the entries within  *)
(* its own bounds.                                                          *)
THEOREM LeafImplementsStore ==
  ASSUME HalvesFit(Splitter)
  PROVE  Spec => ImplementsLeaf
<1>1. Init => Leaf!Init
  BY InitMaps
<1>2. IInv /\ [Next]_vars
        => [Leaf!Next]_<<Leaf!leafVars, useDense, splitter, call.op, call>>
  BY StepMaps DEF Leaf!leafVars
<1> QED BY <1>1, <1>2, AlwaysIInv, PTL DEF Spec, ImplementsLeaf, Leaf!Spec
=============================================================================
