---------------------- MODULE DirectlyMappedArrayProofs ----------------------
(***************************************************************************)
(* The array keeps its types and its count, and implements ArrayStore, for *)
(* every block size, length, set of data and bound on batches.             *)
(*                                                                         *)
(* The inductive invariant AInv says that a cached block is allocated and, *)
(* if clean, is the page on disk; that nnz is the size of the map; that    *)
(* what is left of a range lies on pages without a block; and that recent  *)
(* has what is seen and what a crash would bring back.  From it: first     *)
(* what each action does to the frames and to the map, then AInv action by *)
(* action, then what the loops of the gets compute, then the refinement.   *)
(***************************************************************************)
EXTENDS DirectlyMappedArrayHistory, FiniteSetTheorems, WellFoundedInduction, TLAPS

(* A nonempty set of numbers from some point on has a least element. *)
LEMMA LeastOf ==
  ASSUME NEW lo \in Int, NEW S \in SUBSET Int, S # {}, \A n \in S : n >= lo
  PROVE  \E m \in S : \A n \in S : m <= n
<1> DEFINE T == {n - lo : n \in S}
<1>0. \A n \in S : n \in Int /\ n - lo \in Nat
  OBVIOUS
<1>1. T \in SUBSET Nat /\ T # {}
  BY <1>0
<1>2. PICK m \in T : \A n \in T : ~ (<<n, m>> \in OpToRel(<, Nat))
  BY <1>1, NatLessThanWellFounded, WFMin
<1>3. \A n \in T : ~ (n < m)
  BY <1>1, <1>2 DEF OpToRel
<1>4. PICK k \in S : m = k - lo
  BY <1>2
<1>5. \A n \in S : n - lo \in T
  OBVIOUS
<1>6. ASSUME NEW n \in S PROVE k <= n
  <2>1. n \in Int /\ k \in Int /\ ~ (n - lo < k - lo)
    BY <1>0, <1>3, <1>4, <1>5
  <2> QED BY <2>1
<1> QED BY <1>6

(* Induction up to a bound. *)
LEMMA UpTo ==
  ASSUME NEW lo \in Int, NEW hi \in Int, NEW S, lo \in S,
         \A i \in lo+1..hi : i-1 \in S => i \in S
  PROVE  \A i \in lo..hi : i \in S
<1> DEFINE T == {i \in lo..hi : i \notin S}
<1>1. SUFFICES ASSUME T # {} PROVE FALSE
  OBVIOUS
<1>2. T \in SUBSET Int /\ \A n \in T : n >= lo
  OBVIOUS
<1>3. PICK m \in T : \A n \in T : m <= n
  <2> HIDE DEF T
  <2> QED BY <1>1, <1>2, LeastOf
<1>4. m \in lo+1..hi /\ m - 1 \in lo..hi /\ ~(m <= m - 1)
  BY <1>3
<1> QED BY <1>3, <1>4

(* A function given by its first value and a step from each value to the   *)
(* next one exists.                                                        *)
StepsIn(X, lo, hi, step) == \A i \in lo+1..hi : \A y \in X : step[i][y] \in X
Iterates(g, lo, hi, x, step) == g[lo] = x /\ \A i \in lo+1..hi : g[i] = step[i][g[i-1]]

LEMMA RecursionExists ==
  ASSUME NEW lo \in Int, NEW hi \in Int, lo <= hi, NEW X, NEW x \in X,
         NEW step, StepsIn(X, lo, hi, step)
  PROVE  \E g \in [lo..hi -> X] : Iterates(g, lo, hi, x, step)
<1> DEFINE S == {n \in lo..hi : \E g \in [lo..n -> X] : Iterates(g, lo, n, x, step)}
<1>1. lo \in S
  <2> DEFINE g == [i \in lo..lo |-> x]
  <2>1. g \in [lo..lo -> X] /\ g[lo] = x /\ lo+1..lo = {}
    OBVIOUS
  <2> HIDE DEF g
  <2>2. Iterates(g, lo, lo, x, step)
    BY <2>1 DEF Iterates
  <2> QED BY <2>1, <2>2
<1>2. ASSUME NEW n \in lo+1..hi, n-1 \in S PROVE n \in S
  <2>1. PICK g \in [lo..n-1 -> X] : Iterates(g, lo, n-1, x, step)
    BY <1>2
  <2> DEFINE f == [i \in lo..n |-> IF i = n THEN step[n][g[n-1]] ELSE g[i]]
  <2>2. g[n-1] \in X /\ step[n][g[n-1]] \in X
    BY DEF StepsIn
  <2>3. f \in [lo..n -> X]
    BY <2>2
  <2>4. f[n] = step[n][g[n-1]] /\ \A i \in lo..n-1 : f[i] = g[i]
    OBVIOUS
  <2> HIDE DEF f
  <2>5. f[lo] = x
    BY <2>1, <2>4 DEF Iterates
  <2>6. ASSUME NEW i \in lo+1..n PROVE f[i] = step[i][f[i-1]]
    <3>1. CASE i = n
      <4>1. f[n-1] = g[n-1]
        BY <2>4
      <4> QED BY <2>4, <3>1, <4>1
    <3>2. CASE i # n
      <4>1. i \in lo+1..n-1 /\ i \in lo..n-1 /\ i-1 \in lo..n-1
        BY <3>2
      <4>2. f[i] = g[i] /\ f[i-1] = g[i-1] /\ g[i] = step[i][g[i-1]]
        BY <2>1, <2>4, <4>1 DEF Iterates
      <4> QED BY <4>2
    <3> QED BY <3>1, <3>2
  <2>7. Iterates(f, lo, n, x, step)
    BY <2>5, <2>6 DEF Iterates
  <2> QED BY <2>3, <2>7
<1>3. \A n \in lo..hi : n \in S
  <2> HIDE DEF S
  <2> QED BY <1>1, <1>2, UpTo
<1> QED BY <1>3

(* The greatest of some numbers below a bound. *)
LEMMA GreatestOf ==
  ASSUME NEW hi \in Int, NEW S \in SUBSET Int, S # {}, \A n \in S : n <= hi
  PROVE  /\ Max(S) \in S
         /\ \A n \in S : n <= Max(S)
<1> DEFINE T == {-n : n \in S}
<1>1. \A n \in S : n \in Int /\ -n >= -hi
  OBVIOUS
<1>2. T # {} /\ \A n \in T : n \in Int /\ n >= -hi
  <2>1. PICK k \in S : TRUE
    OBVIOUS
  <2>2. -k \in T
    OBVIOUS
  <2> QED BY <1>1, <2>2
<1>3. PICK m \in T : \A n \in T : m <= n
  <2> HIDE DEF T
  <2>1. T \in SUBSET Int /\ -hi \in Int
    BY <1>2
  <2> QED BY <1>2, <2>1, LeastOf
<1>4. PICK k \in S : m = -k
  BY <1>3
<1>5. ASSUME NEW n \in S PROVE k >= n
  <2>1. n \in Int /\ k \in Int /\ m <= -n
    BY <1>1, <1>3
  <2> QED BY <1>4, <2>1
<1>6. \E x \in S : \A y \in S : x >= y
  BY <1>5
<1>7. Max(S) \in S /\ \A y \in S : Max(S) >= y
  BY <1>6 DEF Max
<1> QED BY <1>1, <1>7

-----------------------------------------------------------------------------
(* The pages, and the keys in them. *)
Pages == BlockPage \cup {HeaderPage}
Offset == 0..Cap-1

(* Pages, the keys of their blocks, and where in its block a key is. *)
LEMMA PageFacts ==
  /\ BlockPage \subseteq Nat \ {0} /\ HeaderPage \notin BlockPage /\ INVALID_PID \notin BlockPage
  /\ \A p \in BlockPage : Lower(p) \in Nat /\ Upper(p) = Lower(p) + Cap
  /\ \A k \in Key : findPage(k) \in BlockPage /\ k - Lower(findPage(k)) \in Offset
  /\ \A k \in Key, p \in BlockPage : findPage(k) = p <=> k - Lower(p) \in Offset
  /\ \A k, l \in Key : k <= l => findPage(k) <= findPage(l)
<1> USE CapAssumption, EndsByAssumption
<1>1. \A k \in Nat : /\ k \div Cap \in Nat
                     /\ Cap * (k \div Cap) <= k
                     /\ k < Cap * (k \div Cap) + Cap
  OBVIOUS
<1>2. \A k, l \in Nat : k <= l => k \div Cap <= l \div Cap
  OBVIOUS
<1>3. \A q \in Nat, i \in Offset : (q * Cap + i) \div Cap = q
  BY DEF Offset
<1>4. BlockPage \subseteq Nat \ {0} /\ HeaderPage \notin BlockPage /\ INVALID_PID \notin BlockPage
  BY <1>1 DEF BlockPage, findPage, HeaderPage, INVALID_PID
<1>5. \A p \in BlockPage : p - 1 \in Nat /\ Lower(p) \in Nat /\ Upper(p) = Lower(p) + Cap
  BY <1>4 DEF Lower, Upper
<1>6. \A k, l \in Key : k <= l => findPage(k) <= findPage(l)
  BY <1>1, <1>2 DEF Key, findPage
<1>7. ASSUME NEW k \in Key PROVE findPage(k) \in BlockPage /\ k - Lower(findPage(k)) \in Offset
  <2>1. k \in Nat /\ EndsBy - 1 \in Nat /\ k <= EndsBy - 1
    BY DEF Key
  <2>2. findPage(k) \in Nat \ {0} /\ findPage(EndsBy - 1) \in Nat /\ findPage(k) <= findPage(EndsBy - 1)
    BY <1>1, <1>2, <2>1 DEF findPage
  <2>3. findPage(k) - 1 = k \div Cap
    BY <1>1, <2>1 DEF findPage
  <2> QED BY <1>1, <2>1, <2>2, <2>3 DEF BlockPage, Lower, Offset
<1>8. ASSUME NEW k \in Key, NEW p \in BlockPage
      PROVE  findPage(k) = p <=> k - Lower(p) \in Offset
  <2>1. ASSUME k - Lower(p) \in Offset PROVE findPage(k) = p
    <3>1. k = (p - 1) * Cap + (k - Lower(p))
      BY <1>5 DEF Lower, Key
    <3>2. k \div Cap = p - 1
      BY <1>3, <1>5, <2>1, <3>1
    <3> QED BY <1>4, <3>2 DEF findPage
  <2> QED BY <1>7, <2>1
<1> QED BY <1>4, <1>5, <1>6, <1>7, <1>8

-----------------------------------------------------------------------------
(* Sequences of entries, and what they leave at a key. *)
LEMMA LastOwn ==
  ASSUME NEW es \in Seq(Entry), NEW own \in SUBSET DOMAIN es, own # {}
  PROVE  /\ Max(own) \in own
         /\ es[Max(own)].key \in 0..EndsBy
         /\ es[Max(own)].datum \in Value
         /\ \A j \in own : j <= Max(own)
<1>1. own \in SUBSET Int /\ Len(es) \in Int /\ \A j \in own : j <= Len(es)
  OBVIOUS
<1>2. Max(own) \in own /\ \A j \in own : j <= Max(own)
  BY <1>1, GreatestOf
<1>3. es[Max(own)] \in Entry
  BY <1>2
<1> QED BY <1>2, <1>3 DEF Entry

(* A block that takes entries is a block. *)
LEMMA BlockPutType ==
  ASSUME NEW image \in Block, NEW p, NEW es \in Seq(Entry)
  PROVE  BlockBatchPut(image, p, es) \in Block
<1>1. DOMAIN image = Offset /\ \A i \in Offset : image[i] \in Value
  BY DEF Block, Offset
<1> DEFINE own(i) == {j \in DOMAIN es : es[j].key - Lower(p) = i}
<1>2. \A i \in Offset : own(i) # {} => es[Max(own(i))].datum \in Value
  <2> TAKE i \in Offset
  <2>1. own(i) \in SUBSET DOMAIN es
    OBVIOUS
  <2> QED BY <2>1, LastOwn
<1>3. BlockBatchPut(image, p, es) =
        [i \in Offset |-> IF own(i) = {} THEN image[i] ELSE es[Max(own(i))].datum]
  BY <1>1 DEF BlockBatchPut
<1> QED BY <1>1, <1>2, <1>3 DEF Block, Offset

Own(es, k) == {i \in DOMAIN es : es[i].key = k}

(* The store's definition, with this module's Max. *)
LEMMA StoreAfter ==
  ASSUME NEW m, NEW es
  PROVE  /\ Store!After(m, es) = [k \in Key |-> Store!After(m, es)[k]]
         /\ \A k \in Key : Store!After(m, es)[k] =
                            IF Own(es, k) = {} THEN m[k] ELSE es[Max(Own(es, k))].datum
<1>1. \A S : Store!Max(S) = Max(S)
  BY DEF Store!Max, Max
<1>2. \A k \in Key : Store!After(m, es)[k] =
                     IF Own(es, k) = {} THEN m[k] ELSE es[Store!Max(Own(es, k))].datum
  BY DEF Store!After, Own
<1>3. Store!After(m, es) = [k \in Key |-> Store!After(m, es)[k]]
  BY DEF Store!After
<1> QED BY <1>1, <1>2, <1>3

(* A map that takes entries is a map. *)
LEMMA AfterType ==
  ASSUME NEW m \in [Key -> Value], NEW es \in Seq(Entry)
  PROVE  Store!After(m, es) \in [Key -> Value]
<1> DEFINE own(k) == Own(es, k)
<1>1. \A k \in Key : own(k) # {} => es[Max(own(k))].datum \in Value
  <2> TAKE k \in Key
  <2>1. own(k) \in SUBSET DOMAIN es
    BY DEF Own
  <2> QED BY <2>1, LastOwn
<1>2. /\ Store!After(m, es) = [k \in Key |-> Store!After(m, es)[k]]
      /\ \A k \in Key : Store!After(m, es)[k] = IF own(k) = {} THEN m[k] ELSE es[Max(own(k))].datum
  BY StoreAfter
<1> QED BY <1>1, <1>2

(* A map and the image of page p agree, and after a batch they still do. *)
Shows(image, p, m) == \A k \in Key : findPage(k) = p => image[k - Lower(p)] = m[k]
OnPage(es, p) == \A i \in DOMAIN es : es[i].key \in Key /\ findPage(es[i].key) = p

LEMMA ShowsAfter ==
  ASSUME NEW image \in Block, NEW p \in BlockPage, NEW m \in [Key -> Value], NEW es \in Seq(Entry),
         Shows(image, p, m)
  PROVE  Shows(BlockBatchPut(image, p, es), p, Store!After(m, es))
<1> SUFFICES ASSUME NEW k \in Key, findPage(k) = p
             PROVE  BlockBatchPut(image, p, es)[k - Lower(p)] = Store!After(m, es)[k]
  BY DEF Shows
<1> DEFINE own == Own(es, k)
           here == {j \in DOMAIN es : es[j].key - Lower(p) = k - Lower(p)}
<1>1. k - Lower(p) \in Offset /\ Lower(p) \in Int /\ k \in Int
  BY PageFacts DEF Key
<1>2. \A j \in DOMAIN es : es[j].key \in Int
  <2> TAKE j \in DOMAIN es
  <2>1. es[j] \in Entry
    OBVIOUS
  <2> QED BY <2>1 DEF Entry
<1>3. own = here
  BY <1>1, <1>2 DEF Own
<1>4. DOMAIN image = Offset
  BY DEF Block, Offset
<1>5. BlockBatchPut(image, p, es)[k - Lower(p)] =
        IF here = {} THEN image[k - Lower(p)] ELSE es[Max(here)].datum
  BY <1>1, <1>4 DEF BlockBatchPut
<1>6. Store!After(m, es)[k] = IF own = {} THEN m[k] ELSE es[Max(own)].datum
  BY StoreAfter
<1>7. image[k - Lower(p)] = m[k]
  BY DEF Shows
<1> QED BY <1>3, <1>5, <1>6, <1>7

(* The other keys keep their data. *)
LEMMA AfterElsewhere ==
  ASSUME NEW m, NEW p, NEW es \in Seq(Entry), OnPage(es, p), NEW k \in Key, findPage(k) # p
  PROVE  Store!After(m, es)[k] = m[k]
<1>1. Own(es, k) = {}
  BY DEF OnPage, Own
<1> QED BY <1>1, StoreAfter

(* One entry after another. *)
LEMMA AfterPrefix ==
  ASSUME NEW m, NEW es \in Seq(Entry), NEW i \in 1..Len(es), NEW k \in Key
  PROVE  Store!After(m, SubSeq(es, 1, i))[k] =
           IF es[i].key = k THEN es[i].datum ELSE Store!After(m, SubSeq(es, 1, i-1))[k]
<1> DEFINE a == SubSeq(es, 1, i)
           b == SubSeq(es, 1, i-1)
           A == Own(a, k)
           B == Own(b, k)
<1>1. /\ a \in Seq(Entry) /\ DOMAIN a = 1..i /\ \A j \in 1..i : a[j] = es[j]
      /\ b \in Seq(Entry) /\ DOMAIN b = 1..i-1 /\ \A j \in 1..i-1 : b[j] = es[j]
  OBVIOUS
<1>2. /\ Store!After(m, a)[k] = IF A = {} THEN m[k] ELSE a[Max(A)].datum
      /\ Store!After(m, b)[k] = IF B = {} THEN m[k] ELSE b[Max(B)].datum
  <2> HIDE DEF a, b
  <2> QED BY StoreAfter
<1> HIDE DEF a, b
<1>3. CASE es[i].key = k
  <2>1. i \in A /\ A \in SUBSET DOMAIN a
    BY <1>1, <1>3 DEF Own
  <2>2. Max(A) \in A /\ i <= Max(A)
    <3> HIDE DEF A
    <3> QED BY <1>1, <2>1, LastOwn
  <2>3. Max(A) = i
    BY <1>1, <2>1, <2>2
  <2> QED BY <1>1, <1>2, <1>3, <2>1, <2>3 DEF a
<1>4. CASE es[i].key # k
  <2>1. A = B /\ B \in SUBSET DOMAIN b
    BY <1>1, <1>4 DEF Own
  <2>2. B # {} => Max(B) \in B
    <3> HIDE DEF B
    <3> QED BY <1>1, <2>1, LastOwn
  <2>3. B # {} => a[Max(B)] = b[Max(B)]
    <3> HIDE DEF B
    <3>1. B # {} => Max(B) \in 1..i-1 /\ Max(B) \in 1..i
      BY <1>1, <2>1, <2>2
    <3> QED BY <1>1, <3>1
  <2>4. Store!After(m, a)[k] = Store!After(m, b)[k]
    <3> HIDE DEF A, B
    <3> QED BY <1>2, <2>1, <2>3
  <2> QED BY <1>4, <2>4 DEF a, b
<1> QED BY <1>3, <1>4

(* Nothing, and everything. *)
LEMMA AfterEnds ==
  ASSUME NEW m \in [Key -> Value], NEW es \in Seq(Entry)
  PROVE  Store!After(m, SubSeq(es, 1, 0)) = m /\ SubSeq(es, 1, Len(es)) = es
<1>1. DOMAIN SubSeq(es, 1, 0) = {}
  OBVIOUS
<1>2. \A k \in Key : Own(SubSeq(es, 1, 0), k) = {}
  BY <1>1 DEF Own
<1>3. Store!After(m, SubSeq(es, 1, 0)) = [k \in Key |-> m[k]]
  BY <1>2, StoreAfter
<1> QED BY <1>3

-----------------------------------------------------------------------------
(* How many entries a map has, and how a put changes it. *)
Nonzero(m) == {k \in Key : m[k] # Default}
Size(m) == Cardinality(Nonzero(m))
Delta(old, new) == CASE old # Default /\ new = Default -> -1
                     [] old = Default /\ new # Default -> 1
                     [] OTHER -> 0

(* The size of a map is at most the number of keys. *)
LEMMA SizeType ==
  ASSUME NEW m
  PROVE  IsFiniteSet(Nonzero(m)) /\ Size(m) \in 0..EndsBy
<1>1. IsFiniteSet(Key) /\ Cardinality(Key) = EndsBy
  BY EndsByAssumption, FS_Interval DEF Key
<1>2. Nonzero(m) \in SUBSET Key
  BY DEF Nonzero
<1>3. IsFiniteSet(Nonzero(m)) /\ Cardinality(Nonzero(m)) <= EndsBy
  BY <1>1, <1>2, FS_Subset
<1> QED BY <1>3, FS_CardinalityType, EndsByAssumption DEF Size

(* One datum changes the size by what Delta says. *)
LEMMA SizeStep ==
  ASSUME NEW m, NEW n, NEW k \in Key, \A l \in Key \ {k} : n[l] = m[l]
  PROVE  Size(n) = Size(m) + Delta(m[k], n[k])
<1>1. IsFiniteSet(Nonzero(m)) /\ Size(m) \in Int
  BY SizeType
<1>2. CASE m[k] # Default /\ n[k] = Default
  <2>1. Nonzero(n) = Nonzero(m) \ {k} /\ k \in Nonzero(m)
    BY <1>2 DEF Nonzero
  <2>2. Size(n) = Size(m) - 1
    BY <1>1, <2>1, FS_RemoveElement DEF Size
  <2> QED BY <1>1, <1>2, <2>2 DEF Delta
<1>3. CASE m[k] = Default /\ n[k] # Default
  <2>1. Nonzero(n) = Nonzero(m) \cup {k} /\ k \notin Nonzero(m)
    BY <1>3 DEF Nonzero
  <2>2. Size(n) = Size(m) + 1
    BY <1>1, <2>1, FS_AddElement DEF Size
  <2> QED BY <1>1, <1>3, <2>2 DEF Delta
<1>4. CASE (m[k] = Default) <=> (n[k] = Default)
  <2>1. Nonzero(n) = Nonzero(m)
    BY <1>4 DEF Nonzero
  <2> QED BY <1>1, <1>4, <2>1 DEF Delta, Size
<1> QED BY <1>2, <1>3, <1>4

(* What a batch adds to the count of a block is what it adds to the map. *)
LEMMA BatchChangeIs ==
  ASSUME NEW image \in Block, NEW p \in BlockPage, NEW m \in [Key -> Value], NEW es \in Seq(Entry),
         Shows(image, p, m), OnPage(es, p)
  PROVE  BatchChange(image, p, es) = Size(Store!After(m, es)) - Size(m)
<1> DEFINE Before(i) == SubSeq(es, 1, i)
           sum[i \in 0..Len(es)] ==
             IF i = 0 THEN 0
             ELSE sum[i-1] + Change(BlockBatchPut(image, p, SubSeq(es, 1, i-1)), p, es[i])
           c(i) == Change(BlockBatchPut(image, p, SubSeq(es, 1, i-1)), p, es[i])
           h == [i \in 0..Len(es) |-> Size(Store!After(m, Before(i))) - Size(m)]
<1>1. \A i \in 0..Len(es) : Before(i) \in Seq(Entry) /\ Size(Store!After(m, Before(i))) \in Int
  BY SizeType
<1>2. ASSUME NEW i \in 1..Len(es)
      PROVE  Size(Store!After(m, Before(i))) = Size(Store!After(m, Before(i-1))) + c(i)
  <2>1. es[i] \in Entry /\ es[i].key \in Key /\ findPage(es[i].key) = p
    BY DEF OnPage
  <2>2. Shows(BlockBatchPut(image, p, Before(i-1)), p, Store!After(m, Before(i-1)))
    <3>1. i-1 \in 0..Len(es)
      OBVIOUS
    <3>2. Before(i-1) \in Seq(Entry)
      BY <1>1, <3>1
    <3> HIDE DEF Before
    <3> QED BY <3>2, ShowsAfter
  <2>3. c(i) = Delta(Store!After(m, Before(i-1))[es[i].key], es[i].datum)
    BY <2>1, <2>2 DEF Shows, Change, Delta
  <2>4. /\ Store!After(m, Before(i))[es[i].key] = es[i].datum
        /\ \A l \in Key \ {es[i].key} : Store!After(m, Before(i))[l] = Store!After(m, Before(i-1))[l]
    <3>1. ASSUME NEW l \in Key
          PROVE  Store!After(m, Before(i))[l]
                   = IF es[i].key = l THEN es[i].datum ELSE Store!After(m, Before(i-1))[l]
      <4>1. i \in 1..Len(es) /\ es \in Seq(Entry)
        OBVIOUS
      <4> QED BY ZenonT(40), <4>1, AfterPrefix
    <3> HIDE DEF Before
    <3> QED BY <2>1, <3>1
  <2> DEFINE m1 == Store!After(m, Before(i-1))
             m2 == Store!After(m, Before(i))
  <2>5. Size(m2) = Size(m1) + Delta(m1[es[i].key], m2[es[i].key])
    <3>1. \A l \in Key \ {es[i].key} : m2[l] = m1[l]
      BY <2>4
    <3> HIDE DEF m1, m2
    <3> QED BY ZenonT(40), <2>1, <3>1, SizeStep
  <2> HIDE DEF Before, c
  <2> QED BY <2>3, <2>4, <2>5
<1>3. \A i \in 1..Len(es) : c(i) \in Int
  BY DEF Change
<1>4. Store!After(m, Before(0)) = m /\ Before(Len(es)) = es /\ Size(m) \in Int
  BY AfterEnds, SizeType
<1>5. /\ h[0] = 0
      /\ \A i \in 1..Len(es) : h[i] = h[i-1] + c(i)
      /\ h[Len(es)] = Size(Store!After(m, es)) - Size(m)
  <2> DEFINE z(i) == Size(Store!After(m, Before(i)))
  <2>1. /\ \A i \in 0..Len(es) : z(i) \in Int
        /\ \A i \in 1..Len(es) : z(i) = z(i-1) + c(i)
        /\ z(0) = Size(m) /\ z(Len(es)) = Size(Store!After(m, es)) /\ Size(m) \in Int
    BY <1>1, <1>2, <1>4
  <2>2. \A i \in 0..Len(es) : h[i] = z(i) - Size(m)
    OBVIOUS
  <2> HIDE DEF h, z, c, Before
  <2>3. h[0] = 0 /\ h[Len(es)] = Size(Store!After(m, es)) - Size(m)
    BY <2>1, <2>2
  <2>4. ASSUME NEW i \in 1..Len(es) PROVE h[i] = h[i-1] + c(i)
    <3>1. i \in 0..Len(es) /\ i - 1 \in 0..Len(es)
      OBVIOUS
    <3>2. z(i) = z(i-1) + c(i) /\ z(i-1) \in Int /\ c(i) \in Int /\ Size(m) \in Int
      BY <1>3, <2>1, <3>1
    <3>3. h[i] = z(i) - Size(m) /\ h[i-1] = z(i-1) - Size(m)
      BY <2>2, <3>1
    <3> QED BY <3>2, <3>3
  <2> QED BY <2>3, <2>4
<1>6. h = [i \in 0..Len(es) |-> IF i = 0 THEN 0 ELSE h[i-1] + c(i)]
  <2>1. \A i \in 0..Len(es) : h[i] = IF i = 0 THEN 0 ELSE h[i-1] + c(i)
    <3> HIDE DEF h, c
    <3> QED BY <1>5
  <2> HIDE DEF c
  <2> QED BY <2>1
<1>7. sum = [i \in 0..Len(es) |-> IF i = 0 THEN 0 ELSE sum[i-1] + c(i)]
  <2> HIDE DEF h
  <2> QED BY <1>6
<1>8. sum[0] = 0 /\ \A i \in 1..Len(es) : sum[i] = sum[i-1] + c(i)
  <2> HIDE DEF sum, c
  <2> QED BY <1>7
<1>9. \A i \in 0..Len(es) : sum[i] = h[i]
  <2> HIDE DEF sum, h, c
  <2>1. \A i \in 0+1..Len(es) : sum[i-1] = h[i-1] => sum[i] = h[i]
    BY <1>5, <1>8
  <2>2. 0 \in Int /\ Len(es) \in Int /\ sum[0] = h[0]
    BY <1>5, <1>8
  <2> DEFINE S == {i \in 0..Len(es) : sum[i] = h[i]}
  <2>3. 0 \in S /\ \A i \in 0+1..Len(es) : i-1 \in S => i \in S
    BY <2>1, <2>2
  <2>4. \A i \in 0..Len(es) : i \in S
    <3> HIDE DEF S
    <3> QED BY <2>2, <2>3, UpTo
  <2> QED BY <2>4
<1>10. BatchChange(image, p, es) = sum[Len(es)]
  BY DEF BatchChange
<1> HIDE DEF sum, h, c
<1> QED BY <1>5, <1>9, <1>10

-----------------------------------------------------------------------------
(* The frames of the pool, and the pages on disk. *)
Nnz == 0..CountMod-1
BlockFrame == [image : Block, dirty : BOOLEAN]
HeaderFrame == [image : Nnz, dirty : BOOLEAN]

FramesOK(f) ==
  /\ f \in [Pages -> BlockFrame \cup HeaderFrame \cup {Absent}]
  /\ \A p \in BlockPage : f[p] \in BlockFrame \cup {Absent}
  /\ f[HeaderPage] \in HeaderFrame
DiskOK(d) ==
  /\ d \in [Pages -> Block \cup Nnz]
  /\ \A p \in BlockPage : d[p] \in Block
  /\ d[HeaderPage] \in Nnz

(* g is f but for page p. *)
SameBut(f, g, p) == \A q \in Pages \ {p} : g[q] = f[q]

(* A frame is made of its image and its dirty bit. *)
LEMMA FrameFields ==
  /\ Absent \notin BlockFrame /\ Absent \notin HeaderFrame
  /\ \A x \in BlockFrame : x.image \in Block /\ x.dirty \in BOOLEAN
  /\ \A x \in HeaderFrame : x.image \in Nnz /\ x.dirty \in BOOLEAN
  /\ \A img \in Block, d \in BOOLEAN : Frame(img, d) \in BlockFrame
  /\ \A img \in Nnz, d \in BOOLEAN : Frame(img, d) \in HeaderFrame
  /\ \A img, d : Frame(img, d).image = img /\ Frame(img, d).dirty = d
BY AbsentAssumption DEF BlockFrame, HeaderFrame, Frame, Block, Nnz

(* Setting one field of a frame keeps the other. *)
LEMMA SetFields ==
  ASSUME NEW x \in BlockFrame \cup HeaderFrame, NEW img, NEW d
  PROVE  /\ [x EXCEPT !.image = img] = Frame(img, x.dirty)
         /\ [x EXCEPT !.dirty = d] = Frame(x.image, d)
BY DEF BlockFrame, HeaderFrame, Frame

(* One frame is replaced. *)
LEMMA ReplacedLemma ==
  ASSUME NEW f, FramesOK(f), NEW p \in BlockPage, NEW x \in BlockFrame \cup {Absent}
  PROVE  /\ FramesOK([f EXCEPT ![p] = x])
         /\ [f EXCEPT ![p] = x][p] = x
         /\ SameBut(f, [f EXCEPT ![p] = x], p)
BY PageFacts DEF FramesOK, SameBut, Pages

(* A frame may be given to any block page. *)
LEMMA InstalledLemma ==
  ASSUME NEW f, FramesOK(f), NEW p \in BlockPage, NEW img \in Block, NEW d \in BOOLEAN
  PROVE  /\ FramesOK([f EXCEPT ![p] = Frame(img, d)])
         /\ [f EXCEPT ![p] = Frame(img, d)][p] = Frame(img, d)
         /\ SameBut(f, [f EXCEPT ![p] = Frame(img, d)], p)
         /\ InPool([f EXCEPT ![p] = Frame(img, d)], p)
<1>1. Frame(img, d) \in BlockFrame /\ Frame(img, d) # Absent
  BY FrameFields
<1> QED BY <1>1, ReplacedLemma DEF InPool

(* Reading a page puts it in the pool, clean, unless it is there. *)
LEMMA FetchedLemma ==
  ASSUME NEW f, FramesOK(f), NEW d, DiskOK(d), NEW p \in BlockPage
  PROVE  /\ FramesOK(Fetched(f, d, p))
         /\ InPool(Fetched(f, d, p), p)
         /\ SameBut(f, Fetched(f, d, p), p)
         /\ InPool(f, p) => Fetched(f, d, p)[p] = f[p]
         /\ ~InPool(f, p) => Fetched(f, d, p)[p].image = d[p]
<1>1. CASE InPool(f, p)
  BY <1>1 DEF Fetched, SameBut
<1>2. CASE ~InPool(f, p)
  <2>1. d[p] \in Block
    BY DEF DiskOK
  <2>2. Fetched(f, d, p) = [f EXCEPT ![p] = Frame(d[p], FALSE)]
    BY <1>2 DEF Fetched
  <2>3. \A b \in BOOLEAN : /\ FramesOK([f EXCEPT ![p] = Frame(d[p], b)])
                           /\ [f EXCEPT ![p] = Frame(d[p], b)][p] = Frame(d[p], b)
                           /\ SameBut(f, [f EXCEPT ![p] = Frame(d[p], b)], p)
                           /\ InPool([f EXCEPT ![p] = Frame(d[p], b)], p)
    BY <2>1, InstalledLemma
  <2>4. /\ FramesOK(Fetched(f, d, p))
        /\ InPool(Fetched(f, d, p), p)
        /\ SameBut(f, Fetched(f, d, p), p)
        /\ Fetched(f, d, p)[p] = Frame(d[p], FALSE)
    BY <2>2, <2>3, Zenon
  <2>5. Frame(d[p], FALSE).image = d[p]
    BY FrameFields
  <2>6. Fetched(f, d, p)[p].image = d[p]
    BY <2>4, <2>5
  <2>7. FramesOK(Fetched(f, d, p)) /\ InPool(Fetched(f, d, p), p) /\ SameBut(f, Fetched(f, d, p), p)
    BY <2>4, Zenon
  <2> QED BY <1>2, <2>6, <2>7
<1> QED BY <1>1, <1>2

(* The image of a cached page is written. *)
LEMMA ScribbledLemma ==
  ASSUME NEW f, FramesOK(f), NEW p \in BlockPage, InPool(f, p), NEW img \in Block
  PROVE  /\ FramesOK(Scribbled(f, p, img))
         /\ Scribbled(f, p, img)[p] = Frame(img, f[p].dirty)
         /\ SameBut(f, Scribbled(f, p, img), p)
         /\ InPool(Scribbled(f, p, img), p)
<1>1. f[p] \in BlockFrame /\ f[p].dirty \in BOOLEAN
  BY FrameFields DEF FramesOK, InPool
<1>2. [f[p] EXCEPT !.image = img] = Frame(img, f[p].dirty)
  BY <1>1, SetFields
<1>3. Scribbled(f, p, img) = [f EXCEPT ![p] = [f[p] EXCEPT !.image = img]]
  BY DEF Scribbled
<1> DEFINE d == f[p].dirty
<1>4. Scribbled(f, p, img) = [f EXCEPT ![p] = Frame(img, d)]
  BY <1>2, <1>3
<1>5. d \in BOOLEAN
  BY <1>1
<1> HIDE DEF d
<1>6. /\ FramesOK([f EXCEPT ![p] = Frame(img, d)])
      /\ [f EXCEPT ![p] = Frame(img, d)][p] = Frame(img, d)
      /\ SameBut(f, [f EXCEPT ![p] = Frame(img, d)], p)
      /\ InPool([f EXCEPT ![p] = Frame(img, d)], p)
  BY <1>5, InstalledLemma
<1>7. /\ FramesOK(Scribbled(f, p, img))
      /\ Scribbled(f, p, img)[p] = Frame(img, d)
      /\ SameBut(f, Scribbled(f, p, img), p)
      /\ InPool(Scribbled(f, p, img), p)
  BY <1>4, <1>6
<1> QED BY <1>7 DEF d

(* Setting the dirty bit changes nothing else. *)
LEMMA MarkLemma ==
  ASSUME NEW f, FramesOK(f), NEW p \in BlockPage, InPool(f, p), NEW d \in BOOLEAN
  PROVE  /\ FramesOK([f EXCEPT ![p].dirty = d])
         /\ [f EXCEPT ![p].dirty = d][p] = Frame(f[p].image, d)
         /\ SameBut(f, [f EXCEPT ![p].dirty = d], p)
         /\ InPool([f EXCEPT ![p].dirty = d], p)
<1>1. f[p] \in BlockFrame /\ f[p].image \in Block
  BY FrameFields DEF FramesOK, InPool
<1>2. [f[p] EXCEPT !.dirty = d] = Frame(f[p].image, d)
  BY <1>1, SetFields
<1>3. [f EXCEPT ![p].dirty = d] = [f EXCEPT ![p] = [f[p] EXCEPT !.dirty = d]]
  OBVIOUS
<1> QED BY <1>1, <1>2, <1>3, InstalledLemma

(* A block takes entries and is marked. *)
LEMMA AlteredLemma ==
  ASSUME NEW f, FramesOK(f), NEW p \in BlockPage, InPool(f, p), NEW es \in Seq(Entry)
  PROVE  /\ FramesOK(Altered(f, p, es))
         /\ Altered(f, p, es)[p].image = BlockBatchPut(f[p].image, p, es)
         /\ Altered(f, p, es)[p].dirty
         /\ SameBut(f, Altered(f, p, es), p)
         /\ InPool(Altered(f, p, es), p)
<1> DEFINE img == BlockBatchPut(f[p].image, p, es)
           g == Scribbled(f, p, img)
<1>1. f[p].image \in Block
  BY FrameFields DEF FramesOK, InPool
<1>2. img \in Block
  BY <1>1, BlockPutType
<1>3. FramesOK(g) /\ InPool(g, p) /\ SameBut(f, g, p) /\ g[p] = Frame(img, f[p].dirty)
  BY <1>2, ScribbledLemma
<1>4. g[p].image = img
  BY <1>3, FrameFields
<1>5. Altered(f, p, es) = [g EXCEPT ![p].dirty = TRUE]
  BY DEF Altered, Marked
<1> HIDE DEF g
<1>6. \A d \in BOOLEAN : /\ FramesOK([g EXCEPT ![p].dirty = d])
                         /\ [g EXCEPT ![p].dirty = d][p] = Frame(g[p].image, d)
                         /\ SameBut(g, [g EXCEPT ![p].dirty = d], p)
                         /\ InPool([g EXCEPT ![p].dirty = d], p)
  BY <1>3, MarkLemma
<1>7. /\ FramesOK(Altered(f, p, es))
      /\ Altered(f, p, es)[p] = Frame(img, TRUE)
      /\ SameBut(g, Altered(f, p, es), p)
      /\ InPool(Altered(f, p, es), p)
  BY <1>4, <1>5, <1>6, Zenon
<1>8. Frame(img, TRUE).image = img /\ Frame(img, TRUE).dirty
  BY FrameFields
<1> QED BY <1>3, <1>7, <1>8 DEF SameBut

(* The count goes up or down. *)
LEMMA CountedLemma ==
  ASSUME NEW f, FramesOK(f), NEW n \in Int
  PROVE  /\ FramesOK(Counted(f, n))
         /\ Counted(f, n)[HeaderPage].image = (f[HeaderPage].image + n) % CountMod
         /\ SameBut(f, Counted(f, n), HeaderPage)
<1> DEFINE x == f[HeaderPage]
           i == (x.image + n) % CountMod
<1>1. x \in HeaderFrame /\ x.image \in Nnz /\ x.dirty \in BOOLEAN
  BY FrameFields DEF FramesOK
<1>2. i \in Nnz
  BY <1>1, CountModAssumption, EndsByAssumption DEF Nnz
<1>3. [x EXCEPT !.image = i] = Frame(i, x.dirty) /\ Frame(i, x.dirty) \in HeaderFrame
  BY <1>1, <1>2, SetFields, FrameFields
<1>4. Counted(f, n) = [f EXCEPT ![HeaderPage] = [x EXCEPT !.image = i]]
  BY DEF Counted, Scribbled
<1>5. Frame(i, x.dirty).image = i
  BY FrameFields
<1> HIDE DEF i
<1>6. Counted(f, n) = [f EXCEPT ![HeaderPage] = Frame(i, x.dirty)]
  BY <1>3, <1>4
<1>7. FramesOK(Counted(f, n)) /\ Counted(f, n)[HeaderPage] = Frame(i, x.dirty) /\ SameBut(f, Counted(f, n), HeaderPage)
  BY <1>3, <1>6, PageFacts DEF FramesOK, SameBut, Pages
<1> QED BY <1>5, <1>7 DEF i

-----------------------------------------------------------------------------
(* The types, with the frames and the disk as functions on the pages. *)
JobOK ==
  /\ job \in [op : {"none", "batchPut", "batchPutVector", "batchPutRange"}, entries : Seq(Entry)]
  /\ job.entries = <<>> <=> job = NoJob
Types ==
  /\ bits \in SUBSET Pages
  /\ FramesOK(frame)
  /\ DiskOK(stored)
  /\ storedBits \in SUBSET Pages
  /\ phase \in {"ready", "flushing", "closing"}
  /\ JobOK

(* A cached block belongs to an allocated page. *)
Cached == \A p \in BlockPage : InPool(frame, p) => p \in bits

(* A clean one is the page on disk. *)
Clean == \A p \in BlockPage : InPool(frame, p) /\ ~frame[p].dirty => frame[p].image = stored[p]

(* The block that is seen at a page, and the map that the array shows. *)
At(p) == IF p \notin bits THEN EmptyBlock
         ELSE IF InPool(frame, p) THEN frame[p].image ELSE stored[p]
Val == [k \in Key |-> DatumAt(k)]
Shown ==
  /\ Val \in [Key -> Value]
  /\ \A p \in BlockPage : At(p) \in Block /\ Shows(At(p), p, Val)

(* Types is TypeOK with the frames as a function. *)
LEMMA TypesImplyTypeOK == Types => TypeOK
<1> SUFFICES ASSUME Types PROVE TypeOK
  OBVIOUS
<1>1. /\ bits \in SUBSET (BlockPage \cup {HeaderPage})
      /\ storedBits \in SUBSET (BlockPage \cup {HeaderPage})
      /\ phase \in {"ready", "flushing", "closing"}
      /\ job.entries \in Seq(Entry) /\ (job.entries = <<>> <=> job = NoJob)
  BY DEF Types, Pages, JobOK
<1>2. /\ \A p \in BlockPage : frame[p] \in FrameOf(Block) /\ stored[p] \in Block
      /\ stored[HeaderPage] \in 0..CountMod-1
  BY DEF Types, FramesOK, DiskOK, FrameOf, BlockFrame, Nnz
<1>3. frame[HeaderPage] \in HeaderFrame /\ frame[HeaderPage] # Absent
  BY FrameFields DEF Types, FramesOK
<1>4. frame[HeaderPage] \in FrameOf(0..CountMod-1) \ {Absent}
  BY <1>3 DEF FrameOf, HeaderFrame, Nnz
<1> QED BY <1>1, <1>2, <1>4 DEF TypeOK

(* What the array shows is a map, and each block shows its part of it. *)
LEMMA ShownLemma == Types => Shown
<1> SUFFICES ASSUME Types PROVE Shown
  OBVIOUS
<1>1. EmptyBlock \in Block /\ \A i \in Offset : EmptyBlock[i] = Default
  BY DefaultAssumption DEF EmptyBlock, Block, Offset
<1>2. ASSUME NEW p \in BlockPage PROVE At(p) \in Block
  BY <1>1, FrameFields DEF At, Types, FramesOK, DiskOK, InPool
<1>3. ASSUME NEW k \in Key
      PROVE  DatumAt(k) = At(findPage(k))[k - Lower(findPage(k))] /\ DatumAt(k) \in Value
  <2> DEFINE p == findPage(k)
  <2>1. p \in BlockPage /\ k - Lower(p) \in Offset
    BY PageFacts
  <2> HIDE DEF p
  <2>2. HasBlock(p) => BlockAt(p) = At(p)
    <3>1. Fetched(frame, stored, p)[p].image = IF InPool(frame, p) THEN frame[p].image ELSE stored[p]
      BY <2>1, FetchedLemma DEF Types
    <3> QED BY <3>1 DEF HasBlock, BlockAt, At
  <2>3. DatumAt(k) = IF HasBlock(p) THEN BlockAt(p)[k - Lower(p)] ELSE Default
    BY DEF DatumAt, p
  <2>4. DatumAt(k) = At(p)[k - Lower(p)]
    BY <1>1, <2>1, <2>2, <2>3 DEF At, HasBlock
  <2>5. At(p)[k - Lower(p)] \in Value
    BY <1>2, <2>1 DEF Block, Offset
  <2> QED BY <2>4, <2>5 DEF p
<1>4. Val \in [Key -> Value]
  BY <1>3 DEF Val
<1>5. \A p \in BlockPage : Shows(At(p), p, Val)
  BY <1>3 DEF Shows, Val
<1> QED BY <1>2, <1>4, <1>5 DEF Shown

LEMMA ShownNext == Types' => Shown'
BY ShownLemma, PTL

(* What becomes of the map when one block takes entries, or none does. *)
LEMMA PutEffect ==
  ASSUME Types, Types', NEW p \in BlockPage, NEW es \in Seq(Entry), OnPage(es, p),
         At(p)' = BlockBatchPut(At(p), p, es),
         \A q \in BlockPage \ {p} : At(q)' = At(q)
  PROVE  Val' = Store!After(Val, es)
<1>1. Shown /\ Shown'
  BY ShownLemma, ShownNext
<1>2. Val \in [Key -> Value] /\ Val' \in [Key -> Value] /\ Store!After(Val, es) \in [Key -> Value]
  BY <1>1, AfterType DEF Shown
<1>3. ASSUME NEW k \in Key PROVE Val'[k] = Store!After(Val, es)[k]
  <2> DEFINE q == findPage(k)
  <2>1. q \in BlockPage /\ k - Lower(q) \in Offset
    BY PageFacts
  <2>2. Val[k] = At(q)[k - Lower(q)] /\ Val'[k] = At(q)'[k - Lower(q)]
    BY <1>1, <2>1 DEF Shown, Shows
  <2>3. CASE q = p
    <3>1. Shows(BlockBatchPut(At(p), p, es), p, Store!After(Val, es))
      BY <1>1, <1>2, ShowsAfter DEF Shown
    <3>2. BlockBatchPut(At(p), p, es)[k - Lower(p)] = Store!After(Val, es)[k]
      BY <2>3, <3>1 DEF Shows
    <3> QED BY <2>2, <2>3, <3>2
  <2>4. CASE q # p
    <3>1. Store!After(Val, es)[k] = Val[k]
      BY <2>4, AfterElsewhere
    <3>2. At(q)' = At(q)
      BY <2>1, <2>4
    <3> QED BY <2>2, <3>1, <3>2
  <2> QED BY <2>3, <2>4
<1> QED BY <1>2, <1>3

LEMMA SameEffect ==
  ASSUME Types, Types', \A q \in BlockPage : At(q)' = At(q)
  PROVE  Val' = Val
<1>1. Shown /\ Shown'
  BY ShownLemma, ShownNext
<1>2. ASSUME NEW k \in Key PROVE Val'[k] = Val[k]
  <2>1. findPage(k) \in BlockPage
    BY PageFacts
  <2> QED BY <1>1, <2>1 DEF Shown, Shows
<1> QED BY <1>1, <1>2 DEF Shown

-----------------------------------------------------------------------------
(* The block an entry is put in: read or allocated, it is what was seen. *)
LEMMA EmptyBlockType == EmptyBlock \in Block
BY DefaultAssumption DEF EmptyBlock, Block

(* A new block is all default, and dirty. *)
LEMMA InstalledBlock ==
  ASSUME NEW f, FramesOK(f), NEW p \in BlockPage
  PROVE  /\ FramesOK(Installed(f, p, EmptyBlock)) /\ InPool(Installed(f, p, EmptyBlock), p)
         /\ SameBut(f, Installed(f, p, EmptyBlock), p)
         /\ Installed(f, p, EmptyBlock)[p].image = EmptyBlock
         /\ Installed(f, p, EmptyBlock)[p].dirty
<1>1. Installed(f, p, EmptyBlock) = [f EXCEPT ![p] = Frame(EmptyBlock, TRUE)]
  BY DEF Installed
<1>2. \A d \in BOOLEAN : /\ FramesOK([f EXCEPT ![p] = Frame(EmptyBlock, d)])
                         /\ [f EXCEPT ![p] = Frame(EmptyBlock, d)][p] = Frame(EmptyBlock, d)
                         /\ SameBut(f, [f EXCEPT ![p] = Frame(EmptyBlock, d)], p)
                         /\ InPool([f EXCEPT ![p] = Frame(EmptyBlock, d)], p)
  BY EmptyBlockType, InstalledLemma
<1>3. /\ FramesOK(Installed(f, p, EmptyBlock)) /\ InPool(Installed(f, p, EmptyBlock), p)
      /\ SameBut(f, Installed(f, p, EmptyBlock), p)
      /\ Installed(f, p, EmptyBlock)[p] = Frame(EmptyBlock, TRUE)
  BY <1>1, <1>2, Zenon
<1>4. Frame(EmptyBlock, TRUE).image = EmptyBlock /\ Frame(EmptyBlock, TRUE).dirty
  BY FrameFields
<1> QED BY <1>3, <1>4

LEMMA WithBlockLemma ==
  ASSUME Types, NEW p \in BlockPage
  PROVE  /\ FramesOK(WithBlock(p)) /\ InPool(WithBlock(p), p)
         /\ SameBut(frame, WithBlock(p), p)
         /\ WithBlock(p)[p].image = At(p)
         /\ Clean /\ ~WithBlock(p)[p].dirty => WithBlock(p)[p].image = stored[p]
<1>1. CASE p \in bits
  <2>1. WithBlock(p) = Fetched(frame, stored, p)
    BY <1>1 DEF WithBlock, HasBlock
  <2>2. /\ FramesOK(WithBlock(p)) /\ InPool(WithBlock(p), p)
        /\ SameBut(frame, WithBlock(p), p)
        /\ InPool(frame, p) => WithBlock(p)[p] = frame[p]
        /\ ~InPool(frame, p) => WithBlock(p)[p].image = stored[p]
    BY <2>1, FetchedLemma DEF Types
  <2> QED BY <1>1, <2>2 DEF At, Clean
<1>2. CASE p \notin bits
  <2>1. WithBlock(p) = Installed(frame, p, EmptyBlock)
    BY <1>2 DEF WithBlock, HasBlock
  <2> QED BY <1>2, <2>1, InstalledBlock DEF At, Types
<1> QED BY <1>1, <1>2

(* A put into one block: the page and its entries, and the count. *)
PutInto(p, es, n) ==
  /\ bits' = bits \cup {p}
  /\ frame' = Counted(Altered(WithBlock(p), p, es), n)
  /\ stored' = stored

LEMMA PutIntoLemma ==
  ASSUME Types, Cached, NEW p \in BlockPage, NEW es \in Seq(Entry), NEW n \in Int, PutInto(p, es, n)
  PROVE  /\ FramesOK(frame') /\ bits' \in SUBSET Pages /\ Cached'
         /\ Clean => Clean'
         /\ At(p)' = BlockBatchPut(At(p), p, es)
         /\ \A q \in BlockPage \ {p} : At(q)' = At(q)
         /\ nnz' = (nnz + n) % CountMod
<1> DEFINE f == WithBlock(p)
           g == Altered(f, p, es)
<1>1. /\ FramesOK(f) /\ InPool(f, p) /\ SameBut(frame, f, p) /\ f[p].image = At(p)
  BY WithBlockLemma
<1> HIDE DEF f
<1>2. /\ FramesOK(g) /\ g[p].image = BlockBatchPut(At(p), p, es) /\ g[p].dirty
      /\ SameBut(f, g, p) /\ InPool(g, p)
  BY <1>1, AlteredLemma
<1>3. frame' = Counted(g, n)
  BY DEF PutInto, f
<1> HIDE DEF g
<1>4. /\ FramesOK(frame') /\ SameBut(g, frame', HeaderPage)
      /\ frame'[HeaderPage].image = (g[HeaderPage].image + n) % CountMod
  BY <1>2, <1>3, CountedLemma
<1>5. /\ frame'[p] = g[p]
      /\ \A q \in BlockPage \ {p} : frame'[q] = frame[q]
      /\ g[HeaderPage] = frame[HeaderPage]
  BY <1>1, <1>2, <1>4, PageFacts DEF SameBut, Pages
<1>6. /\ bits' = bits \cup {p} /\ stored' = stored /\ bits' \in SUBSET Pages
  BY DEF PutInto, Types, Pages
<1>7. At(p)' = BlockBatchPut(At(p), p, es)
  BY <1>2, <1>5, <1>6 DEF At, InPool
<1>8. \A q \in BlockPage \ {p} : At(q)' = At(q)
  BY <1>5, <1>6 DEF At, InPool
<1>9. Cached'
  BY <1>5, <1>6 DEF Cached, InPool
<1>10. Clean => Clean'
  BY <1>2, <1>5, <1>6 DEF Clean, InPool
<1>11. nnz' = (nnz + n) % CountMod
  BY <1>4, <1>5 DEF nnz
<1> QED BY <1>4, <1>6, <1>7, <1>8, <1>9, <1>10, <1>11

(* Blocks read into the pool, and nothing else. *)
LEMMA ReadBlocksLemma ==
  ASSUME Types, Cached, NEW pages \in SUBSET (BlockPage \cup {INVALID_PID}), ReadBlocks(pages)
  PROVE  Types' /\ Cached' /\ (Clean => Clean') /\ Val' = Val /\ nnz' = nnz
<1>1. /\ UNCHANGED <<bits, stored, storedBits, phase, job>>
      /\ frame' = [p \in DOMAIN frame |-> IF p \in pages /\ HasBlock(p)
                                          THEN Fetched(frame, stored, p)[p] ELSE frame[p]]
  BY DEF ReadBlocks
<1>2. DOMAIN frame = Pages
  BY DEF Types, FramesOK
<1>3. ASSUME NEW p \in BlockPage
      PROVE  /\ frame'[p] \in BlockFrame \cup {Absent}
             /\ \/ frame'[p] = frame[p]
                \/ ~InPool(frame, p) /\ p \in bits /\ frame'[p] # Absent /\ frame'[p].image = stored[p]
  <2> DEFINE g == Fetched(frame, stored, p)
  <2>1. /\ FramesOK(g) /\ InPool(g, p)
        /\ InPool(frame, p) => g[p] = frame[p]
        /\ ~InPool(frame, p) => g[p].image = stored[p]
    BY FetchedLemma DEF Types
  <2>2. frame'[p] = IF p \in pages /\ HasBlock(p) THEN g[p] ELSE frame[p]
    BY <1>1, <1>2 DEF Pages
  <2> HIDE DEF g
  <2> QED BY <2>1, <2>2 DEF FramesOK, HasBlock, InPool, Types
<1>4. frame'[HeaderPage] = frame[HeaderPage]
  BY <1>1, <1>2, PageFacts DEF Pages, HeaderPage, INVALID_PID
<1>5. FramesOK(frame')
  BY <1>1, <1>2, <1>3, <1>4 DEF FramesOK, Types, Pages
<1>6. Types'
  BY <1>1, <1>5 DEF Types, JobOK
<1>7. \A p \in BlockPage : At(p)' = At(p)
  BY <1>1, <1>3 DEF At, InPool
<1>8. Cached' /\ (Clean => Clean')
  BY <1>1, <1>3 DEF Cached, Clean, InPool
<1> QED BY <1>4, <1>6, <1>7, <1>8, SameEffect DEF nnz

-----------------------------------------------------------------------------
(* Batches, and their groups of entries of one page. *)
LEMMA BatchType ==
  ASSUME NEW es \in Batches
  PROVE  /\ es \in Seq(Entry) /\ Len(es) \in Nat \ {0} /\ Len(es) <= MaxBatch /\ Sorted(es)
         /\ \A i \in 1..Len(es) : es[i] \in Entry /\ es[i].key \in 0..EndsBy /\ es[i].datum \in Value
<1>1. PICK n \in 1..MaxBatch : es \in [1..n -> Entry] /\ Sorted(es)
  BY DEF Batches
<1>2. n \in Nat \ {0} /\ n <= MaxBatch
  BY <1>1, MaxBatchAssumption
<1>3. es \in Seq(Entry) /\ Len(es) = n
  BY <1>1, <1>2
<1> QED BY <1>1, <1>2, <1>3 DEF Entry

(* Sorted entries are sorted at any distance. *)
LEMMA SortedPairs ==
  ASSUME NEW es \in Batches, NEW i \in 1..Len(es), NEW j \in i..Len(es)
  PROVE  es[i].key <= es[j].key
<1> DEFINE S == {l \in i..Len(es) : ~(es[i].key <= es[l].key)}
<1>1. /\ \A l \in 1..Len(es) : es[l].key \in Int
      /\ \A l \in 1..Len(es)-1 : es[l].key <= es[l+1].key
      /\ Len(es) \in Nat \ {0}
  BY BatchType DEF Sorted
<1>2. SUFFICES ASSUME S # {} PROVE FALSE
  BY <1>1
<1>3. S \in SUBSET Int /\ \A l \in S : l >= i
  OBVIOUS
<1>4. PICK m \in S : \A l \in S : m <= l
  <2>1. i \in Int
    OBVIOUS
  <2> HIDE DEF S
  <2> QED BY <1>2, <1>3, <2>1, LeastOf
<1>5. m # i /\ m \in i..Len(es) /\ ~(es[i].key <= es[m].key)
  BY <1>1, <1>4
<1>6. m - 1 \in i..Len(es) /\ ~(m <= m - 1) /\ m - 1 \in 1..Len(es)-1
  BY <1>1, <1>5
<1>7. es[i].key <= es[m-1].key
  BY <1>4, <1>6
<1>8. es[m-1].key <= es[m].key
  BY <1>1, <1>6
<1>9. es[i].key \in Int /\ es[m].key \in Int /\ es[m-1].key \in Int
  BY <1>1, <1>5, <1>6
<1> QED BY <1>5, <1>7, <1>8, <1>9

(* A key has a page, or is out of range. *)
LEMMA PageOfKey ==
  ASSUME NEW k \in 0..EndsBy
  PROVE  \/ k \in Key /\ PageOf(k) = findPage(k) /\ PageOf(k) \in BlockPage
         \/ k \notin Key /\ PageOf(k) = INVALID_PID
BY EndsByAssumption, PageFacts DEF PageOf, Key

(* What lies between two keys of a page is on that page. *)
LEMMA PageOfBetween ==
  ASSUME NEW k \in 0..EndsBy, NEW l \in 0..EndsBy, NEW m \in 0..EndsBy,
         k <= l, l <= m, PageOf(k) = PageOf(m)
  PROVE  PageOf(l) = PageOf(k)
<1>1. CASE m \in Key
  <2>1. k \in Key /\ l \in Key
    BY <1>1, EndsByAssumption DEF Key
  <2>2. /\ findPage(k) \in BlockPage /\ findPage(l) \in BlockPage /\ findPage(m) \in BlockPage
        /\ findPage(k) <= findPage(l) /\ findPage(l) <= findPage(m)
    BY <1>1, <2>1, PageFacts
  <2>3. findPage(k) = findPage(m)
    BY PageOfKey, <1>1, <2>1
  <2>4. findPage(k) \in Nat /\ findPage(l) \in Nat /\ findPage(m) \in Nat
    BY <2>2, PageFacts
  <2>5. findPage(l) = findPage(k)
    BY <2>2, <2>3, <2>4
  <2> QED BY PageOfKey, <2>1, <2>5
<1>2. CASE m \notin Key
  <2>1. PageOf(k) = INVALID_PID /\ k \notin Key
    BY PageOfKey, <1>2, PageFacts
  <2>2. l \notin Key
    BY <2>1, EndsByAssumption DEF Key
  <2> QED BY PageOfKey, <2>1, <2>2
<1> QED BY <1>1, <1>2

(* A group is what a sorted batch has on its first page: no later entry is there. *)
LEMMA GroupLemma ==
  ASSUME NEW es \in Batches
  PROVE  /\ GroupLen(es) \in 1..Len(es)
         /\ \A i \in 1..GroupLen(es) : PageOf(es[i].key) = Target(es)
         /\ \A i \in GroupLen(es)+1..Len(es) : PageOf(es[i].key) # Target(es)
<1> DEFINE n == GroupLen(es)
           P(m) == /\ \A i \in 1..m : PageOf(es[i].key) = PageOf(es[1].key)
                   /\ m < Len(es) => PageOf(es[m+1].key) # PageOf(es[1].key)
           S == {i \in 1..Len(es) : PageOf(es[i].key) # PageOf(es[1].key)}
<1>1. Len(es) \in Nat \ {0} /\ \A i \in 1..Len(es) : es[i].key \in 0..EndsBy
  BY BatchType
<1>2. \E m \in 1..Len(es) : P(m)
  <2>1. CASE S = {}
    <3>1. P(Len(es)) /\ Len(es) \in 1..Len(es)
      BY <1>1, <2>1
    <3> QED BY <3>1
  <2>2. CASE S # {}
    <3>1. S \in SUBSET Int /\ \A i \in S : i >= 1
      OBVIOUS
    <3>2. PICK m \in S : \A i \in S : m <= i
      <4> HIDE DEF S
      <4> QED BY <2>2, <3>1, LeastOf
    <3>3. m # 1 /\ m \in 1..Len(es) /\ PageOf(es[m].key) # PageOf(es[1].key)
      BY <3>2
    <3>4. \A i \in 1..m-1 : i \in 1..Len(es) /\ i \notin S
      BY <3>2, <3>3
    <3>5. m - 1 \in 1..Len(es) /\ (m - 1) + 1 = m
      BY <3>3
    <3>6. P(m - 1)
      BY <3>3, <3>4, <3>5
    <3> QED BY <3>5, <3>6
  <2> QED BY <2>1, <2>2
<1>3. n = CHOOSE m \in 1..Len(es) : P(m)
  BY DEF GroupLen
<1>4. n \in 1..Len(es) /\ P(n)
  <2> HIDE DEF P, n
  <2> QED BY <1>2, <1>3
<1>5. Target(es) = PageOf(es[1].key)
  BY <1>1, BatchType DEF Target
<1>6. ASSUME NEW i \in n+1..Len(es) PROVE PageOf(es[i].key) # PageOf(es[1].key)
  <2> HIDE DEF n
  <2>1. /\ n + 1 \in 1..Len(es) /\ i \in 1..Len(es) /\ 1 \in 1..Len(es)
        /\ i \in n+1..Len(es) /\ n + 1 \in 1..Len(es)
    BY <1>1, <1>4
  <2>2. es[1].key <= es[n+1].key /\ es[n+1].key <= es[i].key
    BY <2>1, SortedPairs
  <2>3. es[1].key \in 0..EndsBy /\ es[n+1].key \in 0..EndsBy /\ es[i].key \in 0..EndsBy
    BY <1>1, <2>1
  <2>4. PageOf(es[n+1].key) # PageOf(es[1].key)
    BY <1>1, <1>4, <2>1
  <2> QED BY <2>2, <2>3, <2>4, PageOfKey, PageOfBetween
<1> HIDE DEF n
<1> QED BY <1>4, <1>5, <1>6 DEF n

(* The group, and what is left, as sequences. *)
LEMMA GroupParts ==
  ASSUME NEW es \in Batches
  PROVE  /\ Group(es) \in Seq(Entry) /\ DOMAIN Group(es) = 1..GroupLen(es)
         /\ \A i \in 1..GroupLen(es) : Group(es)[i] = es[i]
         /\ Rest(es) \in Seq(Entry) /\ DOMAIN Rest(es) = 1..Len(es) - GroupLen(es)
         /\ \A i \in 1..Len(es) - GroupLen(es) : Rest(es)[i] = es[GroupLen(es) + i]
         /\ Target(es) # INVALID_PID => Target(es) \in BlockPage /\ OnPage(Group(es), Target(es))
         /\ Target(es) = INVALID_PID => \A i \in DOMAIN Group(es) : Group(es)[i].key \notin Key
<1>1. /\ es \in Seq(Entry) /\ Len(es) \in Nat \ {0} /\ GroupLen(es) \in 1..Len(es)
      /\ \A i \in 1..Len(es) : es[i].key \in 0..EndsBy
  BY BatchType, GroupLemma
<1>2. /\ Group(es) \in Seq(Entry) /\ DOMAIN Group(es) = 1..GroupLen(es)
      /\ \A i \in 1..GroupLen(es) : Group(es)[i] = es[i]
  BY <1>1 DEF Group
<1>3. /\ Rest(es) \in Seq(Entry) /\ DOMAIN Rest(es) = 1..Len(es) - GroupLen(es)
      /\ \A i \in 1..Len(es) - GroupLen(es) : Rest(es)[i] = es[GroupLen(es) + i]
  BY <1>1 DEF Rest
<1>4. \A i \in 1..GroupLen(es) : i \in 1..Len(es) /\ PageOf(es[i].key) = Target(es)
  BY <1>1, GroupLemma
<1>5. ASSUME Target(es) # INVALID_PID
      PROVE  Target(es) \in BlockPage /\ OnPage(Group(es), Target(es))
  <2>1. \A i \in 1..GroupLen(es) : /\ es[i].key \in Key /\ findPage(es[i].key) = Target(es)
                                   /\ Target(es) \in BlockPage
    BY <1>1, <1>4, <1>5, PageOfKey, PageOfBetween
  <2>2. 1 \in 1..GroupLen(es)
    BY <1>1
  <2> QED BY <1>2, <2>1, <2>2 DEF OnPage
<1>6. ASSUME Target(es) = INVALID_PID
      PROVE  \A i \in DOMAIN Group(es) : Group(es)[i].key \notin Key
  BY <1>1, <1>2, <1>4, <1>6, PageOfKey, PageOfBetween, PageFacts
<1> QED BY <1>2, <1>3, <1>5, <1>6

-----------------------------------------------------------------------------
(* The puts.  What every step keeps, and how nnz follows the map. *)
Keeps == Types' /\ Cached' /\ (Clean => Clean')
Counts == nnz' = (nnz + (Size(Val') - Size(Val))) % CountMod

LEMMA NnzType == Types => nnz \in Nnz
BY FrameFields DEF Types, FramesOK, nnz

(* A step that changes no datum and no count has counted right. *)
LEMMA NotCounting ==
  ASSUME Types, Val' = Val, nnz' = nnz
  PROVE  Counts
<1>1. nnz \in Nnz /\ nnz \in Int /\ Size(Val) \in Int
  BY NnzType, SizeType, CountModAssumption DEF Nnz
<1>2. nnz + (Size(Val') - Size(Val)) = nnz
  <2>1. Size(Val') = Size(Val)
    OBVIOUS
  <2> DEFINE z == Size(Val)
  <2>2. Size(Val') = z /\ z \in Int
    BY <1>1, <2>1
  <2> HIDE DEF z
  <2>3. nnz + (z - z) = nnz
    BY <1>1, <2>2
  <2> QED BY <2>2, <2>3 DEF z
<1>3. nnz % CountMod = nnz
  BY <1>1, CountModAssumption, EndsByAssumption DEF Nnz
<1> QED BY <1>2, <1>3 DEF Counts

(* A put of one entry. *)
LEMMA AfterOne ==
  ASSUME NEW m, NEW e \in Entry, NEW l \in Key
  PROVE  Store!After(m, <<e>>)[l] = IF l = e.key THEN e.datum ELSE m[l]
<1>1. <<e>> \in Seq(Entry) /\ DOMAIN <<e>> = {1} /\ <<e>>[1] = e
  OBVIOUS
<1>2. CASE l = e.key
  <2>1. Own(<<e>>, l) = {1}
    BY <1>1, <1>2 DEF Own
  <2>2. Max({1}) = 1
    BY <1>1, LastOwn
  <2>3. Own(<<e>>, l) # {} /\ Max(Own(<<e>>, l)) = 1
    BY <2>1, <2>2
  <2>4. Store!After(m, <<e>>)[l] = <<e>>[1].datum
    <3> HIDE DEF Own
    <3> QED BY <2>3, StoreAfter
  <2> QED BY <1>1, <1>2, <2>4
<1>3. CASE l # e.key
  <2>1. Own(<<e>>, l) = {}
    BY <1>1, <1>3 DEF Own
  <2> QED BY <1>3, <2>1, StoreAfter
<1> QED BY <1>2, <1>3

(* Entries of one page are put and counted. *)
LEMMA PutCounts ==
  ASSUME Types, Cached, NEW p \in BlockPage, NEW es \in Seq(Entry), OnPage(es, p),
         PutInto(p, es, Size(Store!After(Val, es)) - Size(Val)),
         UNCHANGED <<storedBits, phase>>, JobOK'
  PROVE  Keeps /\ Val' = Store!After(Val, es) /\ Counts
<1> DEFINE n == Size(Store!After(Val, es)) - Size(Val)
<1>1. n \in Int
  BY SizeType
<1> HIDE DEF n
<1>2. /\ FramesOK(frame') /\ bits' \in SUBSET Pages /\ Cached' /\ (Clean => Clean')
      /\ At(p)' = BlockBatchPut(At(p), p, es)
      /\ \A q \in BlockPage \ {p} : At(q)' = At(q)
      /\ nnz' = (nnz + n) % CountMod
  BY <1>1, PutIntoLemma DEF n
<1>3. Types'
  BY <1>2 DEF Types, PutInto
<1>4. Val' = Store!After(Val, es)
  BY <1>2, <1>3, PutEffect
<1> QED BY <1>2, <1>3, <1>4 DEF Keeps, Counts, n

(* put does to the map what the store says, and counts it. *)
LEMMA PutLemma ==
  ASSUME Types, Cached, NEW e \in Entry, e.key \in Key, Put(e)
  PROVE  Keeps /\ Val' = Store!After(Val, <<e>>) /\ Counts
<1> DEFINE p == findPage(e.key)
           old == WithBlock(p)[p].image
           m == Store!After(Val, <<e>>)
<1>1. p \in BlockPage /\ e.key - Lower(p) \in Offset
  BY PageFacts
<1>2. /\ FramesOK(WithBlock(p)) /\ InPool(WithBlock(p), p) /\ SameBut(frame, WithBlock(p), p)
      /\ old = At(p) /\ (Clean /\ ~WithBlock(p)[p].dirty => WithBlock(p)[p].image = stored[p])
  BY <1>1, WithBlockLemma
<1>3. /\ Val \in [Key -> Value] /\ At(p) \in Block /\ Shows(At(p), p, Val)
  BY <1>1, ShownLemma DEF Shown
<1>4. old[e.key - Lower(p)] = Val[e.key]
  BY <1>2, <1>3 DEF Shows
<1>5. m \in [Key -> Value] /\ m[e.key] = e.datum /\ \A l \in Key \ {e.key} : m[l] = Val[l]
  <2>1. <<e>> \in Seq(Entry)
    OBVIOUS
  <2> QED BY <1>3, <2>1, AfterType, AfterOne
<1>6. JobOK' /\ UNCHANGED <<stored, storedBits, phase, job>> /\ bits' = bits \cup {p}
  BY DEF Put, Types, JobOK
<1>7. CASE old[e.key - Lower(p)] = e.datum
  <2>1. frame' = WithBlock(p)
    BY <1>7 DEF Put
  <2>2. Types'
    BY <1>1, <1>2, <1>6, <2>1 DEF Types, Pages
  <2>3. /\ \A q \in BlockPage \ {p} : frame'[q] = frame[q]
        /\ frame'[HeaderPage] = frame[HeaderPage]
        /\ frame'[p] # Absent /\ frame'[p].image = At(p)
        /\ Clean /\ ~frame'[p].dirty => frame'[p].image = stored[p]
    BY <1>1, <1>2, <2>1, PageFacts DEF SameBut, Pages, InPool
  <2>4. \A q \in BlockPage : At(q)' = At(q)
    BY <1>6, <2>3 DEF At, InPool
  <2>5. Val' = Val /\ nnz' = nnz
    BY <2>2, <2>3, <2>4, SameEffect DEF nnz
  <2>6. \A l \in Key : m[l] = Val[l]
    BY <1>4, <1>5, <1>7
  <2>7. m = Val
    <3> HIDE DEF m
    <3> QED BY <1>3, <1>5, <2>6
  <2>8. Cached' /\ (Clean => Clean')
    BY <1>6, <2>3 DEF Cached, Clean, InPool
  <2> QED BY <2>2, <2>5, <2>7, <2>8, NotCounting DEF Keeps
<1>8. CASE old[e.key - Lower(p)] # e.datum
  <2>1. frame' = Counted(Altered(WithBlock(p), p, <<e>>), Change(old, p, e))
    BY <1>8 DEF Put
  <2>2. Change(old, p, e) = Delta(Val[e.key], m[e.key])
    BY <1>4, <1>5 DEF Change, Delta
  <2>3. Size(m) = Size(Val) + Delta(Val[e.key], m[e.key])
    <3> HIDE DEF m
    <3> QED BY <1>5, SizeStep
  <2>4. Change(old, p, e) = Size(m) - Size(Val)
    <3>1. Size(Val) \in Int /\ Delta(Val[e.key], m[e.key]) \in Int
      BY SizeType DEF Delta
    <3> HIDE DEF m, old
    <3> QED BY <2>2, <2>3, <3>1
  <2>5. PutInto(p, <<e>>, Size(m) - Size(Val))
    BY <1>6, <2>1, <2>4 DEF PutInto
  <2>6. <<e>> \in Seq(Entry) /\ OnPage(<<e>>, p)
    BY DEF OnPage
  <2> QED BY <1>1, <1>6, <2>5, <2>6, PutCounts
<1> QED BY <1>7, <1>8

-----------------------------------------------------------------------------
(* The batch puts. *)
LEMMA ContinueLemma ==
  ASSUME Types, NEW op \in {"batchPut", "batchPutVector", "batchPutRange"}, NEW es \in Batches,
         Continue(op, es)
  PROVE  JobOK'
<1>1. job' = IF Rest(es) = <<>> THEN NoJob ELSE [op |-> op, entries |-> Rest(es)]
  BY DEF Continue
<1>2. Rest(es) \in Seq(Entry)
  BY GroupParts
<1>3. CASE Rest(es) = <<>>
  BY <1>1, <1>3 DEF JobOK, NoJob
<1>4. CASE Rest(es) # <<>>
  <2>1. job' = [op |-> op, entries |-> Rest(es)]
    BY <1>1, <1>4
  <2>2. job'.entries = Rest(es) /\ NoJob.entries = <<>>
    BY <2>1 DEF NoJob
  <2> QED BY <1>2, <1>4, <2>1, <2>2 DEF JobOK
<1> QED BY <1>3, <1>4

(* So does a group of a batch. *)
LEMMA PutGroupLemma ==
  ASSUME Types, Cached, NEW es \in Batches, Target(es) # INVALID_PID, PutGroup(es), JobOK',
         UNCHANGED <<stored, storedBits, phase>>
  PROVE  Keeps /\ Val' = Store!After(Val, Group(es)) /\ Counts
<1> DEFINE p == Target(es)
<1>1. p \in BlockPage /\ Group(es) \in Seq(Entry) /\ OnPage(Group(es), p)
  BY GroupParts
<1>2. WithBlock(p)[p].image = At(p)
  BY <1>1, WithBlockLemma
<1>3. At(p) \in Block /\ Val \in [Key -> Value] /\ Shows(At(p), p, Val)
  BY <1>1, ShownLemma DEF Shown
<1>4. BatchChange(At(p), p, Group(es)) = Size(Store!After(Val, Group(es))) - Size(Val)
  BY <1>1, <1>3, BatchChangeIs
<1>5. PutInto(p, Group(es), Size(Store!After(Val, Group(es))) - Size(Val))
  BY <1>2, <1>4 DEF PutGroup, PutInto
<1> QED BY <1>1, <1>5, PutCounts

(* A group that is dropped would have changed nothing, or is all zeros. *)
LEMMA BatchPutLemma ==
  ASSUME Types, Cached, NEW es \in Batches, BatchPut(es)
  PROVE  /\ Keeps /\ Counts
         /\ NoEmptyGroup(es) => Val' = Store!After(Val, Group(es))
<1>1. JobOK' /\ UNCHANGED <<stored, storedBits, phase>>
  BY ContinueLemma DEF BatchPut
<1>2. CASE Target(es) # INVALID_PID /\ HasNonDefault(Group(es))
  <2>1. PutGroup(es)
    BY <1>2 DEF BatchPut
  <2> QED BY <1>1, <1>2, <2>1, PutGroupLemma
<1>3. CASE ~(Target(es) # INVALID_PID /\ HasNonDefault(Group(es)))
  <2>1. UNCHANGED <<bits, frame>>
    BY <1>3 DEF BatchPut
  <2>2. Types' /\ Cached' /\ (Clean => Clean') /\ nnz' = nnz /\ \A q \in BlockPage : At(q)' = At(q)
    BY <1>1, <2>1 DEF Types, Cached, Clean, nnz, At, InPool
  <2>3. Val' = Val
    BY <2>2, SameEffect
  <2>4. ASSUME NoEmptyGroup(es) PROVE Target(es) = INVALID_PID
    <3>1. 1 \in DOMAIN es /\ DOMAIN es = 1..Len(es) /\ Target(es) = PageOf(es[1].key)
      BY BatchType DEF Target
    <3>2. PICK j \in DOMAIN es : PageOf(es[j].key) = Target(es) /\ es[j].datum # Default
      BY <2>4, <3>1 DEF NoEmptyGroup
    <3>3. j \in 1..GroupLen(es)
      BY <3>1, <3>2, GroupLemma, BatchType
    <3>4. HasNonDefault(Group(es))
      BY <3>2, <3>3, GroupParts DEF HasNonDefault
    <3> QED BY <1>3, <3>4
  <2>5. ASSUME Target(es) = INVALID_PID PROVE Store!After(Val, Group(es)) = Val
    <3>1. Group(es) \in Seq(Entry) /\ \A i \in DOMAIN Group(es) : Group(es)[i].key \notin Key
      BY <2>5, GroupParts
    <3>2. \A k \in Key : Own(Group(es), k) = {}
      BY <3>1 DEF Own
    <3>3. \A k \in Key : Store!After(Val, Group(es))[k] = Val[k]
      BY <3>2, StoreAfter
    <3> QED BY <3>3, StoreAfter DEF Val
  <2> QED BY <2>2, <2>3, <2>4, <2>5, NotCounting DEF Keeps
<1> QED BY <1>2, <1>3

LEMMA InRangeTarget ==
  ASSUME NEW es \in Batches, InRange(es)
  PROVE  Target(es) # INVALID_PID
<1>1. 1 \in DOMAIN es /\ Target(es) = PageOf(es[1].key) /\ es[1].key \in 0..EndsBy
  BY BatchType DEF Target
<1>2. es[1].key \in Key
  BY <1>1 DEF InRange
<1> QED BY <1>1, <1>2, PageOfKey, PageFacts

LEMMA BatchPutVectorLemma ==
  ASSUME Types, Cached, NEW es \in Batches, InRange(es), BatchPutVector(es)
  PROVE  Keeps /\ Val' = Store!After(Val, Group(es)) /\ Counts
<1>1. JobOK' /\ UNCHANGED <<stored, storedBits, phase>> /\ PutGroup(es)
  BY ContinueLemma DEF BatchPutVector
<1> QED BY <1>1, InRangeTarget, PutGroupLemma

(* A range is right on a page that has no block yet. *)
LEMMA BatchPutRangeLemma ==
  ASSUME Types, Cached, NEW es \in Batches, InRange(es), BatchPutRange(es)
  PROVE  /\ Types' /\ Cached' /\ nnz' = nnz
         /\ OnNewBlocks(es) => Keeps /\ Val' = Store!After(Val, Group(es))
<1> DEFINE p == Target(es)
           f == WithNewBlock(p)
           img == BlockBatchPut(f[p].image, p, Group(es))
<1>1. JobOK' /\ UNCHANGED <<stored, storedBits, phase>> /\ bits' = bits \cup {p} /\ frame' = Scribbled(f, p, img)
  BY ContinueLemma DEF BatchPutRange
<1>2. p \in BlockPage /\ Group(es) \in Seq(Entry) /\ OnPage(Group(es), p)
  BY InRangeTarget, GroupParts
<1>3. FramesOK(f) /\ InPool(f, p) /\ SameBut(frame, f, p)
  <2>1. CASE InPool(frame, p)
    BY <2>1 DEF WithNewBlock, Types, SameBut
  <2>2. CASE ~InPool(frame, p)
    <3>1. f = Installed(frame, p, EmptyBlock)
      BY <2>2 DEF WithNewBlock
    <3> QED BY <1>2, <3>1, InstalledBlock DEF Types
  <2> QED BY <2>1, <2>2
<1>4. p \notin bits => f[p].image = At(p) /\ f[p].dirty
  <2>1. ASSUME p \notin bits PROVE f = Installed(frame, p, EmptyBlock) /\ At(p) = EmptyBlock
    BY <1>2, <2>1 DEF Cached, WithNewBlock, At
  <2> HIDE DEF f
  <2> QED BY <1>2, <2>1, InstalledBlock DEF Types
<1> HIDE DEF f
<1>5. f[p].image \in Block /\ img \in Block
  <2>1. f[p].image \in Block
    BY <1>2, <1>3, FrameFields DEF FramesOK, InPool
  <2> QED BY <1>2, <2>1, BlockPutType
<1>6. /\ FramesOK(frame') /\ frame'[p] = Frame(img, f[p].dirty) /\ SameBut(f, frame', p) /\ InPool(frame', p)
  BY <1>1, <1>2, <1>3, <1>5, ScribbledLemma
<1>7. frame'[p].image = img /\ (frame'[p].dirty <=> f[p].dirty)
  BY <1>6, FrameFields
<1>8. /\ \A q \in BlockPage \ {p} : frame'[q] = frame[q]
      /\ frame'[HeaderPage] = frame[HeaderPage]
  BY <1>2, <1>3, <1>6, PageFacts DEF SameBut, Pages
<1>9. Types'
  BY <1>1, <1>2, <1>6 DEF Types, Pages
<1>10. Cached' /\ nnz' = nnz
  BY <1>1, <1>8 DEF Cached, InPool, nnz
<1>11. ASSUME OnNewBlocks(es) PROVE Keeps /\ Val' = Store!After(Val, Group(es))
  <2>1. p \notin bits
    <3>1. 1 \in DOMAIN es /\ Target(es) = PageOf(es[1].key) /\ es[1].key \in 0..EndsBy
      BY BatchType DEF Target
    <3>2. es[1].key \in Key
      BY <3>1 DEF InRange
    <3>3. p = findPage(es[1].key)
      BY <3>1, <3>2, PageOfKey
    <3> QED BY <1>11, <3>1, <3>3 DEF OnNewBlocks, HasBlock
  <2>2. At(p)' = BlockBatchPut(At(p), p, Group(es))
    BY <1>1, <1>4, <1>6, <1>7, <2>1 DEF At
  <2>3. \A q \in BlockPage \ {p} : At(q)' = At(q)
    BY <1>1, <1>8 DEF At, InPool
  <2>4. Clean => Clean'
    BY <1>1, <1>4, <1>7, <1>8, <2>1 DEF Clean, InPool
  <2> QED BY <1>2, <1>9, <1>10, <2>2, <2>3, <2>4, PutEffect DEF Keeps
<1> QED BY <1>9, <1>10, <1>11

-----------------------------------------------------------------------------
(* The pool's steps, flushes and crashes. *)
LEMMA DiskWithLemma ==
  ASSUME Types, NEW p \in Pages, InPool(frame, p)
  PROVE  /\ DiskOK(DiskWith(frame, stored, p))
         /\ \A q \in Pages \ {p} : DiskWith(frame, stored, p)[q] = stored[q]
         /\ DiskWith(frame, stored, p)[p] = IF frame[p].dirty THEN frame[p].image ELSE stored[p]
<1>1. /\ p \in BlockPage => frame[p] \in BlockFrame /\ frame[p].image \in Block
      /\ p = HeaderPage => frame[p].image \in Nnz
  BY FrameFields DEF Types, FramesOK, InPool
<1> QED BY <1>1, PageFacts DEF DiskWith, Dirty, DiskOK, Types, Pages

(* An eviction keeps what is seen. *)
LEMMA EvictLemma ==
  ASSUME Types, Cached, NEW p \in BlockPage, Evict(p)
  PROVE  Keeps /\ nnz' = nnz /\ (Clean => Val' = Val)
<1>1. /\ InPool(frame, p) /\ frame' = [frame EXCEPT ![p] = Absent]
      /\ stored' = DiskWith(frame, stored, p) /\ UNCHANGED <<bits, storedBits, phase, job>>
  BY DEF Evict, Evicted
<1>2. p \in Pages
  BY DEF Pages
<1>3. FramesOK(frame') /\ frame'[p] = Absent /\ SameBut(frame, frame', p)
  BY <1>1, ReplacedLemma DEF Types
<1>4. /\ DiskOK(stored') /\ \A q \in Pages \ {p} : stored'[q] = stored[q]
      /\ stored'[p] = IF frame[p].dirty THEN frame[p].image ELSE stored[p]
  BY <1>1, <1>2, DiskWithLemma
<1>5. Types'
  BY <1>1, <1>3, <1>4 DEF Types, JobOK
<1>6. Cached' /\ (Clean => Clean') /\ nnz' = nnz
  BY <1>1, <1>3, <1>4, PageFacts DEF Cached, Clean, InPool, SameBut, Pages, nnz
<1>7. Clean => \A q \in BlockPage : At(q)' = At(q)
  BY <1>1, <1>3, <1>4 DEF Clean, At, InPool, SameBut, Pages
<1> QED BY <1>5, <1>6, <1>7, SameEffect DEF Keeps

(* So does a write. *)
LEMMA WriteBackLemma ==
  ASSUME Types, Cached, NEW p \in Pages, WriteBack(p)
  PROVE  Keeps /\ nnz' = nnz /\ Val' = Val
<1>1. /\ InPool(frame, p) /\ frame[p].dirty /\ frame' = [frame EXCEPT ![p].dirty = FALSE]
      /\ stored' = DiskWith(frame, stored, p) /\ UNCHANGED <<bits, storedBits, phase, job>>
  BY DEF WriteBack, Cleaned, Dirty
<1>2. /\ DiskOK(stored') /\ \A q \in Pages \ {p} : stored'[q] = stored[q]
      /\ stored'[p] = frame[p].image
  BY <1>1, DiskWithLemma
<1>3. /\ FramesOK(frame') /\ frame'[p] # Absent /\ frame'[p].image = frame[p].image
      /\ SameBut(frame, frame', p)
  <2>1. CASE p \in BlockPage
    <3>1. \A d \in BOOLEAN : /\ FramesOK([frame EXCEPT ![p].dirty = d])
                             /\ [frame EXCEPT ![p].dirty = d][p] = Frame(frame[p].image, d)
                             /\ SameBut(frame, [frame EXCEPT ![p].dirty = d], p)
                             /\ InPool([frame EXCEPT ![p].dirty = d], p)
      BY <1>1, <2>1, MarkLemma DEF Types
    <3>2. /\ FramesOK(frame') /\ InPool(frame', p) /\ frame'[p] = Frame(frame[p].image, FALSE)
          /\ SameBut(frame, frame', p)
      BY <1>1, <3>1, Zenon
    <3>3. Frame(frame[p].image, FALSE).image = frame[p].image
      BY FrameFields
    <3>4. frame'[p].image = frame[p].image
      BY <3>2, <3>3
    <3>5. FramesOK(frame') /\ frame'[p] # Absent /\ SameBut(frame, frame', p)
      BY <3>2, Zenon DEF InPool
    <3> QED BY <3>4, <3>5
  <2>2. CASE p = HeaderPage
    <3>1. frame[p] \in HeaderFrame /\ DOMAIN frame = Pages /\ p \notin BlockPage
      BY <2>2, PageFacts DEF Types, FramesOK
    <3>2. frame'[p] = [frame[p] EXCEPT !.dirty = FALSE]
      BY <1>1, <3>1
    <3>3. frame'[p] \in HeaderFrame /\ frame'[p].image = frame[p].image
      BY <3>1, <3>2 DEF HeaderFrame
    <3>4. SameBut(frame, frame', p) /\ DOMAIN frame' = Pages
      BY <1>1, <3>1 DEF SameBut
    <3>5. FramesOK(frame')
      <4>1. \A q \in BlockPage : frame'[q] = frame[q]
        BY <3>1, <3>4 DEF SameBut, Pages
      <4>2. frame' \in [Pages -> BlockFrame \cup HeaderFrame \cup {Absent}]
        BY <1>1, <3>1, <3>3 DEF Types, FramesOK
      <4> QED BY <2>2, <3>3, <4>1, <4>2 DEF Types, FramesOK
    <3> QED BY <3>3, <3>4, <3>5, FrameFields
  <2> QED BY <2>1, <2>2 DEF Pages
<1>4. Types'
  BY <1>1, <1>2, <1>3 DEF Types, JobOK
<1>5. Cached' /\ (Clean => Clean') /\ nnz' = nnz
  BY <1>1, <1>2, <1>3, PageFacts DEF Cached, Clean, InPool, SameBut, Pages, nnz
<1>6. \A q \in BlockPage : At(q)' = At(q)
  BY <1>1, <1>2, <1>3 DEF At, InPool, SameBut, Pages
<1> QED BY <1>4, <1>5, <1>6, SameEffect DEF Keeps

(* A process that opens an array has its header in the pool and no block. *)
LEMMA OnlyHeaderLemma ==
  ASSUME NEW n \in Nnz, NEW d \in BOOLEAN
  PROVE  /\ FramesOK(OnlyHeader(Frame(n, d)))
         /\ \A p \in BlockPage : OnlyHeader(Frame(n, d))[p] = Absent
         /\ OnlyHeader(Frame(n, d))[HeaderPage].image = n
<1>1. Frame(n, d) \in HeaderFrame /\ Frame(n, d).image = n
  BY FrameFields
<1> QED BY <1>1, PageFacts DEF FramesOK, OnlyHeader, Pages

(* What a crash leaves at page p. *)
OnDisk(p) == IF p \in storedBits THEN stored[p] ELSE EmptyBlock

(* So does the end of a flush, which leaves it on the disk too. *)
LEMMA EndFlushLemma ==
  ASSUME Types, Cached, EndFlush
  PROVE  /\ Keeps
         /\ phase = "flushing" => nnz' = nnz
         /\ Clean => Val' = Val /\ \A p \in BlockPage : OnDisk(p)' = At(p)'
<1>1. /\ phase \in {"flushing", "closing"} /\ \A p \in Pages : ~Dirty(frame, p)
      /\ storedBits' = bits /\ phase' = "ready" /\ UNCHANGED <<bits, stored, job>>
      /\ frame' = IF phase = "closing" THEN OnlyHeader(Frame(stored[HeaderPage], FALSE)) ELSE frame
  BY DEF EndFlush, Types, FramesOK
<1>2. \A p \in BlockPage : InPool(frame, p) => ~frame[p].dirty
  BY <1>1 DEF Dirty, Pages
<1>3. FramesOK(frame') /\ \A p \in BlockPage : frame'[p] = Absent \/ frame'[p] = frame[p]
  <2>1. CASE phase = "closing"
    <3>1. \A d \in BOOLEAN : /\ FramesOK(OnlyHeader(Frame(stored[HeaderPage], d)))
                             /\ \A p \in BlockPage : OnlyHeader(Frame(stored[HeaderPage], d))[p] = Absent
      BY OnlyHeaderLemma DEF Types, DiskOK
    <3>2. frame' = OnlyHeader(Frame(stored[HeaderPage], FALSE))
      BY <1>1, <2>1
    <3> QED BY <3>1, <3>2, Zenon
  <2>2. CASE phase # "closing"
    <3>1. frame' = frame
      BY <1>1, <2>2
    <3> QED BY <3>1 DEF Types
  <2> QED BY <2>1, <2>2
<1>4. Types'
  BY <1>1, <1>3 DEF Types, JobOK
<1>5. phase = "flushing" => nnz' = nnz
  BY <1>1 DEF nnz
<1>6. Cached' /\ (Clean => Clean')
  BY <1>1, <1>3 DEF Cached, Clean, InPool
<1>7. Clean => \A q \in BlockPage : At(q)' = At(q)
  BY <1>1, <1>2, <1>3 DEF Clean, At, InPool
<1>8. Clean => \A q \in BlockPage : OnDisk(q)' = At(q)'
  BY <1>1, <1>2, <1>3 DEF Clean, At, InPool, OnDisk
<1> QED BY <1>4, <1>5, <1>6, <1>7, <1>8, SameEffect DEF Keeps

(* After a crash what was on the disk is seen. *)
LEMMA CrashLemma ==
  ASSUME Types, Crash
  PROVE  Types' /\ Cached' /\ Clean' /\ \A p \in BlockPage : At(p)' = OnDisk(p) /\ OnDisk(p)' = OnDisk(p)
<1>1. /\ bits' = (IF storedBits = {} THEN {HeaderPage} ELSE storedBits)
      /\ frame' = OnlyHeader(IF storedBits = {} THEN Frame(0, TRUE) ELSE Frame(stored[HeaderPage], FALSE))
      /\ phase' = "ready" /\ job' = NoJob /\ UNCHANGED <<stored, storedBits>>
  BY DEF Crash
<1>2. FramesOK(frame') /\ \A p \in BlockPage : frame'[p] = Absent
  <2>1. \A d \in BOOLEAN, n \in Nnz : /\ FramesOK(OnlyHeader(Frame(n, d)))
                                      /\ \A p \in BlockPage : OnlyHeader(Frame(n, d))[p] = Absent
    BY OnlyHeaderLemma
  <2>2. 0 \in Nnz /\ stored[HeaderPage] \in Nnz
    BY CountModAssumption, EndsByAssumption DEF Nnz, Types, DiskOK
  <2>3. CASE storedBits = {}
    <3>1. frame' = OnlyHeader(Frame(0, TRUE))
      BY <1>1, <2>3
    <3> QED BY <2>1, <2>2, <3>1, Zenon
  <2>4. CASE storedBits # {}
    <3>1. frame' = OnlyHeader(Frame(stored[HeaderPage], FALSE))
      BY <1>1, <2>4
    <3> QED BY <2>1, <2>2, <3>1, Zenon
  <2> QED BY <2>3, <2>4
<1>3. JobOK'
  BY <1>1 DEF JobOK, NoJob
<1>4. Types'
  BY <1>1, <1>2, <1>3 DEF Types, Pages
<1>5. Cached' /\ Clean'
  BY <1>2 DEF Cached, Clean, InPool
<1>6. \A p \in BlockPage : At(p)' = OnDisk(p) /\ OnDisk(p)' = OnDisk(p)
  BY <1>1, <1>2, PageFacts DEF At, InPool, OnDisk
<1> QED BY <1>4, <1>5, <1>6

(* A new array. *)
LEMMA InitLemma ==
  ASSUME Init
  PROVE  Types /\ Cached /\ Clean /\ nnz = 0 /\ (\A p \in BlockPage : At(p) = EmptyBlock /\ OnDisk(p) = EmptyBlock)
<1>1. FramesOK(frame) /\ (\A p \in BlockPage : frame[p] = Absent) /\ nnz = 0
  <2>1. \A d \in BOOLEAN, n \in Nnz : /\ FramesOK(OnlyHeader(Frame(n, d)))
                                      /\ \A p \in BlockPage : OnlyHeader(Frame(n, d))[p] = Absent
                                      /\ OnlyHeader(Frame(n, d))[HeaderPage].image = n
    BY OnlyHeaderLemma
  <2>2. 0 \in Nnz /\ frame = OnlyHeader(Frame(0, TRUE))
    BY CountModAssumption, EndsByAssumption DEF Nnz, Init
  <2> QED BY <2>1, <2>2, Zenon DEF nnz
<1>2. DiskOK(stored)
  <2>1. stored = [p \in Pages |-> IF p = HeaderPage THEN 0 ELSE EmptyBlock]
    BY DEF Init, Pages
  <2>2. 0 \in Nnz
    BY CountModAssumption, EndsByAssumption DEF Nnz
  <2> QED BY <2>1, <2>2, EmptyBlockType, PageFacts DEF DiskOK, Pages
<1>3. bits = {HeaderPage} /\ storedBits = {} /\ phase = "ready" /\ job = NoJob
  BY DEF Init
<1>4. JobOK
  BY <1>3 DEF JobOK, NoJob
<1>5. Types
  BY <1>1, <1>2, <1>3, <1>4 DEF Types, Pages
<1>6. Cached /\ Clean
  BY <1>1 DEF Cached, Clean, InPool
<1>7. \A p \in BlockPage : At(p) = EmptyBlock /\ OnDisk(p) = EmptyBlock
  BY <1>1, <1>3, PageFacts DEF At, OnDisk
<1> QED BY <1>1, <1>5, <1>6, <1>7

-----------------------------------------------------------------------------
(* The inductive invariant. *)

(* What is left of a range is for pages without blocks. *)
RangeAhead ==
  Careful /\ job.op = "batchPutRange" => InRange(job.entries) /\ OnNewBlocks(job.entries)

(* recent holds what is seen, and what a crash would bring back. *)
CrashVal == [k \in Key |-> OnDisk(findPage(k))[k - Lower(findPage(k))]]
RecentOK ==
  /\ recent \in [Key -> SUBSET Value]
  /\ \A k \in Key : Val[k] \in recent[k] /\ CrashVal[k] \in recent[k]

AInv ==
  /\ Types
  /\ Cached
  /\ Careful \/ counting => Clean
  /\ counting => nnz = Size(Val)
  /\ RangeAhead
  /\ Careful => RecentOK

(* What the history variables do in a step. *)
Grows == recent' = [k \in Key |-> recent[k] \cup {DatumAt(k)'}]
Renews == recent' = [k \in Key |-> {DatumAt(k)'}]
DiskStep == \A p \in BlockPage : OnDisk(p)' = OnDisk(p) \/ OnDisk(p)' = At(p)

LEMMA OnDiskType == Types => \A p \in BlockPage : OnDisk(p) \in Block
BY EmptyBlockType DEF Types, DiskOK, OnDisk

(* recent stays right while data are added to it and seen blocks are written. *)
LEMMA GrowsLemma ==
  ASSUME Types, Types', RecentOK, Grows, DiskStep
  PROVE  RecentOK'
<1>1. Shown /\ Shown'
  BY ShownLemma, ShownNext
<1>2. ASSUME NEW k \in Key
      PROVE  /\ recent'[k] = recent[k] \cup {Val'[k]} /\ recent[k] \in SUBSET Value /\ Val'[k] \in Value
             /\ Val[k] \in recent[k] /\ CrashVal[k] \in recent[k]
             /\ CrashVal'[k] = CrashVal[k] \/ CrashVal'[k] = Val[k]
  <2> DEFINE p == findPage(k)
  <2>1. p \in BlockPage
    BY PageFacts
  <2>2. Val[k] = At(p)[k - Lower(p)]
    BY <1>1, <2>1 DEF Shown, Shows
  <2>3. OnDisk(p)' = OnDisk(p) \/ OnDisk(p)' = At(p)
    BY <2>1 DEF DiskStep
  <2>4. CrashVal[k] = OnDisk(p)[k - Lower(p)] /\ CrashVal'[k] = OnDisk(p)'[k - Lower(p)]
    BY DEF CrashVal
  <2>5. CrashVal'[k] = CrashVal[k] \/ CrashVal'[k] = Val[k]
    BY <2>2, <2>3, <2>4
  <2>6. recent'[k] = recent[k] \cup {Val'[k]} /\ Val'[k] \in Value
    BY <1>1 DEF Grows, Val, Shown
  <2> QED BY <2>5, <2>6 DEF RecentOK
<1>3. recent' = [k \in Key |-> recent'[k]]
  BY DEF Grows
<1>4. recent' \in [Key -> SUBSET Value]
  BY <1>2, <1>3
<1>5. \A k \in Key : Val'[k] \in recent'[k] /\ CrashVal'[k] \in recent'[k]
  BY <1>2
<1> QED BY <1>4, <1>5 DEF RecentOK

(* recent is right when it starts again from what is seen and on the disk. *)
LEMMA RenewsLemma ==
  ASSUME Types', Renews, \A p \in BlockPage : OnDisk(p)' = At(p)'
  PROVE  RecentOK'
<1>1. Shown'
  BY ShownNext
<1>2. ASSUME NEW k \in Key
      PROVE  recent'[k] = {Val'[k]} /\ Val'[k] \in Value /\ CrashVal'[k] = Val'[k]
  <2> DEFINE p == findPage(k)
  <2>1. p \in BlockPage
    BY PageFacts
  <2>2. Val'[k] = At(p)'[k - Lower(p)] /\ Val'[k] \in Value
    BY <1>1, <2>1 DEF Shown, Shows
  <2>3. CrashVal'[k] = OnDisk(p)'[k - Lower(p)]
    BY DEF CrashVal
  <2>4. recent'[k] = {Val'[k]}
    BY DEF Renews, Val
  <2> QED BY <2>1, <2>2, <2>3, <2>4
<1>3. recent' = [k \in Key |-> recent'[k]]
  BY DEF Renews
<1>4. recent' \in [Key -> SUBSET Value]
  BY <1>2, <1>3
<1> QED BY <1>2, <1>4 DEF RecentOK

(* nnz follows the map. *)
LEMMA CountsLemma ==
  ASSUME Types, nnz = Size(Val), Counts
  PROVE  nnz' = Size(Val')
<1>1. Size(Val) \in 0..EndsBy /\ Size(Val') \in 0..EndsBy
  BY SizeType
<1> DEFINE z == Size(Val')
           y == Size(Val)
<1>2. nnz' = (y + (z - y)) % CountMod
  BY DEF Counts
<1>3. y \in Int /\ z \in 0..CountMod-1
  BY <1>1, CountModAssumption, EndsByAssumption
<1> HIDE DEF y, z
<1>4. y + (z - y) = z /\ z % CountMod = z
  BY <1>3, CountModAssumption, EndsByAssumption
<1> QED BY <1>2, <1>4 DEF z

(* The invariant holds of a new array. *)
LEMMA AInvInit == HInit => AInv
<1> SUFFICES ASSUME HInit PROVE AInv
  OBVIOUS
<1>1. /\ Types /\ Cached /\ Clean /\ nnz = 0
      /\ \A p \in BlockPage : At(p) = EmptyBlock /\ OnDisk(p) = EmptyBlock
      /\ recent = [k \in Key |-> {Default}] /\ job = NoJob
  BY InitLemma DEF HInit, Init
<1>2. Shown
  BY <1>1, ShownLemma
<1>3. \A k \in Key : Val[k] = Default /\ CrashVal[k] = Default
  <2> TAKE k \in Key
  <2> DEFINE p == findPage(k)
  <2>1. p \in BlockPage /\ k - Lower(p) \in Offset
    BY PageFacts
  <2>2. EmptyBlock[k - Lower(p)] = Default
    BY <2>1 DEF EmptyBlock, Offset
  <2>3. Val[k] = At(p)[k - Lower(p)] /\ CrashVal[k] = OnDisk(p)[k - Lower(p)]
    BY <1>2, <2>1 DEF Shown, Shows, CrashVal
  <2> QED BY <1>1, <2>1, <2>2, <2>3
<1>4. Nonzero(Val) = {}
  BY <1>3 DEF Nonzero
<1>5. nnz = Size(Val)
  BY <1>1, <1>4, FS_EmptySet DEF Size
<1>6. RecentOK
  BY <1>1, <1>3, DefaultAssumption DEF RecentOK
<1>7. RangeAhead
  BY <1>1 DEF RangeAhead, NoJob
<1> QED BY <1>1, <1>5, <1>6, <1>7 DEF AInv

(* The steps that change nothing of the map, and those that put entries. *)
LEMMA LookStep ==
  ASSUME AInv, Keeps, nnz' = nnz, Clean => Val' = Val, DiskStep, Grows,
         counting' => counting, bits' = bits, job' = job
  PROVE  AInv'
<1>1. RangeAhead'
  BY DEF AInv, RangeAhead, OnNewBlocks, HasBlock
<1>2. Careful => RecentOK'
  BY GrowsLemma DEF AInv, Keeps
<1>3. counting' => nnz' = Size(Val')
  BY DEF AInv
<1> QED BY <1>1, <1>2, <1>3 DEF AInv, Keeps

LEMMA PutStep ==
  ASSUME AInv, Keeps, Counts, DiskStep, Grows, counting' => counting, RangeAhead'
  PROVE  AInv'
<1>1. Careful => RecentOK'
  BY GrowsLemma DEF AInv, Keeps
<1>2. counting' => nnz' = Size(Val')
  BY CountsLemma DEF AInv
<1> QED BY <1>1, <1>2 DEF AInv, Keeps

(* The history variables, call by call. *)
History ==
  /\ recent' = IF call'.op \in {"flushing", "closing", "crash"}
               THEN [k \in Key |-> {DatumAt(k)'}]
               ELSE [k \in Key |-> recent[k] \cup {DatumAt(k)'}]
  /\ counting' = (counting /\ call'.op \notin {"crash", "batchPutRange", "closing"})

(* The history between two flushes, and when one ends. *)
LEMMA HistoryGrows ==
  ASSUME History, call'.op \notin {"flushing", "closing", "crash"}
  PROVE  Grows /\ (counting' => counting)
BY DEF History, Grows

LEMMA HistoryRenews ==
  ASSUME History, call'.op \in {"flushing", "closing", "crash"}
  PROVE  Renews /\ (counting' => counting)
BY DEF History, Renews

LEMMA SameDisk ==
  ASSUME UNCHANGED <<stored, storedBits>>
  PROVE  DiskStep
BY DEF DiskStep, OnDisk

(* Writing a frame to the disk shows there what was seen. *)
LEMMA WrittenDisk ==
  ASSUME Types, Cached, NEW p \in Pages, InPool(frame, p),
         stored' = DiskWith(frame, stored, p), storedBits' = storedBits
  PROVE  DiskStep
<1>1. /\ \A q \in Pages \ {p} : stored'[q] = stored[q]
      /\ stored'[p] = IF frame[p].dirty THEN frame[p].image ELSE stored[p]
  BY DiskWithLemma
<1>2. ASSUME NEW q \in BlockPage PROVE OnDisk(q)' = OnDisk(q) \/ OnDisk(q)' = At(q)
  BY <1>1 DEF OnDisk, At, Cached, Pages
<1> QED BY <1>2 DEF DiskStep

(* The invariant is kept by each of the gets. *)
LEMMA GetStep ==
  ASSUME AInv, History, NEW pages \in SUBSET (BlockPage \cup {INVALID_PID}), ReadBlocks(pages),
         call'.op \in {"get", "batchGet", "batchGetRange", "batchGetVector"}
  PROVE  AInv'
<1>1. Keeps /\ Val' = Val /\ nnz' = nnz
  BY ReadBlocksLemma DEF AInv, Keeps
<1>2. Grows /\ (counting' => counting)
  BY HistoryGrows
<1>3. DiskStep /\ bits' = bits /\ job' = job
  BY SameDisk DEF ReadBlocks
<1> QED BY <1>1, <1>2, <1>3, LookStep

LEMMA GetInv ==
  ASSUME AInv, History, NEW k \in 0..EndsBy, Get(k)
  PROVE  AInv'
<1> DEFINE pages == IF k >= EndsBy THEN {} ELSE {findPage(k)}
<1>1. ReadBlocks(pages) /\ call'.op = "get"
  BY DEF Get, Called
<1>2. pages \in SUBSET (BlockPage \cup {INVALID_PID})
  BY PageFacts, EndsByAssumption DEF Key
<1> HIDE DEF pages
<1> QED BY <1>1, <1>2, GetStep

LEMMA BatchGetInv ==
  ASSUME AInv, History, NEW keys \in Seq(0..EndsBy), BatchGet(keys)
  PROVE  AInv'
<1> DEFINE pages == {PageOf(keys[i]) : i \in DOMAIN keys}
<1>1. ReadBlocks(pages) /\ call'.op = "batchGet"
  BY DEF BatchGet, Called
<1>2. pages \in SUBSET (BlockPage \cup {INVALID_PID})
  <2>1. ASSUME NEW i \in DOMAIN keys PROVE PageOf(keys[i]) \in BlockPage \cup {INVALID_PID}
    <3>1. keys[i] \in 0..EndsBy
      <4> DEFINE K == 0..EndsBy
      <4>1. keys \in Seq(K)
        OBVIOUS
      <4> HIDE DEF K
      <4>2. keys[i] \in K
        BY <4>1
      <4> QED BY <4>2 DEF K
    <3> QED BY <3>1, PageOfKey
  <2> QED BY <2>1
<1> HIDE DEF pages
<1> QED BY <1>1, <1>2, GetStep

LEMMA BatchGetRangeInv ==
  ASSUME AInv, History, NEW b, NEW e, BatchGetRange(b, e) \/ BatchGetVector(b, e)
  PROVE  AInv'
<1>1. ReadBlocks(PagesOf(b, e)) /\ call'.op \in {"batchGetRange", "batchGetVector"}
  BY DEF BatchGetRange, BatchGetVector, Called
<1>2. PagesOf(b, e) \in SUBSET (BlockPage \cup {INVALID_PID})
  BY DEF PagesOf
<1> QED BY <1>1, <1>2, GetStep

(* By each of the puts. *)
LEMMA PutInv ==
  ASSUME AInv, History, NEW e \in Entry, e.key \in Key, Put(e)
  PROVE  AInv'
<1>1. Keeps /\ Counts
  BY PutLemma DEF AInv
<1>2. call'.op = "put" /\ UNCHANGED <<stored, storedBits, job>> /\ job = NoJob
  BY DEF Put, Called
<1>3. DiskStep /\ Grows /\ (counting' => counting)
  BY <1>2, SameDisk, HistoryGrows
<1>4. RangeAhead'
  BY <1>2 DEF RangeAhead, NoJob
<1> QED BY <1>1, <1>3, <1>4, PutStep

LEMMA BatchPutInv ==
  ASSUME AInv, History, NEW es \in Batches,
         BatchPut(es) \/ (InRange(es) /\ BatchPutVector(es))
  PROVE  AInv'
<1>1. Keeps /\ Counts
  BY BatchPutLemma, BatchPutVectorLemma DEF AInv
<1>2. /\ call'.op \in {"batchPut", "batchPutVector"} /\ UNCHANGED <<stored, storedBits>>
      /\ job'.op \in {"none", "batchPut", "batchPutVector"}
  BY DEF BatchPut, BatchPutVector, Continue, Called, NoJob
<1>3. DiskStep /\ Grows /\ (counting' => counting)
  BY <1>2, SameDisk, HistoryGrows
<1>4. RangeAhead'
  BY <1>2 DEF RangeAhead
<1> QED BY <1>1, <1>3, <1>4, PutStep

(* A careful caller's range never meets a page that has a block. *)
LEMMA RestIsNew ==
  ASSUME NEW es \in Batches, InRange(es), OnNewBlocks(es), NEW i \in DOMAIN Rest(es)
  PROVE  Rest(es)[i].key \in Key /\ findPage(Rest(es)[i].key) \notin bits \cup {Target(es)}
<1> DEFINE n == GroupLen(es)
           m == Len(es)
           j == n + i
<1>1. m \in Nat \ {0} /\ n \in 1..m /\ i \in 1..m - n
  BY BatchType, GroupLemma, GroupParts
<1>2. j \in n+1..m /\ j \in 1..m
  <2> HIDE DEF n, m
  <2> QED BY <1>1
<1>3. Rest(es)[i] = es[j]
  BY <1>1, GroupParts
<1>4. es[j].key \in 0..EndsBy
  BY <1>2, BatchType
<1>5. PageOf(es[j].key) # Target(es)
  BY <1>2, GroupLemma
<1>6. j \in DOMAIN es
  <2>1. es \in Seq(Entry)
    BY BatchType
  <2> HIDE DEF j
  <2> QED BY <1>2, <2>1
<1>7. es[j].key \in Key /\ findPage(es[j].key) \notin bits
  BY <1>6 DEF InRange, OnNewBlocks, HasBlock
<1> HIDE DEF j
<1>8. findPage(es[j].key) = PageOf(es[j].key)
  BY <1>4, <1>7, PageOfKey
<1> QED BY <1>3, <1>5, <1>7, <1>8

LEMMA RangeIsNew ==
  ASSUME AInv, NEW es \in Batches, InRange(es), BatchPutRange(es),
         job = NoJob /\ Careful => OnNewBlocks(es), Careful
  PROVE  OnNewBlocks(es) /\ RangeAhead'
<1>1. OnNewBlocks(es)
  <2>1. job = NoJob \/ (job.op = "batchPutRange" /\ job.entries = es)
    BY DEF BatchPutRange, Continue
  <2> QED BY <2>1 DEF AInv, RangeAhead
<1> DEFINE rest == Rest(es)
           p == Target(es)
<1>2. /\ bits' = bits \cup {p}
      /\ job' = IF rest = <<>> THEN NoJob ELSE [op |-> "batchPutRange", entries |-> rest]
  BY DEF BatchPutRange, Continue
<1>3. \A i \in DOMAIN rest : rest[i].key \in Key /\ findPage(rest[i].key) \notin bits \cup {p}
  BY <1>1, RestIsNew
<1> HIDE DEF rest, p
<1>4. job'.op = "batchPutRange" => job'.entries = rest
  BY <1>2 DEF NoJob
<1>5. InRange(rest) /\ \A i \in DOMAIN rest : findPage(rest[i].key) \notin bits'
  BY <1>2, <1>3 DEF InRange
<1>6. ASSUME job'.op = "batchPutRange" PROVE (InRange(job.entries) /\ OnNewBlocks(job.entries))'
  <2>1. job'.entries = rest
    BY <1>4, <1>6
  <2> QED BY <1>5, <2>1 DEF OnNewBlocks, HasBlock
<1> QED BY <1>1, <1>6 DEF RangeAhead

LEMMA BatchPutRangeInv ==
  ASSUME AInv, History, NEW es \in Batches, InRange(es), BatchPutRange(es),
         job = NoJob /\ Careful => OnNewBlocks(es)
  PROVE  AInv'
<1>1. Types' /\ Cached' /\ (OnNewBlocks(es) => Keeps)
  BY BatchPutRangeLemma DEF AInv
<1>2. call'.op = "batchPutRange" /\ UNCHANGED <<stored, storedBits>>
  BY DEF BatchPutRange, Continue, Called
<1>3. DiskStep /\ Grows /\ ~counting'
  BY <1>2, SameDisk, HistoryGrows DEF History
<1>4. CASE Careful
  <2>1. Keeps /\ RangeAhead'
    BY <1>1, <1>4, RangeIsNew
  <2>2. RecentOK'
    BY <1>1, <1>3, <1>4, GrowsLemma DEF AInv
  <2> QED BY <1>3, <1>4, <2>1, <2>2 DEF AInv, Keeps
<1>5. CASE ~Careful
  BY <1>1, <1>3, <1>5 DEF AInv, RangeAhead
<1> QED BY <1>4, <1>5

(* By the pool, by a flush and by a crash. *)
LEMMA EvictInv ==
  ASSUME AInv, History, NEW p \in BlockPage, Evict(p)
  PROVE  AInv'
<1>1. Keeps /\ nnz' = nnz /\ (Clean => Val' = Val)
  BY EvictLemma DEF AInv
<1>2. /\ call'.op = "quiet" /\ bits' = bits /\ job' = job /\ storedBits' = storedBits
      /\ InPool(frame, p) /\ stored' = DiskWith(frame, stored, p) /\ p \in Pages
  BY DEF Evict, Quiet, Called, Pages
<1>3. DiskStep /\ Grows /\ (counting' => counting)
  BY <1>2, WrittenDisk, HistoryGrows DEF AInv
<1> QED BY <1>1, <1>2, <1>3, LookStep

LEMMA WriteBackInv ==
  ASSUME AInv, History, NEW p \in DOMAIN frame, WriteBack(p)
  PROVE  AInv'
<1>1. p \in Pages
  BY DEF AInv, Types, FramesOK
<1>2. Keeps /\ nnz' = nnz /\ (Clean => Val' = Val)
  BY <1>1, WriteBackLemma DEF AInv
<1>3. /\ call'.op = "quiet" /\ bits' = bits /\ job' = job /\ storedBits' = storedBits
      /\ InPool(frame, p) /\ stored' = DiskWith(frame, stored, p)
  BY DEF WriteBack, Dirty, Quiet, Called
<1>4. DiskStep /\ Grows /\ (counting' => counting)
  BY <1>1, <1>3, WrittenDisk, HistoryGrows DEF AInv
<1> QED BY <1>2, <1>3, <1>4, LookStep

LEMMA BeginFlushInv ==
  ASSUME AInv, History, NEW how \in {"flushing", "closing"}, BeginFlush(how)
  PROVE  AInv'
<1>1. call'.op = "quiet" /\ phase' = how /\ UNCHANGED <<bits, frame, stored, storedBits, job>>
  BY DEF BeginFlush, Quiet, Called, poolVars
<1>2. Types' /\ Cached' /\ (Clean => Clean') /\ nnz' = nnz /\ \A q \in BlockPage : At(q)' = At(q)
  BY <1>1 DEF AInv, Types, JobOK, Cached, Clean, nnz, At, InPool
<1>3. DiskStep /\ Grows /\ (counting' => counting)
  BY <1>1, SameDisk, HistoryGrows
<1>4. Val' = Val
  BY <1>2, SameEffect DEF AInv
<1> QED BY <1>1, <1>2, <1>3, <1>4, LookStep DEF Keeps

LEMMA EndFlushInv ==
  ASSUME AInv, History, EndFlush
  PROVE  AInv'
<1>1. /\ Keeps /\ (phase = "flushing" => nnz' = nnz)
      /\ Clean => (Val' = Val /\ \A p \in BlockPage : OnDisk(p)' = At(p)')
  BY EndFlushLemma DEF AInv
<1>2. /\ call'.op = phase /\ phase \in {"flushing", "closing"} /\ bits' = bits /\ job' = job
  BY DEF EndFlush, Called, AInv, Types
<1>3. Renews /\ (counting' => counting) /\ (counting' => phase = "flushing")
  BY <1>2, HistoryRenews DEF History
<1>4. RangeAhead'
  BY <1>2 DEF AInv, RangeAhead, OnNewBlocks, HasBlock
<1>5. Careful => RecentOK'
  BY <1>1, <1>3, RenewsLemma DEF AInv, Keeps
<1>6. counting' => nnz' = Size(Val')
  BY <1>1, <1>3 DEF AInv
<1> QED BY <1>1, <1>3, <1>4, <1>5, <1>6 DEF AInv, Keeps

LEMMA CrashInv ==
  ASSUME AInv, History, Crash
  PROVE  AInv'
<1>1. Types' /\ Cached' /\ Clean' /\ \A p \in BlockPage : OnDisk(p)' = At(p)'
  BY CrashLemma DEF AInv
<1>2. call'.op = "crash" /\ job' = NoJob
  BY DEF Crash, Called
<1>3. Renews /\ ~counting'
  BY <1>2, HistoryRenews DEF History
<1>4. RangeAhead'
  BY <1>2 DEF RangeAhead, NoJob
<1> QED BY <1>1, <1>3, <1>4, RenewsLemma DEF AInv

LEMMA AInvStutters ==
  ASSUME AInv, UNCHANGED <<vars, recent, counting>>
  PROVE  AInv'
<1>1. UNCHANGED <<bits, frame, stored, storedBits, phase, job, recent, counting>>
  BY DEF vars, poolVars
<1>2. /\ Types' /\ Cached' /\ (Clean => Clean') /\ RangeAhead' /\ nnz' = nnz /\ DiskStep
      /\ \A q \in BlockPage : At(q)' = At(q) /\ OnDisk(q)' = OnDisk(q)
  BY <1>1 DEF AInv, Types, JobOK, Cached, Clean, RangeAhead, OnNewBlocks, HasBlock, nnz, At, OnDisk,
              InPool, DiskStep
<1>3. Val' = Val
  BY <1>2, SameEffect DEF AInv
<1>4. CrashVal' = CrashVal
  BY <1>1 DEF CrashVal, OnDisk
<1>5. Careful => RecentOK'
  BY <1>1, <1>3, <1>4 DEF AInv, RecentOK
<1> QED BY <1>1, <1>2, <1>3, <1>5 DEF AInv

(* The invariant is inductive. *)
LEMMA AInvNext ==
  ASSUME AInv, [HNext]_<<vars, recent, counting>>
  PROVE  AInv'
<1>1. CASE UNCHANGED <<vars, recent, counting>>
  BY <1>1, AInvStutters
<1>2. CASE HNext
  <2>1. History /\ Next
    BY <1>2 DEF HNext, History
  <2>2. CASE Callers
    <3>1. ASSUME NEW k \in Key, NEW d \in Value, Put([key |-> k, datum |-> d]) PROVE AInv'
      <4> DEFINE e == [key |-> k, datum |-> d]
      <4>1. e \in Entry /\ e.key \in Key
        BY EndsByAssumption DEF Entry, Key
      <4>2. Put(e)
        BY <3>1
      <4> HIDE DEF e
      <4> QED BY <2>1, <4>1, <4>2, PutInv
    <3>2. ASSUME NEW k \in 0..EndsBy, Get(k) PROVE AInv'
      BY <2>1, <3>2, GetInv
    <3>3. ASSUME NEW k \in 0..EndsBy, NEW l \in 0..EndsBy, BatchGet(<<k, l>>) PROVE AInv'
      <4> DEFINE keys == <<k, l>>
      <4>1. keys \in Seq(0..EndsBy) /\ BatchGet(keys)
        BY <3>3
      <4> HIDE DEF keys
      <4> QED BY <2>1, <4>1, BatchGetInv
    <3>4. ASSUME NEW r \in Ranges, BatchGetRange(r[1], r[2]) \/ BatchGetVector(r[1], r[2]) PROVE AInv'
      BY <2>1, <3>4, BatchGetRangeInv
    <3> QED BY <2>2, <3>1, <3>2, <3>3, <3>4 DEF Callers
  <2>3. CASE BatchStep
    BY <2>1, <2>3, BatchPutInv, BatchPutRangeInv DEF BatchStep
  <2>4. ASSUME NEW p \in BlockPage, Evict(p) PROVE AInv'
    BY <2>1, <2>4, EvictInv
  <2>5. ASSUME NEW p \in DOMAIN frame, WriteBack(p) PROVE AInv'
    BY <2>1, <2>5, WriteBackInv
  <2>6. ASSUME NEW how \in {"flushing", "closing"}, BeginFlush(how) PROVE AInv'
    BY <2>1, <2>6, BeginFlushInv
  <2>7. CASE EndFlush
    BY <2>1, <2>7, EndFlushInv
  <2>8. CASE Crash
    BY <2>1, <2>8, CrashInv
  <2> QED BY <2>1, <2>2, <2>3, <2>4, <2>5, <2>6, <2>7, <2>8 DEF Next
<1> QED BY <1>1, <1>2

(* The array keeps its types through every sequence of calls, evictions,   *)
(* flushes and crashes: blocks are full, the count is a size_t and a batch *)
(* in progress has entries left (DirectlyMappedArray.cpp).                 *)
THEOREM TypeCorrect == HSpec => []TypeOK
<1>1. HInit => AInv
  BY AInvInit
<1>2. AInv /\ [HNext]_<<vars, recent, counting>> => AInv'
  BY AInvNext
<1>3. AInv => TypeOK
  BY TypesImplyTypeOK DEF AInv
<1> QED BY <1>1, <1>2, <1>3, PTL DEF HSpec

(* The size of the map that is seen is what NnzCounts counts. *)
LEMMA SizeIsEntries == ASSUME Types PROVE Size(Val) = Entries
<1>1. \A k \in Key : Val[k] = DatumAt(k)
  BY DEF Val
<1>2. {k \in Key : DatumAt(k) # Default} = Nonzero(Val)
  BY <1>1 DEF Nonzero
<1> QED BY <1>2 DEF Entries, Size

(* nnz is the number of entries other than the default for every block     *)
(* size, number of blocks and length of batch, while only counting puts    *)
(* change the array (DirectlyMappedArray.cpp:201, 232, 277, 302).          *)
THEOREM NnzAlwaysCounts == HSpec => []NnzCounts
<1>1. HInit => AInv
  BY AInvInit
<1>2. AInv /\ [HNext]_<<vars, recent, counting>> => AInv'
  BY AInvNext
<1>3. AInv => NnzCounts
  BY SizeIsEntries DEF AInv, NnzCounts
<1> QED BY <1>1, <1>2, <1>3, PTL DEF HSpec

-----------------------------------------------------------------------------
(* What the gets answer. *)
LEMMA SeqOfItsElements ==
  ASSUME NEW A, NEW B, NEW s \in Seq(A), \A i \in DOMAIN s : s[i] \in B
  PROVE  s \in Seq(B)
<1>1. Len(s) \in Nat /\ DOMAIN s = 1..Len(s) /\ s = [i \in 1..Len(s) |-> s[i]]
  OBVIOUS
<1>2. s \in [1..Len(s) -> B]
  BY <1>1
<1> QED BY <1>1, <1>2

(* Append, element by element. *)
LEMMA Appended ==
  ASSUME NEW A, NEW s \in Seq(A), NEW x \in A
  PROVE  /\ Append(s, x) \in Seq(A) /\ Len(Append(s, x)) = Len(s) + 1
         /\ Append(s, x)[Len(s) + 1] = x /\ \A i \in 1..Len(s) : Append(s, x)[i] = s[i]
         /\ Len(s) \in Nat /\ DOMAIN s = 1..Len(s) /\ DOMAIN Append(s, x) = 1..Len(s) + 1
OBVIOUS

(* The elements of a sequence are a set, in ascending order of their keys. *)
Lists(s, A) ==
  /\ s \in Seq(Entry)
  /\ \A i \in DOMAIN s : s[i] \in A
  /\ \A x \in A : \E i \in DOMAIN s : s[i] = x
  /\ \A i, j \in DOMAIN s : i < j => s[i].key < s[j].key

LEMMA ListsMore ==
  ASSUME NEW s, NEW A, Lists(s, A), NEW x \in Entry, \A y \in A : y.key < x.key
  PROVE  Lists(Append(s, x), A \cup {x})
<1> DEFINE t == Append(s, x)
           n == Len(s)
<1>1. s \in Seq(Entry)
  BY DEF Lists
<1>2. /\ t \in Seq(Entry) /\ t[n+1] = x /\ (\A i \in 1..n : t[i] = s[i])
      /\ n \in Nat /\ DOMAIN s = 1..n /\ DOMAIN t = 1..n+1
  BY <1>1, Appended
<1> HIDE DEF t, n
<1>3. \A i \in DOMAIN t : i = n+1 \/ (i \in 1..n /\ t[i] = s[i] /\ s[i] \in A)
  BY <1>2 DEF Lists
<1>4. \A i \in DOMAIN t : t[i] \in A \cup {x}
  BY <1>2, <1>3
<1>5. \A y \in A \cup {x} : \E i \in DOMAIN t : t[i] = y
  <2> TAKE y \in A \cup {x}
  <2>1. CASE y = x
    BY <1>2, <2>1
  <2>2. CASE y \in A
    <3>1. PICK i \in DOMAIN s : s[i] = y
      BY <2>2 DEF Lists
    <3> QED BY <1>2, <3>1
  <2> QED BY <2>1, <2>2
<1>6. ASSUME NEW i \in DOMAIN t, NEW j \in DOMAIN t, i < j PROVE t[i].key < t[j].key
  <2>1. i \in 1..n /\ t[i] = s[i] /\ s[i] \in A
    BY <1>2, <1>3, <1>6
  <2>2. CASE j = n+1
    BY <1>2, <2>1, <2>2
  <2>3. CASE j \in 1..n
    BY <1>2, <1>6, <2>1, <2>3 DEF Lists
  <2> QED BY <1>2, <2>2, <2>3
<1> QED BY <1>2, <1>4, <1>5, <1>6 DEF Lists, t

(* The vector get lists the entries other than the default, in order. *)
LEMMA NonDefaultsLemma ==
  ASSUME Types, NEW b \in Key, NEW e \in 1..EndsBy, b < e
  PROVE  Lists(NonDefaults(b, e), {[key |-> k, datum |-> DatumAt(k)] : k \in {k \in b..e-1 : DatumAt(k) # Default}})
<1> DEFINE X == Seq(Entry)
           E(k) == [key |-> k, datum |-> DatumAt(k)]
           More(k, s) == IF HasBlock(findPage(k-1)) /\ DatumAt(k-1) # Default THEN Append(s, E(k-1)) ELSE s
           step == [k \in b+1..e |-> [s \in X |-> More(k, s)]]
           found(k) == {E(l) : l \in {l \in b..k-1 : DatumAt(l) # Default}}
<1>1. b \in Int /\ e \in Int /\ \A k \in b+1..e : k - 1 \in Key /\ k - 1 \in b..e-1
  BY EndsByAssumption DEF Key
<1>2. \A k \in Key : /\ E(k) \in Entry /\ DatumAt(k) \in Value
                     /\ (HasBlock(findPage(k)) /\ DatumAt(k) # Default) <=> DatumAt(k) # Default
  <2> TAKE k \in Key
  <2>1. DatumAt(k) \in Value
    BY ShownLemma DEF Shown, Val
  <2>2. k \in 0..EndsBy
    BY EndsByAssumption DEF Key
  <2> QED BY <2>1, <2>2 DEF Entry, DatumAt
<1>3. <<>> \in X /\ \A k \in b+1..e, s \in X : More(k, s) \in X /\ step[k][s] = More(k, s)
  BY <1>1, <1>2
<1>4. PICK g \in [b..e -> X] : g[b] = <<>> /\ \A k \in b+1..e : g[k] = step[k][g[k-1]]
  <2>1. StepsIn(X, b, e, step)
    <3> HIDE DEF X, More, E, step
    <3> QED BY <1>3 DEF StepsIn
  <2> HIDE DEF X, step, More, E, found
  <2>2. \E g \in [b..e -> X] : Iterates(g, b, e, <<>>, step)
    BY <1>1, <1>3, <2>1, RecursionExists
  <2> QED BY <2>2 DEF Iterates
<1>5. ASSUME NEW k \in b+1..e PROVE g[k-1] \in X /\ g[k] = More(k, g[k-1])
  <2> HIDE DEF X, step, More
  <2>1. k - 1 \in b..e
    BY <1>1
  <2> QED BY <1>3, <1>4, <2>1
<1> DEFINE v[k \in b..e] ==
             IF k = b THEN <<>>
             ELSE IF HasBlock(findPage(k-1)) /\ DatumAt(k-1) # Default
             THEN Append(v[k-1], [key |-> k-1, datum |-> DatumAt(k-1)])
             ELSE v[k-1]
<1>6. g = [k \in b..e |-> IF k = b THEN <<>> ELSE More(k, g[k-1])]
  <2> HIDE DEF More
  <2>1. \A k \in b..e : g[k] = IF k = b THEN <<>> ELSE More(k, g[k-1])
    BY SMTT(30), <1>1, <1>4, <1>5
  <2> HIDE DEF X
  <2> QED BY <2>1
<1>7. v = [k \in b..e |-> IF k = b THEN <<>> ELSE More(k, v[k-1])]
  <2> HIDE DEF step, found, X
  <2> QED BY Zenon, <1>6
<1>8. \A k \in b..e : v[k] = g[k]
  <2> HIDE DEF More, v, X, step, found, E
  <2>1. v[b] = g[b]
    BY <1>1, <1>4, <1>7
  <2>2. \A k \in b+1..e : v[k-1] = g[k-1] => v[k] = g[k]
    BY <1>1, <1>5, <1>7
  <2> DEFINE S == {k \in b..e : v[k] = g[k]}
  <2>3. b \in Int /\ e \in Int /\ b \in S
    BY <1>1, <2>1
  <2>4. \A k \in b+1..e : k-1 \in S => k \in S
    BY <2>2, <2>3
  <2>5. \A k \in b..e : k \in S
    <3> HIDE DEF S
    <3> QED BY <2>3, <2>4, UpTo
  <2> QED BY <2>5
<1>9. NonDefaults(b, e) = g[e]
  <2>1. NonDefaults(b, e) = v[e]
    BY DEF NonDefaults
  <2> HIDE DEF v
  <2> QED BY <1>1, <1>8, <2>1
<1> DEFINE S == {k \in b..e : Lists(g[k], found(k))}
<1>10. b \in S
  <2>1. found(b) = {} /\ g[b] = <<>> /\ g[b] \in Seq(Entry) /\ b \in b..e /\ DOMAIN g[b] = {}
    BY <1>1, <1>4
  <2> HIDE DEF found
  <2> QED BY <2>1 DEF Lists
<1>11. ASSUME NEW k \in b+1..e, k-1 \in S PROVE k \in S
  <2> DEFINE s == g[k-1]
             x == E(k-1)
  <2>1. Lists(s, found(k-1)) /\ g[k] = More(k, s) /\ k - 1 \in Key /\ k \in b..e
    BY <1>1, <1>5, <1>11
  <2>2. CASE DatumAt(k-1) # Default
    <3>1. g[k] = Append(s, x) /\ x \in Entry
      BY <1>2, <2>1, <2>2
    <3>2. found(k) = found(k-1) \cup {x}
      <4>1. {l \in b..k-1 : DatumAt(l) # Default} = {l \in b..(k-1)-1 : DatumAt(l) # Default} \cup {k-1}
        BY <1>1, <2>2
      <4> QED BY <4>1
    <3>3. \A y \in found(k-1) : y.key < x.key
      BY <1>1
    <3>4. Lists(Append(s, x), found(k-1) \cup {x})
      <4> HIDE DEF found, s, x
      <4> QED BY <2>1, <3>1, <3>3, ListsMore
    <3>5. Lists(g[k], found(k))
      <4> HIDE DEF found, s, x
      <4> QED BY <3>1, <3>2, <3>4
    <3> QED BY <2>1, <3>5
  <2>3. CASE DatumAt(k-1) = Default
    <3>1. g[k] = s
      BY <2>1, <2>3
    <3>2. found(k) = found(k-1)
      <4>1. {l \in b..k-1 : DatumAt(l) # Default} = {l \in b..(k-1)-1 : DatumAt(l) # Default}
        BY <1>1, <2>3
      <4> QED BY <4>1
    <3> HIDE DEF found
    <3> QED BY <2>1, <3>1, <3>2
  <2> QED BY <2>2, <2>3
<1>12. e \in S
  <2> HIDE DEF S, X, More, E, found, v, step
  <2>1. b \in Int /\ e \in Int /\ e \in b..e
    BY <1>1
  <2>2. \A k \in b..e : k \in S
    BY <1>10, <1>11, <2>1, UpTo
  <2> QED BY <2>1, <2>2
<1> QED BY <1>9, <1>12

(* What a page adds to the memory of a range get. *)
LEMMA OverlayData ==
  ASSUME NEW a \in Nat, NEW n \in Nat, NEW b \in Int
  PROVE  Overlay([i \in 0..a-1 |-> DatumAt(b + i)], a, [i \in 0..n-1 |-> DatumAt((b + a) + i)])
           = [i \in 0..a+n-1 |-> DatumAt(b + i)]
<1> DEFINE old == [i \in 0..a-1 |-> DatumAt(b + i)]
           new == [i \in 0..n-1 |-> DatumAt((b + a) + i)]
           both == Overlay(old, a, new)
<1>1. 0..a-1 \cup {a + i : i \in 0..n-1} = 0..a+n-1
  <2>1. ASSUME NEW j \in 0..a+n-1 PROVE j \in 0..a-1 \/ \E i \in 0..n-1 : j = a + i
    <3>1. CASE j < a
      BY <3>1
    <3>2. CASE j >= a
      <4>1. j - a \in 0..n-1 /\ j = a + (j - a)
        BY <3>2
      <4> QED BY <4>1
    <3> QED BY <3>1, <3>2
  <2> QED BY <2>1
<1>2. both = [j \in 0..a+n-1 |-> IF j - a \in 0..n-1 THEN new[j - a] ELSE old[j]]
  <2>1. DOMAIN old = 0..a-1 /\ DOMAIN new = 0..n-1
    OBVIOUS
  <2> HIDE DEF old, new
  <2>2. both = [j \in 0..a-1 \cup {a + i : i \in 0..n-1} |-> IF j - a \in 0..n-1 THEN new[j - a] ELSE old[j]]
    BY <2>1 DEF Overlay
  <2> QED BY <1>1, <2>2
<1>3. ASSUME NEW j \in 0..a+n-1
      PROVE  (IF j - a \in 0..n-1 THEN new[j - a] ELSE old[j]) = DatumAt(b + j)
  <2>1. CASE j - a \in 0..n-1
    <3>1. (b + a) + (j - a) = b + j
      OBVIOUS
    <3>2. new[j - a] = DatumAt((b + a) + (j - a))
      BY <2>1
    <3> QED BY <2>1, <3>1, <3>2
  <2>2. CASE j - a \notin 0..n-1
    <3>1. j \in 0..a-1
      BY <2>2
    <3> QED BY <2>2, <3>1
  <2> QED BY <2>1, <2>2
<1> HIDE DEF both, old, new
<1>4. both = [j \in 0..a+n-1 |-> DatumAt(b + j)]
  BY <1>2, <1>3
<1> QED BY <1>4 DEF both, old, new

(* How far a get of a range is after each page. *)
Reached(p, b, e) == IF p < findPage(b) THEN 0 ELSE Smaller(e, Upper(p)) - b

LEMMA ReachedLemma ==
  ASSUME NEW b \in Key, NEW e \in 1..EndsBy, b < e
  PROVE  /\ findPage(b) \in BlockPage /\ findPage(e-1) \in BlockPage /\ findPage(b) <= findPage(e-1)
         /\ Reached(findPage(b) - 1, b, e) = 0 /\ Reached(findPage(e-1), b, e) = e - b
         /\ \A p \in findPage(b)..findPage(e-1) :
              /\ p \in PagesOf(b, e) /\ Reached(p-1, b, e) \in Nat /\ Reached(p, b, e) \in Nat
              /\ Greater(b, Lower(p)) = b + Reached(p-1, b, e)
              /\ Smaller(e, Upper(p)) - Greater(b, Lower(p)) = Reached(p, b, e) - Reached(p-1, b, e)
              /\ Reached(p-1, b, e) <= Reached(p, b, e)
<1> DEFINE q == findPage(b)
           r == findPage(e-1)
<1>1. e - 1 \in Key /\ b <= e - 1 /\ b \in Nat /\ e \in Nat
  BY EndsByAssumption DEF Key
<1>2. q \in BlockPage /\ r \in BlockPage /\ q <= r /\ q \in Nat \ {0} /\ r \in Nat \ {0}
  BY <1>1, PageFacts
<1>3. /\ Lower(q) <= b /\ b < Upper(q) /\ Lower(r) <= e-1 /\ e-1 < Upper(r)
      /\ Lower(q) \in Nat /\ Upper(q) \in Nat /\ Lower(r) \in Nat /\ Upper(r) \in Nat
  BY <1>1, <1>2, PageFacts, CapAssumption DEF Offset
<1>4. \A p \in q..r : p \in BlockPage /\ Lower(p) \in Nat /\ Upper(p) = Lower(p) + Cap
  <2> TAKE p \in q..r
  <2>1. p \in BlockPage
    <3>1. EndsBy - 1 \in Key
      BY EndsByAssumption DEF Key
    <3>2. findPage(EndsBy - 1) \in Nat
      BY <3>1, PageFacts
    <3> DEFINE last == findPage(EndsBy - 1)
    <3> HIDE DEF q, r, last
    <3>3. BlockPage = 1..last /\ last \in Nat
      BY <3>2 DEF BlockPage, last
    <3> QED BY <1>2, <3>3
  <2> QED BY <2>1, PageFacts
<1>5. \A i, j \in Nat : i <= j => i * Cap <= j * Cap
  BY CapAssumption
<1> HIDE DEF q, r
<1>6. ASSUME NEW p \in q..r
      PROVE  /\ Lower(p) < e /\ Upper(p) > b /\ Upper(p-1) = Lower(p) /\ Lower(p) \in Nat /\ Upper(p) \in Nat
             /\ p > q => Lower(p) > b
  <2>1. p - 1 \in Nat /\ p \in Nat /\ q - 1 \in Nat /\ r - 1 \in Nat
    BY <1>2
  <2>2. Lower(p) <= Lower(r) /\ Upper(q) <= Upper(p) /\ (p > q => Upper(q) <= Lower(p))
    BY <1>2, <1>5, <2>1 DEF Lower, Upper
  <2>3. Lower(p) \in Nat /\ Upper(p) \in Nat /\ Upper(p-1) = Lower(p)
    BY <1>4, CapAssumption DEF Lower, Upper
  <2> QED BY <1>1, <1>3, <2>2, <2>3
<1>7. /\ Reached(q-1, b, e) = 0 /\ Reached(r, b, e) = e - b
  BY <1>1, <1>2, <1>3 DEF Reached, Smaller, q, r
<1>8. ASSUME NEW p \in q..r
      PROVE  /\ p \in PagesOf(b, e) /\ Reached(p-1, b, e) \in Nat /\ Reached(p, b, e) \in Nat
             /\ Greater(b, Lower(p)) = b + Reached(p-1, b, e)
             /\ Smaller(e, Upper(p)) - Greater(b, Lower(p)) = Reached(p, b, e) - Reached(p-1, b, e)
             /\ Reached(p-1, b, e) <= Reached(p, b, e)
  <2>1. p \in PagesOf(b, e)
    BY <1>2, <1>4, <1>6 DEF PagesOf, q
  <2>2. Reached(p, b, e) = Smaller(e, Upper(p)) - b
    BY <1>2 DEF Reached, q
  <2>3. CASE p = q
    <3>1. Reached(p-1, b, e) = 0
      BY <1>7, <2>3
    <3> QED BY <1>1, <1>3, <2>1, <2>2, <2>3, <3>1, CapAssumption DEF Greater, Smaller
  <2>4. CASE p > q
    <3>1. Reached(p-1, b, e) = Lower(p) - b /\ Greater(b, Lower(p)) = Lower(p)
      BY <1>1, <1>2, <1>6, <2>4 DEF Reached, Greater, Smaller, q
    <3>2. Upper(p) = Lower(p) + Cap
      BY <1>4
    <3> QED BY <1>1, <1>6, <2>1, <2>2, <2>4, <3>1, <3>2, CapAssumption DEF Smaller
  <2> QED BY <1>2, <2>3, <2>4
<1> QED BY <1>2, <1>7, <1>8 DEF q, r

(* Where every page of a range has a block, a get of it has every datum. *)
LEMMA RangeDataLemma ==
  ASSUME NEW b \in Key, NEW e \in 1..EndsBy, b < e, PagesOf(b, e) \subseteq bits
  PROVE  BatchGetRangeData(b, e) = [i \in 0..e-b-1 |-> DatumAt(b + i)]
<1> DEFINE q == findPage(b)
           r == findPage(e-1)
           at(p) == Reached(p, b, e)
           h == [p \in q-1..r |-> [at |-> at(p), memory |-> [i \in 0..at(p)-1 |-> DatumAt(b + i)]]]
<1>1. /\ q \in Nat \ {0} /\ r \in Nat \ {0} /\ q <= r /\ at(q-1) = 0 /\ at(r) = e - b
      /\ \A p \in q..r : /\ p \in bits /\ at(p-1) \in Nat /\ at(p) \in Nat /\ at(p) - at(p-1) \in Nat
                         /\ Greater(b, Lower(p)) = b + at(p-1)
                         /\ Smaller(e, Upper(p)) - Greater(b, Lower(p)) = at(p) - at(p-1)
  <2>1. q \in Nat \ {0} /\ r \in Nat \ {0} /\ q <= r /\ at(q-1) = 0 /\ at(r) = e - b
    BY ReachedLemma, PageFacts
  <2>2. ASSUME NEW p \in q..r
        PROVE  /\ p \in bits /\ at(p-1) \in Nat /\ at(p) \in Nat /\ at(p-1) <= at(p)
               /\ Greater(b, Lower(p)) = b + at(p-1)
               /\ Smaller(e, Upper(p)) - Greater(b, Lower(p)) = at(p) - at(p-1)
    BY ReachedLemma
  <2>3. \A p \in q..r : at(p) - at(p-1) \in Nat
    <3> TAKE p \in q..r
    <3>1. at(p-1) \in Nat /\ at(p) \in Nat /\ at(p-1) <= at(p)
      BY <2>2
    <3> HIDE DEF at
    <3> QED BY <3>1
  <2> HIDE DEF q, r, at
  <2> QED BY <2>1, <2>2, <2>3
<1> HIDE DEF q, r, at
<1>2. \A p \in q-1..r : h[p] = [at |-> at(p), memory |-> [i \in 0..at(p)-1 |-> DatumAt(b + i)]]
  OBVIOUS
<1>3. h[q-1] = [at |-> 0, memory |-> <<>>]
  <2>1. [i \in 0..0-1 |-> DatumAt(b + i)] = <<>>
    OBVIOUS
  <2> QED BY <1>1, <1>2, <2>1
<1>4. ASSUME NEW p \in q..r PROVE h[p] = RangeStep(h[p-1], p, b, e)
  <2> DEFINE a == at(p-1)
             n == at(p) - at(p-1)
  <2>1. a \in Nat /\ n \in Nat /\ a + n = at(p) /\ HasBlock(p) /\ b \in Int
    BY <1>1 DEF HasBlock, Key
  <2>2. h[p-1].at = a /\ h[p-1].memory = [i \in 0..a-1 |-> DatumAt(b + i)]
    BY <1>1, <1>2
  <2>3. Greater(b, Lower(p)) = b + a /\ Smaller(e, Upper(p)) - Greater(b, Lower(p)) = n
    BY <1>1
  <2> HIDE DEF h, a, n
  <2>4. RangeStep(h[p-1], p, b, e)
          = [at |-> a + n, memory |-> Overlay([i \in 0..a-1 |-> DatumAt(b + i)], a,
                                              [i \in 0..n-1 |-> DatumAt((b + a) + i)])]
    BY <2>1, <2>2, <2>3 DEF RangeStep
  <2>5. h[p] = [at |-> a + n, memory |-> [i \in 0..a+n-1 |-> DatumAt(b + i)]]
    <3>1. h[p] = [at |-> at(p), memory |-> [i \in 0..at(p)-1 |-> DatumAt(b + i)]]
      BY <1>1, <1>2
    <3> QED BY <2>1, <3>1
  <2> QED BY <2>1, <2>4, <2>5, OverlayData
<1> DEFINE loop[p \in q-1..r] ==
             IF p < q THEN [at |-> 0, memory |-> <<>>] ELSE RangeStep(loop[p-1], p, b, e)
<1>5. h = [p \in q-1..r |-> IF p < q THEN [at |-> 0, memory |-> <<>>] ELSE RangeStep(h[p-1], p, b, e)]
  <2>1. \A p \in q-1..r : (p < q /\ p = q-1) \/ (~(p < q) /\ p \in q..r)
    BY <1>1
  <2> HIDE DEF h
  <2>2. \A p \in q-1..r : h[p] = IF p < q THEN [at |-> 0, memory |-> <<>>] ELSE RangeStep(h[p-1], p, b, e)
    BY <1>3, <1>4, <2>1
  <2> USE DEF h
  <2>3. h = [p \in q-1..r |-> h[p]]
    OBVIOUS
  <2> HIDE DEF h
  <2> QED BY <2>2, <2>3
<1>6. loop = [p \in q-1..r |-> IF p < q THEN [at |-> 0, memory |-> <<>>] ELSE RangeStep(loop[p-1], p, b, e)]
  <2> HIDE DEF h
  <2> QED BY <1>5
<1> DEFINE S == {p \in q-1..r : loop[p] = h[p]}
<1>7. q-1 \in S /\ \A p \in q-1+1..r : p-1 \in S => p \in S
  <2> HIDE DEF h, loop
  <2> QED BY <1>1, <1>3, <1>4, <1>6
<1>8. r \in S
  <2>1. q-1 \in Int /\ r \in Int /\ r \in q-1..r
    BY <1>1
  <2> HIDE DEF S
  <2>2. \A p \in q-1..r : p \in S
    BY <1>7, <2>1, UpTo
  <2> QED BY <2>1, <2>2
<1>9. BatchGetRangeData(b, e) = loop[r].memory
  BY DEF BatchGetRangeData, q, r
<1>10. h[r].memory = [i \in 0..e-b-1 |-> DatumAt(b + i)]
  BY <1>1, <1>2
<1> HIDE DEF h, loop
<1> QED BY <1>8, <1>9, <1>10

(* What the loop of batchGet holds after i keys: the last n of them are on *)
(* the current page, and the data of those before are filled in, of all if *)
(* there is no page.                                                       *)
Right(keys, j) == IF keys[j] \in Key THEN DatumAt(keys[j]) ELSE Default
Data(keys) == {DatumAt(keys[j]) : j \in DOMAIN keys} \cup {Default, NA}
States(keys) == [page : BlockPage \cup {INVALID_PID}, n : Nat, data : [DOMAIN keys -> Data(keys)]]
GetsSoFar(keys, i, acc) ==
  /\ acc \in States(keys)
  /\ acc.n <= i
  /\ \A j \in i-acc.n+1..i : PageOf(keys[j]) = acc.page
  /\ \A j \in 1..i : j <= i - acc.n \/ acc.page = INVALID_PID => acc.data[j] = Right(keys, j)

(* The keys of a batch get. *)
LEMMA KeysType ==
  ASSUME NEW keys \in Seq(0..EndsBy)
  PROVE  /\ Len(keys) \in Nat /\ DOMAIN keys = 1..Len(keys)
         /\ \A j \in 1..Len(keys) :
              /\ keys[j] \in 0..EndsBy /\ PageOf(keys[j]) \in BlockPage \cup {INVALID_PID}
              /\ keys[j] \in Key <=> PageOf(keys[j]) # INVALID_PID
<1> DEFINE K == 0..EndsBy
<1>1. Len(keys) \in Nat /\ DOMAIN keys = 1..Len(keys) /\ \A j \in 1..Len(keys) : keys[j] \in K
  <2>1. keys \in Seq(K)
    OBVIOUS
  <2> HIDE DEF K
  <2> QED BY <2>1
<1> QED BY <1>1, PageOfKey, PageFacts

(* What filling in a run of keys does. *)
LEMMA FilledLemma ==
  ASSUME NEW keys \in Seq(0..EndsBy), NEW data \in [DOMAIN keys -> Data(keys)],
         NEW p, NEW first, NEW last
  PROVE  /\ Filled(data, keys, p, first, last) \in [DOMAIN keys -> Data(keys)]
         /\ \A j \in DOMAIN keys : Filled(data, keys, p, first, last)[j]
                                     = IF j \in first..last /\ p # INVALID_PID THEN DatumAt(keys[j]) ELSE data[j]
BY DEF Filled, Data

(* One turn of the loop of batchGet. *)
LEMMA VisitLemma ==
  ASSUME NEW keys \in Seq(0..EndsBy), NEW i \in 1..Len(keys), NEW acc \in States(keys)
  PROVE  /\ Visit(acc, keys, i) \in States(keys)
         /\ GetsSoFar(keys, i-1, acc) => GetsSoFar(keys, i, Visit(acc, keys, i))
<1> DEFINE p == PageOf(keys[i])
           data == IF p = INVALID_PID THEN [acc.data EXCEPT ![i] = Default] ELSE acc.data
           fill == Filled(data, keys, acc.page, i - acc.n, i - 1)
           new == Visit(acc, keys, i)
           len == Len(keys)
<1>1. /\ len \in Nat /\ DOMAIN keys = 1..len /\ i \in 1..len /\ p \in BlockPage \cup {INVALID_PID}
      /\ \A j \in 1..len : keys[j] \in Key <=> PageOf(keys[j]) # INVALID_PID
  BY KeysType
<1>2. /\ acc.page \in BlockPage \cup {INVALID_PID} /\ acc.n \in Nat
      /\ acc.data \in [1..len -> Data(keys)]
  BY <1>1 DEF States
<1>3. Default \in Data(keys)
  BY DEF Data
<1>4. /\ data \in [1..len -> Data(keys)]
      /\ \A j \in 1..len : data[j] = IF j = i /\ p = INVALID_PID THEN Default ELSE acc.data[j]
  BY <1>1, <1>2, <1>3
<1>5. /\ fill \in [1..len -> Data(keys)]
      /\ \A j \in 1..len : fill[j] = IF j \in i-acc.n..i-1 /\ acc.page # INVALID_PID
                                     THEN DatumAt(keys[j]) ELSE data[j]
  <2> HIDE DEF data, p
  <2> QED BY <1>1, <1>4, FilledLemma
<1>6. new = IF acc.page # p THEN [page |-> p, n |-> 1, data |-> fill]
            ELSE [page |-> p, n |-> acc.n + 1, data |-> data]
  BY DEF Visit
<1> HIDE DEF p, data, fill, new, len
<1>7. new \in States(keys)
  <2>1. 1 \in Nat /\ acc.n + 1 \in Nat
    BY <1>2
  <2> QED BY <1>1, <1>4, <1>5, <1>6, <2>1 DEF States
<1>8. ASSUME GetsSoFar(keys, i-1, acc) PROVE GetsSoFar(keys, i, new)
  <2>1. /\ acc.n <= i - 1
        /\ \A j \in (i-1)-acc.n+1..i-1 : PageOf(keys[j]) = acc.page
        /\ \A j \in 1..i-1 : j <= (i-1) - acc.n \/ acc.page = INVALID_PID => acc.data[j] = Right(keys, j)
    BY <1>8 DEF GetsSoFar
  <2>2. PageOf(keys[i]) = p
    BY DEF p
  <2>3. CASE acc.page # p
    <3>1. new.page = p /\ new.n = 1 /\ new.data = fill
      BY <1>6, <2>3
    <3>2. \A j \in i-1+1..i : PageOf(keys[j]) = p
      BY <1>1, <2>2
    <3>3. ASSUME NEW j \in 1..i, j <= i - 1 \/ p = INVALID_PID PROVE fill[j] = Right(keys, j)
      <4>1. j \in 1..len /\ i \in Nat /\ j \in Nat
        BY <1>1
      <4>2. CASE j = i
        <5>1. fill[j] = data[j] /\ p = INVALID_PID
          BY <1>1, <1>2, <1>5, <3>3, <4>1, <4>2
        <5>2. fill[j] = Default /\ keys[j] \notin Key
          BY <1>1, <1>4, <2>2, <4>1, <4>2, <5>1
        <5> QED BY <5>2 DEF Right
      <4>3. CASE j < i /\ j >= i - acc.n /\ acc.page # INVALID_PID
        <5>1. j \in i-acc.n..i-1 /\ PageOf(keys[j]) = acc.page
          BY <1>1, <1>2, <2>1, <4>1, <4>3
        <5>2. keys[j] \in Key /\ fill[j] = DatumAt(keys[j])
          BY <1>1, <1>5, <4>1, <4>3, <5>1
        <5> QED BY <5>2 DEF Right
      <4>4. CASE j < i /\ (j < i - acc.n \/ acc.page = INVALID_PID)
        <5>1. fill[j] = data[j]
          BY <1>1, <1>2, <1>5, <4>1, <4>4
        <5>2. data[j] = acc.data[j]
          BY <1>1, <1>4, <4>1, <4>4
        <5>3. acc.data[j] = Right(keys, j)
          BY <1>1, <1>2, <2>1, <4>1, <4>4
        <5> QED BY <5>1, <5>2, <5>3
      <4> QED BY <1>2, <4>1, <4>2, <4>3, <4>4
    <3> QED BY <1>1, <1>7, <3>1, <3>2, <3>3 DEF GetsSoFar
  <2>4. CASE acc.page = p
    <3>1. new.page = p /\ new.n = acc.n + 1 /\ new.data = data
      BY <1>6, <2>4
    <3>2. \A j \in i-(acc.n+1)+1..i : PageOf(keys[j]) = p
      <4> TAKE j \in i-(acc.n+1)+1..i
      <4>1. j = i \/ j \in (i-1)-acc.n+1..i-1
        BY <1>1, <1>2
      <4> QED BY <2>1, <2>2, <2>4, <4>1
    <3>3. ASSUME NEW j \in 1..i, j <= i - (acc.n+1) \/ p = INVALID_PID PROVE data[j] = Right(keys, j)
      <4>1. j \in 1..len /\ i \in Nat /\ j \in Nat
        BY <1>1
      <4>2. CASE j = i
        <5>1. p = INVALID_PID
          BY <1>2, <3>3, <4>1, <4>2
        <5>2. data[j] = Default /\ keys[j] \notin Key
          BY <1>1, <1>4, <2>2, <4>1, <4>2, <5>1
        <5> QED BY <5>2 DEF Right
      <4>3. CASE j < i
        <5>1. data[j] = acc.data[j]
          BY <1>1, <1>4, <4>1, <4>3
        <5>2. acc.data[j] = Right(keys, j)
          BY <1>1, <1>2, <2>1, <2>4, <3>3, <4>1, <4>3
        <5> QED BY <5>1, <5>2
      <4> QED BY <4>1, <4>2, <4>3
    <3> QED BY <1>1, <1>2, <1>7, <2>1, <3>1, <3>2, <3>3 DEF GetsSoFar
  <2> QED BY <2>3, <2>4
<1> QED BY <1>7, <1>8 DEF new

(* A batch get answers the datum of each key, and the default for a key    *)
(* out of range.                                                           *)
LEMMA BatchGetDataLemma ==
  ASSUME NEW keys \in Seq(0..EndsBy)
  PROVE  BatchGetData(keys) = [j \in DOMAIN keys |-> Right(keys, j)]
<1> DEFINE X == States(keys)
           len == Len(keys)
           start == [page |-> INVALID_PID, n |-> 0, data |-> [j \in DOMAIN keys |-> NA]]
           step == [i \in 1..len |-> [a \in X |-> Visit(a, keys, i)]]
<1>1. len \in Nat /\ DOMAIN keys = 1..len
  BY KeysType
<1>2. start \in X /\ GetsSoFar(keys, 0, start)
  <2>1. [j \in DOMAIN keys |-> NA] \in [DOMAIN keys -> Data(keys)]
    BY DEF Data
  <2>2. start \in X
    BY <2>1 DEF States
  <2> QED BY <2>2 DEF GetsSoFar
<1>3. \A i \in 1..len, a \in X : step[i][a] = Visit(a, keys, i) /\ Visit(a, keys, i) \in X
  BY VisitLemma
<1> HIDE DEF X, start, step, len
<1>4. PICK g \in [0..len -> X] : Iterates(g, 0, len, start, step)
  <2>1. StepsIn(X, 0, len, step)
    BY <1>3 DEF StepsIn
  <2> QED BY <1>1, <1>2, <2>1, RecursionExists
<1>5. g[0] = start /\ \A i \in 1..len : g[i-1] \in X /\ g[i] = Visit(g[i-1], keys, i)
  <2>1. g[0] = start /\ \A i \in 1..len : g[i] = step[i][g[i-1]]
    BY <1>4 DEF Iterates
  <2>2. \A i \in 1..len : i - 1 \in 0..len
    BY <1>1
  <2> QED BY <1>3, <2>1, <2>2
<1> DEFINE loop[i \in 0..len] == IF i = 0 THEN start ELSE Visit(loop[i-1], keys, i)
<1>6. g = [i \in 0..len |-> IF i = 0 THEN start ELSE Visit(g[i-1], keys, i)]
  <2>1. \A i \in 0..len : g[i] = IF i = 0 THEN start ELSE Visit(g[i-1], keys, i)
    BY <1>1, <1>5
  <2> QED BY <2>1
<1>7. loop = [i \in 0..len |-> IF i = 0 THEN start ELSE Visit(loop[i-1], keys, i)]
  BY <1>6
<1> DEFINE S == {i \in 0..len : loop[i] = g[i] /\ GetsSoFar(keys, i, g[i])}
<1>8. 0 \in S /\ \A i \in 0+1..len : i-1 \in S => i \in S
  <2> HIDE DEF loop
  <2>1. 0 \in S
    BY <1>1, <1>2, <1>5, <1>7
  <2>2. ASSUME NEW i \in 1..len, i-1 \in S PROVE i \in S
    <3>1. i \in 0..len /\ loop[i] = Visit(loop[i-1], keys, i) /\ g[i] = Visit(g[i-1], keys, i)
      BY <1>1, <1>5, <1>7
    <3>2. loop[i] = g[i]
      BY <2>2, <3>1
    <3>3. GetsSoFar(keys, i, g[i])
      <4>1. g[i-1] \in States(keys) /\ i \in 1..Len(keys) /\ GetsSoFar(keys, i-1, g[i-1])
        BY <1>5, <2>2 DEF X, len
      <4> QED BY <3>1, <4>1, VisitLemma
    <3> QED BY <3>1, <3>2, <3>3
  <2> QED BY <2>1, <2>2
<1>9. len \in S
  <2>1. 0 \in Int /\ len \in Int /\ len \in 0..len
    BY <1>1
  <2> HIDE DEF S
  <2>2. \A i \in 0..len : i \in S
    BY <1>8, <2>1, UpTo
  <2> QED BY <2>1, <2>2
<1> DEFINE end == loop[len]
<1>10. BatchGetData(keys) = Filled(end.data, keys, end.page, len - end.n + 1, len)
  BY DEF BatchGetData, len, start
<1>11. GetsSoFar(keys, len, end)
  BY <1>9
<1> HIDE DEF end
<1>12. end.data \in [DOMAIN keys -> Data(keys)] /\ end.n \in Nat /\ end.page \in BlockPage \cup {INVALID_PID}
  BY <1>11 DEF GetsSoFar, States
<1>13. ASSUME NEW j \in DOMAIN keys
       PROVE  (IF j \in len-end.n+1..len /\ end.page # INVALID_PID THEN DatumAt(keys[j]) ELSE end.data[j])
                = Right(keys, j)
  <2>1. j \in 1..len
    BY <1>1
  <2>2. CASE j \in len-end.n+1..len /\ end.page # INVALID_PID
    <3>1. PageOf(keys[j]) # INVALID_PID
      BY <1>11, <2>2 DEF GetsSoFar
    <3>2. keys[j] \in Key
      BY <2>1, <3>1, KeysType DEF len
    <3> QED BY <2>2, <3>2 DEF Right
  <2>3. CASE ~(j \in len-end.n+1..len /\ end.page # INVALID_PID)
    <3>1. j <= len - end.n \/ end.page = INVALID_PID
      BY <1>1, <1>12, <2>1, <2>3
    <3> QED BY <1>11, <2>1, <2>3, <3>1 DEF GetsSoFar
  <2> QED BY <2>2, <2>3
<1> DEFINE result == Filled(end.data, keys, end.page, len - end.n + 1, len)
<1>14. /\ result \in [DOMAIN keys -> Data(keys)]
       /\ \A j \in DOMAIN keys : result[j] = IF j \in len-end.n+1..len /\ end.page # INVALID_PID
                                             THEN DatumAt(keys[j]) ELSE end.data[j]
  BY <1>12, FilledLemma
<1> HIDE DEF result
<1>15. \A j \in DOMAIN keys : result[j] = Right(keys, j)
  BY <1>13, <1>14
<1>16. result = [j \in DOMAIN keys |-> Right(keys, j)]
  BY <1>14, <1>15
<1> QED BY <1>10, <1>16 DEF result

-----------------------------------------------------------------------------
(* Every step of the array is a step of the store. *)
StorePut(arg, answer) ==
  /\ arg.key \in Key /\ answer = "AC_OK" /\ job.entries = <<>>
  /\ Val' = Store!After(Val, <<arg>>) /\ job'.entries = job.entries
StoreStep(es, group) ==
  /\ job.entries \in {<<>>, es}
  /\ \E n \in 1..Len(es) : group = SubSeq(es, 1, n) /\ job'.entries = SubSeq(es, n + 1, Len(es))
  /\ Val' = Store!After(Val, group)

(* The history, in terms of the map. *)
LEMMA GrowsIs == Grows => recent' = [k \in Key |-> recent[k] \cup {Val'[k]}]
BY DEF Grows, Val

LEMMA RenewsIs == Renews => recent' = [k \in Key |-> {Val'[k]}]
BY DEF Renews, Val

(* Each kind of step, as an action of the store. *)
LEMMA PutIsChange ==
  ASSUME Grows, NEW arg, NEW answer, call' = Called("put", arg, answer), StorePut(arg, answer)
  PROVE  Store!ANext
<1>1. call'.op = "put" /\ call'.arg = arg /\ call'.answer = answer
  BY DEF Called
<1>2. Store!Put
  BY <1>1 DEF Store!Put, StorePut, Val
<1>3. Store!Change
  BY <1>2, GrowsIs DEF Store!Change, Val
<1> QED BY <1>3 DEF Store!ANext

LEMMA StepIsChange ==
  ASSUME Grows, NEW op \in {"batchPut", "batchPutVector", "batchPutRange"}, NEW es, NEW group,
         call' = Called(op, [left |-> es, group |-> group], "AC_OK"), StoreStep(es, group)
  PROVE  Store!ANext
<1>1. call'.op = op /\ call'.arg.left = es /\ call'.arg.group = group
  BY DEF Called
<1>2. Store!Step
  BY <1>1 DEF Store!Step, StoreStep, Val
<1>3. Store!Change
  BY <1>2, GrowsIs DEF Store!Change, Val
<1> QED BY <1>3 DEF Store!ANext

(* A datum that is seen is recent already. *)
LEMMA NothingNew ==
  ASSUME RecentOK, Grows, Val' = Val
  PROVE  recent' = recent
<1>1. \A k \in Key : recent[k] \cup {Val'[k]} = recent[k]
  BY DEF RecentOK
<1>2. recent' = [k \in Key |-> recent[k]]
  BY <1>1, GrowsIs
<1> QED BY <1>2 DEF RecentOK

LEMMA QuietIsLook ==
  ASSUME RecentOK, Grows, Val' = Val, job' = job, Quiet
  PROVE  Store!ANext
<1>1. call'.op = "quiet" /\ recent' = recent
  BY NothingNew DEF Quiet, Called
<1>2. Store!Look
  BY <1>1 DEF Store!Look, Store!Quiet, Val
<1> QED BY <1>2 DEF Store!ANext

LEMMA ReadIsLook ==
  ASSUME RecentOK, Grows, Val' = Val, job = NoJob, job' = job,
         NEW op \in {"get", "batchGet", "batchGetRange", "batchGetVector"}, NEW arg, NEW answer,
         call' = Called(op, arg, answer), Store!Answers(op, arg, answer)
  PROVE  Store!ANext
<1>1. call'.op = op /\ call'.arg = arg /\ call'.answer = answer /\ recent' = recent
  BY NothingNew DEF Called
<1>2. job.entries = <<>>
  BY DEF NoJob
<1>3. Store!Read
  BY <1>1, <1>2 DEF Store!Read, Val
<1>4. Store!Look
  BY <1>1, <1>3 DEF Store!Look
<1> QED BY <1>4 DEF Store!ANext

LEMMA FlushIsFlush ==
  ASSUME Renews, Val' = Val, job' = job, call'.op \in {"flushing", "closing"}
  PROVE  Store!ANext
<1>1. Store!Flush
  BY RenewsIs DEF Store!Flush, Val
<1> QED BY <1>1 DEF Store!ANext

LEMMA CrashIsCrash ==
  ASSUME Renews, Val' \in [Key -> Value], \A k \in Key : Val'[k] \in recent[k],
         job' = NoJob, call'.op = "crash"
  PROVE  Store!ANext
<1>1. job'.entries = <<>>
  BY DEF NoJob
<1>2. Store!Crash
  BY <1>1, RenewsIs DEF Store!Crash, Val
<1> QED BY <1>2 DEF Store!ANext

(* A new array is a new store. *)
LEMMA RefinesInit == HInit => Store!AInit
<1> SUFFICES ASSUME HInit PROVE Store!AInit
  OBVIOUS
<1>1. /\ Types /\ \A p \in BlockPage : At(p) = EmptyBlock
      /\ recent = [k \in Key |-> {Default}] /\ job = NoJob /\ call = Called("create", <<>>, "AC_OK")
  BY InitLemma DEF HInit, Init
<1>2. Shown
  BY <1>1, ShownLemma
<1>3. ASSUME NEW k \in Key PROVE Val[k] = Default
  <2>1. findPage(k) \in BlockPage /\ k - Lower(findPage(k)) \in Offset
    BY PageFacts
  <2> QED BY <1>1, <1>2, <2>1 DEF Shown, Shows, EmptyBlock, Offset
<1>4. Val = [k \in Key |-> Default]
  BY <1>2, <1>3 DEF Shown
<1>5. job.entries = <<>> /\ call.op = "create"
  BY <1>1 DEF NoJob, Called
<1> QED BY <1>1, <1>4, <1>5 DEF Store!AInit, Store!Init, Val

LEMMA RefinesStutter ==
  ASSUME AInv, AInv', UNCHANGED <<vars, recent, counting>>
  PROVE  UNCHANGED Store!vars
<1>1. UNCHANGED <<bits, frame, stored, job, call, recent>>
  BY DEF vars, poolVars
<1>2. \A q \in BlockPage : At(q)' = At(q)
  BY <1>1 DEF At, InPool
<1>3. Val' = Val
  BY <1>2, SameEffect DEF AInv
<1> QED BY <1>1, <1>3 DEF Store!vars, Val

(* The puts. *)
LEMMA RefinesPut ==
  ASSUME AInv, History, NEW e \in Entry, e.key \in Key, Put(e)
  PROVE  Store!ANext
<1>1. call' = Called("put", e, "AC_OK") /\ job = NoJob /\ job' = job
  BY DEF Put
<1>2. call'.op = "put"
  BY <1>1 DEF Called
<1>3. Grows
  BY <1>2, HistoryGrows
<1>4. Val' = Store!After(Val, <<e>>)
  BY PutLemma DEF AInv
<1>5. StorePut(e, "AC_OK")
  BY <1>1, <1>4 DEF StorePut, NoJob
<1> QED BY <1>1, <1>3, <1>5, PutIsChange

LEMMA RefinesStep ==
  ASSUME AInv, History, NEW op \in {"batchPut", "batchPutVector", "batchPutRange"}, NEW es \in Batches,
         Continue(op, es), Val' = Store!After(Val, Group(es))
  PROVE  Store!ANext
<1>1. /\ call' = Called(op, [left |-> es, group |-> Group(es)], "AC_OK")
      /\ job = NoJob \/ job = [op |-> op, entries |-> es]
      /\ job' = IF Rest(es) = <<>> THEN NoJob ELSE [op |-> op, entries |-> Rest(es)]
  BY DEF Continue
<1>2. call'.op = op
  BY <1>1 DEF Called
<1>3. Grows
  BY <1>2, HistoryGrows
<1>4. job.entries \in {<<>>, es} /\ job'.entries = Rest(es)
  BY <1>1 DEF NoJob
<1>5. GroupLen(es) \in 1..Len(es)
  BY GroupLemma
<1>6. \E n \in 1..Len(es) : Group(es) = SubSeq(es, 1, n) /\ job'.entries = SubSeq(es, n + 1, Len(es))
  BY <1>4, <1>5 DEF Group, Rest
<1>7. StoreStep(es, Group(es))
  BY <1>4, <1>6 DEF StoreStep
<1> QED BY <1>1, <1>3, <1>7, StepIsChange

LEMMA RefinesBatches ==
  ASSUME AInv, History, Careful, BatchStep
  PROVE  Store!ANext
<1>1. ASSUME NEW es \in Batches, NoEmptyGroup(es), BatchPut(es) PROVE Store!ANext
  <2>1. Val' = Store!After(Val, Group(es)) /\ Continue("batchPut", es)
    BY <1>1, BatchPutLemma DEF AInv, BatchPut
  <2> QED BY <2>1, RefinesStep
<1>2. ASSUME NEW es \in Batches, InRange(es), BatchPutVector(es) PROVE Store!ANext
  <2>1. Val' = Store!After(Val, Group(es)) /\ Continue("batchPutVector", es)
    BY <1>2, BatchPutVectorLemma DEF AInv, BatchPutVector
  <2> QED BY <2>1, RefinesStep
<1>3. ASSUME NEW es \in Batches, InRange(es), job = NoJob /\ Careful => OnNewBlocks(es), BatchPutRange(es)
      PROVE  Store!ANext
  <2>1. OnNewBlocks(es)
    BY <1>3, RangeIsNew
  <2>2. Val' = Store!After(Val, Group(es)) /\ Continue("batchPutRange", es)
    BY <1>3, <2>1, BatchPutRangeLemma DEF AInv, BatchPutRange
  <2> QED BY <2>2, RefinesStep
<1> QED BY <1>1, <1>2, <1>3 DEF BatchStep

(* The gets. *)
LEMMA RefinesRead ==
  ASSUME AInv, History, Careful, NEW pages \in SUBSET (BlockPage \cup {INVALID_PID}), ReadBlocks(pages),
         NEW op \in {"get", "batchGet", "batchGetRange", "batchGetVector"}, NEW arg, NEW answer,
         call' = Called(op, arg, answer), Store!Answers(op, arg, answer)
  PROVE  Store!ANext
<1>1. Val' = Val
  BY ReadBlocksLemma DEF AInv
<1>2. job = NoJob /\ job' = job
  BY DEF ReadBlocks
<1>3. call'.op = op
  BY DEF Called
<1>4. Grows
  BY <1>3, HistoryGrows
<1>5. RecentOK
  BY DEF AInv
<1> QED BY <1>1, <1>2, <1>4, <1>5, ReadIsLook

LEMMA RefinesGet ==
  ASSUME AInv, History, Careful, NEW k \in 0..EndsBy, Get(k)
  PROVE  Store!ANext
<1> DEFINE pages == IF k >= EndsBy THEN {} ELSE {findPage(k)}
           answer == IF k >= EndsBy THEN NA ELSE DatumAt(k)
<1>1. ReadBlocks(pages) /\ call' = Called("get", k, answer)
  BY DEF Get
<1>2. k \in Key <=> ~(k >= EndsBy)
  BY EndsByAssumption DEF Key
<1>3. pages \in SUBSET (BlockPage \cup {INVALID_PID})
  BY <1>2, PageFacts
<1>4. answer = IF k \in Key THEN Val[k] ELSE NA
  BY <1>2 DEF Val
<1> HIDE DEF pages, answer
<1>5. Store!Answers("get", k, answer)
  BY <1>4 DEF Store!Answers, Val
<1> QED BY <1>1, <1>3, <1>5, RefinesRead

LEMMA RefinesBatchGet ==
  ASSUME AInv, History, Careful, NEW keys \in Seq(0..EndsBy), BatchGet(keys)
  PROVE  Store!ANext
<1> DEFINE pages == {PageOf(keys[i]) : i \in DOMAIN keys}
           answer == BatchGetData(keys)
<1>1. ReadBlocks(pages) /\ call' = Called("batchGet", keys, answer)
  BY DEF BatchGet
<1>2. pages \in SUBSET (BlockPage \cup {INVALID_PID})
  BY KeysType
<1>3. answer = [i \in DOMAIN keys |-> IF keys[i] \in Key THEN Val[keys[i]] ELSE Default]
  BY BatchGetDataLemma DEF Val, Right
<1> HIDE DEF pages, answer
<1>4. Store!Answers("batchGet", keys, answer)
  BY <1>3 DEF Store!Answers, Val
<1> QED BY <1>1, <1>2, <1>4, RefinesRead

LEMMA RefinesRangeGet ==
  ASSUME AInv, History, Careful, NEW b \in Key, NEW e \in 1..EndsBy, b < e,
         PagesOf(b, e) \subseteq bits, BatchGetRange(b, e)
  PROVE  Store!ANext
<1> DEFINE pages == PagesOf(b, e)
           answer == BatchGetRangeData(b, e)
           arg == <<b, e>>
<1>1. ReadBlocks(pages) /\ call' = Called("batchGetRange", arg, answer)
  BY DEF BatchGetRange
<1>2. pages \in SUBSET (BlockPage \cup {INVALID_PID})
  BY DEF PagesOf
<1>3. answer = [i \in 0..e-b-1 |-> DatumAt(b + i)]
  BY RangeDataLemma
<1>4. ASSUME NEW i \in 0..e-b-1 PROVE DatumAt(b + i) = Val[b + i]
  <2>1. b + i \in Key
    BY EndsByAssumption DEF Key
  <2> QED BY <2>1 DEF Val
<1>5. arg[1] = b /\ arg[2] = e
  OBVIOUS
<1> HIDE DEF pages, answer, arg
<1>6. answer = [i \in 0..arg[2]-arg[1]-1 |-> Val[arg[1] + i]]
  BY <1>3, <1>4, <1>5
<1>7. Store!Answers("batchGetRange", arg, answer)
  BY <1>6 DEF Store!Answers, Val
<1> QED BY <1>1, <1>2, <1>7, RefinesRead

LEMMA RefinesVectorGet ==
  ASSUME AInv, History, Careful, NEW b \in Key, NEW e \in 1..EndsBy, b < e, BatchGetVector(b, e)
  PROVE  Store!ANext
<1> DEFINE pages == PagesOf(b, e)
           answer == NonDefaults(b, e)
           arg == <<b, e>>
           found == {[key |-> k, datum |-> Val[k]] : k \in {k \in b..e-1 : Val[k] # Default}}
<1>1. ReadBlocks(pages) /\ call' = Called("batchGetVector", arg, answer)
  BY DEF BatchGetVector
<1>2. pages \in SUBSET (BlockPage \cup {INVALID_PID})
  BY DEF PagesOf
<1>3. Lists(answer, found)
  <2>1. \A k \in b..e-1 : Val[k] = DatumAt(k)
    BY EndsByAssumption DEF Val, Key
  <2>2. found = {[key |-> k, datum |-> DatumAt(k)] : k \in {k \in b..e-1 : DatumAt(k) # Default}}
    BY <2>1
  <2> HIDE DEF found
  <2> QED BY <2>2, NonDefaultsLemma DEF AInv
<1>4. arg[1] = b /\ arg[2] = e
  OBVIOUS
<1>5. /\ answer \in Seq(found) /\ Store!Range(answer) = found
      /\ \A i, j \in DOMAIN answer : i < j => answer[i].key < answer[j].key
  <2> HIDE DEF found, answer
  <2>1. answer \in Seq(found)
    BY <1>3, SeqOfItsElements DEF Lists
  <2> QED BY <1>3, <2>1 DEF Lists, Store!Range
<1> HIDE DEF pages, answer, arg
<1>6. Store!Answers("batchGetVector", arg, answer)
  BY <1>4, <1>5 DEF Store!Answers, Val
<1> QED BY <1>1, <1>2, <1>6, RefinesRead

(* The pool and a crash. *)
LEMMA RefinesQuiet ==
  ASSUME AInv, History, Careful, Quiet, Val' = Val, job' = job
  PROVE  Store!ANext
<1>1. call'.op = "quiet"
  BY DEF Quiet, Called
<1>2. Grows
  BY <1>1, HistoryGrows
<1> QED BY <1>2, QuietIsLook DEF AInv

LEMMA RefinesCrash ==
  ASSUME AInv, AInv', History, Careful, Crash
  PROVE  Store!ANext
<1>1. \A p \in BlockPage : At(p)' = OnDisk(p)
  BY CrashLemma DEF AInv
<1>2. job' = NoJob /\ call'.op = "crash"
  BY DEF Crash, Called
<1>3. Renews
  BY <1>2, HistoryRenews
<1>4. Shown'
  BY ShownNext DEF AInv
<1>5. ASSUME NEW k \in Key PROVE Val'[k] \in recent[k]
  <2>1. findPage(k) \in BlockPage
    BY PageFacts
  <2>2. Val'[k] = At(findPage(k))'[k - Lower(findPage(k))]
    BY <1>4, <2>1 DEF Shown, Shows
  <2>3. Val'[k] = CrashVal[k]
    BY <1>1, <2>1, <2>2 DEF CrashVal
  <2> QED BY <2>3 DEF AInv, RecentOK
<1>6. Val' \in [Key -> Value]
  BY <1>4 DEF Shown
<1> QED BY <1>2, <1>3, <1>5, <1>6, CrashIsCrash

(* Every step of the array is a step of the store. *)
LEMMA RefinesNext ==
  ASSUME AInv, AInv', Careful, [HNext]_<<vars, recent, counting>>
  PROVE  [Store!ANext]_Store!vars
<1>1. CASE UNCHANGED <<vars, recent, counting>>
  BY <1>1, RefinesStutter
<1>2. CASE HNext
  <2>1. History /\ Next /\ Clean
    BY <1>2 DEF HNext, History, AInv
  <2>2. CASE Callers
    <3>1. ASSUME NEW k \in Key, NEW d \in Value, Put([key |-> k, datum |-> d]) PROVE Store!ANext
      <4> DEFINE e == [key |-> k, datum |-> d]
      <4>1. e \in Entry /\ e.key \in Key
        BY EndsByAssumption DEF Entry, Key
      <4>2. Put(e)
        BY <3>1
      <4> HIDE DEF e
      <4> QED BY <2>1, <4>1, <4>2, RefinesPut
    <3>2. ASSUME NEW k \in 0..EndsBy, Get(k) PROVE Store!ANext
      BY <2>1, <3>2, RefinesGet
    <3>3. ASSUME NEW k \in 0..EndsBy, NEW l \in 0..EndsBy, BatchGet(<<k, l>>) PROVE Store!ANext
      <4> DEFINE keys == <<k, l>>
      <4>1. keys \in Seq(0..EndsBy) /\ BatchGet(keys)
        BY <3>3
      <4> HIDE DEF keys
      <4> QED BY <2>1, <4>1, RefinesBatchGet
    <3>4. ASSUME NEW r \in Ranges,
                 \/ (Careful => PagesOf(r[1], r[2]) \subseteq bits) /\ BatchGetRange(r[1], r[2])
                 \/ BatchGetVector(r[1], r[2])
          PROVE  Store!ANext
      <4> DEFINE b == r[1]
                 e == r[2]
      <4>1. b \in Key /\ e \in 1..EndsBy /\ b < e
        BY DEF Ranges
      <4>2. (PagesOf(b, e) \subseteq bits /\ BatchGetRange(b, e)) \/ BatchGetVector(b, e)
        BY <3>4
      <4> HIDE DEF b, e
      <4> QED BY <2>1, <4>1, <4>2, RefinesRangeGet, RefinesVectorGet
    <3> QED BY <2>2, <3>1, <3>2, <3>3, <3>4 DEF Callers
  <2>3. CASE BatchStep
    BY <2>1, <2>3, RefinesBatches
  <2>4. ASSUME NEW p \in BlockPage, Evict(p) PROVE Store!ANext
    <3>1. Val' = Val
      BY <2>1, <2>4, EvictLemma DEF AInv
    <3>2. Quiet /\ job' = job
      BY <2>4 DEF Evict
    <3> QED BY <2>1, <3>1, <3>2, RefinesQuiet
  <2>5. ASSUME NEW p \in DOMAIN frame, WriteBack(p) PROVE Store!ANext
    <3>1. p \in Pages
      BY DEF AInv, Types, FramesOK
    <3>2. Val' = Val
      BY <2>5, <3>1, WriteBackLemma DEF AInv
    <3>3. Quiet /\ job' = job
      BY <2>5 DEF WriteBack
    <3> QED BY <2>1, <3>2, <3>3, RefinesQuiet
  <2>6. ASSUME NEW how \in {"flushing", "closing"}, BeginFlush(how) PROVE Store!ANext
    <3>1. Quiet /\ UNCHANGED <<bits, frame, stored, job>>
      BY <2>6 DEF BeginFlush, poolVars
    <3>2. \A q \in BlockPage : At(q)' = At(q)
      BY <3>1 DEF At, InPool
    <3>3. Val' = Val
      BY <3>2, SameEffect DEF AInv
    <3> QED BY <2>1, <3>1, <3>3, RefinesQuiet
  <2>7. CASE EndFlush
    <3>1. Val' = Val
      BY <2>1, <2>7, EndFlushLemma DEF AInv
    <3>2. call'.op \in {"flushing", "closing"} /\ job' = job
      BY <2>7 DEF EndFlush, Called, AInv, Types
    <3>3. Renews
      BY <2>1, <3>2, HistoryRenews
    <3> QED BY <3>1, <3>2, <3>3, FlushIsFlush
  <2>8. CASE Crash
    BY <2>1, <2>8, RefinesCrash
  <2> QED BY <2>1, <2>2, <2>3, <2>4, <2>5, <2>6, <2>7, <2>8 DEF Next
<1> QED BY <1>1, <1>2

(* The array implements ArrayStore for careful callers, whatever the size  *)
(* of its blocks, its length and the order of evictions: every get answers *)
(* what was put, in all forms, and after a crash each key has one of the   *)
(* data it had since the last flush (DirectlyMappedArray.cpp:62-344).      *)
THEOREM ArrayImplementsStore ==
  ASSUME Careful
  PROVE  HSpec => ImplementsArray
<1>1. HInit => AInv /\ Store!AInit
  BY AInvInit, RefinesInit
<1>2. AInv /\ [HNext]_<<vars, recent, counting>> => AInv'
  BY AInvNext
<1>3. AInv /\ AInv' /\ [HNext]_<<vars, recent, counting>> => [Store!ANext]_Store!vars
  BY RefinesNext
<1> QED BY <1>1, <1>2, <1>3, PTL DEF HSpec, ImplementsArray, Store!ASpec

=============================================================================
