------------------------- MODULE BatchBufferProofs -------------------------
(***************************************************************************)
(* The batch buffer, for callers that put no pending key and use no batch  *)
(* call over pending entries (Careful: the others lose data).              *)
(*                                                                         *)
(* The invariant, BufferInv, takes the pending entries as a set: a page    *)
(* fits the set when its bounds are a leaf's, or were one's when they were *)
(* taken, and its count is that of the entries within them.  Bounds stay   *)
(* fit when leaves split, and two that fit never cut each other, so that   *)
(* the groups are disjoint (GroupsFit); what a policy writes is a union of *)
(* groups and what it remembers is others (EvictionFits), which therefore  *)
(* still fit the entries that are left (KeepFits) and, with one page       *)
(* counted up, the new entry (RememberedFits).                             *)
(*                                                                         *)
(* LG_RAND locates its groups while it writes them.  Each turn of a walk   *)
(* takes the entries of one leaf or, once the splits of the turns before   *)
(* it have nearly filled the tree, of one cell (TurnFits), so that a walk  *)
(* writes the entries whose group had the size class when it came to them  *)
(* (WalksFit, MetWith).                                                    *)
(***************************************************************************)
EXTENDS BatchBuffer, FiniteSetTheorems, WellFoundedInduction, TLAPS

(* A nonempty set of numbers from some point on has a least element. *)
LEMMA LeastOf ==
  ASSUME NEW lo \in Int, NEW S \in SUBSET Int, S # {}, \A n \in S : n >= lo
  PROVE  \E m \in S : \A n \in S : m <= n
<1> DEFINE T == {n - lo : n \in S}
<1>0. \A n \in S : n \in Int /\ n - lo \in Nat
  OBVIOUS
<1>1. T \in SUBSET Nat /\ T # {}
  BY <1>0
<1>2. PICK m \in T : \A n \in T : ~ (<<n, m>> \in OpToRel(<, Nat))
  BY <1>1, NatLessThanWellFounded, WFMin
<1>3. \A n \in T : ~ (n < m)
  BY <1>1, <1>2 DEF OpToRel
<1>4. PICK k \in S : m = k - lo
  BY <1>2
<1>5. \A n \in S : n - lo \in T
  OBVIOUS
<1>6. ASSUME NEW n \in S PROVE k <= n
  <2>1. n \in Int /\ k \in Int /\ ~ (n - lo < k - lo)
    BY <1>0, <1>3, <1>4, <1>5
  <2> QED BY <2>1
<1> QED BY <1>6

(* Induction up to a bound. *)
LEMMA UpTo ==
  ASSUME NEW lo \in Int, NEW hi \in Int, NEW S, lo \in S,
         \A i \in lo+1..hi : i-1 \in S => i \in S
  PROVE  \A i \in lo..hi : i \in S
<1> DEFINE T == {i \in lo..hi : i \notin S}
<1>1. SUFFICES ASSUME T # {} PROVE FALSE
  OBVIOUS
<1>2. T \in SUBSET Int /\ \A n \in T : n >= lo
  OBVIOUS
<1>3. PICK m \in T : \A n \in T : m <= n
  <2> HIDE DEF T
  <2> QED BY <1>1, <1>2, LeastOf
<1>4. m \in lo+1..hi /\ m - 1 \in lo..hi /\ ~(m <= m - 1)
  BY <1>3
<1> QED BY <1>3, <1>4

(* A function given by its first value and a step from each value to the   *)
(* next one exists.                                                        *)
StepsIn(X, lo, hi, step) == \A i \in lo+1..hi : \A y \in X : step[i][y] \in X
Iterates(g, lo, hi, x, step) == g[lo] = x /\ \A i \in lo+1..hi : g[i] = step[i][g[i-1]]

LEMMA RecursionExists ==
  ASSUME NEW lo \in Int, NEW hi \in Int, lo <= hi, NEW X, NEW x \in X,
         NEW step, StepsIn(X, lo, hi, step)
  PROVE  \E g \in [lo..hi -> X] : Iterates(g, lo, hi, x, step)
<1> DEFINE S == {n \in lo..hi : \E g \in [lo..n -> X] : Iterates(g, lo, n, x, step)}
<1>1. lo \in S
  <2> DEFINE g == [i \in lo..lo |-> x]
  <2>1. g \in [lo..lo -> X] /\ g[lo] = x /\ lo+1..lo = {}
    OBVIOUS
  <2> HIDE DEF g
  <2>2. Iterates(g, lo, lo, x, step)
    BY <2>1 DEF Iterates
  <2> QED BY <2>1, <2>2
<1>2. ASSUME NEW n \in lo+1..hi, n-1 \in S PROVE n \in S
  <2>1. PICK g \in [lo..n-1 -> X] : Iterates(g, lo, n-1, x, step)
    BY <1>2
  <2> DEFINE f == [i \in lo..n |-> IF i = n THEN step[n][g[n-1]] ELSE g[i]]
  <2>2. g[n-1] \in X /\ step[n][g[n-1]] \in X
    BY DEF StepsIn
  <2>3. f \in [lo..n -> X]
    BY <2>2
  <2>4. f[n] = step[n][g[n-1]] /\ \A i \in lo..n-1 : f[i] = g[i]
    OBVIOUS
  <2> HIDE DEF f
  <2>5. f[lo] = x
    BY <2>1, <2>4 DEF Iterates
  <2>6. ASSUME NEW i \in lo+1..n PROVE f[i] = step[i][f[i-1]]
    <3>1. CASE i = n
      <4>1. f[n-1] = g[n-1]
        BY <2>4
      <4> QED BY <2>4, <3>1, <4>1
    <3>2. CASE i # n
      <4>1. i \in lo+1..n-1 /\ i \in lo..n-1 /\ i-1 \in lo..n-1
        BY <3>2
      <4>2. f[i] = g[i] /\ f[i-1] = g[i-1] /\ g[i] = step[i][g[i-1]]
        BY <2>1, <2>4, <4>1 DEF Iterates
      <4> QED BY <4>2
    <3> QED BY <3>1, <3>2
  <2>7. Iterates(f, lo, n, x, step)
    BY <2>5, <2>6 DEF Iterates
  <2> QED BY <2>3, <2>7
<1>3. \A n \in lo..hi : n \in S
  <2> HIDE DEF S
  <2> QED BY <1>1, <1>2, UpTo
<1> QED BY <1>3

(* The greatest of some numbers below a bound. *)
LEMMA GreatestOf ==
  ASSUME NEW hi \in Int, NEW S \in SUBSET Int, S # {}, \A n \in S : n <= hi
  PROVE  /\ Max(S) \in S
         /\ \A n \in S : n <= Max(S)
<1> DEFINE T == {-n : n \in S}
<1>1. \A n \in S : n \in Int /\ -n >= -hi
  OBVIOUS
<1>2. T # {} /\ \A n \in T : n \in Int /\ n >= -hi
  <2>1. PICK k \in S : TRUE
    OBVIOUS
  <2>2. -k \in T
    OBVIOUS
  <2> QED BY <1>1, <2>2
<1>3. PICK m \in T : \A n \in T : m <= n
  <2> HIDE DEF T
  <2>1. T \in SUBSET Int /\ -hi \in Int
    BY <1>2
  <2> QED BY <1>2, <2>1, LeastOf
<1>4. PICK k \in S : m = -k
  BY <1>3
<1>5. ASSUME NEW n \in S PROVE k >= n
  <2>1. n \in Int /\ k \in Int /\ m <= -n
    BY <1>1, <1>3
  <2> QED BY <1>4, <2>1
<1>6. \E x \in S : \A y \in S : x >= y
  BY <1>5
<1>7. Max(S) \in S /\ \A y \in S : Max(S) >= y
  BY <1>6 DEF Max
<1> QED BY <1>1, <1>7

(* The least of some numbers above a bound. *)
LEMMA SmallestOf ==
  ASSUME NEW lo \in Int, NEW S \in SUBSET Int, S # {}, \A n \in S : n >= lo
  PROVE  /\ Min(S) \in S
         /\ \A n \in S : Min(S) <= n
<1>1. \E x \in S : \A y \in S : x <= y
  BY LeastOf
<1>2. Min(S) \in S /\ \A y \in S : Min(S) <= y
  BY <1>1 DEF Min
<1> QED BY <1>2

-----------------------------------------------------------------------------
(* Pending entries in the order of their keys. *)
Pend == [key : Key, datum : Value, time : 0..MaxTime]
Ascending(s) == \A i, j \in DOMAIN s : i < j => s[i].key < s[j].key
Elements(s) == {s[i] : i \in DOMAIN s}
Below(s, k) == {i \in DOMAIN s : s[i].key < k}

LEMMA KeysAre ==
  ASSUME NEW s \in Seq(Pend)
  PROVE  /\ DOMAIN s = 1..Len(s) /\ Len(s) \in Nat
         /\ \A i \in DOMAIN s : s[i] \in Pend /\ s[i].key \in Key /\ s[i].key \in Int
         /\ \A x \in Elements(s) : x \in Pend /\ x.key \in Key /\ x.key \in Int
<1>1. \A x \in Pend : x.key \in Key /\ x.key \in Int
  BY DEF Pend, Key
<1>2. DOMAIN s = 1..Len(s) /\ Len(s) \in Nat /\ \A i \in DOMAIN s : s[i] \in Pend
  OBVIOUS
<1> QED BY <1>1, <1>2 DEF Elements

LEMMA OneEntryPerKey ==
  ASSUME NEW s \in Seq(Pend), Ascending(s), NEW i \in DOMAIN s, NEW j \in DOMAIN s,
         s[i].key = s[j].key
  PROVE  i = j
<1>1. i \in Int /\ j \in Int /\ s[i].key \in Int
  BY KeysAre
<1>2. ~(i < j) /\ ~(j < i)
  BY <1>1 DEF Ascending
<1> QED BY <1>1, <1>2

(* An index for each entry: the cardinalities are the same. *)
LEMMA AsManyIndices ==
  ASSUME NEW s \in Seq(Pend), Ascending(s), NEW K
  PROVE  LET I == {i \in DOMAIN s : s[i].key \in K}
             X == {x \in Elements(s) : x.key \in K}
         IN  /\ IsFiniteSet(I) /\ IsFiniteSet(X)
             /\ Cardinality(I) = Cardinality(X) /\ Cardinality(X) \in Nat
<1> DEFINE I == {i \in DOMAIN s : s[i].key \in K}
           X == {x \in Elements(s) : x.key \in K}
           f == [i \in I |-> s[i]]
<1>1. I \subseteq 1..Len(s) /\ Len(s) \in Nat
  OBVIOUS
<1>2. IsFiniteSet(I)
  BY <1>1, FS_Interval, FS_Subset
<1>3. f \in Bijection(I, X)
  <2>1. \A i, j \in I : f[i] = f[j] => i = j
    BY OneEntryPerKey
  <2>2. \A x \in X : \E i \in I : f[i] = x
    BY DEF Elements
  <2>3. f \in [I -> X]
    BY DEF Elements
  <2> QED BY <2>1, <2>2, <2>3 DEF Bijection, Injection, Surjection, IsInjective
<1>4. ExistsBijection(I, X)
  BY <1>3 DEF ExistsBijection
<1>5. IsFiniteSet(X) /\ Cardinality(X) = Cardinality(I)
  BY <1>2, <1>4, FS_Bijection
<1>6. Cardinality(X) \in Nat
  BY <1>5, FS_CardinalityType
<1> QED BY <1>2, <1>5, <1>6

LEMMA IntervalSize ==
  ASSUME NEW n \in Nat
  PROVE  Cardinality(1..n) = n
<1>1. 1 \in Int /\ n \in Int
  OBVIOUS
<1>2. Cardinality(1..n) = IF 1 > n THEN 0 ELSE n-1+1
  BY <1>1, FS_Interval
<1> QED BY <1>2

LEMMA LengthIs ==
  ASSUME NEW s \in Seq(Pend), Ascending(s)
  PROVE  IsFiniteSet(Elements(s)) /\ Len(s) = Cardinality(Elements(s)) /\ Len(s) \in Nat
<1>1. {i \in DOMAIN s : s[i].key \in Key} = 1..Len(s) /\ Len(s) \in Nat
  BY KeysAre
<1>2. {x \in Elements(s) : x.key \in Key} = Elements(s)
  BY KeysAre
<1>3. Cardinality(1..Len(s)) = Len(s)
  BY <1>1, IntervalSize
<1> DEFINE I == {i \in DOMAIN s : s[i].key \in Key}
           X == {x \in Elements(s) : x.key \in Key}
<1>4. IsFiniteSet(X) /\ Cardinality(I) = Cardinality(X)
  BY AsManyIndices
<1>5. I = 1..Len(s) /\ X = Elements(s)
  BY <1>1, <1>2
<1> HIDE DEF I, X
<1> QED BY <1>1, <1>3, <1>4, <1>5

(* The indices of the smaller keys are the first ones. *)
LEMMA SmallerFirst ==
  ASSUME NEW s \in Seq(Pend), Ascending(s), NEW k \in Int
  PROVE  /\ Cardinality(Below(s, k)) \in 0..Len(s)
         /\ Below(s, k) = 1..Cardinality(Below(s, k))
<1> DEFINE B == Below(s, k)
<1>1. B \subseteq 1..Len(s) /\ Len(s) \in Nat
  BY DEF Below
<1>2. ASSUME NEW m \in 0..Len(s), B = 1..m
      PROVE  Cardinality(B) \in 0..Len(s) /\ B = 1..Cardinality(B)
  <2>1. Cardinality(1..m) = m
    BY IntervalSize
  <2> QED BY <1>2, <2>1
<1>3. CASE B = {}
  <2>1. B = 1..0
    BY <1>3
  <2> QED BY <1>1, <1>2, <2>1
<1>4. CASE B # {}
  <2> DEFINE m == Max(B)
  <2>1. m \in B /\ \A n \in B : n <= m
    <3> HIDE DEF B
    <3>1. B \in SUBSET Int /\ Len(s) \in Int /\ \A n \in B : n <= Len(s)
      BY <1>1
    <3> QED BY <1>4, <3>1, GreatestOf
  <2> HIDE DEF m
  <2>2. m \in 1..Len(s) /\ s[m].key < k
    BY <2>1 DEF Below
  <2>3. ASSUME NEW i \in 1..m PROVE i \in B
    <3>1. i \in DOMAIN s /\ m \in DOMAIN s /\ s[i].key \in Int /\ s[m].key \in Int /\ i \in Int /\ m \in Int
      BY <1>1, <2>2, KeysAre
    <3>2. i < m => s[i].key < s[m].key
      BY <3>1 DEF Ascending
    <3>3. s[i].key < k
      BY <2>2, <3>1, <3>2
    <3> QED BY <3>1, <3>3 DEF Below
  <2>4. B = 1..m
    <3>1. ASSUME NEW i \in B PROVE i \in 1..m
      BY <1>1, <2>1, <2>2
    <3> HIDE DEF B
    <3> QED BY <2>3, <3>1
  <2> QED BY <1>2, <2>2, <2>4
<1> QED BY <1>3, <1>4

(* The entries with some keys are in order, and they are all there. *)
LEMMA WithinIs ==
  ASSUME NEW s \in Seq(Pend), Ascending(s), NEW K
  PROVE  /\ Within(s, K) \in Seq(Pend) /\ Ascending(Within(s, K))
         /\ Elements(Within(s, K)) = {x \in Elements(s) : x.key \in K}
<1> DEFINE step == [n \in 1..Len(s) |-> [y \in Seq(Pend) |->
                      IF s[n].key \in K THEN Append(y, s[n]) ELSE y]]
           body(n, g) == IF n = 0 THEN <<>>
                         ELSE IF s[n].key \in K THEN Append(g[n-1], s[n]) ELSE g[n-1]
           w == CHOOSE g : g = [n \in 0..Len(s) |-> body(n, g)]
           X(n) == {s[i] : i \in {i \in 1..n : s[i].key \in K}}
<1>1. Len(s) \in Nat /\ \A n \in 1..Len(s) : s[n] \in Pend
  OBVIOUS
<1>2. PICK h \in [0..Len(s) -> Seq(Pend)] : Iterates(h, 0, Len(s), <<>>, step)
  <2>1. StepsIn(Seq(Pend), 0, Len(s), step)
    BY <1>1 DEF StepsIn
  <2>2. 0 \in Int /\ Len(s) \in Int /\ 0 <= Len(s) /\ <<>> \in Seq(Pend)
    BY <1>1
  <2> HIDE DEF step
  <2> QED BY <2>1, <2>2, RecursionExists
<1>3. \A n \in 0..Len(s) : h[n] = body(n, h)
  <2> TAKE n \in 0..Len(s)
  <2>1. CASE n = 0
    BY <1>2, <2>1 DEF Iterates
  <2>2. CASE n # 0
    <3>1. n \in 0+1..Len(s) /\ n \in 1..Len(s) /\ h[n-1] \in Seq(Pend)
      BY <1>1, <2>2
    <3>2. h[n] = step[n][h[n-1]]
      BY <1>2, <3>1 DEF Iterates
    <3> QED BY <2>2, <3>1, <3>2
  <2> QED BY <2>1, <2>2
<1>4. h = [n \in 0..Len(s) |-> body(n, h)]
  <2> HIDE DEF body
  <2> QED BY <1>2, <1>3
<1>5. w = [n \in 0..Len(s) |-> body(n, w)]
  <2> HIDE DEF body
  <2>1. \E g : g = [n \in 0..Len(s) |-> body(n, g)]
    BY <1>4
  <2> QED BY <2>1
<1>6. Within(s, K) = w[Len(s)]
  BY DEF Within
<1> DEFINE Good(n, y) == y \in Seq(Pend) /\ Ascending(y) /\ Elements(y) = X(n)
<1> HIDE DEF w, step
<1>7. Good(0, <<>>)
  BY DEF Ascending, Elements
<1>8. ASSUME NEW n \in 1..Len(s), NEW y, Good(n-1, y)
      PROVE  Good(n, IF s[n].key \in K THEN Append(y, s[n]) ELSE y)
  <2>1. n \in Int /\ n-1 \in 0..Len(s) /\ 1..n = (1..n-1) \cup {n}
    BY <1>1
  <2>2. CASE s[n].key \notin K
    <3>1. X(n) = X(n-1)
      BY <2>1, <2>2
    <3> QED BY <1>8, <2>2, <3>1
  <2>3. CASE s[n].key \in K
    <3>1. X(n) = X(n-1) \cup {s[n]}
      BY <2>1, <2>3
    <3> DEFINE z == Append(y, s[n])
    <3>2. z \in Seq(Pend) /\ Len(z) = Len(y) + 1 /\ Len(y) \in Nat /\ z[Len(y)+1] = s[n]
          /\ \A i \in 1..Len(y) : z[i] = y[i]
      BY <1>1, <1>8
    <3> HIDE DEF z
    <3>3. \A i \in 1..Len(y) : y[i].key < s[n].key
      <4> TAKE i \in 1..Len(y)
      <4>0. i \in DOMAIN y
        BY <1>8
      <4>1. y[i] \in X(n-1)
        <5> HIDE DEF X
        <5> QED BY <1>8, <4>0 DEF Elements
      <4>2. PICK j \in 1..n-1 : y[i] = s[j]
        BY <4>1
      <4>3. j < n /\ j \in DOMAIN s /\ n \in DOMAIN s
        BY <2>1
      <4> QED BY <4>2, <4>3 DEF Ascending
    <3>4. Ascending(z)
      <4> SUFFICES ASSUME NEW i \in 1..Len(z), NEW j \in 1..Len(z), i < j
                   PROVE  z[i].key < z[j].key
        BY <3>2 DEF Ascending
      <4>1. i \in 1..Len(y)
        BY <3>2
      <4>2. CASE j = Len(y)+1
        <5>1. z[i] = y[i] /\ z[j] = s[n]
          BY <3>2, <4>1, <4>2
        <5> QED BY <3>3, <4>1, <5>1
      <4>3. CASE j # Len(y)+1
        <5>1. j \in 1..Len(y)
          BY <3>2, <4>3
        <5>2. z[i] = y[i] /\ z[j] = y[j] /\ i \in DOMAIN y /\ j \in DOMAIN y
          BY <1>8, <3>2, <4>1, <5>1
        <5> QED BY <1>8, <5>2 DEF Ascending
      <4> QED BY <4>2, <4>3
    <3>5. Elements(z) = Elements(y) \cup {s[n]}
      <4>1. DOMAIN z = 1..Len(y)+1 /\ DOMAIN y = 1..Len(y) /\ 1..Len(y)+1 = (1..Len(y)) \cup {Len(y)+1}
        BY <1>8, <3>2
      <4> QED BY <3>2, <4>1 DEF Elements
    <3> QED BY <1>8, <2>3, <3>1, <3>2, <3>4, <3>5 DEF z
  <2> QED BY <2>2, <2>3
<1>9. \A n \in 0..Len(s) : Good(n, w[n])
  <2> DEFINE S == {n \in 0..Len(s) : Good(n, w[n])}
  <2> HIDE DEF Good
  <2>1. 0 \in S
    BY <1>1, <1>5, <1>7
  <2>2. ASSUME NEW n \in 0+1..Len(s), n-1 \in S PROVE n \in S
    <3>1. n \in 1..Len(s) /\ n \in 0..Len(s) /\ n # 0
      BY <1>1
    <3>2. w[n] = IF s[n].key \in K THEN Append(w[n-1], s[n]) ELSE w[n-1]
      BY <1>5, <3>1
    <3> QED BY <1>8, <2>2, <3>1, <3>2
  <2>3. \A n \in 0..Len(s) : n \in S
    <3> HIDE DEF S
    <3>1. 0 \in Int /\ Len(s) \in Int
      BY <1>1
    <3> QED BY <2>1, <2>2, <3>1, UpTo
  <2> QED BY <2>3
<1>10. Good(Len(s), Within(s, K))
  <2> HIDE DEF Good
  <2> QED BY <1>1, <1>6, <1>9
<1>11. X(Len(s)) = {x \in Elements(s) : x.key \in K}
  BY DEF Elements
<1> QED BY <1>10, <1>11

(* An entry with a new key, put behind those with smaller keys. *)
LEMMA InsertedIs ==
  ASSUME NEW s \in Seq(Pend), Ascending(s), NEW e \in Pend, \A i \in DOMAIN s : s[i].key # e.key
  PROVE  LET t == InsertAt(s, Cardinality(Below(s, e.key)) + 1, e)
         IN  t \in Seq(Pend) /\ Ascending(t) /\ Elements(t) = Elements(s) \cup {e}
<1> DEFINE c == Cardinality(Below(s, e.key))
           n == Len(s)
           t == SubSeq(s, 1, c) \o <<e>> \o SubSeq(s, c+1, n)
<1>1. n \in Nat /\ c \in 0..n /\ Below(s, e.key) = 1..c /\ e.key \in Int
  <2>1. e.key \in Int
    BY DEF Pend, Key
  <2> QED BY <2>1, SmallerFirst, KeysAre
<1> HIDE DEF c
<1>2. InsertAt(s, c+1, e) = t
  <2>1. (c+1)-1 = c
    BY <1>1
  <2>2. InsertAt(s, c+1, e) = SubSeq(s, 1, (c+1)-1) \o <<e>> \o SubSeq(s, c+1, n)
    BY DEF InsertAt
  <2> QED BY <2>1, <2>2
<1>3. /\ t \in Seq(Pend) /\ Len(t) = n+1 /\ t[c+1] = e
      /\ \A i \in 1..c : t[i] = s[i]
      /\ \A i \in c+1..n : t[i+1] = s[i]
  <2> DEFINE u == SubSeq(s, 1, c)
             v == SubSeq(s, c+1, n)
             r == u \o <<e>>
  <2>1. u \in Seq(Pend) /\ Len(u) = c /\ \A i \in 1..c : u[i] = s[i]
    BY <1>1
  <2>2. v \in Seq(Pend) /\ Len(v) = n-c /\ \A i \in 1..n-c : v[i] = s[c+i]
    BY <1>1
  <2> HIDE DEF u, v, n
  <2>3. r \in Seq(Pend) /\ Len(r) = c+1 /\ r[c+1] = e /\ \A i \in 1..c : r[i] = s[i]
    BY <1>1, <2>1
  <2>4. t = r \o v
    BY DEF u, v
  <2> HIDE DEF r, t
  <2>5. /\ t \in Seq(Pend) /\ Len(t) = Len(r) + Len(v)
        /\ \A i \in 1..Len(r) : t[i] = r[i]
        /\ \A i \in 1..Len(v) : t[Len(r)+i] = v[i]
    BY SMTT(30), <2>2, <2>3, <2>4
  <2>6. ASSUME NEW i \in c+1..n PROVE t[i+1] = s[i]
    <3>1. i-c \in 1..n-c /\ (c+1)+(i-c) = i+1 /\ c+(i-c) = i
      BY <1>1
    <3> QED BY <2>2, <2>3, <2>5, <3>1
  <2>7. Len(t) = n+1
    BY <1>1, <2>2, <2>3, <2>5
  <2>8. t[c+1] = e /\ \A i \in 1..c : t[i] = s[i]
    <3>1. c+1 \in 1..Len(r) /\ \A i \in 1..c : i \in 1..Len(r)
      BY <1>1, <2>3
    <3> QED BY <2>3, <2>5, <3>1
  <2> QED BY <2>5, <2>6, <2>7, <2>8
<1> HIDE DEF t
<1>4. \A i \in 1..n+1 : i \in 1..c \/ i = c+1 \/ (i-1 \in c+1..n /\ (i-1)+1 = i)
  BY <1>1
<1>5. Elements(t) = Elements(s) \cup {e}
  <2>1. DOMAIN t = 1..n+1 /\ DOMAIN s = 1..n
    BY <1>3
  <2>2. \A i \in 1..c : i \in 1..n /\ i \in 1..n+1
    BY <1>1
  <2>3. \A i \in c+1..n : i \in 1..n /\ i+1 \in 1..n+1
    BY <1>1
  <2>4. c+1 \in 1..n+1 /\ \A i \in 1..n : i \in 1..c \/ i \in c+1..n
    BY <1>1
  <2>5. ASSUME NEW x \in Elements(t) PROVE x \in Elements(s) \cup {e}
    <3>1. PICK i \in 1..n+1 : x = t[i]
      BY <2>1 DEF Elements
    <3>2. CASE i \in 1..c
      BY <1>3, <2>1, <2>2, <3>1, <3>2 DEF Elements
    <3>3. CASE i = c+1
      BY <1>3, <3>1, <3>3
    <3>4. CASE i-1 \in c+1..n /\ (i-1)+1 = i
      BY <1>3, <2>1, <2>3, <3>1, <3>4 DEF Elements
    <3> QED BY <1>4, <3>2, <3>3, <3>4
  <2>6. ASSUME NEW x \in Elements(s) PROVE x \in Elements(t)
    <3>1. PICK i \in 1..n : x = s[i]
      BY <2>1 DEF Elements
    <3> QED BY <1>3, <2>1, <2>2, <2>3, <2>4, <3>1 DEF Elements
  <2>7. e \in Elements(t)
    BY <1>3, <2>1, <2>4 DEF Elements
  <2> QED BY <2>5, <2>6, <2>7
<1>6. /\ \A i \in 1..c : s[i].key < e.key
      /\ \A i \in c+1..n : e.key < s[i].key
  <2>1. ASSUME NEW i \in 1..c PROVE s[i].key < e.key
    BY <1>1 DEF Below
  <2>2. ASSUME NEW i \in c+1..n PROVE e.key < s[i].key
    <3>1. i \in DOMAIN s /\ i \notin 1..c
      BY <1>1
    <3>2. s[i].key \in Int
      BY <3>1, KeysAre
    <3>3. ~(s[i].key < e.key) /\ s[i].key # e.key
      BY <1>1, <3>1 DEF Below
    <3> QED BY <1>1, <3>2, <3>3
  <2> QED BY <2>1, <2>2
<1>7. ASSUME NEW i \in 1..n+1, NEW j \in 1..n+1, i < j PROVE t[i].key < t[j].key
  <2>0. DOMAIN s = 1..n
    OBVIOUS
  <2>1. CASE i \in 1..c /\ j \in 1..c
    <3>1. i \in 1..n /\ j \in 1..n
      BY <1>1, <2>1
    <3> QED BY <1>3, <1>7, <2>0, <2>1, <3>1 DEF Ascending
  <2>2. CASE i \in 1..c /\ j = c+1
    BY <1>3, <1>6, <2>2
  <2>3. CASE i \in 1..c /\ j-1 \in c+1..n /\ (j-1)+1 = j
    <3>1. i \in 1..n /\ j-1 \in 1..n /\ i < j-1
      BY <1>1, <2>3
    <3>2. t[i] = s[i] /\ t[j] = s[j-1]
      BY <1>3, <2>3
    <3> QED BY <2>0, <3>1, <3>2 DEF Ascending
  <2>4. CASE i = c+1 /\ j-1 \in c+1..n /\ (j-1)+1 = j
    <3>1. t[i] = e /\ t[j] = s[j-1]
      BY <1>3, <2>4
    <3> QED BY <1>6, <2>4, <3>1
  <2>5. CASE (i-1 \in c+1..n /\ (i-1)+1 = i) /\ (j-1 \in c+1..n /\ (j-1)+1 = j)
    <3>1. i-1 \in 1..n /\ j-1 \in 1..n /\ i-1 < j-1
      BY <1>1, <1>7, <2>5
    <3>2. t[i] = s[i-1] /\ t[j] = s[j-1]
      BY <1>3, <2>5
    <3> QED BY <2>0, <3>1, <3>2 DEF Ascending
  <2>6. CASE ~ (j \in 1..c \/ (i \in 1..c /\ j = c+1) \/ (j-1 \in c+1..n /\ (j-1)+1 = j))
    BY <1>1, <1>4, <1>7, <2>6
  <2>7. CASE j \in 1..c /\ i \notin 1..c
    BY <1>1, <1>7, <2>7
  <2> QED BY <1>4, <2>1, <2>2, <2>3, <2>4, <2>5, <2>6, <2>7
<1>8. Ascending(t)
  BY <1>3, <1>7 DEF Ascending
<1> QED BY <1>2, <1>3, <1>5, <1>8 DEF c

(* find yields the entry of the key. *)
LEMMA IndexIs ==
  ASSUME entries \in Seq(Pend), Ascending(entries), NEW i \in DOMAIN entries
  PROVE  Index(entries[i].key) = i
<1>1. entries[i].key \in Int /\ i \in Int /\ i >= 1
  BY KeysAre
<1> DEFINE c == Cardinality(Below(entries, entries[i].key))
<1>2. c \in 0..Len(entries) /\ Below(entries, entries[i].key) = 1..c
  BY <1>1, SmallerFirst
<1> HIDE DEF c
<1>3. i \notin 1..c
  BY <1>1, <1>2 DEF Below
<1>4. i - 1 \in 1..c \/ i = 1
  <2> SUFFICES ASSUME i # 1 PROVE i - 1 \in 1..c
    OBVIOUS
  <2>1. i-1 \in DOMAIN entries /\ i-1 < i
    BY <1>1
  <2>2. entries[i-1].key < entries[i].key
    BY <2>1 DEF Ascending
  <2> QED BY <1>2, <2>1, <2>2 DEF Below
<1>5. c + 1 = i
  BY <1>1, <1>2, <1>3, <1>4
<1> QED BY <1>5 DEF Index, Below, c

-----------------------------------------------------------------------------
(* The keys where the B splitter cuts. *)
Multiple(x) == \E n \in Nat : x = n * Boundary

LEMMA MultiplesApart ==
  ASSUME NEW x \in Int, NEW y \in Int, Multiple(x), Multiple(y), x < y
  PROVE  x + Boundary <= y
<1>1. Boundary \in Nat /\ Boundary > 0
  BY BufferAssumption
<1>2. PICK a \in Nat : x = a * Boundary
  BY DEF Multiple
<1>3. PICK b \in Nat : y = b * Boundary
  BY DEF Multiple
<1>4. a < b
  <2> SUFFICES ASSUME b <= a PROVE FALSE
    BY <1>2, <1>3
  <2>1. a - b \in Nat /\ (a - b) * Boundary >= 0
    BY <1>1, <1>2, <1>3
  <2>2. (a - b) * Boundary = a * Boundary - b * Boundary
    BY <1>1, <1>2, <1>3
  <2> QED BY <1>2, <1>3, <2>1, <2>2
<1>5. b - a - 1 \in Nat /\ (b - a - 1) * Boundary >= 0
  BY <1>1, <1>2, <1>3, <1>4
<1>6. (b - a - 1) * Boundary = b * Boundary - a * Boundary - Boundary
  BY <1>1, <1>2, <1>3
<1> QED BY <1>1, <1>2, <1>3, <1>5, <1>6

LEMMA CellIs ==
  ASSUME NEW k \in Nat
  PROVE  LET c == (k \div Boundary) * Boundary
         IN  c \in Nat /\ c <= k /\ k < c + Boundary /\ Multiple(c) /\ Multiple(c + Boundary)
<1> DEFINE n == k \div Boundary
           c == n * Boundary
<1>1. Boundary \in Nat /\ Boundary > 0
  BY BufferAssumption
<1>2. n \in Nat /\ c <= k /\ k < c + Boundary
  BY <1>1
<1> HIDE DEF n
<1>3. c \in Nat /\ c + Boundary = (n + 1) * Boundary /\ n + 1 \in Nat
  BY <1>1, <1>2
<1> QED BY <1>2, <1>3 DEF Multiple, n

LEMMA RemainderIs ==
  ASSUME NEW k \in Nat, k % Boundary = 0
  PROVE  Multiple(k)
<1>1. Boundary \in Nat /\ Boundary > 0
  BY BufferAssumption
<1>2. k = Boundary * (k \div Boundary) + (k % Boundary) /\ k \div Boundary \in Nat
  BY <1>1
<1>3. k = (k \div Boundary) * Boundary
  BY <1>1, <1>2
<1> QED BY <1>2, <1>3 DEF Multiple

(* The bounds of leaves, and bounds that were right when they were taken.  *)
NearlyFull(n) == 3 * n > 2 * (EndsBy \div Boundary)

CutsFit(c) ==
  /\ c \subseteq Key /\ 0 \in c
  /\ \A x \in c : Multiple(x)

BoundsFit(l, u, c, n) ==
  /\ l \in Key /\ u \in 1..EndsBy+Boundary /\ l < u
  /\ Multiple(l) /\ (Multiple(u) \/ u = EndsBy)
  /\ NearlyFull(n) \/ {l, u} \subseteq c \cup {EndsBy}

LEMMA NumbersAre ==
  /\ EndsBy \in Nat /\ EndsBy > 0 /\ Boundary \in Nat /\ Boundary > 0
  /\ Capacity \in Nat /\ Capacity > 0 /\ MaxTime \in Nat
  /\ Key \subseteq Nat /\ 0 \in Key /\ \A k \in Key : k < EndsBy
  /\ \A k \in Nat : k < EndsBy => k \in Key
BY BufferAssumption DEF Key

LEMMA BoundsAre ==
  ASSUME NEW l, NEW u, NEW c, NEW n, BoundsFit(l, u, c, n)
  PROVE  l \in Nat /\ u \in Nat
BY NumbersAre DEF BoundsFit

(* The cuts on either side of a key. *)
LowCut(c, k) == Max({x \in c : x <= k})
HighCut(c, k) == Min({x \in c : k < x} \cup {EndsBy})

LEMMA CutsAround ==
  ASSUME NEW c, CutsFit(c), NEW k \in Key
  PROVE  /\ LowCut(c, k) \in c /\ LowCut(c, k) <= k
         /\ \A x \in c : x <= k => x <= LowCut(c, k)
         /\ HighCut(c, k) \in c \cup {EndsBy} /\ k < HighCut(c, k)
         /\ \A x \in c : k < x => HighCut(c, k) <= x
         /\ HighCut(c, k) <= EndsBy
<1> DEFINE L == {x \in c : x <= k}
           U == {x \in c : k < x} \cup {EndsBy}
<1>1. c \subseteq Nat /\ 0 \in c /\ k \in Nat /\ k < EndsBy /\ EndsBy \in Nat /\ \A x \in c : x < EndsBy
  BY NumbersAre DEF CutsFit
<1>2. L \in SUBSET Int /\ L # {} /\ (\A x \in L : x <= k) /\ k \in Int
  <2>1. 0 \in L /\ \A x \in L : x \in Nat /\ x <= k
    BY <1>1
  <2> HIDE DEF L
  <2> QED BY <1>1, <2>1
<1>3. U \in SUBSET Int /\ U # {} /\ (\A x \in U : x >= 0) /\ 0 \in Int
  <2>1. EndsBy \in U /\ \A x \in U : x \in Nat
    BY <1>1
  <2> HIDE DEF U
  <2> QED BY <2>1
<1>4. Max(L) \in L /\ \A x \in L : x <= Max(L)
  <2> HIDE DEF L
  <2> QED BY <1>2, GreatestOf
<1>5. Min(U) \in U /\ \A x \in U : Min(U) <= x
  <2> HIDE DEF U
  <2> QED BY <1>3, SmallestOf
<1>6. Min(U) <= EndsBy /\ k < Min(U)
  BY <1>1, <1>5
<1> QED BY <1>4, <1>5, <1>6 DEF LowCut, HighCut

(* locate: the key lies within the bounds, and they are a leaf's. *)
LEMMA LocatedIs ==
  ASSUME NEW c, CutsFit(c), NEW n \in Nat, NEW k \in Key
  PROVE  LET b == Located(c, n, k)
         IN  b = <<b[1], b[2]>> /\ b[1] <= k /\ k < b[2] /\ BoundsFit(b[1], b[2], c, n)
<1> DEFINE b == Located(c, n, k)
<1>1. k \in Nat /\ k < EndsBy /\ EndsBy \in Nat /\ EndsBy > 0 /\ Boundary \in Nat /\ Boundary > 0
  BY NumbersAre
<1>2. CASE NearlyFull(n)
  <2> DEFINE cell == (k \div Boundary) * Boundary
  <2>1. b = <<cell, cell + Boundary>>
    BY <1>2 DEF Located, NearlyFull
  <2>2. cell \in Nat /\ cell <= k /\ k < cell + Boundary /\ Multiple(cell) /\ Multiple(cell + Boundary)
    BY <1>1, CellIs
  <2> HIDE DEF cell, b
  <2>3. cell \in Key /\ cell + Boundary \in 1..EndsBy+Boundary /\ cell < cell + Boundary
    BY <1>1, <2>2, NumbersAre
  <2>4. b[1] = cell /\ b[2] = cell + Boundary
    BY <2>1
  <2> QED BY <1>2, <2>1, <2>2, <2>3, <2>4 DEF BoundsFit, b
<1>3. CASE ~NearlyFull(n)
  <2> DEFINE l == LowCut(c, k)
             u == HighCut(c, k)
  <2>1. b = <<l, u>>
    BY <1>3 DEF Located, NearlyFull, LowCut, HighCut
  <2>2. /\ l \in c /\ l <= k /\ \A x \in c : x <= k => x <= l
        /\ u \in c \cup {EndsBy} /\ k < u /\ \A x \in c : k < x => u <= x
        /\ u <= EndsBy
    BY CutsAround
  <2> HIDE DEF l, u, b
  <2>3. b[1] = l /\ b[2] = u
    BY <2>1
  <2>4. l \in Key /\ l \in Nat /\ u \in Nat /\ Multiple(l) /\ (Multiple(u) \/ u = EndsBy)
    BY <1>1, <2>2, NumbersAre DEF CutsFit
  <2>5. u \in 1..EndsBy+Boundary /\ l < u
    BY <1>1, <2>2, <2>4
  <2> QED BY <2>1, <2>2, <2>3, <2>4, <2>5 DEF BoundsFit, b
<1> QED BY <1>2, <1>3

(* No bounds cut through the leaf of a key outside them. *)
LEMMA LocatedApart ==
  ASSUME NEW c, CutsFit(c), NEW n \in Nat, NEW k \in Key, NEW l, NEW u,
         BoundsFit(l, u, c, n), ~(l <= k /\ k < u)
  PROVE  Located(c, n, k)[2] <= l \/ u <= Located(c, n, k)[1]
<1>1. k \in Nat /\ k < EndsBy /\ EndsBy \in Nat /\ Boundary \in Nat /\ Boundary > 0 /\ l \in Nat /\ u \in Nat
  BY NumbersAre DEF BoundsFit
<1>2. k < l \/ u <= k
  BY <1>1
<1>3. CASE NearlyFull(n)
  <2> DEFINE cell == (k \div Boundary) * Boundary
  <2>1. Located(c, n, k) = <<cell, cell + Boundary>>
    BY <1>3 DEF Located, NearlyFull
  <2>2. cell \in Nat /\ cell <= k /\ k < cell + Boundary /\ Multiple(cell)
    BY <1>1, CellIs
  <2> HIDE DEF cell
  <2>3. CASE k < l
    <3>1. cell + Boundary <= l
      BY <1>1, <2>2, <2>3, MultiplesApart DEF BoundsFit
    <3> QED BY <2>1, <3>1
  <2>4. CASE u <= k
    <3>1. Multiple(u)
      BY <1>1, <2>4 DEF BoundsFit
    <3>2. ~(cell < u)
      <4>1. cell < u => cell + Boundary <= u
        BY <1>1, <2>2, <3>1, MultiplesApart
      <4> QED BY <1>1, <2>2, <2>4, <4>1
    <3> QED BY <1>1, <2>1, <2>2, <3>2
  <2> QED BY <1>2, <2>3, <2>4
<1>4. CASE ~NearlyFull(n)
  <2> DEFINE a == LowCut(c, k)
             b == HighCut(c, k)
  <2>1. Located(c, n, k) = <<a, b>>
    BY <1>4 DEF Located, NearlyFull, LowCut, HighCut
  <2>2. /\ \A x \in c : x <= k => x <= a
        /\ \A x \in c : k < x => b <= x
        /\ b <= EndsBy
    BY CutsAround
  <2> HIDE DEF a, b
  <2>3. {l, u} \subseteq c \cup {EndsBy}
    BY <1>4 DEF BoundsFit
  <2>4. CASE k < l
    BY <2>1, <2>2, <2>3, <2>4
  <2>5. CASE u <= k
    <3>1. u \in c
      BY <1>1, <2>3, <2>5
    <3> QED BY <2>1, <2>2, <2>5, <3>1
  <2> QED BY <1>2, <2>4, <2>5
<1> QED BY <1>3, <1>4

(* The keys of a leaf have the same bounds. *)
LEMMA LocatedSame ==
  ASSUME NEW c, CutsFit(c), NEW n \in Nat, NEW k \in Key, NEW j \in Key,
         Located(c, n, k)[1] <= j, j < Located(c, n, k)[2]
  PROVE  Located(c, n, j) = Located(c, n, k)
<1> DEFINE A == Located(c, n, k)
           B == Located(c, n, j)
<1>1. A = <<A[1], A[2]>> /\ A[1] <= k /\ k < A[2] /\ BoundsFit(A[1], A[2], c, n)
  BY LocatedIs
<1>2. B = <<B[1], B[2]>> /\ B[1] <= j /\ j < B[2] /\ BoundsFit(B[1], B[2], c, n)
  BY LocatedIs
<1>3. k \in Nat /\ j \in Nat /\ Boundary \in Nat /\ Boundary > 0 /\ EndsBy \in Nat
  BY NumbersAre
<1>4. CASE NearlyFull(n)
  <2> DEFINE a == (k \div Boundary) * Boundary
             b == (j \div Boundary) * Boundary
  <2>1. A = <<a, a + Boundary>> /\ B = <<b, b + Boundary>>
    BY <1>4 DEF Located, NearlyFull
  <2>2. a \in Nat /\ Multiple(a) /\ b \in Nat /\ Multiple(b)
    BY <1>3, CellIs
  <2> HIDE DEF a, b, A, B
  <2>3. a <= j /\ j < a + Boundary /\ b <= j /\ j < b + Boundary
    BY <1>2, <2>1 DEF A
  <2>4. ~(a < b) /\ ~(b < a)
    <3>1. a < b => a + Boundary <= b
      BY <2>2, MultiplesApart
    <3>2. b < a => b + Boundary <= a
      BY <2>2, MultiplesApart
    <3> QED BY <1>3, <2>2, <2>3, <3>1, <3>2
  <2>5. a = b
    BY <2>2, <2>4
  <2> QED BY <2>1, <2>5 DEF A, B
<1>5. CASE ~NearlyFull(n)
  <2> DEFINE a == LowCut(c, k)
             b == HighCut(c, k)
             d == LowCut(c, j)
             e == HighCut(c, j)
  <2>1. A = <<a, b>> /\ B = <<d, e>>
    BY <1>5 DEF Located, NearlyFull, LowCut, HighCut
  <2>2. /\ a \in c /\ a <= k /\ \A x \in c : x <= k => x <= a
        /\ b \in c \cup {EndsBy} /\ k < b /\ \A x \in c : k < x => b <= x
        /\ b <= EndsBy
    BY CutsAround
  <2>3. /\ d \in c /\ d <= j /\ \A x \in c : x <= j => x <= d
        /\ e \in c \cup {EndsBy} /\ j < e /\ \A x \in c : j < x => e <= x
        /\ e <= EndsBy
    BY CutsAround
  <2> HIDE DEF a, b, d, e, A, B
  <2>4. a <= j /\ j < b
    BY <2>1 DEF A
  <2>5. c \subseteq Nat /\ a \in Nat /\ b \in Nat /\ d \in Nat /\ e \in Nat
    BY <1>3, <2>2, <2>3, NumbersAre DEF CutsFit
  <2>6. a <= d
    BY <2>2, <2>3, <2>4
  <2>7. d <= a
    <3>1. d <= k \/ k < d
      BY <1>3, <2>5
    <3>2. k < d => b <= d
      BY <2>2, <2>3
    <3> QED BY <1>3, <2>2, <2>3, <2>4, <2>5, <3>1, <3>2
  <2>8. e <= b
    <3>1. b \in c \/ b = EndsBy
      BY <2>2
    <3> QED BY <2>3, <2>4, <3>1
  <2>9. b <= e
    <3>1. e \in c \/ e = EndsBy
      BY <2>3
    <3>2. CASE e \in c
      <4>1. k < e \/ e <= k
        BY <1>3, <2>5
      <4>2. e <= k => e <= a
        BY <2>2, <3>2
      <4>3. ~(e <= a)
        BY <1>3, <2>3, <2>4, <2>5
      <4> QED BY <2>2, <3>2, <4>1, <4>2, <4>3
    <3> QED BY <2>2, <3>1, <3>2
  <2>10. a = d /\ b = e
    BY <2>5, <2>6, <2>7, <2>8, <2>9
  <2> QED BY <2>1, <2>10 DEF A, B
<1> QED BY <1>4, <1>5

(* Leaves that split further make no bounds wrong. *)
LEMMA BoundsLast ==
  ASSUME NEW l, NEW u, NEW c, NEW d, NEW n \in Nat, NEW m \in Nat,
         BoundsFit(l, u, c, n), c \subseteq d, n <= m
  PROVE  BoundsFit(l, u, d, m)
<1>1. EndsBy \div Boundary \in Int
  BY NumbersAre
<1>2. NearlyFull(n) => NearlyFull(m)
  BY <1>1 DEF NearlyFull
<1> QED BY <1>2 DEF BoundsFit

-----------------------------------------------------------------------------
(* The pages of a set E of pending entries. *)
Page == [lower : Key, upper : 1..EndsBy+Boundary, count : Nat]
Of(E, p) == {x \in E : InPage(p, x.key)}
TimesOf(E, p) == {x.time : x \in Of(E, p)}
Apart(p, q) == p.upper <= q.lower \/ q.upper <= p.lower
CountFits(pol, p, E) ==
  IF pol = "LRU" THEN p.count - Max(TimesOf(E, p)) \in {0, 1}
  ELSE p.count = Cardinality(Of(E, p))

PageFits(pol, p, E, c, n) ==
  /\ p \in Page /\ BoundsFit(p.lower, p.upper, c, n)
  /\ Of(E, p) # {}
  /\ CountFits(pol, p, E)
PagesFit(pol, ps, E, c, n) ==
  /\ \A p \in ps : PageFits(pol, p, E, c, n)
  /\ \A p, q \in ps : p = q \/ Apart(p, q)

BufferInv ==
  /\ policy \in Policy /\ tree \in [Key -> Value]
  /\ CutsFit(cuts) /\ nLeaves \in Nat
  /\ entries \in Seq(Pend) /\ Ascending(entries)
  /\ PagesFit(policy, pids, Elements(entries), cuts, nLeaves)
  /\ policy = "LS" => \A x \in Elements(entries) : \E p \in pids : InPage(p, x.key)
  /\ policy \notin {"LS", "SP", "LRU"} => pids = {}
  /\ size = Len(entries) /\ (policy # "LS" => size <= Capacity)
  /\ free \in 0..Capacity /\ (Slotted => free = Capacity - size)
  /\ ts \in 0..MaxTime /\ (policy = "LRU" => \A x \in Elements(entries) : x.time < ts)

(* In a page is in one page only. *)
LEMMA OnePage ==
  ASSUME NEW p \in Page, NEW q \in Page, Apart(p, q), NEW k \in Int, InPage(p, k)
  PROVE  ~InPage(q, k)
<1>1. ASSUME NEW r \in Page PROVE r.lower \in Int /\ r.upper \in Int
  <2>1. r.lower \in Key /\ r.upper \in 1..EndsBy+Boundary
    BY DEF Page
  <2>2. EndsBy+Boundary \in Int
    BY NumbersAre
  <2>3. r.upper \in Int
    BY <2>1, <2>2
  <2>4. r.lower \in Int
    <3>1. \A x \in Key : x \in Int
      BY NumbersAre
    <3> QED BY <2>1, <3>1
  <2> QED BY <2>3, <2>4
<1> QED BY <1>1 DEF Apart, InPage

(* The last time of a page. *)
LEMMA LastTime ==
  ASSUME NEW E \in SUBSET Pend, NEW p, Of(E, p) # {}
  PROVE  /\ Max(TimesOf(E, p)) \in TimesOf(E, p)
         /\ Max(TimesOf(E, p)) \in 0..MaxTime
         /\ \A t \in TimesOf(E, p) : t \in Int /\ t <= Max(TimesOf(E, p))
<1> DEFINE T == TimesOf(E, p)
<1>1. \A t \in T : t \in 0..MaxTime
  BY DEF TimesOf, Of, Pend
<1>2. T # {}
  BY DEF TimesOf
<1> HIDE DEF T
<1>3. MaxTime \in Int /\ T \in SUBSET Int /\ \A t \in T : t <= MaxTime
  BY <1>1, NumbersAre
<1>4. Max(T) \in T /\ \A t \in T : t <= Max(T)
  BY <1>2, <1>3, GreatestOf
<1> QED BY <1>1, <1>4 DEF T

(* Counted by indices or by entries. *)
LEMMA MembersAre ==
  ASSUME entries \in Seq(Pend), Ascending(entries), NEW p
  PROVE  /\ Cardinality(Members(p)) = Cardinality(Of(Elements(entries), p))
         /\ Cardinality(Of(Elements(entries), p)) \in Nat
         /\ IsFiniteSet(Of(Elements(entries), p))
         /\ Times(Members(p)) = TimesOf(Elements(entries), p)
         /\ Of(Elements(entries), p) = {entries[i] : i \in Members(p)}
<1>1. Members(p) = {i \in DOMAIN entries : entries[i].key \in KeysIn(p)}
  BY KeysAre DEF Members, KeysIn
<1>2. Of(Elements(entries), p) = {x \in Elements(entries) : x.key \in KeysIn(p)}
  BY KeysAre DEF Of, KeysIn
<1>3. Of(Elements(entries), p) = {entries[i] : i \in Members(p)}
  BY DEF Of, Members, Elements
<1>4. Times(Members(p)) = TimesOf(Elements(entries), p)
  BY <1>3 DEF Times, TimesOf
<1> DEFINE I == Members(p)
           X == Of(Elements(entries), p)
<1>5. IsFiniteSet(I) /\ IsFiniteSet(X) /\ Cardinality(I) = Cardinality(X) /\ Cardinality(X) \in Nat
  BY <1>1, <1>2, AsManyIndices
<1> QED BY <1>3, <1>4, <1>5

(* A page located for a key has its entries. *)
LEMMA PageOfIs ==
  ASSUME BufferInv, NEW i \in DOMAIN entries
  PROVE  LET g == PageOf(entries[i].key)
             b == Located(cuts, nLeaves, entries[i].key)
         IN  /\ PageFits(policy, g, Elements(entries), cuts, nLeaves)
             /\ InPage(g, entries[i].key)
             /\ g.lower = b[1] /\ g.upper = b[2]
<1> DEFINE k == entries[i].key
           g == PageOf(k)
           b == Located(cuts, nLeaves, k)
           E == Elements(entries)
           mine == {j \in DOMAIN entries : b[1] <= entries[j].key /\ entries[j].key < b[2]}
<1>1. /\ entries \in Seq(Pend) /\ Ascending(entries) /\ CutsFit(cuts) /\ nLeaves \in Nat
      /\ k \in Key /\ E \in SUBSET Pend
  BY KeysAre DEF BufferInv
<1>2. b[1] <= k /\ k < b[2] /\ BoundsFit(b[1], b[2], cuts, nLeaves)
  BY <1>1, LocatedIs
<1>3. /\ g.lower = b[1] /\ g.upper = b[2]
      /\ g.count = IF policy = "LRU" THEN Max(Times(mine)) ELSE Cardinality(mine)
      /\ g = [lower |-> b[1], upper |-> b[2], count |-> g.count]
  BY DEF PageOf, Times
<1> HIDE DEF g, b
<1>4. mine = Members(g)
  BY <1>3 DEF Members, InPage
<1>5. InPage(g, k) /\ i \in mine
  BY <1>2, <1>3 DEF InPage
<1>6. Of(E, g) # {}
  BY <1>5 DEF Of, Elements
<1>7. CountFits(policy, g, E) /\ g.count \in Nat
  <2>1. Cardinality(mine) = Cardinality(Of(E, g)) /\ Cardinality(Of(E, g)) \in Nat /\ Times(mine) = TimesOf(E, g)
    BY <1>1, <1>4, MembersAre
  <2>2. Max(TimesOf(E, g)) \in 0..MaxTime
    BY <1>1, <1>6, LastTime
  <2> HIDE DEF mine, E
  <2> QED BY <1>3, <2>1, <2>2, NumbersAre DEF CountFits
<1>8. g \in Page
  BY <1>2, <1>3, <1>7 DEF Page, BoundsFit
<1> QED BY <1>2, <1>3, <1>5, <1>6, <1>7, <1>8 DEF PageFits, g, b

(* What the page of an entry is. *)
Group(i) == LET known == {p \in pids : InPage(p, entries[i].key)}
            IN  IF known # {} THEN known ELSE {PageOf(entries[i].key)}

LEMMA GroupsFit ==
  ASSUME BufferInv
  PROVE  /\ PagesFit(policy, Groups, Elements(entries), cuts, nLeaves)
         /\ \A x \in Elements(entries) : \E g \in Groups : InPage(g, x.key)
         /\ pids \subseteq Groups
         /\ policy = "LS" => Groups = pids
<1> DEFINE E == Elements(entries)
<1>1. Groups = UNION {Group(i) : i \in DOMAIN entries}
  BY DEF Groups, Group
<1>2. /\ entries \in Seq(Pend) /\ Ascending(entries) /\ CutsFit(cuts) /\ nLeaves \in Nat
      /\ \A p \in pids : PageFits(policy, p, E, cuts, nLeaves)
      /\ \A p, q \in pids : p = q \/ Apart(p, q)
  BY DEF BufferInv, PagesFit
<1>3. \A i \in DOMAIN entries : entries[i].key \in Key /\ entries[i] \in E
  BY <1>2, KeysAre DEF Elements
<1>4. ASSUME NEW g \in Groups
      PROVE  \/ g \in pids
             \/ \E i \in DOMAIN entries : /\ g = PageOf(entries[i].key)
                                          /\ \A p \in pids : ~InPage(p, entries[i].key)
  BY <1>1 DEF Group
<1>5. ASSUME NEW g \in Groups PROVE PageFits(policy, g, E, cuts, nLeaves)
  BY <1>2, <1>4, PageOfIs
<1>6. ASSUME NEW i \in DOMAIN entries, \A p \in pids : ~InPage(p, entries[i].key),
             NEW q, PageFits(policy, q, E, cuts, nLeaves), ~InPage(q, entries[i].key)
      PROVE  Apart(PageOf(entries[i].key), q)
  <2>1. PageOf(entries[i].key).lower = Located(cuts, nLeaves, entries[i].key)[1]
    BY PageOfIs
  <2>2. PageOf(entries[i].key).upper = Located(cuts, nLeaves, entries[i].key)[2]
    BY PageOfIs
  <2>3. BoundsFit(q.lower, q.upper, cuts, nLeaves) /\ ~(q.lower <= entries[i].key /\ entries[i].key < q.upper)
    BY <1>6 DEF PageFits, InPage
  <2>4. Located(cuts, nLeaves, entries[i].key)[2] <= q.lower \/ q.upper <= Located(cuts, nLeaves, entries[i].key)[1]
    BY <1>2, <1>3, <2>3, LocatedApart
  <2> QED BY <2>1, <2>2, <2>4 DEF Apart
<1>7. ASSUME NEW i \in DOMAIN entries, NEW j \in DOMAIN entries,
             InPage(PageOf(entries[j].key), entries[i].key)
      PROVE  PageOf(entries[i].key) = PageOf(entries[j].key)
  <2>1. /\ Located(cuts, nLeaves, entries[j].key)[1] <= entries[i].key
        /\ entries[i].key < Located(cuts, nLeaves, entries[j].key)[2]
    BY <1>7, PageOfIs DEF InPage
  <2>2. Located(cuts, nLeaves, entries[i].key) = Located(cuts, nLeaves, entries[j].key)
    BY <1>2, <1>3, <2>1, LocatedSame
  <2> QED BY <2>2 DEF PageOf
<1>8. ASSUME NEW g \in Groups, NEW h \in Groups PROVE g = h \/ Apart(g, h)
  <2>1. PageFits(policy, g, E, cuts, nLeaves) /\ PageFits(policy, h, E, cuts, nLeaves)
    BY <1>5
  <2>2. CASE g \in pids /\ h \in pids
    BY <1>2, <2>2
  <2>3. ASSUME NEW i \in DOMAIN entries, g = PageOf(entries[i].key), \A p \in pids : ~InPage(p, entries[i].key),
               h \in pids
        PROVE  Apart(g, h)
    BY <1>6, <2>1, <2>3
  <2>4. ASSUME NEW i \in DOMAIN entries, h = PageOf(entries[i].key), \A p \in pids : ~InPage(p, entries[i].key),
               g \in pids
        PROVE  Apart(g, h)
    <3>1. Apart(h, g)
      BY <1>6, <2>1, <2>4
    <3> QED BY <3>1 DEF Apart
  <2>5. ASSUME NEW i \in DOMAIN entries, g = PageOf(entries[i].key), \A p \in pids : ~InPage(p, entries[i].key),
               NEW j \in DOMAIN entries, h = PageOf(entries[j].key)
        PROVE  g = h \/ Apart(g, h)
    <3>1. CASE InPage(h, entries[i].key)
      BY <1>7, <2>5, <3>1
    <3>2. CASE ~InPage(h, entries[i].key)
      BY <1>6, <2>1, <2>5, <3>2
    <3> QED BY <3>1, <3>2
  <2> QED BY <1>4, <2>2, <2>3, <2>4, <2>5
<1>9. ASSUME NEW x \in E PROVE \E g \in Groups : InPage(g, x.key)
  <2>1. PICK i \in DOMAIN entries : x = entries[i]
    BY DEF Elements
  <2>2. CASE \E p \in pids : InPage(p, x.key)
    <3>1. PICK p \in pids : InPage(p, x.key)
      BY <2>2
    <3>2. p \in Group(i)
      BY <2>1, <3>1 DEF Group
    <3> QED BY <1>1, <3>1, <3>2
  <2>3. CASE ~\E p \in pids : InPage(p, x.key)
    <3>1. Group(i) = {PageOf(entries[i].key)}
      BY <2>1, <2>3 DEF Group
    <3>2. PageOf(entries[i].key) \in Groups
      BY <1>1, <3>1
    <3> QED BY <2>1, <3>2, PageOfIs
  <2> QED BY <2>2, <2>3
<1>10. ASSUME NEW p \in pids PROVE p \in Groups
  <2>1. PICK x \in E : InPage(p, x.key)
    BY <1>2 DEF PageFits, Of
  <2>2. PICK i \in DOMAIN entries : x = entries[i]
    BY DEF Elements
  <2>3. p \in Group(i)
    BY <2>1, <2>2 DEF Group
  <2> QED BY <1>1, <2>3
<1>11. ASSUME policy = "LS", NEW g \in Groups PROVE g \in pids
  <2>1. \A i \in DOMAIN entries : \E p \in pids : InPage(p, entries[i].key)
    BY <1>3, <1>11 DEF BufferInv
  <2> QED BY <1>4, <2>1
<1> QED BY <1>5, <1>8, <1>9, <1>10, <1>11 DEF PagesFit

-----------------------------------------------------------------------------
(* The groups are disjoint and none is empty: there are finitely many.     *)
LEMMA GroupsFinite ==
  ASSUME BufferInv
  PROVE  /\ IsFiniteSet(Groups) /\ Cardinality(Groups) \in Nat
         /\ \A g \in Groups : g \in Page /\ g.lower \in Int /\ g.count \in Nat
<1> DEFINE E == Elements(entries)
           f == [g \in Groups |-> CHOOSE x \in E : InPage(g, x.key)]
<1>1. ASSUME NEW g \in Groups PROVE g \in Page /\ \E x \in E : InPage(g, x.key)
  BY GroupsFit DEF PagesFit, PageFits, Of
<1>2. \A g \in Groups : f[g] \in E /\ InPage(g, f[g].key)
  BY <1>1
<1>3. f \in [Groups -> E]
  BY <1>2
<1> HIDE DEF f
<1>4. ASSUME NEW g \in Groups, NEW h \in Groups, f[g] = f[h] PROVE g = h
  <2>1. g = h \/ Apart(g, h)
    BY GroupsFit DEF PagesFit
  <2>2. f[g].key \in Int /\ InPage(g, f[g].key) /\ InPage(h, f[g].key)
    BY <1>2, <1>4, KeysAre DEF BufferInv
  <2> QED BY <1>1, <2>1, <2>2, OnePage
<1>5. f \in Injection(Groups, E)
  BY <1>3, <1>4 DEF Injection, IsInjective
<1>6. IsFiniteSet(E)
  BY LengthIs DEF BufferInv
<1>7. IsFiniteSet(Groups)
  BY <1>5, <1>6, FS_Injection
<1>8. Cardinality(Groups) \in Nat
  BY <1>7, FS_CardinalityType
<1>9. ASSUME NEW g \in Groups PROVE g.lower \in Int /\ g.count \in Nat
  <2>1. g.lower \in Key /\ g.count \in Nat
    BY <1>1 DEF Page
  <2>2. \A x \in Key : x \in Int
    BY NumbersAre
  <2> QED BY <2>1, <2>2
<1> QED BY <1>1, <1>7, <1>8, <1>9

(* The loop along the pending keys, after some of the groups.              *)
Walked(r, start) ==
  /\ r.rest \subseteq Groups /\ r.keep \subseteq pids \cup (Groups \ r.rest) /\ r.least \in Int
  /\ \A g \in Groups \ r.rest : r.least <= g.count
  /\ \/ r.out = {} /\ r.rest = Groups /\ r.least = start
     \/ \E p \in Groups \ r.rest : r.out = {p} /\ r.least = p.count /\ (p \in r.keep => p \in r.lit)
Stopped(r) == policy = "SP" /\ r.least <= 1

LEMMA VisitIs ==
  ASSUME BufferInv, NEW start \in Int, \A g \in Groups : g.count < start,
         NEW r, Walked(r, start), r.rest # {}
  PROVE  /\ Walked(Visit(r), start)
         /\ Stopped(r) => Visit(r) = r
         /\ ~Stopped(r) => \E p \in r.rest : Visit(r).rest = r.rest \ {p}
<1> DEFINE p == CHOOSE p \in r.rest : \A q \in r.rest : p.lower <= q.lower
           lighter == p.count < r.least
           room == p \notin pids /\ Cardinality(r.keep) < Keep
           v == [rest |-> r.rest \ {p},
                 least |-> IF lighter THEN p.count ELSE r.least,
                 out |-> IF lighter THEN {p} ELSE r.out,
                 keep |-> IF room THEN r.keep \cup {p} ELSE r.keep,
                 lit |-> IF lighter /\ (room \/ p \in pids) THEN {p} ELSE r.lit]
<1>1. Visit(r) = IF Stopped(r) THEN r ELSE v
  BY DEF Visit, Stopped
<1>2. p \in r.rest
  <2> DEFINE L == {q.lower : q \in r.rest}
  <2>1. L # {} /\ \A n \in L : n \in Int /\ n >= 0
    <3>1. \A q \in r.rest : q \in Page
      BY GroupsFinite DEF Walked
    <3>2. \A q \in r.rest : q.lower \in Key
      BY <3>1 DEF Page
    <3>3. \A k \in Key : k \in Int /\ k >= 0
      BY NumbersAre
    <3> QED BY <3>2, <3>3
  <2>2. L \in SUBSET Int
    BY <2>1
  <2> HIDE DEF L
  <2>3. PICK n \in L : \A m \in L : n <= m
    BY <2>1, <2>2, LeastOf
  <2>4. PICK q \in r.rest : n = q.lower
    BY DEF L
  <2>5. \A q1 \in r.rest : q.lower <= q1.lower
    BY <2>3, <2>4 DEF L
  <2> QED BY <2>5
<1>3. p \in Groups /\ p.count \in Int /\ p.count < start /\ r.least \in Int
  BY <1>2, GroupsFinite DEF Walked
<1> HIDE DEF p
<1>4. Groups \ v.rest = (Groups \ r.rest) \cup {p}
  BY <1>2, <1>3 DEF Walked
<1>5. v.rest \subseteq Groups /\ v.keep \subseteq pids \cup (Groups \ v.rest) /\ v.least \in Int
  BY <1>2, <1>3, <1>4 DEF Walked
<1>6. \A g \in Groups \ v.rest : v.least <= g.count
  <2>1. \A g \in Groups \ r.rest : g.count \in Int /\ r.least <= g.count
    BY GroupsFinite DEF Walked
  <2>2. v.least <= p.count /\ v.least <= r.least /\ v.least \in Int
    BY <1>3
  <2> QED BY <1>3, <1>4, <2>1, <2>2
<1>7. \E q \in Groups \ v.rest : v.out = {q} /\ v.least = q.count /\ (q \in v.keep => q \in v.lit)
  <2>1. CASE lighter
    <3>1. v.out = {p} /\ v.least = p.count /\ p \in Groups \ v.rest
      BY <1>4, <2>1
    <3>2. p \in v.keep => p \in v.lit
      <4>1. CASE room \/ p \in pids
        BY <2>1, <4>1
      <4>2. CASE ~(room \/ p \in pids)
        <5>1. v.keep = r.keep
          BY <4>2
        <5>2. p \notin r.keep
          BY <1>2, <4>2 DEF Walked
        <5> QED BY <5>1, <5>2
      <4> QED BY <4>1, <4>2
    <3> QED BY <3>1, <3>2
  <2>2. CASE ~lighter
    <3>1. r.least # start
      BY <1>3, <2>2
    <3>2. PICK q \in Groups \ r.rest : r.out = {q} /\ r.least = q.count /\ (q \in r.keep => q \in r.lit)
      BY <3>1 DEF Walked
    <3>3. v.out = {q} /\ v.least = q.count /\ q \in Groups \ v.rest /\ q # p
      BY <1>2, <1>4, <2>2, <3>2
    <3>4. v.lit = r.lit /\ (q \in v.keep => q \in r.keep)
      BY <2>2, <3>3
    <3> QED BY <3>2, <3>3, <3>4
  <2> QED BY <2>1, <2>2
<1>8. Walked(v, start)
  <2> HIDE DEF v
  <2> QED BY <1>5, <1>6, <1>7 DEF Walked
<1>9. v.rest = r.rest \ {p}
  OBVIOUS
<1> HIDE DEF v
<1> QED BY <1>1, <1>2, <1>8, <1>9

(* The loop's values exist. *)
Looks(N, r0) == CHOOSE look : look = [n \in 0..N |-> IF n = 0 THEN r0 ELSE Visit(look[n-1])]

LEMMA VisitsExist ==
  ASSUME NEW N \in Nat, NEW r0
  PROVE  Looks(N, r0)[0] = r0 /\ \A n \in 1..N : Looks(N, r0)[n] = Visit(Looks(N, r0)[n-1])
<1> DEFINE IsLook(h, m) == h = [n \in 0..m |-> IF n = 0 THEN r0 ELSE Visit(h[n-1])]
           S == {m \in 0..N : \E h : IsLook(h, m)}
<1>1. 0 \in S
  <2> DEFINE h == [n \in 0..0 |-> r0]
  <2>1. IsLook(h, 0)
    OBVIOUS
  <2> HIDE DEF IsLook
  <2> QED BY <2>1
<1>2. ASSUME NEW m \in 0+1..N, m-1 \in S PROVE m \in S
  <2>1. PICK h : IsLook(h, m-1)
    BY <1>2
  <2> DEFINE g == [n \in 0..m |-> IF n = m THEN Visit(h[m-1]) ELSE h[n]]
  <2>2. \A n \in 0..m-1 : h[n] = IF n = 0 THEN r0 ELSE Visit(h[n-1])
    BY <2>1
  <2>3. ASSUME NEW n \in 0..m PROVE g[n] = IF n = 0 THEN r0 ELSE Visit(g[n-1])
    <3>1. CASE n = m
      <4>1. n # 0 /\ n-1 \in 0..m /\ n-1 # m
        BY <3>1
      <4>2. g[n-1] = h[n-1] /\ g[n] = Visit(h[n-1])
        BY <3>1, <4>1
      <4> HIDE DEF g
      <4> QED BY <4>1, <4>2
    <3>2. CASE n # m
      <4>1. n \in 0..m-1 /\ g[n] = h[n]
        BY <3>2
      <4>2. n # 0 => n-1 \in 0..m /\ n-1 # m
        BY <3>2
      <4>3. n # 0 => g[n-1] = h[n-1]
        BY <4>2
      <4> HIDE DEF g
      <4> QED BY <2>2, <4>1, <4>3
    <3> QED BY <3>1, <3>2
  <2>4. g = [n \in 0..m |-> g[n]]
    OBVIOUS
  <2>5. IsLook(g, m)
    <3> HIDE DEF g
    <3> QED BY <2>3, <2>4
  <2> HIDE DEF IsLook
  <2> QED BY <2>5
<1>3. N \in S
  <2>1. \A m \in 0..N : m \in S
    <3> HIDE DEF S
    <3> QED BY <1>1, <1>2, UpTo
  <2> QED BY <2>1
<1> DEFINE look == Looks(N, r0)
<1>4. IsLook(look, N)
  <2>1. PICK h : IsLook(h, N)
    BY <1>3
  <2> QED BY <2>1 DEF Looks
<1> HIDE DEF look
<1>5. \A n \in 0..N : look[n] = IF n = 0 THEN r0 ELSE Visit(look[n-1])
  BY <1>4
<1>6. look[0] = r0 /\ \A n \in 1..N : look[n] = Visit(look[n-1])
  BY <1>5
<1> QED BY <1>6 DEF look

(* No page has more entries than fit, and none is empty. *)
LEMMA CountsBounded ==
  ASSUME BufferInv, NEW g \in Groups
  PROVE  /\ policy \notin {"LS", "LRU"} => g.count <= Capacity
         /\ policy = "LRU" => g.count <= MaxTime + 1
         /\ policy # "LRU" => g.count >= 1
<1> DEFINE E == Elements(entries)
           own == Of(E, g)
<1>1. CountFits(policy, g, E) /\ own # {} /\ g.count \in Nat
  BY GroupsFit, GroupsFinite DEF PagesFit, PageFits
<1>2. E \in SUBSET Pend /\ IsFiniteSet(E) /\ size = Cardinality(E) /\ size \in Nat
  BY KeysAre, LengthIs DEF BufferInv
<1>3. own \in SUBSET E
  BY DEF Of
<1>4. IsFiniteSet(own) /\ Cardinality(own) \in Nat /\ Cardinality(own) <= size /\ Cardinality(own) # 0
  <2> HIDE DEF own, E
  <2> QED BY <1>1, <1>2, <1>3, FS_Subset, FS_CardinalityType, FS_EmptySet
<1>5. CASE policy = "LRU"
  <2>1. Max(TimesOf(E, g)) \in 0..MaxTime
    BY <1>1, <1>2, LastTime
  <2>2. g.count - Max(TimesOf(E, g)) \in {0, 1}
    BY <1>1, <1>5 DEF CountFits
  <2> HIDE DEF own, E
  <2> QED BY <1>1, <1>5, <2>1, <2>2, NumbersAre
<1>6. CASE policy # "LRU"
  <2>1. g.count = Cardinality(own)
    BY <1>1, <1>6 DEF CountFits
  <2>2. policy # "LS" => size <= Capacity
    BY DEF BufferInv
  <2> HIDE DEF own, E
  <2> QED BY <1>2, <1>4, <1>6, <2>1, <2>2, NumbersAre
<1> QED BY <1>5, <1>6

(* computePids and getLRU find a page with the smallest count, and forget it. *)
LEMMA LightestIs ==
  ASSUME BufferInv, entries # <<>>, policy \in {"SP", "LRU"}
  PROVE  \E p \in Groups : /\ Lightest.out = {p} /\ Lightest.keep \subseteq Groups \ {p}
                           /\ \A g \in Groups : p.count <= g.count
<1> DEFINE visited == Groups \cup {p \in pids : \E i \in DOMAIN entries : p.lower <= entries[i].key}
           start == IF policy = "SP" THEN Capacity + 1 ELSE MaxTime + 2
           r0 == [rest |-> visited, out |-> {}, keep |-> pids, lit |-> {}, least |-> start]
           N == Cardinality(visited)
           look == Looks(N, r0)
           r == look[N]
<1>1. Lightest = [out |-> r.out, keep |-> r.keep \ r.lit]
  BY DEF Lightest, Looks
<1>2. visited = Groups /\ pids \subseteq Groups
  BY GroupsFit
<1> HIDE DEF visited
<1>3. IsFiniteSet(Groups) /\ N \in Nat /\ N = Cardinality(Groups) /\ Groups # {}
  <2>1. PICK i \in DOMAIN entries : TRUE
    BY DEF BufferInv
  <2>2. entries[i] \in Elements(entries)
    BY DEF Elements
  <2> QED BY <1>2, <2>2, GroupsFinite, GroupsFit
<1>4. start \in Int /\ start > 1 /\ \A g \in Groups : g.count < start
  <2>1. \A g \in Groups : g.count \in Nat /\ (policy = "SP" => g.count <= Capacity)
                          /\ (policy = "LRU" => g.count <= MaxTime + 1)
    BY GroupsFinite, CountsBounded
  <2> QED BY <2>1, NumbersAre
<1>5. look[0] = r0 /\ \A n \in 1..N : look[n] = Visit(look[n-1])
  <2> HIDE DEF r0, N
  <2> QED BY <1>3, VisitsExist
<1> HIDE DEF look, N, start
<1> DEFINE Good(n) == /\ Walked(look[n], start) /\ IsFiniteSet(look[n].rest)
                      /\ Stopped(look[n]) \/ Cardinality(look[n].rest) = N - n
           S == {n \in 0..N : Good(n)}
<1>6. Good(0)
  <2>1. r0.rest = Groups /\ r0.out = {} /\ r0.least = start /\ r0.keep = pids
    BY <1>2
  <2>2. Walked(r0, start)
    BY <1>4, <2>1 DEF Walked
  <2> HIDE DEF r0
  <2> QED BY <1>3, <1>5, <2>1, <2>2
<1>7. ASSUME NEW n \in 1..N, Good(n-1) PROVE Good(n)
  <2> DEFINE q == look[n-1]
  <2>1. look[n] = Visit(q)
    BY <1>5
  <2>2. Walked(q, start) /\ IsFiniteSet(q.rest) /\ (Stopped(q) \/ Cardinality(q.rest) = N - (n-1))
    BY <1>7
  <2> HIDE DEF q
  <2>3. CASE Stopped(q)
    <3>1. Visit(q) = q
      BY <2>3 DEF Visit, Stopped
    <3> QED BY <2>1, <2>2, <2>3, <3>1
  <2>4. CASE ~Stopped(q)
    <3>1. Cardinality(q.rest) = N - n + 1 /\ N - n + 1 # 0
      BY <1>3, <2>2, <2>4
    <3>2. q.rest # {}
      BY <3>1, FS_EmptySet
    <3>3. Walked(Visit(q), start) /\ \E p \in q.rest : Visit(q).rest = q.rest \ {p}
      BY <1>4, <2>2, <2>4, <3>2, VisitIs
    <3>4. PICK p \in q.rest : Visit(q).rest = q.rest \ {p}
      BY <3>3
    <3>5. IsFiniteSet(Visit(q).rest) /\ Cardinality(Visit(q).rest) = Cardinality(q.rest) - 1
      BY <2>2, <3>4, FS_RemoveElement
    <3>6. Cardinality(Visit(q).rest) = N - n
      BY <1>3, <3>1, <3>5
    <3> QED BY <2>1, <3>3, <3>5, <3>6
  <2> QED BY <2>3, <2>4
<1>8. Good(N)
  <2> HIDE DEF Good
  <2>1. 0 \in S /\ 0 \in Int /\ N \in Int
    BY <1>3, <1>6
  <2>2. ASSUME NEW n \in 0+1..N, n-1 \in S PROVE n \in S
    <3>1. n \in 1..N /\ n \in 0..N
      BY <1>3
    <3> QED BY <1>7, <2>2, <3>1
  <2>3. \A n \in 0..N : n \in S
    <3> HIDE DEF S
    <3> QED BY <2>1, <2>2, UpTo
  <2> QED BY <1>3, <2>3
<1>9. Walked(r, start) /\ (Stopped(r) \/ r.rest = {})
  <2>1. Walked(r, start) /\ IsFiniteSet(r.rest) /\ (Stopped(r) \/ Cardinality(r.rest) = N - N)
    BY <1>8
  <2>2. N - N = 0
    BY <1>3
  <2> HIDE DEF r
  <2> QED BY <2>1, <2>2, FS_EmptySet
<1> HIDE DEF r
<1>10. r.out # {}
  <2> SUFFICES ASSUME r.out = {} PROVE FALSE
    OBVIOUS
  <2>1. r.rest = Groups /\ r.least = start
    BY <1>9 DEF Walked
  <2> QED BY <1>3, <1>4, <1>9, <2>1 DEF Stopped
<1>11. PICK p \in Groups : r.out = {p} /\ r.least = p.count /\ (p \in r.keep => p \in r.lit)
  BY <1>9, <1>10 DEF Walked
<1>12. ASSUME NEW g \in Groups PROVE p.count <= g.count
  <2>1. CASE Stopped(r)
    <3>1. g.count \in Nat /\ g.count >= 1 /\ p.count <= 1
      BY <1>11, <2>1, GroupsFinite, CountsBounded DEF Stopped
    <3> QED BY <3>1, <1>11, GroupsFinite
  <2>2. CASE r.rest = {}
    BY <1>9, <1>11, <2>2 DEF Walked
  <2> QED BY <1>9, <2>1, <2>2
<1>13. r.keep \ r.lit \subseteq Groups \ {p}
  BY <1>2, <1>9, <1>11 DEF Walked
<1> QED BY <1>1, <1>11, <1>12, <1>13

-----------------------------------------------------------------------------
LEMMA CutsCount ==
  ASSUME NEW S \in SUBSET Key
  PROVE  IsFiniteSet(S) /\ Cardinality(S) \in Nat
<1>1. IsFiniteSet(Key)
  <2>1. 0 \in Int /\ EndsBy-1 \in Int
    BY NumbersAre
  <2> QED BY <2>1, FS_Interval DEF Key
<1> QED BY <1>1, FS_Subset, FS_CardinalityType

LEMMA NotNearly == ~NearlyFull(0)
<1>1. EndsBy \div Boundary >= 0 /\ EndsBy \div Boundary \in Int
  BY NumbersAre
<1> QED BY <1>1 DEF NearlyFull

LEMMA NearlyUp ==
  ASSUME NEW n \in Nat, NEW m \in Nat, n <= m, NearlyFull(n)
  PROVE  NearlyFull(m)
<1>1. EndsBy \div Boundary \in Int
  BY NumbersAre
<1> QED BY <1>1 DEF NearlyFull

(* A leaf's bounds are the cuts around the key, a cell does not depend on  *)
(* the leaves.                                                             *)
LEMMA LeafBounds ==
  ASSUME NEW c, NEW n, NEW k, ~NearlyFull(n)
  PROVE  /\ Located(c, n, k) = <<LowCut(c, k), HighCut(c, k)>>
         /\ Located(c, n, k)[1] = LowCut(c, k) /\ Located(c, n, k)[2] = HighCut(c, k)
<1>1. Located(c, n, k) = <<LowCut(c, k), HighCut(c, k)>>
  BY DEF Located, NearlyFull, LowCut, HighCut
<1> QED BY <1>1

LEMMA CellsAlike ==
  ASSUME NEW c, NEW d, NEW n, NEW m, NEW k, NearlyFull(n), NearlyFull(m)
  PROVE  Located(c, n, k) = Located(d, m, k)
BY DEF Located, NearlyFull

(* Cuts below the leaf of a key do not change its bounds. *)
LEMMA CutsElsewhere ==
  ASSUME NEW c, CutsFit(c), NEW d, CutsFit(d), c \subseteq d, NEW k \in Key,
         \A x \in d \ c : x < LowCut(c, k)
  PROVE  LowCut(d, k) = LowCut(c, k) /\ HighCut(d, k) = HighCut(c, k)
<1>1. /\ LowCut(c, k) \in c /\ LowCut(c, k) <= k
      /\ \A x \in c : x <= k => x <= LowCut(c, k)
  BY CutsAround
<1>2. /\ LowCut(d, k) \in d /\ LowCut(d, k) <= k
      /\ \A x \in d : x <= k => x <= LowCut(d, k)
  BY CutsAround
<1>3. d \subseteq Nat /\ k \in Nat
  BY NumbersAre DEF CutsFit
<1>4. LowCut(d, k) = LowCut(c, k)
  <2> DEFINE l == LowCut(c, k)
             m == LowCut(d, k)
  <2>1. l \in Nat /\ m \in Nat /\ l <= m
    BY <1>1, <1>2, <1>3
  <2>2. m <= l
    <3>1. m \in c => m <= l
      BY <1>1, <1>2
    <3>2. m \notin c => m < l
      BY <1>2
    <3> QED BY <2>1, <3>1, <3>2
  <2> HIDE DEF l, m
  <2>3. l = m
    BY <2>1, <2>2
  <2> QED BY <2>3 DEF l, m
<1>5. {x \in d : k < x} = {x \in c : k < x}
  <2>1. ASSUME NEW x \in d, k < x PROVE x \in c
    <3> SUFFICES ASSUME x \notin c PROVE FALSE
      OBVIOUS
    <3>1. x < LowCut(c, k) /\ x \in Nat /\ LowCut(c, k) \in Nat
      BY <1>1, <1>3
    <3> QED BY <1>1, <1>3, <2>1, <3>1
  <2> QED BY <2>1
<1> QED BY <1>4, <1>5 DEF HighCut

LEMMA LowCutUp ==
  ASSUME NEW c, CutsFit(c), NEW d, CutsFit(d), c \subseteq d, NEW k \in Key, NEW j \in Key, k <= j
  PROVE  LowCut(c, k) <= LowCut(d, j)
<1>1. LowCut(c, k) \in d /\ LowCut(c, k) <= k
  BY CutsAround
<1>2. \A x \in d : x <= j => x <= LowCut(d, j)
  BY CutsAround
<1>3. LowCut(c, k) \in Nat /\ k \in Nat /\ j \in Nat
  BY <1>1, NumbersAre DEF CutsFit
<1> QED BY <1>1, <1>2, <1>3

(* Where leaves may split: within the leaves of the keys, at no cut there  *)
(* is already.                                                             *)
LEMMA NewCutsFit ==
  ASSUME Careful, NEW c, CutsFit(c), NEW keys, NEW new \in SUBSET NewCuts(keys, c)
  PROVE  CutsFit(c \cup new) /\ c \subseteq c \cup new
<1>1. \A x \in new : x \in Key /\ x % Boundary = 0
  BY DEF NewCuts
<1>2. \A x \in new : Multiple(x)
  <2> TAKE x \in new
  <2>1. x \in Nat
    BY <1>1, NumbersAre
  <2> QED BY <1>1, <2>1, RemainderIs
<1> QED BY <1>1, <1>2 DEF CutsFit

LEMMA NewCutsWithin ==
  ASSUME NEW c, CutsFit(c), NEW keys \in SUBSET Key, NEW x \in NewCuts(keys, c)
  PROVE  /\ x \in Nat /\ x \notin c
         /\ \E k \in keys : LowCut(c, k) < x /\ x < HighCut(c, k)
<1>1. PICK k \in keys : LowCut(c, k) < x /\ x < HighCut(c, k)
  BY NotNearly, LeafBounds DEF NewCuts
<1>2. x \in Nat /\ k \in Nat
  BY NumbersAre DEF NewCuts
<1>3. /\ LowCut(c, k) \in c /\ HighCut(c, k) \in c \cup {EndsBy}
      /\ \A y \in c : y <= k => y <= LowCut(c, k)
      /\ \A y \in c : k < y => HighCut(c, k) <= y
  BY CutsAround
<1>4. LowCut(c, k) \in Nat /\ HighCut(c, k) \in Nat
  BY <1>3, NumbersAre DEF CutsFit
<1>5. x \notin c
  BY <1>1, <1>2, <1>3, <1>4
<1> QED BY <1>1, <1>2, <1>5

-----------------------------------------------------------------------------
(* LG_RAND's walk along the pending entries.  When it comes to an entry,   *)
(* the leaves before the entry's have their new cuts.                      *)
CutsBelow(c, k) == {x \in c \ cuts : x < Located(cuts, 0, k)[1]}
CountBy(c, k) == nLeaves + Cardinality(CutsBelow(c, k))
MetBy(c, i) ==
  LET b == Located(cuts, CountBy(c, entries[i].key), entries[i].key)
  IN  {j \in DOMAIN entries : b[1] <= entries[j].key /\ entries[j].key < b[2]}
OfClass(c, class) == {i \in DOMAIN entries : SizeClass(Cardinality(MetBy(c, i))) = class}

(* What the walk w has done: the entries before w.at that go are those met *)
(* in a group of the class, and the groups to come are not begun.  As long *)
(* as the tree is not nearly full the new cuts are all below them.         *)
Ahead(w, j) ==
  /\ NearlyFull(w.n) => NearlyFull(CountBy(w.cuts, entries[j].key))
  /\ ~NearlyFull(w.n) => \A x \in w.cuts \ cuts : x < LowCut(cuts, entries[j].key)
  /\ \A i \in DOMAIN entries : i < w.at => entries[i].key < Located(w.cuts, w.n, entries[j].key)[1]

WalkFits(w, class) ==
  /\ w = [at |-> w.at, goes |-> w.goes, cuts |-> w.cuts, n |-> w.n]
  /\ w.at \in 1..Len(entries)+1
  /\ CutsFit(w.cuts) /\ cuts \subseteq w.cuts /\ w.n = nLeaves + Cardinality(w.cuts \ cuts)
  /\ \A i \in DOMAIN entries : i < w.at => (entries[i].key \in w.goes <=> i \in OfClass(w.cuts, class))
  /\ \A i \in DOMAIN entries : i >= w.at => entries[i].key \notin w.goes
  /\ \A j \in DOMAIN entries : j >= w.at => Ahead(w, j)
  /\ (\A i \in DOMAIN entries : entries[i].key \notin w.goes) => w.cuts = cuts

LEMMA CountsAre ==
  ASSUME BufferInv, NEW c, CutsFit(c), NEW d, CutsFit(d), c \subseteq d, NEW k
  PROVE  /\ CountBy(c, k) \in Nat /\ nLeaves + Cardinality(c \ cuts) \in Nat
         /\ CountBy(c, k) <= CountBy(d, k) /\ CountBy(c, k) <= nLeaves + Cardinality(c \ cuts)
<1>1. d \subseteq Key /\ nLeaves \in Nat
  BY DEF BufferInv, CutsFit
<1> DEFINE A == CutsBelow(c, k)
           B == CutsBelow(d, k)
           C == c \ cuts
<1>2. A \subseteq B /\ A \subseteq C /\ B \in SUBSET Key /\ C \in SUBSET Key
  BY <1>1 DEF CutsBelow
<1>3. CountBy(c, k) = nLeaves + Cardinality(A) /\ CountBy(d, k) = nLeaves + Cardinality(B)
  BY DEF CountBy
<1> HIDE DEF A, B, C
<1>4. /\ IsFiniteSet(B) /\ IsFiniteSet(C)
      /\ Cardinality(A) \in Nat /\ Cardinality(B) \in Nat /\ Cardinality(C) \in Nat
  BY <1>2, CutsCount
<1>5. Cardinality(A) <= Cardinality(B) /\ Cardinality(A) <= Cardinality(C)
  BY <1>2, <1>4, FS_Subset
<1>6. /\ CountBy(c, k) \in Nat /\ nLeaves + Cardinality(C) \in Nat
      /\ CountBy(c, k) <= CountBy(d, k) /\ CountBy(c, k) <= nLeaves + Cardinality(C)
  BY <1>1, <1>3, <1>4, <1>5
<1> QED BY <1>6 DEF C

(* The group of a turn, and where the next one begins. *)
GroupAt(w) ==
  {i \in w.at..Len(entries) : entries[i].key < Located(w.cuts, w.n, entries[w.at].key)[2]}

LEMMA GroupIs ==
  ASSUME BufferInv, NEW class, NEW w, WalkFits(w, class), w.at <= Len(entries)
  PROVE  LET b == Located(w.cuts, w.n, entries[w.at].key)
             next == w.at + Cardinality(GroupAt(w))
         IN  /\ w.at \in DOMAIN entries /\ w.at \in GroupAt(w) /\ w.n \in Nat
             /\ b[1] <= entries[w.at].key /\ entries[w.at].key < b[2] /\ b[1] \in Nat /\ b[2] \in Nat
             /\ BoundsFit(b[1], b[2], w.cuts, w.n)
             /\ next \in w.at+1..Len(entries)+1
             /\ \A i \in DOMAIN entries :
                  /\ i < next <=> entries[i].key < b[2]
                  /\ i \in GroupAt(w) <=> b[1] <= entries[i].key /\ entries[i].key < b[2]
                  /\ i \in GroupAt(w) <=> i >= w.at /\ i < next
                  /\ i \in GroupAt(w) => Located(w.cuts, w.n, entries[i].key) = b
<1> DEFINE N == Len(entries)
           a == w.at
           b == Located(w.cuts, w.n, entries[a].key)
           G == GroupAt(w)
           m == Cardinality(Below(entries, b[2]))
<1>1. /\ entries \in Seq(Pend) /\ Ascending(entries) /\ DOMAIN entries = 1..N /\ N \in Nat
      /\ \A i \in DOMAIN entries : entries[i].key \in Key /\ entries[i].key \in Int
  BY KeysAre DEF BufferInv
<1>2. a \in 1..N /\ CutsFit(w.cuts) /\ cuts \subseteq w.cuts /\ w.n \in Nat
  <2>1. CutsFit(w.cuts) /\ cuts \subseteq w.cuts /\ a \in 1..N+1 /\ a <= N
    BY DEF WalkFits
  <2>2. w.n \in Nat
    BY <2>1, CountsAre DEF WalkFits
  <2> QED BY <1>1, <2>1, <2>2
<1>3. b[1] <= entries[a].key /\ entries[a].key < b[2] /\ BoundsFit(b[1], b[2], w.cuts, w.n)
  BY <1>1, <1>2, LocatedIs
<1>4. b[1] \in Nat /\ b[2] \in Nat
  BY <1>3, BoundsAre
<1>5. m \in 0..N /\ Below(entries, b[2]) = 1..m
  BY <1>1, <1>4, SmallerFirst
<1>6. \A i \in DOMAIN entries : entries[i].key < b[2] <=> i \in 1..m
  BY <1>5 DEF Below
<1>7. G = {i \in a..N : entries[i].key < b[2]}
  BY DEF GroupAt
<1>8. \A i \in DOMAIN entries : i < a => entries[i].key < b[1]
  <2>1. a \in DOMAIN entries /\ a >= a
    BY <1>1, <1>2
  <2>2. Ahead(w, a)
    BY <2>1 DEF WalkFits
  <2> QED BY <2>2 DEF Ahead
<1>9. ASSUME NEW i \in DOMAIN entries, i >= a PROVE b[1] <= entries[i].key
  <2>1. CASE i = a
    BY <1>3, <2>1
  <2>2. CASE i # a
    <3>1. a < i /\ entries[a].key < entries[i].key
      BY <1>1, <1>2, <1>9, <2>2 DEF Ascending
    <3> QED BY <1>1, <1>2, <1>3, <1>4, <3>1
  <2> QED BY <2>1, <2>2
<1>10. ASSUME NEW i \in DOMAIN entries, b[1] <= entries[i].key, entries[i].key < b[2]
       PROVE  Located(w.cuts, w.n, entries[i].key) = b
  BY <1>1, <1>2, <1>10, LocatedSame
<1> HIDE DEF b, G, m
<1>11. a \in 1..m
  BY <1>1, <1>2, <1>3, <1>6
<1>12. G = a..m
  <2>1. \A i \in a..N : i \in DOMAIN entries
    BY <1>1, <1>2
  <2>2. G \subseteq a..m
    BY <1>5, <1>6, <1>7, <2>1
  <2>3. a..m \subseteq G
    BY <1>1, <1>2, <1>5, <1>6, <1>7
  <2> QED BY <2>2, <2>3
<1>13. a + Cardinality(G) = m + 1
  <2>1. a \in Int /\ m \in Int /\ a <= m
    BY <1>2, <1>5, <1>11
  <2>2. Cardinality(a..m) = m - a + 1
    BY <2>1, FS_Interval
  <2> QED BY <1>12, <2>1, <2>2
<1>14. ASSUME NEW i \in DOMAIN entries
       PROVE  /\ i < m + 1 <=> entries[i].key < b[2]
              /\ i \in G <=> b[1] <= entries[i].key /\ entries[i].key < b[2]
              /\ i \in G <=> i >= a /\ i < m + 1
  <2>1. i \in Int /\ i >= 1 /\ a \in Int /\ m \in Int
    BY <1>1, <1>2, <1>5
  <2>2. i < m + 1 <=> entries[i].key < b[2]
    BY <1>6, <2>1
  <2>3. i \in G <=> i >= a /\ i < m + 1
    BY <1>12, <2>1
  <2>4. i >= a <=> b[1] <= entries[i].key
    BY <1>1, <1>4, <1>8, <1>9, <2>1
  <2> QED BY <2>2, <2>3, <2>4
<1>15. m + 1 \in a+1..N+1
  BY <1>1, <1>2, <1>5, <1>11
<1>16. a \in G
  BY <1>11, <1>12
<1> QED BY <1>1, <1>2, <1>3, <1>4, <1>10, <1>13, <1>14, <1>15, <1>16 DEF b, G

(* The leaves of a turn's group split: the groups met before keep theirs,  *)
(* and those to come are still ahead.                                      *)
LEMMA TurnCuts ==
  ASSUME Careful, BufferInv, NEW class, NEW w, WalkFits(w, class), w.at <= Len(entries),
         NEW new \in SUBSET NewCuts(PendingKeys(GroupAt(w)), w.cuts), NEW x,
         x.at = w.at + Cardinality(GroupAt(w)), x.cuts = w.cuts \cup new, x.n = w.n + Cardinality(new)
  PROVE  /\ CutsFit(x.cuts) /\ cuts \subseteq x.cuts /\ x.n = nLeaves + Cardinality(x.cuts \ cuts)
         /\ \A i \in DOMAIN entries : i < w.at => MetBy(x.cuts, i) = MetBy(w.cuts, i)
         /\ \A i \in GroupAt(w) : MetBy(x.cuts, i) = GroupAt(w)
         /\ \A j \in DOMAIN entries : j >= x.at => Ahead(x, j)
<1> DEFINE a == w.at
           G == GroupAt(w)
           b == Located(w.cuts, w.n, entries[a].key)
           key(i) == entries[i].key
<1>1. /\ a \in DOMAIN entries /\ a \in G /\ w.n \in Nat
      /\ b[1] <= key(a) /\ key(a) < b[2] /\ b[1] \in Nat /\ b[2] \in Nat
      /\ BoundsFit(b[1], b[2], w.cuts, w.n)
      /\ x.at \in a+1..Len(entries)+1
  BY GroupIs
<1>2. ASSUME NEW i \in DOMAIN entries
      PROVE  /\ i < x.at <=> key(i) < b[2]
             /\ i \in G <=> b[1] <= key(i) /\ key(i) < b[2]
             /\ i \in G <=> i >= a /\ i < x.at
             /\ i \in G => Located(w.cuts, w.n, key(i)) = b
  BY GroupIs
<1>3. /\ entries \in Seq(Pend) /\ Ascending(entries) /\ DOMAIN entries = 1..Len(entries) /\ Len(entries) \in Nat
      /\ \A i \in DOMAIN entries : key(i) \in Key /\ key(i) \in Int /\ i \in Int /\ key(i) < EndsBy
      /\ G \subseteq DOMAIN entries /\ nLeaves \in Nat /\ CutsFit(cuts)
  <2>1. entries \in Seq(Pend) /\ Ascending(entries) /\ nLeaves \in Nat /\ CutsFit(cuts)
    BY DEF BufferInv
  <2>2. DOMAIN entries = 1..Len(entries) /\ Len(entries) \in Nat
        /\ \A i \in DOMAIN entries : key(i) \in Key /\ key(i) \in Int
    BY <2>1, KeysAre
  <2>3. \A i \in DOMAIN entries : i \in Int /\ key(i) < EndsBy
    BY <2>2, NumbersAre
  <2>4. G \subseteq DOMAIN entries
    BY <1>1, <2>2 DEF GroupAt
  <2> QED BY <2>1, <2>2, <2>3, <2>4
<1>4. CutsFit(w.cuts) /\ cuts \subseteq w.cuts /\ w.n = nLeaves + Cardinality(w.cuts \ cuts)
  BY DEF WalkFits
<1>5. CutsFit(x.cuts) /\ cuts \subseteq x.cuts /\ w.cuts \subseteq x.cuts
  BY <1>4, NewCutsFit
<1>6. ASSUME NEW c \in new
      PROVE  /\ c \in Nat /\ c \notin w.cuts
             /\ \E h \in G : LowCut(w.cuts, key(h)) < c /\ c < HighCut(w.cuts, key(h))
  <2>1. PendingKeys(G) \in SUBSET Key
    BY <1>3 DEF PendingKeys
  <2> HIDE DEF G
  <2>2. /\ c \in Nat /\ c \notin w.cuts
        /\ \E k \in PendingKeys(G) : LowCut(w.cuts, k) < c /\ c < HighCut(w.cuts, k)
    BY <1>4, <2>1, NewCutsWithin DEF G
  <2> QED BY <2>2 DEF PendingKeys
<1> HIDE DEF G, b
<1>7. x.n = nLeaves + Cardinality(x.cuts \ cuts) /\ x.n \in Nat /\ w.n <= x.n
  <2> DEFINE old == w.cuts \ cuts
  <2>1. new \cap old = {} /\ x.cuts \ cuts = old \cup new
    BY <1>4, <1>6
  <2>2. old \in SUBSET Key /\ new \in SUBSET Key
    BY <1>4 DEF CutsFit, NewCuts
  <2> HIDE DEF old
  <2>3. IsFiniteSet(old) /\ IsFiniteSet(new) /\ Cardinality(old) \in Nat /\ Cardinality(new) \in Nat
    BY <2>2, CutsCount
  <2>4. Cardinality(old \cup new) = Cardinality(old) + Cardinality(new)
    <3>1. Cardinality(old \cup new) = Cardinality(old) + Cardinality(new) - Cardinality(old \cap new)
      BY <2>3, FS_Union
    <3>2. old \cap new = {} /\ Cardinality({}) = 0
      BY <2>1, FS_EmptySet
    <3>3. Cardinality(old \cap new) = 0
      BY <3>2
    <3> QED BY <2>3, <3>1, <3>3
  <2>5. w.n = nLeaves + Cardinality(old)
    BY <1>4 DEF old
  <2>6. Cardinality(x.cuts \ cuts) = Cardinality(old) + Cardinality(new)
    BY <2>1, <2>4
  <2> QED BY <1>3, <2>3, <2>5, <2>6
<1>8. ASSUME NEW k
      PROVE  /\ CountBy(w.cuts, k) \in Nat /\ CountBy(x.cuts, k) \in Nat
             /\ CountBy(w.cuts, k) <= CountBy(x.cuts, k) /\ CountBy(w.cuts, k) <= w.n
  BY <1>4, <1>5, CountsAre
<1>9. ASSUME NEW j \in DOMAIN entries, j >= a PROVE Ahead(w, j)
  BY <1>9 DEF WalkFits
(* The bounds of the group while the tree is not nearly full. *)
<1>10. ASSUME ~NearlyFull(w.n), NEW i \in G
       PROVE  /\ LowCut(cuts, key(i)) = b[1] /\ HighCut(cuts, key(i)) = b[2]
              /\ LowCut(w.cuts, key(i)) = b[1] /\ HighCut(w.cuts, key(i)) = b[2]
  <2>1. i \in DOMAIN entries /\ i >= a /\ key(i) \in Key
    BY <1>2, <1>3
  <2>2. Located(w.cuts, w.n, key(i)) = b
    BY <1>2, <2>1
  <2>3. LowCut(w.cuts, key(i)) = b[1] /\ HighCut(w.cuts, key(i)) = b[2]
    BY <1>10, <2>2, LeafBounds
  <2>4. \A c \in w.cuts \ cuts : c < LowCut(cuts, key(i))
    BY <1>9, <1>10, <2>1 DEF Ahead
  <2>5. LowCut(w.cuts, key(i)) = LowCut(cuts, key(i)) /\ HighCut(w.cuts, key(i)) = HighCut(cuts, key(i))
    BY <1>3, <1>4, <2>1, <2>4, CutsElsewhere
  <2> QED BY <2>3, <2>5
<1>11. ASSUME ~NearlyFull(w.n), NEW c \in new PROVE b[1] < c /\ c < b[2]
  <2>1. PICK h \in G : LowCut(w.cuts, key(h)) < c /\ c < HighCut(w.cuts, key(h))
    BY <1>6
  <2> QED BY <1>10, <1>11, <2>1
<1>12. ASSUME NEW i \in DOMAIN entries, i < a PROVE MetBy(x.cuts, i) = MetBy(w.cuts, i)
  <2>1. ASSUME NEW c \in new PROVE ~(c < LowCut(cuts, key(i)))
    <3>1. PICK h \in G : LowCut(w.cuts, key(h)) < c
      BY <1>6
    <3>2. h \in DOMAIN entries /\ i < h /\ h \in Int
      BY <1>1, <1>2, <1>3, <1>12
    <3>3. key(i) < key(h) /\ key(i) \in Key /\ key(h) \in Key
      BY <1>3, <3>2 DEF Ascending
    <3>4. LowCut(cuts, key(i)) <= LowCut(w.cuts, key(h))
      BY <1>3, <1>4, <3>3, LowCutUp
    <3>5. LowCut(cuts, key(i)) \in Nat /\ LowCut(w.cuts, key(h)) \in Nat /\ c \in Nat
      BY <1>3, <1>4, <1>6, <3>3, CutsAround, NumbersAre DEF CutsFit
    <3> QED BY <3>1, <3>4, <3>5
  <2>2. Located(cuts, 0, key(i))[1] = LowCut(cuts, key(i))
    BY NotNearly, LeafBounds
  <2>3. CutsBelow(x.cuts, key(i)) = CutsBelow(w.cuts, key(i))
    BY <2>1, <2>2 DEF CutsBelow
  <2> QED BY <2>3 DEF MetBy, CountBy
<1>13. ASSUME NEW i \in G PROVE MetBy(x.cuts, i) = G
  <2>1. i \in DOMAIN entries /\ i >= a /\ key(i) \in Key
    BY <1>2, <1>3
  <2> DEFINE n == CountBy(x.cuts, key(i))
  <2>2. Located(cuts, n, key(i)) = b
    <3>1. CASE NearlyFull(w.n)
      <4>1. NearlyFull(CountBy(w.cuts, key(i)))
        BY <1>9, <2>1, <3>1 DEF Ahead
      <4>2. NearlyFull(n)
        BY <1>8, <4>1, NearlyUp
      <4> QED BY <1>2, <2>1, <3>1, <4>2, CellsAlike
    <3>2. CASE ~NearlyFull(w.n)
      <4>1. CutsBelow(x.cuts, key(i)) = CutsBelow(w.cuts, key(i))
        <5>1. Located(cuts, 0, key(i))[1] = b[1]
          BY <1>10, <3>2, NotNearly, LeafBounds
        <5>2. \A c \in new : ~(c < b[1])
          BY <1>1, <1>6, <1>11, <3>2
        <5> QED BY <5>1, <5>2 DEF CutsBelow
      <4>2. n = CountBy(w.cuts, key(i))
        BY <4>1 DEF CountBy
      <4>3. ~NearlyFull(n)
        BY <1>1, <1>8, <3>2, <4>2, NearlyUp
      <4>4. Located(cuts, n, key(i)) = <<b[1], b[2]>>
        BY <1>10, <3>2, <4>3, LeafBounds
      <4>5. b = <<b[1], b[2]>>
        <5>1. CutsFit(w.cuts) /\ key(a) \in Key
          BY <1>1, <1>3, <1>4
        <5> QED BY <1>1, <5>1, LocatedIs DEF b
      <4> QED BY <4>4, <4>5
    <3> QED BY <3>1, <3>2
  <2>3. MetBy(x.cuts, i) = {j \in DOMAIN entries : b[1] <= key(j) /\ key(j) < b[2]}
    BY <2>2 DEF MetBy
  <2> QED BY <1>2, <1>3, <2>3
<1>14. ASSUME NEW j \in DOMAIN entries, j >= x.at PROVE Ahead(x, j)
  <2>1. b[2] <= key(j) /\ key(j) \in Key /\ key(j) < EndsBy /\ key(j) \in Nat /\ j >= a
    <3>1. ~(j < x.at) /\ j >= a
      BY <1>1, <1>3, <1>14
    <3>2. key(j) \in Nat
      BY <1>3, NumbersAre
    <3> QED BY <1>1, <1>2, <1>3, <3>1, <3>2
  <2>2. ASSUME ~NearlyFull(w.n), NEW c \in x.cuts \ cuts PROVE c < LowCut(cuts, key(j))
    <3>1. CASE c \in w.cuts
      BY <1>9, <2>1, <2>2, <3>1 DEF Ahead
    <3>2. CASE c \in new
      <4>1. c < b[2] /\ c \in Nat
        BY <1>6, <1>11, <2>2, <3>2
      <4>2. b[2] \in cuts
        <5>1. b[2] \in cuts \cup {EndsBy}
          BY <1>1, <1>3, <1>10, <2>2, CutsAround
        <5> QED BY <1>1, <2>1, <5>1, NumbersAre
      <4>3. b[2] <= LowCut(cuts, key(j)) /\ LowCut(cuts, key(j)) \in Nat
        BY <1>3, <2>1, <4>2, CutsAround, NumbersAre DEF CutsFit
      <4> QED BY <1>1, <4>1, <4>3
    <3> QED BY <2>2, <3>1, <3>2
  <2>3. NearlyFull(x.n) => NearlyFull(CountBy(x.cuts, key(j)))
    <3>1. CASE NearlyFull(w.n)
      <4>1. NearlyFull(CountBy(w.cuts, key(j)))
        BY <1>9, <2>1, <3>1 DEF Ahead
      <4> QED BY <1>8, <4>1, NearlyUp
    <3>2. CASE ~NearlyFull(w.n)
      <4>1. Located(cuts, 0, key(j))[1] = LowCut(cuts, key(j))
        BY NotNearly, LeafBounds
      <4>2. CutsBelow(x.cuts, key(j)) = x.cuts \ cuts
        BY <2>2, <3>2, <4>1 DEF CutsBelow
      <4> QED BY <1>7, <4>2 DEF CountBy
    <3> QED BY <3>1, <3>2
  <2>4. ~NearlyFull(x.n) => ~NearlyFull(w.n)
    BY <1>1, <1>7, NearlyUp
  <2>5. ASSUME NEW i \in DOMAIN entries, i < x.at PROVE key(i) < Located(x.cuts, x.n, key(j))[1]
    <3> DEFINE d == Located(x.cuts, x.n, key(j))
    <3>1. d[1] <= key(j) /\ key(j) < d[2] /\ BoundsFit(d[1], d[2], x.cuts, x.n)
      BY <1>5, <1>7, <2>1, LocatedIs
    <3>2. d[1] \in Nat /\ d[2] \in Nat
      BY <3>1, BoundsAre
    <3>3. BoundsFit(b[1], b[2], x.cuts, x.n)
      BY <1>1, <1>5, <1>7, BoundsLast
    <3>4. ~(b[1] <= key(j) /\ key(j) < b[2])
      BY <1>1, <2>1
    <3>5. d[2] <= b[1] \/ b[2] <= d[1]
      BY <1>5, <1>7, <2>1, <3>3, <3>4, LocatedApart
    <3>6. key(i) < b[2] /\ key(i) \in Int
      BY <1>2, <1>3, <2>5
    <3> HIDE DEF d
    <3>7. b[2] <= d[1]
      <4>1. b[1] < b[2]
        BY <1>1, <1>3
      <4>2. key(j) < d[2]
        BY <3>1 DEF d
      <4> QED BY <1>1, <2>1, <3>2, <3>5, <4>1, <4>2
    <3>8. key(i) < d[1]
      BY <1>1, <3>2, <3>6, <3>7
    <3> QED BY <3>8 DEF d
  <2> QED BY <2>2, <2>3, <2>4, <2>5 DEF Ahead
<1> QED BY <1>5, <1>7, <1>12, <1>13, <1>14 DEF G

LEMMA TurnFits ==
  ASSUME Careful, BufferInv, NEW class, NEW w, WalkFits(w, class), w.at <= Len(entries),
         NEW x \in Turn(w, class)
  PROVE  WalkFits(x, class) /\ x.at > w.at
<1> DEFINE G == GroupAt(w)
           size1 == Cardinality(G)
           hit == SizeClass(size1) = class
<1>1. w = [at |-> w.at, goes |-> w.goes, cuts |-> w.cuts, n |-> w.n]
  BY DEF WalkFits
<1>2. PICK new \in SUBSET NewCuts(PendingKeys(G), w.cuts) :
        /\ x = [at |-> w.at + size1, goes |-> IF hit THEN w.goes \cup PendingKeys(G) ELSE w.goes,
                cuts |-> w.cuts \cup new, n |-> w.n + Cardinality(new)]
        /\ ~hit => new = {}
  <2>1. w.n \in Nat
    BY GroupIs
  <2>2. CASE hit
    <3>1. PICK new \in SUBSET NewCuts(PendingKeys(G), w.cuts) :
            x = [[w EXCEPT !.at = @ + size1]
                   EXCEPT !.goes = @ \cup PendingKeys(G), !.cuts = @ \cup new, !.n = @ + Cardinality(new)]
      BY <2>2 DEF Turn, GroupAt
    <3>2. x = [at |-> w.at + size1, goes |-> w.goes \cup PendingKeys(G),
               cuts |-> w.cuts \cup new, n |-> w.n + Cardinality(new)]
      BY <1>1, <3>1
    <3> QED BY <2>2, <3>2
  <2>3. CASE ~hit
    <3>1. x = [w EXCEPT !.at = @ + size1]
      BY <2>3 DEF Turn, GroupAt
    <3>2. x = [at |-> w.at + size1, goes |-> w.goes, cuts |-> w.cuts, n |-> w.n]
      BY <1>1, <3>1
    <3>3. w.cuts \cup {} = w.cuts /\ w.n + Cardinality({}) = w.n
      BY <2>1, FS_EmptySet
    <3> QED BY <2>3, <3>2, <3>3
  <2> QED BY <2>2, <2>3
<1>3. /\ x.at = w.at + size1 /\ x.cuts = w.cuts \cup new /\ x.n = w.n + Cardinality(new)
      /\ x.goes = IF hit THEN w.goes \cup PendingKeys(G) ELSE w.goes
      /\ x = [at |-> x.at, goes |-> x.goes, cuts |-> x.cuts, n |-> x.n]
  BY <1>2
<1>4. /\ CutsFit(x.cuts) /\ cuts \subseteq x.cuts /\ x.n = nLeaves + Cardinality(x.cuts \ cuts)
      /\ \A i \in DOMAIN entries : i < w.at => MetBy(x.cuts, i) = MetBy(w.cuts, i)
      /\ \A i \in G : MetBy(x.cuts, i) = G
      /\ \A j \in DOMAIN entries : j >= x.at => Ahead(x, j)
  BY <1>3, TurnCuts
<1>5. /\ w.at \in DOMAIN entries /\ w.at \in G /\ x.at \in w.at+1..Len(entries)+1
      /\ \A i \in DOMAIN entries : i \in G <=> i >= w.at /\ i < x.at
  BY <1>3, GroupIs
<1> HIDE DEF G
<1>6. DOMAIN entries = 1..Len(entries) /\ Len(entries) \in Nat /\ G \subseteq DOMAIN entries
      /\ \A i \in DOMAIN entries : i \in Int
  <2>1. DOMAIN entries = 1..Len(entries) /\ Len(entries) \in Nat
    BY KeysAre DEF BufferInv
  <2> QED BY <1>5, <2>1 DEF G, GroupAt
<1>7. \A i \in DOMAIN entries : entries[i].key \in PendingKeys(G) <=> i \in G
  <2>1. entries \in Seq(Pend) /\ Ascending(entries)
    BY DEF BufferInv
  <2> QED BY <1>6, <2>1, OneEntryPerKey DEF PendingKeys
<1> HIDE DEF hit
<1>8. ASSUME NEW i \in DOMAIN entries, i < x.at
      PROVE  entries[i].key \in x.goes <=> i \in OfClass(x.cuts, class)
  <2>1. CASE i < w.at
    <3>1. i \notin G
      BY <1>5, <1>6, <2>1
    <3>2. entries[i].key \in x.goes <=> entries[i].key \in w.goes
      BY <1>3, <1>7, <3>1
    <3>3. entries[i].key \in w.goes <=> i \in OfClass(w.cuts, class)
      BY <2>1 DEF WalkFits
    <3>4. i \in OfClass(w.cuts, class) <=> i \in OfClass(x.cuts, class)
      BY <1>4, <2>1 DEF OfClass
    <3> QED BY <3>2, <3>3, <3>4
  <2>2. CASE i >= w.at
    <3>1. i \in G /\ entries[i].key \notin w.goes
      BY <1>5, <1>8, <2>2 DEF WalkFits
    <3>2. entries[i].key \in x.goes <=> hit
      BY <1>3, <1>7, <3>1
    <3>3. i \in OfClass(x.cuts, class) <=> hit
      BY <1>4, <3>1 DEF OfClass, hit
    <3> QED BY <3>2, <3>3
  <2> QED BY <1>5, <1>6, <2>1, <2>2
<1>9. ASSUME NEW i \in DOMAIN entries, i >= x.at PROVE entries[i].key \notin x.goes
  <2>1. i >= w.at /\ i \notin G
    BY <1>5, <1>6, <1>9
  <2>2. entries[i].key \notin w.goes
    BY <2>1 DEF WalkFits
  <2> QED BY <1>3, <1>7, <2>1, <2>2
<1>10. ASSUME \A i \in DOMAIN entries : entries[i].key \notin x.goes PROVE x.cuts = cuts
  <2>1. ~hit
    BY <1>3, <1>5, <1>7, <1>10
  <2>2. x.goes = w.goes /\ x.cuts = w.cuts
    BY <1>2, <1>3, <2>1
  <2> QED BY <1>10, <2>2 DEF WalkFits
<1>11. x.at \in 1..Len(entries)+1 /\ x.at > w.at
  BY <1>5, <1>6
<1> QED BY <1>3, <1>4, <1>8, <1>9, <1>10, <1>11 DEF WalkFits

(* The sets of walks after so many turns exist. *)
Stepped(W, class) == UNION {IF w.at > Len(entries) THEN {w} ELSE Turn(w, class) : w \in W}
AtFirst == [at |-> 1, goes |-> {}, cuts |-> cuts, n |-> nLeaves]
Walking(class) ==
  CHOOSE walks : walks = [t \in 0..Len(entries) |->
                            IF t = 0 THEN {AtFirst} ELSE Stepped(walks[t-1], class)]

LEMMA WalksExist ==
  ASSUME BufferInv, NEW class
  PROVE  LET walks == Walking(class)
         IN  /\ walks[0] = {AtFirst}
             /\ \A t \in 1..Len(entries) : walks[t] = Stepped(walks[t-1], class)
             /\ Walks(class) = walks[Len(entries)]
<1> DEFINE N == Len(entries)
<1>0. N \in Nat
  BY DEF BufferInv
<1> HIDE DEF N
<1> DEFINE IsWalk(h, m) == h = [n \in 0..m |-> IF n = 0 THEN {AtFirst} ELSE Stepped(h[n-1], class)]
           S == {m \in 0..N : \E h : IsWalk(h, m)}
<1>1. 0 \in S
  <2> DEFINE h == [n \in 0..0 |-> {AtFirst}]
  <2>1. IsWalk(h, 0)
    OBVIOUS
  <2>2. 0 \in 0..N
    BY <1>0
  <2>3. \E x : IsWalk(x, 0)
    <3> HIDE DEF IsWalk
    <3> QED BY <2>1
  <2> HIDE DEF IsWalk
  <2> QED BY <2>2, <2>3
<1>2. ASSUME NEW m \in 0+1..N, m-1 \in S PROVE m \in S
  <2>1. PICK h : IsWalk(h, m-1)
    BY <1>2
  <2> DEFINE g == [n \in 0..m |-> IF n = m THEN Stepped(h[m-1], class) ELSE h[n]]
  <2>2. \A n \in 0..m-1 : h[n] = IF n = 0 THEN {AtFirst} ELSE Stepped(h[n-1], class)
    BY <2>1
  <2>3. ASSUME NEW n \in 0..m PROVE g[n] = IF n = 0 THEN {AtFirst} ELSE Stepped(g[n-1], class)
    <3>1. CASE n = m
      <4>1. n # 0 /\ n-1 \in 0..m /\ n-1 # m
        BY <3>1
      <4>2. g[n-1] = h[n-1] /\ g[n] = Stepped(h[n-1], class)
        BY <3>1, <4>1
      <4> HIDE DEF g
      <4> QED BY <4>1, <4>2
    <3>2. CASE n # m
      <4>1. n \in 0..m-1 /\ g[n] = h[n]
        BY <3>2
      <4>2. n # 0 => n-1 \in 0..m /\ n-1 # m
        BY <3>2
      <4>3. n # 0 => g[n-1] = h[n-1]
        BY <4>2
      <4> HIDE DEF g
      <4> QED BY <2>2, <4>1, <4>3
    <3> QED BY <3>1, <3>2
  <2>4. g = [n \in 0..m |-> g[n]]
    OBVIOUS
  <2>5. IsWalk(g, m)
    <3> HIDE DEF g
    <3> QED BY <2>3, <2>4
  <2> HIDE DEF IsWalk
  <2> QED BY <2>5
<1>3. N \in S
  <2>1. \A m \in 0..N : m \in S
    <3> HIDE DEF S
    <3> QED BY <1>0, <1>1, <1>2, UpTo
  <2>2. N \in 0..N
    BY <1>0
  <2> HIDE DEF S
  <2> QED BY <2>1, <2>2
<1> DEFINE walks == Walking(class)
<1>4. IsWalk(walks, N)
  <2>1. PICK h : IsWalk(h, N)
    BY <1>3
  <2> QED BY <2>1 DEF Walking, N
<1> HIDE DEF walks
<1>5. \A n \in 0..N : walks[n] = IF n = 0 THEN {AtFirst} ELSE Stepped(walks[n-1], class)
  BY <1>4
<1>6. walks[0] = {AtFirst} /\ \A n \in 1..N : walks[n] = Stepped(walks[n-1], class)
  <2>1. 0 \in 0..N /\ \A n \in 1..N : n \in 0..N /\ n # 0
    BY <1>0
  <2> QED BY <1>5, <2>1
<1>7. Walks(class) = walks[N]
  BY DEF Walks, walks, Walking, Stepped, AtFirst, N
<1> QED BY <1>6, <1>7 DEF walks, N

(* What LG_RAND writes is what is met in a group of the class, and that is *)
(* something: as long as nothing is written the groups are as they were.   *)
LEMMA WalksFit ==
  ASSUME Careful, BufferInv, policy = "LG_RAND", NEW g \in Groups, NEW w \in Walks(SizeClass(g.count))
  PROVE  /\ CutsFit(w.cuts) /\ cuts \subseteq w.cuts
         /\ {i \in DOMAIN entries : entries[i].key \in w.goes} = OfClass(w.cuts, SizeClass(g.count))
         /\ \E i \in DOMAIN entries : entries[i].key \in w.goes
<1> DEFINE N == Len(entries)
           class == SizeClass(g.count)
           walks == Walking(class)
           Good(t) == \A x \in walks[t] : WalkFits(x, class) /\ (x.at > N \/ x.at > t)
           S == {t \in 0..N : Good(t)}
<1>1. /\ walks[0] = {AtFirst} /\ \A t \in 1..N : walks[t] = Stepped(walks[t-1], class)
      /\ w \in walks[N]
  BY WalksExist
<1>2. N \in Nat /\ DOMAIN entries = 1..N /\ CutsFit(cuts) /\ nLeaves \in Nat
  BY KeysAre DEF BufferInv
<1> HIDE DEF walks, class
<1>3. WalkFits(AtFirst, class) /\ AtFirst.at = 1
  <2>1. /\ AtFirst.at = 1 /\ AtFirst.goes = {} /\ AtFirst.cuts = cuts /\ AtFirst.n = nLeaves
        /\ AtFirst = [at |-> AtFirst.at, goes |-> AtFirst.goes, cuts |-> AtFirst.cuts, n |-> AtFirst.n]
    BY DEF AtFirst
  <2>2. cuts \ cuts = {} /\ Cardinality({}) = 0
    BY FS_EmptySet
  <2>3. \A k : CountBy(cuts, k) = nLeaves
    <3> TAKE k
    <3>1. CutsBelow(cuts, k) = {}
      BY DEF CutsBelow
    <3> QED BY <1>2, <2>2, <3>1 DEF CountBy
  <2>4. \A j \in DOMAIN entries : j >= AtFirst.at => Ahead(AtFirst, j)
    <3> TAKE j \in DOMAIN entries
    <3>1. \A i \in DOMAIN entries : ~(i < 1)
      BY <1>2
    <3> QED BY <2>1, <2>3, <3>1 DEF Ahead
  <2>5. AtFirst.n = nLeaves + Cardinality(AtFirst.cuts \ cuts) /\ AtFirst.at \in 1..N+1
        /\ \A i \in DOMAIN entries : ~(i < AtFirst.at)
    <3>1. Cardinality(AtFirst.cuts \ cuts) = 0
      BY <2>1, <2>2
    <3>2. AtFirst.n = nLeaves + 0
      BY <1>2, <2>1
    <3>3. 1 \in 1..N+1 /\ \A i \in 1..N : ~(i < 1)
      <4> HIDE DEF N
      <4> QED BY <1>2
    <3> HIDE DEF N
    <3> QED BY <1>2, <2>1, <3>1, <3>2, <3>3
  <2>6. CutsFit(AtFirst.cuts) /\ cuts \subseteq AtFirst.cuts
    BY <1>2, <2>1
  <2>7. \A i \in DOMAIN entries : entries[i].key \notin AtFirst.goes
    BY <2>1
  <2> HIDE DEF N
  <2>8. AtFirst.at \in 1..Len(entries)+1
    BY <2>5 DEF N
  <2> QED BY <2>1, <2>4, <2>5, <2>6, <2>7, <2>8 DEF WalkFits
<1>4. Good(0)
  BY <1>1, <1>3
<1>5. ASSUME NEW t \in 1..N, Good(t-1) PROVE Good(t)
  <2> SUFFICES ASSUME NEW x \in walks[t] PROVE WalkFits(x, class) /\ (x.at > N \/ x.at > t)
    OBVIOUS
  <2>1. PICK y \in walks[t-1] : x \in (IF y.at > N THEN {y} ELSE Turn(y, class))
    BY <1>1 DEF Stepped
  <2>2. WalkFits(y, class) /\ (y.at > N \/ y.at > t-1)
    BY <1>5, <2>1
  <2>3. CASE y.at > N
    BY <2>1, <2>2, <2>3
  <2>4. CASE ~(y.at > N)
    <3>1. y.at \in 1..N+1
      BY <2>2 DEF WalkFits
    <3>2. y.at <= Len(entries) /\ x \in Turn(y, class)
      BY <1>2, <2>1, <2>4, <3>1
    <3>3. WalkFits(x, class) /\ x.at > y.at
      BY <2>2, <3>2, TurnFits
    <3>4. x.at \in 1..N+1
      BY <3>3 DEF WalkFits
    <3>5. x.at > t
      BY <1>2, <2>2, <2>4, <3>1, <3>3, <3>4
    <3> QED BY <3>3, <3>5
  <2> QED BY <2>3, <2>4
<1>6. Good(N)
  <2> HIDE DEF Good
  <2>1. 0 \in S /\ 0 \in Int /\ N \in Int
    BY <1>2, <1>4
  <2>2. ASSUME NEW t \in 0+1..N, t-1 \in S PROVE t \in S
    <3>1. t \in 1..N /\ t \in 0..N
      BY <1>2
    <3> QED BY <1>5, <2>2, <3>1
  <2>3. \A t \in 0..N : t \in S
    <3> HIDE DEF S
    <3> QED BY <2>1, <2>2, UpTo
  <2> QED BY <1>2, <2>3
<1>7. WalkFits(w, class) /\ (w.at > N)
  BY <1>1, <1>6
<1>8. \A i \in DOMAIN entries : i < w.at
  <2>1. w.at \in 1..N+1
    BY <1>7 DEF WalkFits
  <2> QED BY <1>2, <1>7, <2>1
<1>9. /\ CutsFit(w.cuts) /\ cuts \subseteq w.cuts
      /\ \A i \in DOMAIN entries : entries[i].key \in w.goes <=> i \in OfClass(w.cuts, class)
      /\ (\A i \in DOMAIN entries : entries[i].key \notin w.goes) => w.cuts = cuts
  BY <1>7, <1>8 DEF WalkFits
<1>10. {i \in DOMAIN entries : entries[i].key \in w.goes} = OfClass(w.cuts, class)
  BY <1>9 DEF OfClass
<1>11. \E i \in DOMAIN entries : entries[i].key \in w.goes
  <2> SUFFICES ASSUME \A i \in DOMAIN entries : entries[i].key \notin w.goes PROVE FALSE
    OBVIOUS
  <2>1. w.cuts = cuts
    BY <1>9
  <2>2. pids = {}
    BY DEF BufferInv
  <2>3. PICK i \in DOMAIN entries : g = PageOf(entries[i].key)
    BY <2>2 DEF Groups
  <2>4. CountBy(cuts, entries[i].key) = nLeaves
    <3>1. CutsBelow(cuts, entries[i].key) = {}
      BY DEF CutsBelow
    <3> QED BY <1>2, <3>1, FS_EmptySet DEF CountBy
  <2>5. g.count = Cardinality(MetBy(cuts, i))
    BY <2>3, <2>4 DEF PageOf, MetBy
  <2>6. i \in OfClass(w.cuts, class)
    BY <2>1, <2>5 DEF OfClass, class
  <2> QED BY <1>9, <2>6
<1> QED BY <1>9, <1>10, <1>11 DEF class

-----------------------------------------------------------------------------
(* What leaves the buffer. *)
ChoiceFits(v) ==
  /\ v.keep \subseteq Groups
  /\ \A p \in v.keep : \A k \in v.goes : ~InPage(p, k)
  /\ policy = "LS" => \A x \in Elements(entries) : x.key \notin v.goes => \E p \in v.keep : InPage(p, x.key)
  /\ policy \notin {"LS", "SP", "LRU"} => v.keep = {}
  /\ policy # "LS" /\ size = Capacity => \E x \in Elements(entries) : x.key \in v.goes
  /\ CutsFit(v.cuts) /\ cuts \subseteq v.cuts

(* The entries that leave, by index. *)
GoneBy(v) == {i \in DOMAIN entries : entries[i].key \in v.goes}

(* What the policy names. *)
ChoiceNamed(v) ==
  CASE policy = "FWF" -> v.goes = Key
    [] policy = "LG_RAND" -> \E g \in Groups : GoneBy(v) = OfClass(v.cuts, SizeClass(g.count))
    [] OTHER -> \E p \in Groups :
                  /\ v.goes = KeysIn(p)
                  /\ \A g \in Groups : /\ policy = "LS" => g.count <= p.count
                                       /\ policy \in {"SP", "LRU"} => p.count <= g.count

(* The keys and pages are the choice's, and careful callers' leaves split  *)
(* at multiples.                                                           *)
LEMMA WaysFit ==
  ASSUME Careful, BufferInv, NEW goes, NEW keep, NEW v \in WaysToWrite(goes, keep)
  PROVE  v.goes = goes /\ v.keep = keep /\ CutsFit(v.cuts) /\ cuts \subseteq v.cuts
<1>1. PICK new \in SUBSET NewCuts(PendingKeys(DOMAIN entries) \cap goes, cuts) :
        v = [goes |-> goes, keep |-> keep, cuts |-> cuts \cup new]
  BY DEF WaysToWrite
<1>2. CutsFit(cuts \cup new)
  BY NewCutsFit DEF BufferInv
<1> QED BY <1>1, <1>2

(* One group goes, and the others can stay. *)
LEMMA OneGoes ==
  ASSUME BufferInv, NEW v, NEW p \in Groups, v.goes = KeysIn(p)
  PROVE  /\ \A q \in Groups \ {p} : \A k \in v.goes : ~InPage(q, k)
         /\ \E x \in Elements(entries) : x.key \in v.goes
<1>1. ASSUME NEW q \in Groups \ {p}, NEW k \in v.goes PROVE ~InPage(q, k)
  <2>1. p \in Page /\ q \in Page /\ Apart(p, q)
    BY GroupsFit, GroupsFinite DEF PagesFit
  <2>2. k \in Key /\ InPage(p, k)
    BY DEF KeysIn
  <2>3. k \in Int
    BY <2>2, NumbersAre
  <2> QED BY <2>1, <2>2, <2>3, OnePage
<1>2. PICK x \in Elements(entries) : InPage(p, x.key)
  BY GroupsFit DEF PagesFit, PageFits, Of
<1>3. x.key \in Key
  BY KeysAre DEF BufferInv
<1>4. x.key \in v.goes
  BY <1>2, <1>3 DEF KeysIn
<1> QED BY <1>1, <1>4

LEMMA FullIsNotEmpty ==
  ASSUME BufferInv, size = Capacity
  PROVE  /\ entries # <<>> /\ \E i \in DOMAIN entries : entries[i] \in Elements(entries) /\ entries[i].key \in Key
<1>1. Len(entries) \in Nat /\ Len(entries) > 0 /\ DOMAIN entries = 1..Len(entries) /\ entries \in Seq(Pend)
  BY NumbersAre, KeysAre DEF BufferInv
<1>2. 1 \in DOMAIN entries
  BY <1>1
<1> QED BY <1>1, <1>2, KeysAre DEF Elements

LEMMA EvictionFits ==
  ASSUME Careful, BufferInv, IsFull, NEW v \in Evictions
  PROVE  ChoiceFits(v) /\ ChoiceNamed(v)
<1>0. policy \in {"FWF", "LS", "SP", "LRU", "LS_RAND", "LG_RAND"}
  BY BufferAssumption DEF BufferInv
<1>1. pids \subseteq Groups /\ (policy = "LS" => Groups = pids)
  BY GroupsFit
<1>2. policy # "LS" => size = Capacity
  BY DEF IsFull
<1>3. CASE policy = "FWF"
  <2>1. v \in WaysToWrite(Key, {})
    BY <1>3 DEF Evictions
  <2>2. v.goes = Key /\ v.keep = {} /\ CutsFit(v.cuts) /\ cuts \subseteq v.cuts
    BY <2>1, WaysFit
  <2>3. \E x \in Elements(entries) : x.key \in v.goes
    BY <1>2, <1>3, <2>2, FullIsNotEmpty
  <2> QED BY <1>3, <2>2, <2>3 DEF ChoiceFits, ChoiceNamed
<1>4. CASE policy = "LS"
  <2>0. PICK p \in HeapRoots : v \in WaysToWrite(KeysIn(p), pids \ {p})
    BY <1>4 DEF Evictions
  <2>1. v.goes = KeysIn(p) /\ v.keep = pids \ {p} /\ CutsFit(v.cuts) /\ cuts \subseteq v.cuts
    BY <2>0, WaysFit
  <2>2. p \in pids /\ \A q \in pids : q.count <= p.count
    BY DEF HeapRoots
  <2>3. /\ \A q \in Groups \ {p} : \A k \in v.goes : ~InPage(q, k)
        /\ p \in Groups
    BY <1>1, <2>1, <2>2, OneGoes
  <2>4. ASSUME NEW x \in Elements(entries), x.key \notin v.goes
        PROVE  \E q \in v.keep : InPage(q, x.key)
    <3>1. PICK q \in pids : InPage(q, x.key)
      BY <1>4 DEF BufferInv
    <3>2. x.key \in Key
      BY KeysAre DEF BufferInv
    <3>3. q # p
      BY <2>1, <2>4, <3>1, <3>2 DEF KeysIn
    <3> QED BY <2>1, <3>1, <3>3
  <2>5. ChoiceFits(v)
    BY <1>1, <1>4, <2>1, <2>3, <2>4 DEF ChoiceFits
  <2>6. ChoiceNamed(v)
    BY <1>1, <1>4, <2>1, <2>2 DEF ChoiceNamed
  <2> QED BY <2>5, <2>6
<1>5. CASE policy = "LS_RAND"
  <2>0. PICK p \in Groups : v \in WaysToWrite(KeysIn(p), {})
    BY <1>5 DEF Evictions
  <2>1. v.goes = KeysIn(p) /\ v.keep = {} /\ CutsFit(v.cuts) /\ cuts \subseteq v.cuts
    BY <2>0, WaysFit
  <2>2. \E x \in Elements(entries) : x.key \in v.goes
    BY <2>1, OneGoes
  <2> QED BY <1>5, <2>1, <2>2 DEF ChoiceFits, ChoiceNamed
<1>6. CASE policy = "LG_RAND"
  <2>0. PICK g \in Groups : \E w \in Walks(SizeClass(g.count)) :
          v = [goes |-> w.goes, keep |-> {}, cuts |-> w.cuts]
    BY <1>6 DEF Evictions
  <2>1. PICK w \in Walks(SizeClass(g.count)) : v = [goes |-> w.goes, keep |-> {}, cuts |-> w.cuts]
    BY <2>0
  <2>2. /\ CutsFit(w.cuts) /\ cuts \subseteq w.cuts
        /\ {i \in DOMAIN entries : entries[i].key \in w.goes} = OfClass(w.cuts, SizeClass(g.count))
        /\ \E i \in DOMAIN entries : entries[i].key \in w.goes
    BY <1>2, <1>6, WalksFit
  <2>3. \E x \in Elements(entries) : x.key \in v.goes
    BY <2>1, <2>2 DEF Elements
  <2>4. GoneBy(v) = OfClass(v.cuts, SizeClass(g.count))
    BY <2>1, <2>2 DEF GoneBy
  <2> QED BY <1>6, <2>1, <2>2, <2>3, <2>4 DEF ChoiceFits, ChoiceNamed
<1>7. CASE policy \in {"SP", "LRU"}
  <2>1. v \in WaysToWrite(UNION {KeysIn(p) : p \in Lightest.out}, Lightest.keep)
    BY <1>7 DEF Evictions
  <2>2. PICK p \in Groups : /\ Lightest.out = {p} /\ Lightest.keep \subseteq Groups \ {p}
                            /\ \A g \in Groups : p.count <= g.count
    BY <1>2, <1>7, FullIsNotEmpty, LightestIs
  <2>3. v.goes = KeysIn(p) /\ v.keep \subseteq Groups \ {p} /\ CutsFit(v.cuts) /\ cuts \subseteq v.cuts
    <3>0. UNION {KeysIn(q) : q \in {p}} = KeysIn(p)
      OBVIOUS
    <3>1. UNION {KeysIn(q) : q \in Lightest.out} = KeysIn(p)
      BY <2>2, <3>0
    <3>2. v \in WaysToWrite(KeysIn(p), Lightest.keep)
      BY <2>1, <3>1
    <3>3. v.goes = KeysIn(p) /\ v.keep \subseteq Lightest.keep /\ CutsFit(v.cuts) /\ cuts \subseteq v.cuts
      BY <3>2, WaysFit
    <3> QED BY <2>2, <3>3
  <2>4. /\ \A q \in Groups \ {p} : \A k \in v.goes : ~InPage(q, k)
        /\ \E x \in Elements(entries) : x.key \in v.goes
    BY <2>3, OneGoes
  <2>5. ChoiceFits(v)
    BY <1>7, <2>3, <2>4 DEF ChoiceFits
  <2>6. ChoiceNamed(v)
    BY <1>7, <2>2, <2>3 DEF ChoiceNamed
  <2> QED BY <2>5, <2>6
<1> QED BY <1>0, <1>3, <1>4, <1>5, <1>6, <1>7

(* The choices of put. *)
PutChoices == IF IsFull THEN Evictions ELSE WaysToWrite({}, pids)

LEMMA ChoicesFit ==
  ASSUME Careful, BufferInv, NEW v \in PutChoices
  PROVE  /\ ChoiceFits(v)
         /\ IsFull => ChoiceNamed(v)
         /\ ~IsFull => v.goes = {}
<1>1. CASE IsFull
  BY <1>1, EvictionFits DEF PutChoices
<1>2. CASE ~IsFull
  <2>1. v.goes = {} /\ v.keep = pids /\ CutsFit(v.cuts) /\ cuts \subseteq v.cuts
    <3>1. v \in WaysToWrite({}, pids)
      BY <1>2 DEF PutChoices
    <3> QED BY <3>1, WaysFit
  <2>3. policy = "LS" \/ size # Capacity
    BY <1>2 DEF IsFull
  <2>4. policy = "LS" => \A x \in Elements(entries) : \E p \in pids : InPage(p, x.key)
    BY DEF BufferInv
  <2>5. policy \notin {"LS", "SP", "LRU"} => pids = {}
    BY DEF BufferInv
  <2> QED BY <1>2, <2>1, <2>3, <2>4, <2>5, GroupsFit DEF ChoiceFits
<1> QED BY <1>1, <1>2

(* What stays, and what goes. *)
LEMMA LeftIs ==
  ASSUME BufferInv, NEW v
  PROVE  LET out == Within(entries, v.goes)
             left == Within(entries, Key \ v.goes)
         IN  /\ out \in Seq(Pend) /\ Ascending(out)
             /\ Elements(out) = {x \in Elements(entries) : x.key \in v.goes}
             /\ left \in Seq(Pend) /\ Ascending(left)
             /\ Elements(left) = {x \in Elements(entries) : x.key \notin v.goes}
             /\ Len(out) \in Nat /\ Len(left) \in Nat
             /\ Len(left) + Len(out) = Len(entries)
<1> DEFINE out == Within(entries, v.goes)
           left == Within(entries, Key \ v.goes)
           E == Elements(entries)
<1>1. entries \in Seq(Pend) /\ Ascending(entries)
  BY DEF BufferInv
<1>2. /\ out \in Seq(Pend) /\ Ascending(out)
      /\ Elements(out) = {x \in E : x.key \in v.goes}
  BY <1>1, WithinIs
<1>3. /\ left \in Seq(Pend) /\ Ascending(left)
      /\ Elements(left) = {x \in E : x.key \in Key \ v.goes}
  BY <1>1, WithinIs
<1> HIDE DEF out, left
<1>4. \A x \in E : x.key \in Key
  BY <1>1, KeysAre
<1>5. Elements(left) = {x \in E : x.key \notin v.goes}
  BY <1>3, <1>4
<1> HIDE DEF E
<1>6. /\ IsFiniteSet(E) /\ Len(entries) = Cardinality(E)
      /\ Len(out) = Cardinality(Elements(out)) /\ Len(left) = Cardinality(Elements(left))
      /\ Len(out) \in Nat /\ Len(left) \in Nat
  BY <1>1, <1>2, <1>3, LengthIs DEF E
<1>7. Elements(left) = E \ Elements(out) /\ E \cap Elements(out) = Elements(out)
  BY <1>2, <1>5
<1>8. Cardinality(Elements(left)) = Cardinality(E) - Cardinality(Elements(out))
  <2>1. Cardinality(E \ Elements(out)) = Cardinality(E) - Cardinality(E \cap Elements(out))
    BY <1>6, FS_Difference
  <2> QED BY <1>7, <2>1
<1>9. Len(left) + Len(out) = Len(entries)
  BY <1>6, <1>8
<1> QED BY <1>2, <1>3, <1>5, <1>6, <1>9 DEF out, left, E

-----------------------------------------------------------------------------
(* What the tree has after it takes entries. *)
LEMMA AfterIs ==
  ASSUME NEW m \in [Key -> Value], NEW es \in Seq(Pend), Ascending(es)
  PROVE  /\ After(m, es) \in [Key -> Value]
         /\ \A i \in DOMAIN es : After(m, es)[es[i].key] = es[i].datum
         /\ \A k \in Key : (\A i \in DOMAIN es : es[i].key # k) => After(m, es)[k] = m[k]
<1> DEFINE Own(k) == {i \in DOMAIN es : es[i].key = k}
<1>1. /\ After(m, es) = [k \in Key |-> After(m, es)[k]]
      /\ \A k \in Key : After(m, es)[k] = IF Own(k) = {} THEN m[k] ELSE es[Max(Own(k))].datum
  BY DEF After
<1>2. ASSUME NEW i \in DOMAIN es PROVE Max(Own(es[i].key)) = i
  <2> DEFINE O == Own(es[i].key)
  <2>1. O = {i}
    BY OneEntryPerKey
  <2>2. i \in Int
    BY KeysAre
  <2> HIDE DEF O
  <2>3. O \in SUBSET Int /\ O # {} /\ \A n \in O : n <= i
    BY <2>1, <2>2
  <2>4. Max(O) \in O
    BY <2>2, <2>3, GreatestOf
  <2> QED BY <2>1, <2>4 DEF O
<1>3. ASSUME NEW i \in DOMAIN es PROVE After(m, es)[es[i].key] = es[i].datum
  <2>1. i \in Own(es[i].key) /\ es[i].key \in Key
    BY KeysAre
  <2> QED BY <1>1, <1>2, <2>1
<1>4. ASSUME NEW k \in Key, \A i \in DOMAIN es : es[i].key # k PROVE After(m, es)[k] = m[k]
  BY <1>1, <1>4
<1>5. ASSUME NEW k \in Key PROVE After(m, es)[k] \in Value
  <2>1. CASE \A i \in DOMAIN es : es[i].key # k
    BY <1>4, <2>1
  <2>2. ASSUME NEW i \in DOMAIN es, es[i].key = k PROVE After(m, es)[k] \in Value
    <3>1. es[i].datum \in Value
      BY KeysAre DEF Pend
    <3> QED BY <1>3, <2>2, <3>1
  <2> QED BY <2>1, <2>2
<1>6. After(m, es) \in [Key -> Value]
  BY <1>1, <1>5
<1> QED BY <1>3, <1>4, <1>6

LEMMA AfterOne ==
  ASSUME NEW m, NEW e
  PROVE  After(m, <<e>>) = [k \in Key |-> IF k = e.key THEN e.datum ELSE m[k]]
<1> DEFINE es == <<e>>
           Own(k) == {i \in DOMAIN es : es[i].key = k}
<1>1. After(m, es) = [k \in Key |-> IF Own(k) = {} THEN m[k] ELSE es[Max(Own(k))].datum]
  BY DEF After
<1>2. DOMAIN es = {1} /\ es[1] = e
  OBVIOUS
<1>3. Max({1}) = 1
  <2>1. {1} \in SUBSET Int /\ {1} # {} /\ (\A n \in {1} : n <= 1) /\ 1 \in Int
    OBVIOUS
  <2>2. Max({1}) \in {1}
    BY <2>1, GreatestOf
  <2> QED BY <2>2
<1> HIDE DEF es
<1>4. ASSUME NEW k \in Key
      PROVE  (IF Own(k) = {} THEN m[k] ELSE es[Max(Own(k))].datum) = IF k = e.key THEN e.datum ELSE m[k]
  <2>1. CASE k = e.key
    <3>1. Own(k) = {1}
      BY <1>2, <2>1
    <3> QED BY <1>2, <1>3, <2>1, <3>1
  <2>2. CASE k # e.key
    <3>1. Own(k) = {}
      BY <1>2, <2>2
    <3> QED BY <2>2, <3>1
  <2> QED BY <2>1, <2>2
<1>5. After(m, es) = [k \in Key |-> IF k = e.key THEN e.datum ELSE m[k]]
  <2> HIDE DEF Own
  <2> QED BY <1>1, <1>4
<1> QED BY <1>5 DEF es

(* The count of leaves does not go down. *)
LEMMA CountedFits ==
  ASSUME CutsFit(cuts'), nLeaves \in Nat, Counted
  PROVE  nLeaves' \in Nat /\ nLeaves <= nLeaves'
<1>1. Cardinality(cuts' \ cuts) \in Nat
  BY CutsCount DEF CutsFit
<1> QED BY <1>1 DEF Counted

(* The leaves split at multiples. *)
LEMMA WrittenFits ==
  ASSUME Careful, CutsFit(cuts), nLeaves \in Nat, NEW es, Written(es)
  PROVE  /\ CutsFit(cuts') /\ cuts \subseteq cuts' /\ tree' = After(tree, es)
         /\ Counted => nLeaves' \in Nat /\ nLeaves <= nLeaves'
<1>1. PICK new \in SUBSET NewCuts({es[i].key : i \in DOMAIN es}, cuts) : cuts' = cuts \cup new
  BY DEF Written
<1>2. CutsFit(cuts') /\ cuts \subseteq cuts'
  BY <1>1, NewCutsFit
<1>3. tree' = After(tree, es)
  BY DEF Written
<1> QED BY <1>2, <1>3, CountedFits

(* The pages that stay are right about the entries that stay. *)
LEMMA KeepFits ==
  ASSUME BufferInv, NEW v, ChoiceFits(v), NEW c, NEW n \in Nat, cuts \subseteq c, nLeaves <= n
  PROVE  PagesFit(policy, v.keep, {x \in Elements(entries) : x.key \notin v.goes}, c, n)
<1> DEFINE E == Elements(entries)
           L == {x \in E : x.key \notin v.goes}
<1>1. /\ v.keep \subseteq Groups
      /\ \A p \in v.keep : \A k \in v.goes : ~InPage(p, k)
  BY DEF ChoiceFits
<1>2. ASSUME NEW p \in v.keep PROVE PageFits(policy, p, L, c, n)
  <2>1. PageFits(policy, p, E, cuts, nLeaves)
    BY <1>1, GroupsFit DEF PagesFit
  <2>2. Of(L, p) = Of(E, p)
    BY <1>1 DEF Of
  <2>3. BoundsFit(p.lower, p.upper, c, n)
    <3>1. nLeaves \in Nat
      BY DEF BufferInv
    <3> QED BY <2>1, <3>1, BoundsLast DEF PageFits
  <2> HIDE DEF L, E
  <2> QED BY <2>1, <2>2, <2>3 DEF PageFits, CountFits, TimesOf
<1>3. \A p, q \in v.keep : p = q \/ Apart(p, q)
  BY <1>1, GroupsFit DEF PagesFit
<1> HIDE DEF L
<1>4. PagesFit(policy, v.keep, L, c, n)
  BY <1>2, <1>3 DEF PagesFit
<1> QED BY <1>4 DEF L

(* The pages that are remembered cover the entries of LS, and the other    *)
(* policies have theirs.                                                   *)
Covered(ps, E) ==
  /\ policy = "LS" => \A x \in E : \E p \in ps : InPage(p, x.key)
  /\ policy \notin {"LS", "SP", "LRU"} => ps = {}

LEMMA PendIs ==
  ASSUME NEW x \in Pend
  PROVE  x.key \in Key /\ x.key \in Int /\ x.datum \in Value /\ x.time \in Nat /\ x.time \in Int
<1>1. x.key \in Key /\ x.datum \in Value /\ x.time \in 0..MaxTime
  BY DEF Pend
<1>2. \A k \in Key : k \in Int
  BY NumbersAre
<1> QED BY <1>1, <1>2

(* One entry more in a page. *)
LEMMA OneMore ==
  ASSUME NEW E \in SUBSET Pend, IsFiniteSet(E), NEW x \in Pend, \A y \in E : y.key # x.key,
         NEW c, NEW n, NEW p, PageFits(policy, p, E, c, n), InPage(p, x.key),
         policy = "LRU" => ts' = x.time + 1 /\ \A y \in E : y.time < x.time,
         NEW q, q = [p EXCEPT !.count = IF policy = "LRU" THEN ts' ELSE @ + 1]
  PROVE  PageFits(policy, q, E \cup {x}, c, n) /\ q.lower = p.lower /\ q.upper = p.upper
<1> DEFINE F == E \cup {x}
           own == Of(E, p)
<1>1. p \in Page /\ BoundsFit(p.lower, p.upper, c, n) /\ CountFits(policy, p, E)
  BY DEF PageFits
<1>2. x.time \in Nat /\ x.time \in Int
  BY PendIs
<1>3. /\ p.lower \in Key /\ p.upper \in 1..EndsBy+Boundary /\ p.count \in Nat
      /\ p = [lower |-> p.lower, upper |-> p.upper, count |-> p.count]
  BY <1>1 DEF Page
<1> DEFINE d == IF policy = "LRU" THEN ts' ELSE p.count + 1
<1>4. q = [lower |-> p.lower, upper |-> p.upper, count |-> d]
  BY <1>3
<1>5. d \in Nat
  BY <1>2, <1>3
<1>6. q.lower = p.lower /\ q.upper = p.upper /\ q.count = d /\ q \in Page
  BY <1>3, <1>4, <1>5 DEF Page
<1> HIDE DEF d
<1>7. Of(F, q) = own \cup {x}
  BY <1>6 DEF Of, InPage
<1>8. CountFits(policy, q, F)
  <2>1. CASE policy = "LRU"
    <3>1. F \in SUBSET Pend /\ Of(F, q) # {}
      BY <1>7
    <3>2. /\ Max(TimesOf(F, q)) \in TimesOf(F, q)
          /\ \A t \in TimesOf(F, q) : t \in Int /\ t <= Max(TimesOf(F, q))
      BY <3>1, LastTime
    <3>3. x.time \in TimesOf(F, q)
      BY <1>7 DEF TimesOf
    <3>4. \A t \in TimesOf(F, q) : t <= x.time
      <4>1. \A y \in F : y.time <= x.time
        <5>1. \A y \in Pend : y.time \in Int
          BY PendIs
        <5> QED BY <1>2, <2>1, <5>1
      <4> QED BY <4>1 DEF TimesOf, Of
    <3>5. Max(TimesOf(F, q)) = x.time
      BY <1>2, <3>2, <3>3, <3>4
    <3>6. q.count = x.time + 1
      BY <1>6, <2>1 DEF d
    <3> QED BY <1>2, <2>1, <3>5, <3>6 DEF CountFits
  <2>2. CASE policy # "LRU"
    <3>1. own \in SUBSET E
      BY DEF Of
    <3>2. IsFiniteSet(own) /\ x \notin own
      BY <3>1, FS_Subset
    <3>3. Cardinality(own \cup {x}) = Cardinality(own) + 1
      BY <3>2, FS_AddElement
    <3>4. p.count = Cardinality(own)
      BY <1>1, <2>2 DEF CountFits
    <3> QED BY <1>6, <1>7, <2>2, <3>3, <3>4 DEF CountFits, d
  <2> QED BY <2>1, <2>2
<1>9. Of(F, q) # {}
  BY <1>7
<1> HIDE DEF F
<1>10. PageFits(policy, q, F, c, n)
  BY <1>1, <1>6, <1>8, <1>9 DEF PageFits
<1> QED BY <1>6, <1>10 DEF F

(* Entries elsewhere do not matter to a page. *)
LEMMA NoMore ==
  ASSUME NEW E, NEW x, NEW c, NEW n, NEW p, PageFits(policy, p, E, c, n), ~InPage(p, x.key)
  PROVE  PageFits(policy, p, E \cup {x}, c, n)
<1>1. Of(E \cup {x}, p) = Of(E, p)
  BY DEF Of
<1> QED BY <1>1 DEF PageFits, CountFits, TimesOf

(* The page that LS makes has the new entry alone. *)
FreshPage(key) == [lower |-> Located(cuts', nLeaves', key)[1],
                   upper |-> Located(cuts', nLeaves', key)[2], count |-> 1]

LEMMA NewPage ==
  ASSUME policy = "LS", NEW E \in SUBSET Pend, NEW x \in Pend, NEW keep,
         CutsFit(cuts'), nLeaves' \in Nat, PagesFit(policy, keep, E, cuts', nLeaves'),
         \A y \in E : \E p \in keep : InPage(p, y.key),
         \A p \in keep : ~InPage(p, x.key)
  PROVE  /\ PageFits(policy, FreshPage(x.key), E \cup {x}, cuts', nLeaves') /\ InPage(FreshPage(x.key), x.key)
         /\ \A p \in keep : Apart(p, FreshPage(x.key)) /\ Apart(FreshPage(x.key), p)
<1> DEFINE F == E \cup {x}
           q == FreshPage(x.key)
           b == Located(cuts', nLeaves', x.key)
<1>1. x.key \in Key /\ x.key \in Int /\ \A y \in E : y.key \in Int
  BY PendIs
<1>2. b[1] <= x.key /\ x.key < b[2] /\ BoundsFit(b[1], b[2], cuts', nLeaves')
  BY <1>1, LocatedIs
<1>3. q = [lower |-> b[1], upper |-> b[2], count |-> 1] /\ q.lower = b[1] /\ q.upper = b[2] /\ q.count = 1
  BY DEF FreshPage
<1> HIDE DEF b, q
<1>4. q \in Page /\ InPage(q, x.key)
  BY <1>2, <1>3 DEF Page, InPage, BoundsFit
<1>5. ASSUME NEW p \in keep PROVE p \in Page /\ Apart(p, q) /\ Apart(q, p)
  <2>1. p \in Page /\ BoundsFit(p.lower, p.upper, cuts', nLeaves')
    BY DEF PagesFit, PageFits
  <2>2. ~(p.lower <= x.key /\ x.key < p.upper)
    BY DEF InPage
  <2>3. b[2] <= p.lower \/ p.upper <= b[1]
    BY <1>1, <2>1, <2>2, LocatedApart DEF b
  <2> QED BY <1>3, <2>1, <2>3 DEF Apart
<1>6. ASSUME NEW y \in E PROVE ~InPage(q, y.key)
  <2>1. PICK p \in keep : InPage(p, y.key)
    OBVIOUS
  <2> QED BY <1>1, <1>4, <1>5, <2>1, OnePage
<1>7. Of(F, q) = {x}
  BY <1>4, <1>6 DEF Of
<1>8. Cardinality({x}) = 1
  BY FS_Singleton
<1>9. PageFits(policy, q, F, cuts', nLeaves')
  <2>1. CountFits(policy, q, F)
    BY <1>3, <1>7, <1>8 DEF CountFits
  <2> HIDE DEF F
  <2> QED BY <1>2, <1>3, <1>4, <1>7, <2>1 DEF PageFits
<1> QED BY <1>4, <1>5, <1>9 DEF q

LEMMA RememberedFits ==
  ASSUME NEW E \in SUBSET Pend, IsFiniteSet(E), NEW x \in Pend, \A y \in E : y.key # x.key,
         NEW keep, CutsFit(cuts'), nLeaves' \in Nat,
         PagesFit(policy, keep, E, cuts', nLeaves'), Covered(keep, E),
         policy = "LRU" => ts' = x.time + 1 /\ \A y \in E : y.time < x.time
  PROVE  /\ PagesFit(policy, Remembered(keep, x.key), E \cup {x}, cuts', nLeaves')
         /\ Covered(Remembered(keep, x.key), E \cup {x})
<1> DEFINE F == E \cup {x}
           known == {p \in keep : InPage(p, x.key)}
           More(p) == [p EXCEPT !.count = IF policy = "LRU" THEN ts' ELSE @ + 1]
           q == FreshPage(x.key)
           R == Remembered(keep, x.key)
<1>1. x.key \in Int /\ \A p \in keep : PageFits(policy, p, E, cuts', nLeaves') /\ p \in Page
  BY PendIs DEF PagesFit, PageFits
<1>2. \A p, r \in keep : p = r \/ Apart(p, r)
  BY DEF PagesFit
<1>3. ASSUME NEW p \in known
      PROVE  PageFits(policy, More(p), F, cuts', nLeaves') /\ More(p).lower = p.lower /\ More(p).upper = p.upper
  BY <1>1, OneMore
<1>4. ASSUME NEW p \in keep \ known PROVE PageFits(policy, p, F, cuts', nLeaves')
  BY <1>1, NoMore
<1>5. CASE known # {}
  <2>1. R = (keep \ known) \cup {More(p) : p \in known}
    BY <1>5 DEF Remembered
  <2>2. \A p, r \in known : p = r
    BY <1>1, <1>2, OnePage
  <2> HIDE DEF More, F, q
  <2>3. \A r \in R : PageFits(policy, r, F, cuts', nLeaves')
    BY <1>3, <1>4, <2>1
  <2>4. ASSUME NEW r \in R, NEW s \in R PROVE r = s \/ Apart(r, s)
    <3>1. ASSUME NEW p \in keep \ known, NEW t \in known
          PROVE  Apart(p, More(t)) /\ Apart(More(t), p)
      <4>1. p # t /\ p \in keep /\ t \in keep
        OBVIOUS
      <4>2. Apart(p, t) /\ Apart(t, p)
        BY <1>2, <4>1
      <4> QED BY <1>3, <4>2 DEF Apart
    <3> QED BY <1>2, <2>1, <2>2, <3>1
  <2>5. Covered(R, F)
    <3>1. ASSUME policy = "LS", NEW y \in F PROVE \E r \in R : InPage(r, y.key)
      <4>1. CASE y = x
        <5>1. PICK p \in known : InPage(p, x.key)
          BY <1>5
        <5>2. InPage(More(p), x.key) /\ More(p) \in R
          BY <1>3, <2>1, <5>1 DEF InPage
        <5> QED BY <4>1, <5>2
      <4>2. CASE y # x
        <5>1. PICK p \in keep : InPage(p, y.key)
          BY <3>1, <4>2 DEF Covered, F
        <5>2. CASE p \in known
          <6>1. InPage(More(p), y.key) /\ More(p) \in R
            BY <1>3, <2>1, <5>1, <5>2 DEF InPage
          <6> QED BY <6>1
        <5>3. CASE p \notin known
          BY <2>1, <5>1, <5>3
        <5> QED BY <5>2, <5>3
      <4> QED BY <4>1, <4>2
    <3>2. policy \in {"LS", "SP", "LRU"}
      BY <1>5 DEF Covered
    <3> QED BY <3>1, <3>2 DEF Covered
  <2>6. PagesFit(policy, R, F, cuts', nLeaves')
    <3> HIDE DEF R
    <3> QED BY <2>3, <2>4 DEF PagesFit
  <2> QED BY <2>5, <2>6 DEF F
<1>6. CASE known = {} /\ policy = "LS"
  <2>1. R = keep \cup {q}
    BY <1>6 DEF Remembered, FreshPage
  <2>2. \A y \in E : \E p \in keep : InPage(p, y.key)
    BY <1>6 DEF Covered
  <2>3. \A p \in keep : ~InPage(p, x.key)
    BY <1>6
  <2>4. /\ PageFits(policy, q, F, cuts', nLeaves') /\ InPage(q, x.key)
        /\ \A p \in keep : Apart(p, q) /\ Apart(q, p)
    BY <1>6, <2>2, <2>3, NewPage
  <2> HIDE DEF q, F
  <2>5. \A r \in R : PageFits(policy, r, F, cuts', nLeaves')
    BY <1>4, <1>6, <2>1, <2>4
  <2>6. \A r, s \in R : r = s \/ Apart(r, s)
    BY <1>2, <2>1, <2>4
  <2>7. Covered(R, F)
    BY <1>6, <2>1, <2>2, <2>4 DEF Covered, F
  <2>8. PagesFit(policy, R, F, cuts', nLeaves')
    <3> HIDE DEF R
    <3> QED BY <2>5, <2>6 DEF PagesFit
  <2> QED BY <2>7, <2>8 DEF F
<1>7. CASE known = {} /\ policy # "LS"
  <2>1. R = keep
    BY <1>7 DEF Remembered
  <2> HIDE DEF F
  <2>2. \A p \in keep : PageFits(policy, p, F, cuts', nLeaves')
    BY <1>4, <1>7
  <2>3. PagesFit(policy, keep, F, cuts', nLeaves')
    BY <1>2, <2>2 DEF PagesFit
  <2>4. Covered(keep, F)
    BY <1>7 DEF Covered
  <2> QED BY <2>1, <2>3, <2>4 DEF F
<1> QED BY <1>5, <1>6, <1>7

-----------------------------------------------------------------------------
(* A put that writes the pages of v. *)
New(e) == [key |-> e.key, datum |-> e.datum, time |-> ts]
Out(v) == Within(entries, v.goes)
Left(v) == Within(entries, Key \ v.goes)

PutBy(e, v) ==
  /\ e.key \in Key /\ (policy = "LRU" => ts < MaxTime) /\ (Careful => ~Pending(e.key))
  /\ ts' = IF policy = "LRU" THEN ts + 1 ELSE ts
  /\ tree' = After(tree, Out(v)) /\ cuts' = v.cuts /\ Counted
  /\ entries' = IF policy # "LS" /\ \E j \in DOMAIN Left(v) : Left(v)[j].key = e.key
                THEN Left(v) ELSE InsertAt(Left(v), Cardinality(Below(Left(v), e.key)) + 1, New(e))
  /\ size' = 1 + IF policy = "FWF" /\ IsFull THEN 0 ELSE size - Len(Out(v))
  /\ free' = IF Slotted THEN free + Len(Out(v)) - 1 ELSE free
  /\ pids' = Remembered(v.keep, e.key)
  /\ call' = Called("put", e, "kOK")
  /\ policy' = policy

LEMMA PutIs ==
  ASSUME NEW e, Put(e)
  PROVE  \E v \in PutChoices : PutBy(e, v)
BY DEF Put, PutBy, PutChoices, Out, Left, Below, New

(* The entries after it. *)
LEMMA PutEntries ==
  ASSUME Careful, BufferInv, NEW e \in Entry, NEW v, PutBy(e, v)
  PROVE  /\ New(e) \in Pend /\ \A y \in Elements(entries) : y.key # e.key
         /\ entries' \in Seq(Pend) /\ Ascending(entries')
         /\ Elements(entries') = {x \in Elements(entries) : x.key \notin v.goes} \cup {New(e)}
<1> DEFINE left == Left(v)
<1>1. New(e) \in Pend /\ New(e).key = e.key
  BY DEF New, Pend, Entry, PutBy, BufferInv
<1>2. \A y \in Elements(entries) : y.key # e.key
  BY DEF PutBy, Pending, Elements
<1>3. /\ left \in Seq(Pend) /\ Ascending(left)
      /\ Elements(left) = {x \in Elements(entries) : x.key \notin v.goes}
  BY LeftIs DEF Left
<1> HIDE DEF left
<1>4. \A j \in DOMAIN left : left[j].key # e.key
  BY <1>2, <1>3 DEF Elements
<1> DEFINE z == InsertAt(left, Cardinality(Below(left, e.key)) + 1, New(e))
<1>5. entries' = z
  BY <1>4 DEF PutBy, left
<1>6. z \in Seq(Pend) /\ Ascending(z) /\ Elements(z) = Elements(left) \cup {New(e)}
  BY <1>1, <1>3, <1>4, InsertedIs
<1> HIDE DEF z
<1> QED BY <1>1, <1>2, <1>3, <1>5, <1>6

LEMMA PutKeeps ==
  ASSUME Careful, BufferInv, NEW e \in Entry, NEW v \in PutChoices, PutBy(e, v)
  PROVE  BufferInv'
<1> DEFINE E == Elements(entries)
           L == {x \in E : x.key \notin v.goes}
           n == Len(Out(v))
<1>1. ChoiceFits(v)
  BY ChoicesFit
<1>2. /\ New(e) \in Pend /\ \A y \in E : y.key # e.key
      /\ entries' \in Seq(Pend) /\ Ascending(entries')
      /\ Elements(entries') = L \cup {New(e)}
  BY PutEntries
<1>3. /\ CutsFit(cuts') /\ cuts \subseteq cuts' /\ tree' = After(tree, Out(v))
      /\ nLeaves' \in Nat /\ nLeaves <= nLeaves'
  BY <1>1, CountedFits DEF BufferInv, PutBy, ChoiceFits
<1>4. tree' \in [Key -> Value]
  BY <1>3, LeftIs, AfterIs DEF BufferInv, Out
<1>5. /\ policy' = policy /\ ts \in 0..MaxTime /\ New(e).time = ts /\ New(e).key = e.key
      /\ policy = "LRU" => ts < MaxTime /\ ts' = ts + 1 /\ \A y \in E : y.time < ts
      /\ policy # "LRU" => ts' = ts
  BY DEF BufferInv, PutBy, New
<1>6. ts' \in 0..MaxTime
  BY <1>5, NumbersAre
<1>7. E \in SUBSET Pend /\ IsFiniteSet(E)
  BY KeysAre, LengthIs DEF BufferInv
<1>8. L \in SUBSET Pend /\ IsFiniteSet(L) /\ \A y \in L : y.key # New(e).key
  <2>1. L \in SUBSET E
    OBVIOUS
  <2> HIDE DEF L, E
  <2>2. IsFiniteSet(L)
    BY <1>7, <2>1, FS_Subset
  <2> QED BY <1>2, <1>5, <1>7, <2>1, <2>2
<1>9. PagesFit(policy, v.keep, L, cuts', nLeaves')
  BY <1>1, <1>3, KeepFits
<1>10. Covered(v.keep, L)
  BY <1>1 DEF ChoiceFits, Covered
<1>11. policy = "LRU" => ts' = New(e).time + 1 /\ \A y \in L : y.time < New(e).time
  BY <1>5
<1> HIDE DEF L
<1>12. /\ PagesFit(policy, Remembered(v.keep, New(e).key), L \cup {New(e)}, cuts', nLeaves')
       /\ Covered(Remembered(v.keep, New(e).key), L \cup {New(e)})
  BY <1>2, <1>3, <1>8, <1>9, <1>10, <1>11, RememberedFits
<1>13. /\ PagesFit(policy', pids', Elements(entries'), cuts', nLeaves')
       /\ Covered(pids', Elements(entries'))
  <2>1. pids' = Remembered(v.keep, New(e).key)
    BY <1>5 DEF PutBy
  <2> QED BY <1>2, <1>5, <1>12, <2>1
<1>14. n \in Nat /\ Len(Left(v)) \in Nat /\ Len(Left(v)) + n = Len(entries)
  BY LeftIs DEF Out, Left
<1>15. Len(entries') = Len(entries) - n + 1
  <2>1. Len(Left(v)) = Cardinality(L)
    BY LeftIs, LengthIs DEF L, Left
  <2>2. New(e) \notin L
    BY <1>8
  <2>3. Cardinality(L \cup {New(e)}) = Cardinality(L) + 1
    BY <1>8, <2>2, FS_AddElement
  <2>4. Len(entries') = Cardinality(L \cup {New(e)})
    BY <1>2, LengthIs
  <2> QED BY <1>14, <2>1, <2>3, <2>4
<1>16. size' = size - n + 1 /\ size' = Len(entries') /\ size' \in Nat
  <2>1. policy = "FWF" /\ IsFull => n = Len(entries)
    <3> SUFFICES ASSUME policy = "FWF", IsFull PROVE n = Len(entries)
      OBVIOUS
    <3>1. v.goes = Key
      BY ChoicesFit DEF ChoiceNamed
    <3>2. Elements(Left(v)) = {} /\ Len(Left(v)) = Cardinality(Elements(Left(v)))
      <4>1. \A x \in E : x.key \in Key
        BY <1>7, PendIs
      <4> QED BY <3>1, <4>1, LeftIs, LengthIs DEF Left
    <3>3. Len(Left(v)) = 0
      BY <3>2, FS_EmptySet
    <3> QED BY <1>14, <3>3
  <2>2. size = Len(entries) /\ size' = 1 + IF policy = "FWF" /\ IsFull THEN 0 ELSE size - n
    BY DEF PutBy, BufferInv
  <2> QED BY <1>14, <1>15, <2>1, <2>2
<1>17. policy # "LS" /\ size = Capacity => n >= 1
  <2> SUFFICES ASSUME policy # "LS", size = Capacity PROVE n >= 1
    OBVIOUS
  <2>1. PICK x \in E : x.key \in v.goes
    BY <1>1 DEF ChoiceFits
  <2>2. x \in Elements(Out(v))
    BY <2>1, LeftIs DEF Out
  <2>3. PICK i \in DOMAIN Out(v) : x = Out(v)[i]
    BY <2>2 DEF Elements
  <2>4. DOMAIN Out(v) = 1..n
    BY LeftIs, KeysAre DEF Out
  <2> QED BY <1>14, <2>3, <2>4
<1> HIDE DEF n
<1>18. policy # "LS" => size' <= Capacity
  <2>1. size \in Nat /\ (policy # "LS" => size <= Capacity) /\ size' = size - n + 1
    BY <1>14, <1>16 DEF BufferInv
  <2> QED BY <1>14, <1>17, <2>1, NumbersAre
<1>19. free' \in 0..Capacity /\ (Slotted => free' = Capacity - size')
  <2>1. CASE Slotted
    <3>1. free = Capacity - size /\ free' = free + n - 1 /\ size' = size - n + 1 /\ policy # "LS"
      BY <1>16, <2>1 DEF BufferInv, PutBy, Slotted, n
    <3>2. size \in Nat
      BY <1>14 DEF BufferInv
    <3>3. free' = Capacity - size' /\ size' <= Capacity
      BY <1>14, <1>18, <3>1, <3>2, NumbersAre
    <3> QED BY <1>16, <3>3, NumbersAre
  <2>2. CASE ~Slotted
    BY <2>2 DEF BufferInv, PutBy
  <2> QED BY <2>1, <2>2
<1>20. policy' = "LRU" => \A x \in Elements(entries') : x.time < ts'
  <2> SUFFICES ASSUME policy = "LRU", NEW x \in L \cup {New(e)} PROVE x.time < ts'
    BY <1>2, <1>5
  <2>1. x.time \in Int /\ ts' = ts + 1 /\ ts \in Int
    BY <1>2, <1>5, <1>8, PendIs
  <2>2. x.time < ts \/ x.time = ts
    BY <1>5 DEF L
  <2> QED BY <2>1, <2>2
<1>21. /\ policy' \in Policy
       /\ policy' = "LS" => \A x \in Elements(entries') : \E p \in pids' : InPage(p, x.key)
       /\ policy' \notin {"LS", "SP", "LRU"} => pids' = {}
  BY <1>5, <1>13 DEF Covered, BufferInv
<1>22. Slotted' = Slotted
  BY <1>5 DEF Slotted
<1> QED BY <1>2, <1>3, <1>4, <1>5, <1>6, <1>13, <1>16, <1>18, <1>19, <1>20, <1>21, <1>22 DEF BufferInv

-----------------------------------------------------------------------------
LEMMA BufferInvInit == Init => BufferInv
<1> SUFFICES ASSUME Init PROVE BufferInv
  OBVIOUS
<1>1. policy \in Policy /\ cuts = {0} /\ nLeaves = 2 /\ entries = <<>> /\ size = 0 /\ pids = {} /\ ts = 0
  BY DEF Init
<1>2. tree \in [Key -> Value]
  BY BufferAssumption DEF Init
<1>3. CutsFit(cuts)
  <2>1. 0 = 0 * Boundary
    BY NumbersAre
  <2> QED BY <1>1, <2>1, NumbersAre DEF CutsFit, Multiple
<1>4. entries \in Seq(Pend) /\ Ascending(entries) /\ Elements(entries) = {} /\ Len(entries) = 0
  BY <1>1 DEF Ascending, Elements
<1>5. PagesFit(policy, pids, Elements(entries), cuts, nLeaves)
  BY <1>1 DEF PagesFit
<1>6. free \in 0..Capacity /\ (Slotted => free = Capacity - size)
  <2>1. free = IF Slotted THEN Capacity ELSE 0
    BY DEF Init, Slotted
  <2> QED BY <1>1, <2>1, NumbersAre
<1>7. 0 <= Capacity /\ 0 \in 0..MaxTime
  BY NumbersAre
<1> QED BY <1>1, <1>2, <1>3, <1>4, <1>5, <1>6, <1>7 DEF BufferInv

(* flushAll leaves nothing. *)
LEMMA EmptiedKeeps ==
  ASSUME Careful, BufferInv, Emptied, nLeaves' \in Nat, ts' \in 0..MaxTime
  PROVE  BufferInv'
<1>1. CutsFit(cuts') /\ tree' = After(tree, entries)
  BY WrittenFits DEF Emptied, BufferInv
<1>2. tree' \in [Key -> Value]
  BY <1>1, AfterIs DEF BufferInv
<1>3. /\ policy' = policy /\ policy # "LS" /\ entries' = <<>> /\ size' = 0 /\ pids' = {}
      /\ free' = IF Slotted THEN Capacity ELSE free
  BY DEF Emptied
<1>4. entries' \in Seq(Pend) /\ Ascending(entries') /\ Elements(entries') = {} /\ Len(entries') = 0
  BY <1>3 DEF Ascending, Elements
<1>5. PagesFit(policy', pids', Elements(entries'), cuts', nLeaves')
  BY <1>3 DEF PagesFit
<1>6. free' \in 0..Capacity /\ (Slotted' => free' = Capacity - size')
  <2>1. Slotted' = Slotted /\ free \in 0..Capacity
    BY <1>3 DEF Slotted, BufferInv
  <2> QED BY <1>3, <2>1, NumbersAre
<1>7. policy \in Policy /\ 0 <= Capacity
  BY NumbersAre DEF BufferInv
<1> QED BY <1>1, <1>2, <1>3, <1>4, <1>5, <1>6, <1>7 DEF BufferInv

LEMMA FlushKeeps ==
  ASSUME Careful, BufferInv, Flush
  PROVE  BufferInv'
<1>1. Emptied /\ Counted /\ ts' = ts
  BY DEF Flush
<1>2. nLeaves' \in Nat
  BY <1>1, WrittenFits DEF Emptied, BufferInv
<1>3. ts' \in 0..MaxTime
  BY <1>1 DEF BufferInv
<1> QED BY <1>1, <1>2, <1>3, EmptiedKeeps

LEMMA ReopenKeeps ==
  ASSUME Careful, BufferInv, Reopen
  PROVE  BufferInv'
<1> DEFINE most == nLeaves + Cardinality(cuts' \ cuts)
<1>1. Emptied /\ nLeaves' \in (IF cuts' = {0} THEN {2} ELSE 3..most) /\ ts' = 0
  BY DEF Reopen
<1>2. CutsFit(cuts') /\ nLeaves \in Nat
  BY <1>1, WrittenFits DEF Emptied, BufferInv
<1>3. Cardinality(cuts' \ cuts) \in Nat
  BY <1>2, CutsCount DEF CutsFit
<1>4. most \in Nat
  BY <1>2, <1>3
<1> HIDE DEF most
<1>5. nLeaves' \in Nat /\ ts' \in 0..MaxTime
  BY <1>1, <1>4, NumbersAre
<1> QED BY <1>1, <1>5, EmptiedKeeps

(* A batch put finds nothing pending, and no page. *)
LEMMA BatchPutKeeps ==
  ASSUME Careful, BufferInv, NEW e \in Entry, e.key \in Key, BatchPut(<<e>>)
  PROVE  BufferInv' /\ tree' = [k \in Key |-> IF k = e.key THEN e.datum ELSE tree[k]]
<1>1. /\ entries = <<>> /\ Written(<<e>>) /\ Counted /\ policy' = policy
      /\ entries' = entries /\ size' = size /\ free' = free /\ pids' = pids /\ ts' = ts
  BY DEF BatchPut, buffer
<1>2. /\ CutsFit(cuts') /\ tree' = After(tree, <<e>>) /\ nLeaves' \in Nat
  BY <1>1, WrittenFits DEF BufferInv
<1>3. tree' = [k \in Key |-> IF k = e.key THEN e.datum ELSE tree[k]]
  BY <1>2, AfterOne
<1>4. tree' \in [Key -> Value]
  BY <1>3 DEF BufferInv, Entry
<1>5. pids = {}
  <2>1. Elements(entries) = {}
    BY <1>1 DEF Elements
  <2>2. \A p \in pids : Of(Elements(entries), p) # {}
    BY DEF BufferInv, PagesFit, PageFits
  <2> QED BY <2>1, <2>2 DEF Of
<1>6. PagesFit(policy', pids', Elements(entries'), cuts', nLeaves')
  BY <1>1, <1>5 DEF PagesFit
<1>7. Slotted' = Slotted
  BY <1>1 DEF Slotted
<1>8. policy' = "LS" => \A x \in Elements(entries') : \E p \in pids' : InPage(p, x.key)
  BY <1>1 DEF BufferInv
<1>9. policy' = "LRU" => \A x \in Elements(entries') : x.time < ts'
  BY <1>1 DEF BufferInv
<1>10. BufferInv'
  BY <1>1, <1>2, <1>4, <1>5, <1>6, <1>7, <1>8, <1>9 DEF BufferInv
<1> QED BY <1>3, <1>10

Unchanged == UNCHANGED <<policy, tree, cuts, nLeaves, buffer>>

LEMMA UnchangedKeeps ==
  ASSUME BufferInv, Unchanged
  PROVE  BufferInv'
<1>1. /\ policy' = policy /\ tree' = tree /\ cuts' = cuts /\ nLeaves' = nLeaves
      /\ entries' = entries /\ size' = size /\ free' = free /\ pids' = pids /\ ts' = ts
  BY DEF Unchanged, buffer
<1>2. Slotted' = Slotted
  BY <1>1 DEF Slotted
<1>3. PagesFit(policy', pids', Elements(entries'), cuts', nLeaves')
  BY <1>1 DEF BufferInv
<1>4. policy' = "LS" => \A x \in Elements(entries') : \E p \in pids' : InPage(p, x.key)
  BY <1>1 DEF BufferInv
<1>5. policy' = "LRU" => \A x \in Elements(entries') : x.time < ts'
  BY <1>1 DEF BufferInv
<1> QED BY <1>1, <1>2, <1>3, <1>4, <1>5 DEF BufferInv

LEMMA BufferInvNext ==
  ASSUME Careful, BufferInv, [Next]_vars
  PROVE  BufferInv'
<1>1. ASSUME NEW e \in Entry, Put(e) PROVE BufferInv'
  <2>1. PICK v \in PutChoices : PutBy(e, v)
    BY <1>1, PutIs
  <2> QED BY <2>1, PutKeeps
<1>2. ASSUME NEW e \in Entry, PutOutOfBound(e) PROVE BufferInv'
  <2>1. Unchanged
    BY <1>2 DEF PutOutOfBound, Unchanged
  <2> QED BY <2>1, UnchangedKeeps
<1>3. ASSUME NEW k \in Used, Get(k) PROVE BufferInv'
  <2>1. Unchanged
    BY <1>3 DEF Get, Unchanged
  <2> QED BY <2>1, UnchangedKeeps
<1>4. ASSUME NEW k \in Used, BatchGet(<<k>>) PROVE BufferInv'
  <2>1. Unchanged
    BY <1>4 DEF BatchGet, Unchanged
  <2> QED BY <2>1, UnchangedKeeps
<1>5. ASSUME NEW e \in Entry, e.key \in Key, BatchPut(<<e>>) PROVE BufferInv'
  BY <1>5, BatchPutKeeps
<1>6. CASE UNCHANGED vars
  <2>1. Unchanged
    BY <1>6 DEF vars, Unchanged
  <2> QED BY <2>1, UnchangedKeeps
<1> QED BY <1>1, <1>2, <1>3, <1>4, <1>5, <1>6, FlushKeeps, ReopenKeeps DEF Next

LEMMA AlwaysBufferInv ==
  ASSUME Careful
  PROVE  Spec => []BufferInv
<1>1. BufferInv /\ [Next]_vars => BufferInv'
  BY BufferInvNext
<1> QED BY <1>1, BufferInvInit, PTL DEF Spec

(* The variables keep their types, for careful callers. *)
THEOREM TypeCorrect ==
  ASSUME Careful
  PROVE  Spec => []TypeOK
<1>1. BufferInv => TypeOK
  <2> SUFFICES ASSUME BufferInv PROVE TypeOK
    OBVIOUS
  <2>1. cuts \subseteq Key /\ 0 \in cuts
    BY DEF BufferInv, CutsFit
  <2>2. entries \in Seq([key : Key, datum : Value, time : 0..MaxTime])
    BY DEF BufferInv, Pend
  <2>3. \A i \in 1..Len(entries)-1 : entries[i].key < entries[i + 1].key
    <3> TAKE i \in 1..Len(entries)-1
    <3>1. DOMAIN entries = 1..Len(entries) /\ Len(entries) \in Nat
      BY KeysAre DEF BufferInv
    <3>2. i \in DOMAIN entries /\ i+1 \in DOMAIN entries /\ i < i+1
      BY <3>1
    <3> QED BY <3>2 DEF BufferInv, Ascending
  <2>4. pids \subseteq [lower : Key, upper : 1..EndsBy+Boundary, count : Nat]
    BY DEF BufferInv, PagesFit, PageFits, Page
  <2> QED BY <2>1, <2>2, <2>3, <2>4 DEF BufferInv, TypeOK
<1> QED BY <1>1, AlwaysBufferInv, PTL

(* size, the free slots and the pages' counts and times are what the       *)
(* pending entries make them, for careful callers.                         *)
THEOREM CountsAlwaysMatch ==
  ASSUME Careful
  PROVE  Spec => []CountsMatch
<1>1. BufferInv => CountsMatch
  <2> SUFFICES ASSUME BufferInv PROVE CountsMatch
    OBVIOUS
  <2>1. ASSUME NEW p \in pids
        PROVE  /\ Members(p) # {}
               /\ IF policy = "LRU" THEN p.count - Max(Times(Members(p))) \in {0, 1}
                  ELSE p.count = Cardinality(Members(p))
               /\ \A q \in pids \ {p} : p.upper <= q.lower \/ q.upper <= p.lower
    <3>1. PageFits(policy, p, Elements(entries), cuts, nLeaves)
      BY DEF BufferInv, PagesFit
    <3>2. /\ Cardinality(Members(p)) = Cardinality(Of(Elements(entries), p))
          /\ Times(Members(p)) = TimesOf(Elements(entries), p)
          /\ Of(Elements(entries), p) = {entries[i] : i \in Members(p)}
      BY MembersAre DEF BufferInv
    <3>3. \A q \in pids \ {p} : Apart(p, q)
      BY DEF BufferInv, PagesFit
    <3>4. Members(p) # {}
      BY <3>1, <3>2 DEF PageFits
    <3>5. IF policy = "LRU" THEN p.count - Max(Times(Members(p))) \in {0, 1}
          ELSE p.count = Cardinality(Members(p))
      BY <3>1, <3>2 DEF PageFits, CountFits
    <3> QED BY <3>3, <3>4, <3>5 DEF Apart
  <2> QED BY <2>1 DEF BufferInv, CountsMatch
<1> QED BY <1>1, AlwaysBufferInv, PTL

-----------------------------------------------------------------------------
LEMMA GoneIs ==
  ASSUME Careful, BufferInv, NEW e \in Entry, NEW v, PutBy(e, v)
  PROVE  {i \in DOMAIN entries : ~\E j \in DOMAIN entries' : entries'[j] = entries[i]} = GoneBy(v)
<1>1. /\ \A y \in Elements(entries) : y.key # e.key
      /\ Elements(entries') = {x \in Elements(entries) : x.key \notin v.goes} \cup {New(e)}
  BY PutEntries
<1>2. ASSUME NEW i \in DOMAIN entries
      PROVE  (\E j \in DOMAIN entries' : entries'[j] = entries[i]) <=> entries[i].key \notin v.goes
  <2>1. (\E j \in DOMAIN entries' : entries'[j] = entries[i]) <=> entries[i] \in Elements(entries')
    BY DEF Elements
  <2>2. entries[i] \in Elements(entries)
    BY DEF Elements
  <2>3. entries[i] # New(e)
    BY <1>1, <2>2 DEF New
  <2> QED BY <1>1, <2>1, <2>2, <2>3
<1> QED BY <1>2 DEF GoneBy

(* The groups by their indices: sizes and times.                           *)
LastUse(m) == Max(Times(m)) + IF Late(m) THEN 1 ELSE 0

LEMMA MembersOfGroup ==
  ASSUME BufferInv, NEW g \in Groups
  PROVE  /\ Members(g) # {}
         /\ policy # "LRU" => g.count = Cardinality(Members(g))
         /\ policy = "LRU" => g.count = LastUse(Members(g))
<1> DEFINE E == Elements(entries)
           t == Max(Times(Members(g)))
<1>1. PageFits(policy, g, E, cuts, nLeaves) /\ g.count \in Nat /\ pids \subseteq Groups
  BY GroupsFit, GroupsFinite DEF PagesFit
<1>2. /\ Cardinality(Members(g)) = Cardinality(Of(E, g))
      /\ t = Max(TimesOf(E, g)) /\ Of(E, g) = {entries[i] : i \in Members(g)}
  BY MembersAre DEF BufferInv
<1>3. Members(g) # {}
  BY <1>1, <1>2 DEF PageFits
<1>4. ASSUME policy # "LRU" PROVE g.count = Cardinality(Members(g))
  BY <1>1, <1>2, <1>4 DEF PageFits, CountFits
<1>5. ASSUME policy = "LRU" PROVE g.count = LastUse(Members(g))
  <2>1. E \in SUBSET Pend
    BY KeysAre DEF BufferInv
  <2>2. t \in 0..MaxTime
    BY <1>1, <1>2, <2>1, LastTime DEF PageFits
  <2>3. g.count - t \in {0, 1}
    BY <1>1, <1>2, <1>5 DEF PageFits, CountFits
  <2>4. ASSUME NEW p \in pids, Members(p) = Members(g) PROVE p = g
    <3>1. PICK i \in DOMAIN entries : InPage(p, entries[i].key) /\ InPage(g, entries[i].key)
      BY <1>3, <2>4 DEF Members
    <3>2. entries[i].key \in Int
      BY KeysAre DEF BufferInv
    <3>3. p \in Groups /\ p \in Page /\ g \in Page
      BY <1>1, GroupsFinite
    <3>4. p = g \/ Apart(p, g)
      BY <3>3, GroupsFit DEF PagesFit
    <3> QED BY <3>1, <3>2, <3>3, <3>4, OnePage
  <2>5. g \notin pids => g.count = t
    <3> SUFFICES ASSUME g \notin pids PROVE g.count = t
      OBVIOUS
    <3>1. PICK i \in DOMAIN entries : g = PageOf(entries[i].key)
      BY DEF Groups
    <3>2. g.lower = Located(cuts, nLeaves, entries[i].key)[1] /\ g.upper = Located(cuts, nLeaves, entries[i].key)[2]
      BY <3>1, PageOfIs
    <3>3. g.count = Max({entries[j].time : j \in Members(g)})
      BY <1>5, <3>1, <3>2 DEF PageOf, Members, InPage
    <3> QED BY <3>3 DEF Times
  <2>6. Late(Members(g)) <=> g.count = t + 1
    <3>1. ASSUME Late(Members(g)) PROVE g.count = t + 1
      BY <2>4, <3>1 DEF Late
    <3>2. ASSUME g.count = t + 1 PROVE Late(Members(g))
      <4>1. t \in Int /\ g.count # t
        BY <2>2, <3>2, NumbersAre
      <4>2. g \in pids
        BY <2>5, <4>1
      <4> QED BY <3>2, <4>2 DEF Late
    <3> QED BY <3>1, <3>2
  <2> HIDE DEF E
  <2>7. t \in Int /\ g.count \in Int /\ (g.count = t \/ g.count = t + 1)
    BY <1>1, <2>2, <2>3, NumbersAre
  <2>8. LastUse(Members(g)) = t + IF Late(Members(g)) THEN 1 ELSE 0
    BY DEF LastUse
  <2> HIDE DEF t
  <2> QED BY <2>6, <2>7, <2>8
<1> QED BY <1>3, <1>4, <1>5

LEMMA PutEvicts ==
  ASSUME Careful, BufferInv, NEW e \in Entry, NEW v \in PutChoices, PutBy(e, v)
  PROVE  Evicts
<1> DEFINE gone == {i \in DOMAIN entries : ~\E j \in DOMAIN entries' : entries'[j] = entries[i]}
           groups == {Members(p) : p \in Groups}
           Class(g) == SizeClass(Cardinality(g))
           Named == CASE policy = "FWF" -> gone = DOMAIN entries
                      [] policy = "LG_RAND" ->
                           \E h \in groups : gone = {i \in DOMAIN entries : Class(MetWith(i)) = Class(h)}
                      [] OTHER ->
                           /\ gone \in groups
                           /\ \A g \in groups :
                                /\ policy = "LS" => Cardinality(g) <= Cardinality(gone)
                                /\ policy = "SP" => Cardinality(gone) <= Cardinality(g)
                                /\ policy = "LRU" => LastUse(gone) <= LastUse(g)
<1>1. gone = GoneBy(v)
  BY GoneIs
<1> HIDE DEF gone
<1>2. entries \in Seq(Pend) /\ \A i \in DOMAIN entries : entries[i].key \in Key
  BY KeysAre DEF BufferInv
<1>3. SUFFICES ASSUME gone # {} PROVE Named
  BY DEF Evicts, gone, LastUse
<1>4. ChoiceNamed(v)
  <2>1. IsFull
    <3> SUFFICES ASSUME ~IsFull PROVE FALSE
      OBVIOUS
    <3>1. v.goes = {}
      BY ChoicesFit
    <3> QED BY <1>1, <1>3, <3>1 DEF GoneBy
  <2> QED BY <2>1, ChoicesFit
<1>6. CASE policy = "FWF"
  <2>1. gone = DOMAIN entries
    BY <1>1, <1>2, <1>4, <1>6 DEF ChoiceNamed, GoneBy
  <2> QED BY <1>6, <2>1
<1>7. CASE policy = "LG_RAND"
  <2>1. PICK g \in Groups : gone = OfClass(v.cuts, SizeClass(g.count))
    BY <1>1, <1>4, <1>7 DEF ChoiceNamed
  <2>2. SizeClass(g.count) = Class(Members(g))
    BY <1>7, MembersOfGroup
  <2>3. cuts' = v.cuts
    BY DEF PutBy
  <2>4. \A i : MetWith(i) = MetBy(v.cuts, i)
    BY <2>3 DEF MetWith, MetBy, CountBy, CutsBelow
  <2>5. gone = {i \in DOMAIN entries : Class(MetWith(i)) = Class(Members(g))}
    BY <2>1, <2>2, <2>4 DEF OfClass
  <2>6. Members(g) \in groups
    OBVIOUS
  <2> HIDE DEF groups, Class
  <2>7. \E h \in groups : gone = {i \in DOMAIN entries : Class(MetWith(i)) = Class(h)}
    BY <2>5, <2>6
  <2> QED BY <1>7, <2>7
<1>8. CASE policy \notin {"FWF", "LG_RAND"}
  <2>1. PICK p \in Groups : /\ v.goes = KeysIn(p)
                            /\ \A g \in Groups : /\ policy = "LS" => g.count <= p.count
                                                 /\ policy \in {"SP", "LRU"} => p.count <= g.count
    BY <1>4, <1>8 DEF ChoiceNamed
  <2>2. gone = Members(p)
    BY <1>1, <1>2, <2>1 DEF GoneBy, Members, KeysIn
  <2>3. gone \in groups
    BY <2>2
  <2>4. ASSUME NEW g \in Groups
        PROVE  /\ policy = "LS" => Cardinality(Members(g)) <= Cardinality(Members(p))
               /\ policy = "SP" => Cardinality(Members(p)) <= Cardinality(Members(g))
               /\ policy = "LRU" => LastUse(Members(p)) <= LastUse(Members(g))
    <3>1. CASE policy # "LRU"
      <4>1. g.count = Cardinality(Members(g)) /\ p.count = Cardinality(Members(p))
        BY <3>1, MembersOfGroup
      <4> QED BY <2>1, <3>1, <4>1
    <3>2. CASE policy = "LRU"
      <4>1. p.count = LastUse(Members(p)) /\ g.count = LastUse(Members(g))
        BY <3>2, MembersOfGroup
      <4> QED BY <2>1, <3>2, <4>1
    <3> QED BY <3>1, <3>2
  <2>5. \A m \in groups : /\ policy = "LS" => Cardinality(m) <= Cardinality(gone)
                          /\ policy = "SP" => Cardinality(gone) <= Cardinality(m)
                          /\ policy = "LRU" => LastUse(gone) <= LastUse(m)
    BY <2>2, <2>4
  <2> HIDE DEF groups
  <2> QED BY <1>8, <2>3, <2>5
<1> QED BY <1>6, <1>7, <1>8

(* A full buffer writes what its policy names, for careful callers. *)
THEOREM AlwaysEvictsAsNamed ==
  ASSUME Careful
  PROVE  Spec => EvictsAsNamed
<1>1. ASSUME BufferInv, [Next]_vars PROVE [Evicts]_vars
  <2>1. ASSUME NEW e \in Entry, Put(e) PROVE Evicts
    <3>1. PICK v \in PutChoices : PutBy(e, v)
      BY <2>1, PutIs
    <3> QED BY <1>1, <3>1, PutEvicts
  <2>2. ASSUME NEW e \in Entry, PutOutOfBound(e) PROVE Evicts
    <3>1. entries' = entries
      BY <2>2 DEF PutOutOfBound, buffer
    <3> QED BY <3>1 DEF Evicts
  <2>3. ASSUME NEW k, Get(k) PROVE Evicts
    BY <2>3 DEF Get, Called, Evicts
  <2>4. ASSUME NEW k, BatchGet(<<k>>) PROVE Evicts
    BY <2>4 DEF BatchGet, Called, Evicts
  <2>5. ASSUME NEW e \in Entry, BatchPut(<<e>>) PROVE Evicts
    BY <2>5 DEF BatchPut, Called, Evicts
  <2>6. ASSUME Flush PROVE Evicts
    BY <2>6 DEF Flush, Called, Evicts
  <2>7. ASSUME Reopen PROVE Evicts
    BY <2>7 DEF Reopen, Called, Evicts
  <2>8. CASE UNCHANGED vars
    BY <2>8
  <2> QED BY <1>1, <2>1, <2>2, <2>3, <2>4, <2>5, <2>6, <2>7, <2>8 DEF Next
<1> QED BY <1>1, AlwaysBufferInv, PTL DEF Spec, EvictsAsNamed

-----------------------------------------------------------------------------
(* What the buffer over the tree holds. *)
HoldsPending == \A i \in DOMAIN entries : Contents[entries[i].key] = entries[i].datum
HoldsTree == \A k \in Key : (\A i \in DOMAIN entries : entries[i].key # k) => Contents[k] = tree[k]

LEMMA ContentsAre == BufferInv => HoldsPending /\ HoldsTree
<1> SUFFICES ASSUME BufferInv PROVE HoldsPending /\ HoldsTree
  OBVIOUS
<1>1. \A k \in Key : Contents[k] = IF Pending(k) THEN entries[Index(k)].datum ELSE tree[k]
  BY DEF Contents, Found
<1>2. ASSUME NEW i \in DOMAIN entries PROVE Contents[entries[i].key] = entries[i].datum
  <2>1. Index(entries[i].key) = i
    BY IndexIs DEF BufferInv
  <2>2. entries[i].key \in Key /\ Pending(entries[i].key)
    BY KeysAre DEF BufferInv, Pending
  <2> QED BY <1>1, <2>1, <2>2
<1>3. ASSUME NEW k \in Key, \A i \in DOMAIN entries : entries[i].key # k PROVE Contents[k] = tree[k]
  <2>1. ~Pending(k)
    BY <1>3 DEF Pending
  <2> QED BY <1>1, <2>1
<1> QED BY <1>2, <1>3 DEF HoldsPending, HoldsTree

LEMMA ContentsAreNext == BufferInv' => HoldsPending' /\ HoldsTree'
BY ContentsAre, PTL

(* The same, of the entries as a set. *)
LEMMA ByEntries ==
  ASSUME BufferInv
  PROVE  /\ \A x \in Elements(entries) : x.key \in Key /\ Contents[x.key] = x.datum
         /\ \A k \in Key : (\A x \in Elements(entries) : x.key # k) => Contents[k] = tree[k]
<1>1. HoldsPending /\ HoldsTree
  BY ContentsAre
<1>2. \A x \in Elements(entries) : x.key \in Key
  BY KeysAre DEF BufferInv
<1> QED BY <1>1, <1>2 DEF HoldsPending, HoldsTree, Elements

LEMMA ByEntriesNext ==
  ASSUME BufferInv'
  PROVE  /\ \A x \in Elements(entries') : x.key \in Key /\ Contents'[x.key] = x.datum
         /\ \A k \in Key : (\A x \in Elements(entries') : x.key # k) => Contents'[k] = tree'[k]
<1>1. HoldsPending' /\ HoldsTree'
  BY ContentsAreNext
<1>2. \A x \in Elements(entries') : x.key \in Key
  <2>1. entries' \in Seq(Pend)
    BY DEF BufferInv
  <2> QED BY <2>1, KeysAre
<1> QED BY <1>1, <1>2 DEF HoldsPending, HoldsTree, Elements

Set(m, e) == [k \in Key |-> IF k = e.key THEN e.datum ELSE m[k]]

LEMMA StoreAfter ==
  ASSUME NEW m, NEW e
  PROVE  Store!After(m, <<e>>) = Set(m, e)
<1>1. \A S : Store!Max(S) = Max(S)
  BY DEF Store!Max, Max
<1>2. Store!After(m, <<e>>) = After(m, <<e>>)
  BY <1>1 DEF Store!After, After
<1> QED BY <1>2, AfterOne DEF Set

LEMMA ContentsIs == Contents = [k \in Key |-> Contents[k]]
BY DEF Contents
LEMMA ContentsIsNext == Contents' = [k \in Key |-> Contents'[k]]
BY DEF Contents

(* A put sets its key, whatever is written for it. *)
LEMMA PutRefines ==
  ASSUME Careful, BufferInv, BufferInv', NEW e \in Entry, NEW v, PutBy(e, v)
  PROVE  Store!Put
<1> DEFINE E == Elements(entries)
           F == Elements(entries')
<1>1. /\ \A y \in E : y.key # e.key
      /\ F = {x \in E : x.key \notin v.goes} \cup {New(e)}
      /\ New(e).key = e.key /\ New(e).datum = e.datum /\ e.key \in Key
  BY PutEntries DEF New, PutBy
<1>2. /\ Out(v) \in Seq(Pend) /\ Ascending(Out(v))
      /\ Elements(Out(v)) = {x \in E : x.key \in v.goes}
  BY LeftIs DEF Out
<1>3. tree' = After(tree, Out(v))
  BY DEF PutBy
<1>4. /\ \A x \in Elements(Out(v)) : tree'[x.key] = x.datum
      /\ \A k \in Key : (\A x \in Elements(Out(v)) : x.key # k) => tree'[k] = tree[k]
  <2>1. tree \in [Key -> Value]
    BY DEF BufferInv
  <2> QED BY <1>2, <1>3, <2>1, AfterIs DEF Elements
<1>5. /\ \A x \in E : x.key \in Key /\ Contents[x.key] = x.datum
      /\ \A k \in Key : (\A x \in E : x.key # k) => Contents[k] = tree[k]
  BY ByEntries
<1>6. /\ \A x \in F : x.key \in Key /\ Contents'[x.key] = x.datum
      /\ \A k \in Key : (\A x \in F : x.key # k) => Contents'[k] = tree'[k]
  BY ByEntriesNext
<1> HIDE DEF E, F
<1>7. ASSUME NEW k \in Key PROVE Contents'[k] = IF k = e.key THEN e.datum ELSE Contents[k]
  <2>1. CASE k = e.key
    BY <1>1, <1>6, <2>1
  <2>2. ASSUME k # e.key, NEW x \in E, x.key = k, k \notin v.goes PROVE Contents'[k] = Contents[k]
    <3>1. x \in F
      BY <1>1, <2>2
    <3> QED BY <1>5, <1>6, <2>2, <3>1
  <2>3. ASSUME k # e.key, NEW x \in E, x.key = k, k \in v.goes PROVE Contents'[k] = Contents[k]
    <3>1. x \in Elements(Out(v))
      BY <1>2, <2>3
    <3>2. \A y \in F : y.key # k
      BY <1>1, <2>3
    <3> QED BY <1>4, <1>5, <1>6, <2>3, <3>1, <3>2
  <2>4. ASSUME k # e.key, \A x \in E : x.key # k PROVE Contents'[k] = Contents[k]
    <3>1. (\A y \in F : y.key # k) /\ \A y \in Elements(Out(v)) : y.key # k
      BY <1>1, <1>2, <2>4
    <3> QED BY <1>4, <1>5, <1>6, <2>4, <3>1
  <2> QED BY <2>1, <2>2, <2>3, <2>4
<1>8. Contents' = Store!After(Contents, <<e>>)
  <2>1. Contents' = Set(Contents, e)
    BY <1>7, ContentsIsNext DEF Set
  <2> QED BY <2>1, StoreAfter
<1>9. call' = [op |-> "put", arg |-> e, answer |-> "kOK"]
  BY DEF PutBy, Called
<1>10. call'.op = "put" /\ call'.arg = e /\ call'.answer = "kOK"
  BY <1>9
<1> QED BY <1>1, <1>8, <1>10 DEF Store!Put

(* What is written from the buffer was there already. *)
LEMMA EmptiedRefines ==
  ASSUME BufferInv, BufferInv', Emptied
  PROVE  Contents' = Contents
<1> DEFINE E == Elements(entries)
<1>1. entries' = <<>> /\ tree' = After(tree, entries)
  BY DEF Emptied, Written
<1>2. /\ \A x \in E : tree'[x.key] = x.datum
      /\ \A k \in Key : (\A x \in E : x.key # k) => tree'[k] = tree[k]
  <2>1. tree \in [Key -> Value] /\ entries \in Seq(Pend) /\ Ascending(entries)
    BY DEF BufferInv
  <2>2. /\ \A i \in DOMAIN entries : After(tree, entries)[entries[i].key] = entries[i].datum
        /\ \A k \in Key : (\A i \in DOMAIN entries : entries[i].key # k) => After(tree, entries)[k] = tree[k]
    BY <2>1, AfterIs
  <2> QED BY <1>1, <2>2 DEF Elements
<1>3. Elements(entries') = {}
  BY <1>1 DEF Elements
<1>4. \A k \in Key : Contents'[k] = tree'[k]
  BY <1>3, ByEntriesNext
<1>5. /\ \A x \in E : x.key \in Key /\ Contents[x.key] = x.datum
      /\ \A k \in Key : (\A x \in E : x.key # k) => Contents[k] = tree[k]
  BY ByEntries
<1> HIDE DEF E
<1>6. ASSUME NEW k \in Key PROVE Contents'[k] = Contents[k]
  <2>1. ASSUME NEW x \in E, x.key = k PROVE Contents'[k] = Contents[k]
    BY <1>2, <1>4, <1>5, <2>1
  <2>2. ASSUME \A x \in E : x.key # k PROVE Contents'[k] = Contents[k]
    BY <1>2, <1>4, <1>5, <2>2
  <2> QED BY <2>1, <2>2
<1> QED BY <1>6, ContentsIs, ContentsIsNext

LEMMA UnchangedRefines ==
  ASSUME Unchanged
  PROVE  Contents' = Contents
BY DEF Unchanged, buffer, Contents, Found, Pending, Index

(* With nothing pending the tree is all. *)
LEMMA NothingPending ==
  ASSUME BufferInv, entries = <<>>
  PROVE  \A k \in Key : Contents[k] = tree[k]
<1>1. Elements(entries) = {}
  BY DEF Elements
<1> QED BY <1>1, ByEntries

LEMMA RefinesInit ==
  ASSUME Init
  PROVE  Store!Init
<1>1. entries = <<>> /\ BufferInv /\ tree = [k \in Key |-> Default]
  BY BufferInvInit DEF Init
<1>2. \A k \in Key : Contents[k] = Default
  BY <1>1, NothingPending
<1>3. Contents = [k \in Key |-> Default]
  BY <1>2, ContentsIs
<1>4. call.op = "create"
  BY DEF Init, Called
<1> QED BY <1>3, <1>4 DEF Store!Init

LEMMA RefinesNext ==
  ASSUME Careful, BufferInv, BufferInv', [Next]_vars
  PROVE  [Store!Next]_<<Contents, <<>>, call.op, call>>
<1>1. ASSUME NEW e \in Entry, Put(e) PROVE Store!Put
  <2>1. PICK v \in PutChoices : PutBy(e, v)
    BY <1>1, PutIs
  <2> QED BY <2>1, PutRefines
<1>2. ASSUME NEW e \in Entry, PutOutOfBound(e) PROVE Store!Put
  <2>1. Unchanged /\ e.key \notin Key /\ call' = [op |-> "put", arg |-> e, answer |-> "kOutOfBound"]
    BY <1>2 DEF PutOutOfBound, Unchanged, Called
  <2>2. call'.op = "put" /\ call'.arg = e /\ call'.answer = "kOutOfBound"
    BY <2>1
  <2>3. Contents' = Contents
    BY <2>1, UnchangedRefines
  <2>4. Contents' = Store!After(Contents, <<e>>)
    <3>1. Set(Contents, e) = [k \in Key |-> Contents[k]]
      BY <2>1 DEF Set
    <3> QED BY <2>3, <3>1, StoreAfter, ContentsIs
  <2> QED BY <2>1, <2>2, <2>4 DEF Store!Put
<1>3. ASSUME NEW k \in Used, Get(k) PROVE Store!Read
  <2>1. Unchanged /\ call' = [op |-> "get", arg |-> k, answer |-> IF k \in Key THEN Found(k) ELSE NA]
    BY <1>3 DEF Get, Unchanged, Called
  <2>2. call'.op = "get" /\ call'.arg = k /\ call'.answer = IF k \in Key THEN Contents[k] ELSE NA
    BY <2>1 DEF Contents
  <2>3. Contents' = Contents
    BY <2>1, UnchangedRefines
  <2> QED BY <2>2, <2>3 DEF Store!Read, Store!Answers
<1>4. ASSUME NEW k \in Key, BatchGet(<<k>>) PROVE Store!Read
  <2> DEFINE keys == <<k>>
             answer == [i \in DOMAIN keys |-> tree[keys[i]]]
  <2>1. Unchanged /\ entries = <<>> /\ call' = [op |-> "batchGet", arg |-> keys, answer |-> answer]
    BY <1>4 DEF BatchGet, Unchanged, Called
  <2>2. call'.op = "batchGet" /\ call'.arg = keys /\ call'.answer = answer
    BY <2>1
  <2>3. answer = [i \in DOMAIN keys |-> IF keys[i] \in Key THEN Contents[keys[i]] ELSE Default]
    <3>1. \A i \in DOMAIN keys : keys[i] = k
      OBVIOUS
    <3>2. tree[k] = Contents[k]
      BY <2>1, NothingPending
    <3> HIDE DEF keys
    <3> QED BY <3>1, <3>2
  <2>4. Contents' = Contents
    BY <2>1, UnchangedRefines
  <2> HIDE DEF keys, answer
  <2> QED BY <2>2, <2>3, <2>4 DEF Store!Read, Store!Answers
<1>5. ASSUME NEW e \in Entry, e.key \in Key, BatchPut(<<e>>) PROVE Store!Step
  <2> DEFINE es == <<e>>
  <2>1. /\ entries = <<>> /\ entries' = entries
        /\ call' = [op |-> "batchPut", arg |-> [left |-> es, group |-> es], answer |-> "AC_OK"]
    BY <1>5 DEF BatchPut, Called, buffer
  <2>2. call'.op = "batchPut" /\ call'.arg.left = es /\ call'.arg.group = es
    BY <2>1
  <2>3. Len(es) = 1 /\ SubSeq(es, 1, 1) = es /\ SubSeq(es, 2, 1) = <<>>
    <3>1. es \in Seq({e}) /\ Len(es) = 1
      OBVIOUS
    <3> HIDE DEF es
    <3>2. SubSeq(es, 1, 1) \in Seq({e}) /\ Len(SubSeq(es, 1, 1)) = 1 /\ SubSeq(es, 1, 1)[1] = es[1]
      BY <3>1
    <3>3. SubSeq(es, 1, 1) = es
      BY <3>1, <3>2
    <3>4. SubSeq(es, 2, 1) \in Seq({e}) /\ Len(SubSeq(es, 2, 1)) = 0
      BY <3>1
    <3> QED BY <3>1, <3>3, <3>4
  <2>4. tree' = Set(tree, e)
    BY <1>5, BatchPutKeeps DEF Set
  <2>5. \A k \in Key : Contents[k] = tree[k] /\ Contents'[k] = tree'[k]
    <3>1. \A k \in Key : Contents[k] = tree[k]
      BY <2>1, NothingPending
    <3>2. Elements(entries') = {}
      BY <2>1 DEF Elements
    <3> QED BY <3>1, <3>2, ByEntriesNext
  <2>6. Contents' = Set(Contents, e)
    BY <2>4, <2>5, ContentsIsNext DEF Set
  <2>7. Contents' = Store!After(Contents, es)
    BY <2>6, StoreAfter
  <2> HIDE DEF es
  <2>8. 1 \in 1..Len(es) /\ SubSeq(es, 1 + 1, Len(es)) = <<>>
    BY <2>3
  <2>9. \E n \in 1..Len(es) : es = SubSeq(es, 1, n) /\ <<>> = SubSeq(es, n + 1, Len(es))
    BY <2>3, <2>8
  <2> QED BY <2>2, <2>7, <2>9 DEF Store!Step
<1>6. ASSUME Flush PROVE Store!Quiet
  <2>1. Emptied /\ call' = [op |-> "quiet", arg |-> 0, answer |-> "kOK"]
    BY <1>6 DEF Flush, Called
  <2>2. Contents' = Contents /\ call'.op = "quiet"
    BY <2>1, EmptiedRefines
  <2> QED BY <2>2 DEF Store!Quiet
<1>7. ASSUME Reopen PROVE Store!Quiet
  <2>1. Emptied /\ call' = [op |-> "reopen", arg |-> 0, answer |-> "kOK"]
    BY <1>7 DEF Reopen, Called
  <2>2. Contents' = Contents /\ call'.op = "reopen"
    BY <2>1, EmptiedRefines
  <2> QED BY <2>2 DEF Store!Quiet
<1>8. CASE UNCHANGED vars
  <2>1. Unchanged /\ call' = call
    BY <1>8 DEF vars, Unchanged
  <2>2. Contents' = Contents
    BY <2>1, UnchangedRefines
  <2> QED BY <2>1, <2>2
<1> QED BY <1>1, <1>2, <1>3, <1>4, <1>5, <1>6, <1>7, <1>8 DEF Next, Store!Next

(* The buffer over the tree is one map, for careful callers: through       *)
(* evictions, flushes, splits and reopening every get answers what the     *)
(* last put left.                                                          *)
THEOREM BufferedTreeImplementsStore ==
  ASSUME Careful
  PROVE  Spec => ImplementsStore
<1>1. Init => BufferInv /\ Store!Init
  BY BufferInvInit, RefinesInit
<1>2. BufferInv /\ [Next]_vars => BufferInv'
  BY BufferInvNext
<1>3. BufferInv /\ BufferInv' /\ [Next]_vars => [Store!Next]_<<Contents, <<>>, call.op, call>>
  BY RefinesNext
<1> QED BY <1>1, <1>2, <1>3, PTL DEF Spec, ImplementsStore, Store!Spec
=============================================================================
