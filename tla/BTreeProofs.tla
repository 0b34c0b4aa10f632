---------------------------- MODULE BTreeProofs ----------------------------
(***************************************************************************)
(* The tree of BTree, for all capacities and splitters that give every     *)
(* half of a leaf a format (SplitterAssumption), every order and set of    *)
(* data, and every length of batch: its pages stay a search tree, its cursor *)
(* a path of it, its pins balanced and its counts right, and it answers    *)
(* with what was put.                                                      *)
(*                                                                         *)
(* The invariant gives every page a place, its level and its true bounds   *)
(* (pl, the layout): pages of one level lie apart, the cells of a block    *)
(* are the lower bounds of the pages they lead to, a leaf's entries lie    *)
(* within its bounds, and the chain goes from a leaf to one that starts    *)
(* where it ends.  The bounds that the objects and the cursor have may be  *)
(* stale, and what they may be is part of the invariant: an upper bound 0, *)
(* and a lower bound that is too low.  A cursor kept between the entries   *)
(* of a batch is good for the keys that are still to come (Ready).         *)
(*                                                                         *)
(* While a split goes up, one page has lost its upper part to a page that  *)
(* no block leads to (Laid with o and n), or has a cell too many (with x). *)
(* The lemmas go in that order: searches; splits of one page; the cell for *)
(* the new page; the new root; puts; batches; and then the steps of BTree. *)
(*                                                                         *)
(* Where a caller that is not Careful breaks the tree or gets a wrong      *)
(* answer is what the runs that expect a violation show.                   *)
(***************************************************************************)
EXTENDS BTree, OperatorProofs, SequenceTheorems

(* What the assumptions say of the constants. *)
LEMMA ConstantsAre ==
  /\ EndsBy \in Nat /\ EndsBy > 0 /\ InternalCap \in Nat /\ InternalCap >= 2
  /\ Default \in Value /\ Splitter \subseteq {"M", "T", "A", "RS"}
  /\ MaxBatch \in Nat /\ MaxBatch > 0 /\ SizeMod \in Nat /\ SizeMod > 2
  /\ Key = 0..EndsBy-1
BY TreeAssumption DEF Key

-----------------------------------------------------------------------------
(* The layout of a tree: pl gives every page its level, counted from the   *)
(* root, and its true bounds.  While a split goes up, the page o has       *)
(* lost its upper part to the page n, which its parent does not know yet;  *)
(* and the page x may have one entry too many.  0 stands for no page.      *)
Spot == [level : Nat, lower : Nat, upper : Nat]

PageNode(D) ==
  [type : {"sparse", "dense"},
   entries : UNION {[ks -> Value \ {Default}] : ks \in SUBSET Key},
   next : D \cup {InvalidPid}]
  \cup [type : {"internal"}, kids : Seq([key : Key, value : D])]

IsInternal(P, p) == P[p].type = "internal"

Nodes(P) ==
  /\ Cardinality(DOMAIN P) \in Nat
  /\ DOMAIN P = 1..Cardinality(DOMAIN P)
  /\ P \in [DOMAIN P -> PageNode(DOMAIN P)]

Placed(P, depth, pl) ==
  /\ depth \in Nat /\ depth > 0
  /\ pl \in [DOMAIN P -> Spot]
  /\ \A p \in DOMAIN P :
       /\ pl[p].level \in 1..depth
       /\ pl[p].lower < pl[p].upper /\ pl[p].upper <= EndsBy
       /\ IsInternal(P, p) <=> pl[p].level < depth

(* The end of what a page holds, its lost part included. *)
Top(pl, o, n, q) == IF q = o THEN pl[n].upper ELSE pl[q].upper

KidSound(P, pl, o, n, p, i) ==
  LET kids == P[p].kids
      q == kids[i].value
  IN  /\ q # n
      /\ pl[q].level = pl[p].level + 1
      /\ pl[q].lower = kids[i].key
      /\ Top(pl, o, n, q) = IF i = Len(kids) THEN pl[p].upper ELSE kids[i + 1].key

KidsSound(P, pl, o, n, x, p) ==
  /\ Len(P[p].kids) >= 1
  /\ Len(P[p].kids) <= (IF p = x THEN InternalCap + 1 ELSE InternalCap)
  /\ P[p].kids[1].key = pl[p].lower
  /\ \A i \in 1..Len(P[p].kids) : KidSound(P, pl, o, n, p, i)

LeafSound(P, pl, x, p) ==
  /\ \A k \in DOMAIN P[p].entries : pl[p].lower <= k /\ k < pl[p].upper
  /\ p # x => Fits(P[p].type, DOMAIN P[p].entries)
  /\ P[p].next # InvalidPid =>
       ~IsInternal(P, P[p].next) /\ pl[P[p].next].lower = pl[p].upper

PagesSound(P, pl, o, n, x) ==
  \A p \in DOMAIN P : IF IsInternal(P, p) THEN KidsSound(P, pl, o, n, x, p)
                      ELSE LeafSound(P, pl, x, p)

Rooted(P, root, pl, o, n) ==
  root \in DOMAIN P /\ pl[root].level = 1 /\ pl[root].lower = 0 /\ Top(pl, o, n, root) = EndsBy

Apart(P, pl) ==
  \A p, q \in DOMAIN P :
    p # q /\ pl[p].level = pl[q].level => pl[p].upper <= pl[q].lower \/ pl[q].upper <= pl[p].lower

IsKid(P, q, p) == IsInternal(P, q) /\ \E i \in 1..Len(P[q].kids) : P[q].kids[i].value = p

Reached(P, root, n) ==
  \A p \in DOMAIN P : p # root /\ p # n => \E q \in DOMAIN P : IsKid(P, q, p)

Laid(P, root, depth, pl, o, n, x) ==
  /\ Nodes(P) /\ Placed(P, depth, pl) /\ PagesSound(P, pl, o, n, x)
  /\ Rooted(P, root, pl, o, n) /\ Apart(P, pl) /\ Reached(P, root, n)

Within(pl, p, key) == pl[p].lower <= key /\ key < pl[p].upper

-----------------------------------------------------------------------------
(* A page is a leaf or an internal block. *)
LEMMA NodeIs ==
  ASSUME NEW P, Nodes(P), NEW p \in DOMAIN P
  PROVE  /\ p \in Nat /\ p > 0 /\ DOMAIN P \subseteq Nat
         /\ IsInternal(P, p) =>
              /\ P[p].type = "internal" /\ P[p].kids \in Seq([key : Key, value : DOMAIN P])
              /\ Len(P[p].kids) \in Nat /\ DOMAIN P[p].kids = 1..Len(P[p].kids)
              /\ P[p] = [type |-> "internal", kids |-> P[p].kids]
              /\ \A i \in 1..Len(P[p].kids) :
                   /\ P[p].kids[i] = [key |-> P[p].kids[i].key, value |-> P[p].kids[i].value]
                   /\ P[p].kids[i].key \in Key /\ P[p].kids[i].key \in Nat
                   /\ P[p].kids[i].value \in DOMAIN P
         /\ ~IsInternal(P, p) =>
              /\ P[p].type \in {"sparse", "dense"}
              /\ P[p].entries \in UNION {[ks -> Value \ {Default}] : ks \in SUBSET Key}
              /\ P[p].next \in DOMAIN P \cup {InvalidPid}
              /\ P[p] = [type |-> P[p].type, entries |-> P[p].entries, next |-> P[p].next]
<1>1. P[p] \in PageNode(DOMAIN P) /\ p \in Nat /\ p > 0 /\ DOMAIN P \subseteq Nat
  BY DEF Nodes
<1> DEFINE D == DOMAIN P
           v == P[p]
<1> HIDE DEF D, v
<1>2. v \in PageNode(D) /\ Key \subseteq Nat
  BY <1>1, ConstantsAre DEF D, v
<1>3. ASSUME v.type = "internal"
      PROVE  /\ v.kids \in Seq([key : Key, value : D]) /\ v = [type |-> "internal", kids |-> v.kids]
  BY <1>2, <1>3 DEF PageNode
<1>4. ASSUME v.type = "internal"
      PROVE  /\ Len(v.kids) \in Nat /\ DOMAIN v.kids = 1..Len(v.kids)
             /\ \A i \in 1..Len(v.kids) : v.kids[i] \in [key : Key, value : D]
  <2>1. ASSUME NEW R, v.kids \in Seq(R)
        PROVE  /\ Len(v.kids) \in Nat /\ DOMAIN v.kids = 1..Len(v.kids)
               /\ \A i \in 1..Len(v.kids) : v.kids[i] \in R
    BY <2>1
  <2> QED BY <1>3, <1>4, <2>1
<1>5. ASSUME v.type = "internal"
      PROVE  \A i \in 1..Len(v.kids) :
               /\ v.kids[i] = [key |-> v.kids[i].key, value |-> v.kids[i].value]
               /\ v.kids[i].key \in Key /\ v.kids[i].key \in Nat /\ v.kids[i].value \in D
  BY <1>2, <1>4, <1>5
<1>6. ASSUME v.type # "internal"
      PROVE  /\ v.type \in {"sparse", "dense"}
             /\ v.entries \in UNION {[ks -> Value \ {Default}] : ks \in SUBSET Key}
             /\ v.next \in D \cup {InvalidPid}
             /\ v = [type |-> v.type, entries |-> v.entries, next |-> v.next]
  BY <1>2, <1>6 DEF PageNode
<1> QED BY <1>1, <1>3, <1>4, <1>5, <1>6 DEF D, v, IsInternal

(* Where a page lies. *)
LEMMA SpotIs ==
  ASSUME NEW P, NEW depth, NEW pl, Placed(P, depth, pl), NEW p \in DOMAIN P
  PROVE  /\ depth \in Nat /\ depth > 0 /\ DOMAIN pl = DOMAIN P
         /\ pl[p] = [level |-> pl[p].level, lower |-> pl[p].lower, upper |-> pl[p].upper]
         /\ pl[p].level \in Nat /\ pl[p].lower \in Nat /\ pl[p].upper \in Nat
         /\ pl[p].level \in 1..depth /\ pl[p].lower < pl[p].upper /\ pl[p].upper <= EndsBy
         /\ IsInternal(P, p) <=> pl[p].level < depth
         /\ pl \in [DOMAIN P -> Spot] /\ pl[p] \in Spot
<1>1. pl[p] \in Spot
  BY DEF Placed
<1> QED BY <1>1 DEF Placed, Spot

(* The separators of a block ascend within its bounds. *)
LEMMA KidsAscend ==
  ASSUME NEW P, NEW root, NEW depth, NEW pl, NEW o, NEW n, NEW x, Laid(P, root, depth, pl, o, n, x),
         o # n => pl[o].upper = pl[n].lower /\ o \in DOMAIN P /\ n \in DOMAIN P,
         NEW p \in DOMAIN P, IsInternal(P, p)
  PROVE  /\ \A i \in 1..Len(P[p].kids) :
              /\ pl[p].lower <= P[p].kids[i].key /\ P[p].kids[i].key < pl[p].upper
              /\ P[p].kids[i].key < Top(pl, o, n, P[p].kids[i].value)
              /\ Top(pl, o, n, P[p].kids[i].value) <= pl[p].upper
         /\ \A i, j \in 1..Len(P[p].kids) : i < j =>
              /\ P[p].kids[i].key < P[p].kids[j].key
              /\ Top(pl, o, n, P[p].kids[i].value) <= P[p].kids[j].key
<1> DEFINE s == P[p].kids
           m == Len(s)
           top(i) == Top(pl, o, n, s[i].value)
<1>1. /\ Nodes(P) /\ Placed(P, depth, pl) /\ KidsSound(P, pl, o, n, x, p)
  BY DEF Laid, PagesSound
<1>2. m \in Nat /\ m >= 1 /\ \A i \in 1..m : s[i].key \in Nat /\ s[i].value \in DOMAIN P
  BY <1>1, NodeIs DEF KidsSound
<1>3. ASSUME NEW i \in 1..m
      PROVE  /\ top(i) = IF i = m THEN pl[p].upper ELSE s[i+1].key
             /\ s[i].key < top(i) /\ top(i) \in Nat
  <2>1. KidSound(P, pl, o, n, p, i)
    BY <1>1 DEF KidsSound
  <2>2. top(i) = (IF i = m THEN pl[p].upper ELSE s[i+1].key) /\ pl[s[i].value].lower = s[i].key
    BY <2>1 DEF KidSound
  <2>3. s[i].value \in DOMAIN P /\ i \in Int
    BY <1>2
  <2> DEFINE q == s[i].value
  <2> HIDE DEF q
  <2>4. q \in DOMAIN P => pl[q].lower \in Nat /\ pl[q].upper \in Nat /\ pl[q].lower < pl[q].upper
    BY <1>1, SpotIs
  <2>5. o # n => pl[n].lower \in Nat /\ pl[n].upper \in Nat /\ pl[n].lower < pl[n].upper
    BY <1>1, SpotIs
  <2>6. q \in DOMAIN P => pl[q].lower < Top(pl, o, n, q) /\ Top(pl, o, n, q) \in Nat
    <3>1. CASE q # o
      BY <2>4, <3>1 DEF Top
    <3>2. CASE q = o /\ o = n
      BY <2>4, <3>2 DEF Top
    <3>3. CASE q = o /\ o # n
      BY <2>4, <2>5, <3>3 DEF Top
    <3> QED BY <3>1, <3>2, <3>3
  <2> QED BY <2>2, <2>3, <2>6 DEF q
<1>4. s[1].key = pl[p].lower /\ pl[p].upper \in Nat /\ pl[p].lower \in Nat
  BY <1>1, SpotIs DEF KidsSound
<1> HIDE DEF s, m, top
<1>5. ASSUME NEW i \in 1..m
      PROVE  \A j \in i..m : j = i \/ (top(i) <= s[j].key /\ s[i].key < s[j].key)
  <2> DEFINE S == {j \in i..m : j = i \/ (top(i) <= s[j].key /\ s[i].key < s[j].key)}
  <2>1. i \in S /\ i \in Int /\ m \in Int
    BY <1>2
  <2>2. ASSUME NEW j \in i+1..m, j-1 \in S PROVE j \in S
    <3>1. j-1 \in 1..m /\ j \in 1..m /\ i \in 1..m /\ j \in i..m /\ j-1 # m /\ (j-1)+1 = j /\ j # i
      BY <1>2
    <3>2. top(j-1) = s[j].key /\ s[j-1].key < top(j-1) /\ s[i].key < top(i)
      BY <1>3, <3>1
    <3>3. s[j].key \in Nat /\ s[j-1].key \in Nat /\ s[i].key \in Nat /\ top(i) \in Nat
      BY <1>2, <1>3, <3>1
    <3>4. j-1 = i \/ (top(i) <= s[j-1].key /\ s[i].key < s[j-1].key)
      BY <2>2
    <3>5. CASE j-1 = i
      <4>1. top(i) = s[j].key
        BY <3>2, <3>5
      <4> QED BY <3>1, <3>2, <3>3, <4>1
    <3>6. CASE top(i) <= s[j-1].key /\ s[i].key < s[j-1].key
      <4>1. top(i) <= s[j].key /\ s[i].key < s[j].key
        BY <3>2, <3>3, <3>6
      <4> QED BY <3>1, <4>1
    <3> QED BY <3>4, <3>5, <3>6
  <2>3. \A j \in i..m : j \in S
    <3> HIDE DEF S
    <3> QED BY <2>1, <2>2, UpTo
  <2> QED BY <2>3
<1>6. ASSUME NEW i \in 1..m
      PROVE  /\ pl[p].lower <= s[i].key /\ s[i].key < pl[p].upper
             /\ s[i].key < top(i) /\ top(i) <= pl[p].upper
  <2>1. 1 \in 1..m /\ i \in 1..m /\ m \in 1..m /\ m \in i..m /\ i \in Int
    BY <1>2
  <2>2. i = 1 \/ s[1].key < s[i].key
    BY <1>5, <2>1
  <2>3. m = i \/ (top(i) <= s[m].key /\ s[i].key < s[m].key)
    BY <1>5, <2>1
  <2>4. top(m) = pl[p].upper /\ s[m].key < top(m) /\ s[m].key \in Nat /\ s[i].key \in Nat
          /\ top(i) \in Nat
        /\ s[i].key < top(i)
    BY <1>2, <1>3, <2>1
  <2> QED BY <1>4, <2>2, <2>3, <2>4
<1>7. ASSUME NEW i \in 1..m, NEW j \in 1..m, i < j
      PROVE  s[i].key < s[j].key /\ top(i) <= s[j].key
  BY <1>2, <1>5, <1>7
<1> QED BY <1>6, <1>7 DEF s, m, top
-----------------------------------------------------------------------------

(* The block is as its layout says, no split being under way. *)
Settled(P, root, depth, pl) == Laid(P, root, depth, pl, 0, 0, 0)

PathLevel == [pid : Nat, index : Int, lower : Nat, upper : Nat]

(* What an object of the page has for bounds. *)
Shown(pl, bd, p) == IF p \in DOMAIN bd THEN bd[p] ELSE <<pl[p].lower, pl[p].upper>>

BoundsGood(P, root, pl, bd) ==
  /\ bd \in [DOMAIN bd -> Nat \X Nat]
  /\ \A p \in DOMAIN bd :
       /\ p \in DOMAIN P /\ ~IsInternal(P, p) /\ p # root
       /\ bd[p][1] <= pl[p].lower /\ bd[p][2] \in {0, pl[p].upper}

LevelGood(P, pl, bd, c, i) ==
  /\ c[i].pid \in DOMAIN P /\ pl[c[i].pid].level = i
  /\ <<c[i].lower, c[i].upper>> = Shown(pl, bd, c[i].pid)

Linked(P, c, i) ==
  /\ c[i].index \in 0..Len(P[c[i].pid].kids)-1
  /\ P[c[i].pid].kids[c[i].index + 1].value = c[i + 1].pid

(* The cursor, for the keys that are ahead: a path of the tree, but a leaf *)
(* with wrong bounds may have a wrong link to it, if none of the keys is   *)
(* below its end.                                                          *)
PathGood(P, root, depth, pl, bd, c, ahead) ==
  /\ c \in Seq(PathLevel) /\ Len(c) = depth
  /\ c[1].pid = root
  /\ \A i \in 1..depth : LevelGood(P, pl, bd, c, i)
  /\ \A i \in 1..depth-2 : Linked(P, c, i)
  /\ depth > 1 =>
       \/ Linked(P, c, depth - 1)
       \/ c[depth].pid \in DOMAIN bd /\ \A k \in ahead : c[depth].upper <= k
  /\ c[depth].pid \in DOMAIN bd => \A k \in ahead : pl[c[depth].pid].lower <= k

CursorGood(P, root, depth, pl, bd, c, ahead) ==
  c = <<>> \/ PathGood(P, root, depth, pl, bd, c, ahead)

(* The path a search for the key leaves. *)
Found(P, root, depth, pl, bd, c, key) ==
  /\ c \in Seq(PathLevel) /\ Len(c) = depth
  /\ c[1].pid = root
  /\ \A i \in 1..depth : LevelGood(P, pl, bd, c, i) /\ Within(pl, c[i].pid, key)
  /\ \A i \in 1..depth-1 : Linked(P, c, i)

-----------------------------------------------------------------------------
(* The cells of an internal block. *)
LEMMA KidsAre ==
  ASSUME NEW P, Nodes(P), NEW p \in DOMAIN P, IsInternal(P, p)
  PROVE  /\ p \in Nat /\ p > 0 /\ 0 \notin DOMAIN P
         /\ Len(P[p].kids) \in Nat /\ DOMAIN P[p].kids = 1..Len(P[p].kids)
         /\ \A i \in 1..Len(P[p].kids) :
              /\ P[p].kids[i].key \in Key /\ P[p].kids[i].key \in Nat
              /\ P[p].kids[i].value \in DOMAIN P /\ P[p].kids[i].value # 0
<1>1. p \in Nat /\ p > 0 /\ 0 \notin DOMAIN P
  BY DEF Nodes
<1>2. /\ Len(P[p].kids) \in Nat /\ DOMAIN P[p].kids = 1..Len(P[p].kids)
      /\ \A i \in 1..Len(P[p].kids) :
           /\ P[p].kids[i].key \in Key /\ P[p].kids[i].key \in Nat
           /\ P[p].kids[i].value \in DOMAIN P
  BY NodeIs
<1> DEFINE s == P[p].kids
           D == DOMAIN P
<1> HIDE DEF s, D
<1>3. \A i \in 1..Len(s) : s[i].value \in D /\ s[i].value # 0
  BY <1>1, <1>2 DEF s, D
<1> QED BY <1>1, <1>2, <1>3 DEF s, D

(* Search counts the cells before the key. *)
LEMMA SearchIs ==
  ASSUME NEW s, NEW n \in Nat, n >= 1, DOMAIN s = 1..n, Len(s) = n, NEW key \in Nat,
         \A i \in 1..n : s[i].key \in Nat,
         \A i, j \in 1..n : i < j => s[i].key < s[j].key,
         s[1].key <= key
  PROVE  LET m == Search(s, key)
             c == IF HasKeyAt(s, m, key) THEN m ELSE m - 1
         IN  /\ m \in Nat /\ m <= n
             /\ c \in 0..n-1 /\ s[c + 1].key <= key
             /\ c + 1 < n => key < s[c + 2].key
<1> DEFINE S == {i \in 1..n : s[i].key < key}
           m == Search(s, key)
           c == IF HasKeyAt(s, m, key) THEN m ELSE m - 1
<1>1. m = Cardinality(S)
  BY DEF Search
<1>2. CASE S = {}
  <2>1. m = 0
    BY <1>1, <1>2, FS_EmptySet
  <2>2. ~(s[1].key < key) /\ 1 \in 1..n
    BY <1>2
  <2>3. s[1].key = key /\ HasKeyAt(s, 0, key)
    BY <2>2 DEF HasKeyAt
  <2>4. c = 0
    BY <2>1, <2>3
  <2>5. 1 < n => key < s[2].key
    BY <2>2, <2>3
  <2> HIDE DEF c, m
  <2>6. c + 1 = 1 /\ c + 2 = 2 /\ c \in 0..n-1 /\ m \in Nat /\ m <= n
    BY <2>1, <2>4
  <2> QED BY <2>3, <2>5, <2>6 DEF c, m
<1>3. CASE S # {}
  <2>1. S \in SUBSET Int /\ n \in Int /\ \A i \in S : i <= n
    OBVIOUS
  <2> DEFINE q == Max(S)
  <2>2. q \in S /\ \A i \in S : i <= q
    <3> HIDE DEF S
    <3> QED BY <1>3, <2>1, GreatestOf
  <2> HIDE DEF q
  <2>3. q \in 1..n /\ s[q].key < key
    BY <2>2
  <2>4. S = 1..q
    <3>1. ASSUME NEW i \in 1..q PROVE i \in S
      <4>1. i \in 1..n /\ (i = q \/ i < q)
        BY <2>3
      <4> QED BY <2>3, <4>1
    <3>2. ASSUME NEW i \in S PROVE i \in 1..q
      BY <2>2, <2>3, <3>2
    <3> QED BY <3>1, <3>2
  <2>5. m = q
    <3> HIDE DEF S, m
    <3>1. q \in Nat
      BY <2>3
    <3> QED BY <1>1, <2>4, <3>1, IntervalSize
  <2>6. q < n => ~(s[q+1].key < key) /\ q+1 \in 1..n
    <3>1. q < n => q+1 \in 1..n /\ q+1 \notin S
      BY <2>2, <2>3
    <3> QED BY <3>1
  <2> HIDE DEF S, m, c
  <2>7. CASE q < n /\ s[q+1].key = key
    <3>1. HasKeyAt(s, m, key) /\ c = q
      BY <2>5, <2>7 DEF HasKeyAt, c
    <3>2. c \in 0..n-1 /\ c + 1 = q + 1 /\ c + 2 = q + 2 /\ m \in Nat /\ m <= n
      BY <2>3, <2>5, <2>7, <3>1
    <3>3. q + 1 < n => q + 1 \in 1..n /\ q + 2 \in 1..n /\ q + 1 < q + 2
      BY <2>3
    <3>4. q + 1 < n => s[q+1].key < s[q+2].key
      BY <3>3
    <3> QED BY <2>7, <3>2, <3>4 DEF m, c
  <2>8. CASE ~(q < n /\ s[q+1].key = key)
    <3>1. ~HasKeyAt(s, m, key) /\ c = q - 1
      BY <2>5, <2>8 DEF HasKeyAt, c
    <3>2. c \in 0..n-1 /\ c + 1 = q /\ c + 2 = q + 1 /\ m \in Nat /\ m <= n
      BY <2>3, <2>5, <3>1
    <3>3. q < n => key < s[q+1].key
      BY <2>6, <2>8
    <3> QED BY SMTT(30), <2>3, <3>2, <3>3 DEF m, c
  <2> QED BY <2>7, <2>8
<1> QED BY <1>2, <1>3

(* The child that search goes to has the key in its range, and lies one    *)
(* level down.                                                             *)
GoesTo(P, pl, p, c, key) ==
  LET q == P[p].kids[c + 1].value
  IN  /\ c \in 0..Len(P[p].kids)-1
      /\ q \in DOMAIN P /\ Within(pl, q, key) /\ pl[q].level = pl[p].level + 1

(* The child that a search picks in a block holds the key. *)
LEMMA ChildIndexIs ==
  ASSUME NEW t, NEW root, NEW depth, NEW pl, Settled(t.page, root, depth, pl),
         NEW level, level.pid \in DOMAIN t.page, IsInternal(t.page, level.pid),
         NEW key \in Nat, Within(pl, level.pid, key)
  PROVE  GoesTo(t.page, pl, level.pid, ChildIndex(t, level, key), key)
<1> DEFINE P == t.page
           p == level.pid
           s == P[p].kids
           n == Len(s)
           i == ChildIndex(t, level, key)
<1>1. /\ Nodes(P) /\ Placed(P, depth, pl) /\ KidsSound(P, pl, 0, 0, 0, p)
  BY DEF Settled, Laid, PagesSound
<1>2. /\ n \in Nat /\ n >= 1 /\ DOMAIN s = 1..n
      /\ \A j \in 1..n : s[j].key \in Nat /\ s[j].value \in DOMAIN P /\ s[j].value # 0
  BY <1>1, KidsAre DEF KidsSound
<1>3. /\ \A j, k \in 1..n : j < k => s[j].key < s[k].key
      /\ s[1].key = pl[p].lower
  BY <1>1, KidsAscend DEF Settled, KidsSound
<1>5. \A j \in 1..n : /\ pl[s[j].value].level = pl[p].level + 1
                      /\ pl[s[j].value].lower = s[j].key
                      /\ pl[s[j].value].upper = IF j = n THEN pl[p].upper ELSE s[j+1].key
  BY <1>1, <1>2, Zenon DEF KidsSound, KidSound, Top
<1>6. s[1].key <= key /\ key < pl[p].upper
  BY <1>3 DEF Within
<1>7. i = IF HasKeyAt(s, Search(s, key), key) THEN Search(s, key) ELSE Search(s, key) - 1
  BY DEF ChildIndex
<1> HIDE DEF i
<1>8. /\ i \in 0..n-1 /\ s[i + 1].key <= key
      /\ i + 1 < n => key < s[i + 2].key
  <2> HIDE DEF s, n
  <2>1. n = Len(s)
    BY DEF n
  <2> QED BY <1>2, <1>3, <1>6, <1>7, <2>1, SearchIs
<1>9. i + 1 \in 1..n /\ i + 2 = (i + 1) + 1 /\ (i + 1 = n \/ i + 1 < n)
  BY <1>2, <1>8
<1>10. key < pl[s[i + 1].value].upper
  BY <1>5, <1>6, <1>8, <1>9, Zenon
<1>11. /\ s[i + 1].value \in DOMAIN P /\ Within(pl, s[i + 1].value, key)
       /\ pl[s[i + 1].value].level = pl[p].level + 1
  BY <1>2, <1>5, <1>8, <1>9, <1>10, Zenon DEF Within
<1> QED BY <1>8, <1>11 DEF i, GoesTo

(* A child of a link that keeps a key in range has it in the range of its  *)
(* parent.                                                                 *)
LEMMA LinkedWithin ==
  ASSUME NEW P, NEW root, NEW depth, NEW pl, Settled(P, root, depth, pl),
         NEW c, NEW i, c[i].pid \in DOMAIN P, IsInternal(P, c[i].pid), Linked(P, c, i),
         NEW key \in Nat, Within(pl, c[i + 1].pid, key)
  PROVE  Within(pl, c[i].pid, key)
<1> DEFINE p == c[i].pid
           s == P[p].kids
           j == c[i].index + 1
           q == s[j].value
<1>1. Nodes(P) /\ Placed(P, depth, pl) /\ KidsSound(P, pl, 0, 0, 0, p)
  BY DEF Settled, Laid, PagesSound
<1>2. Len(s) \in Nat /\ j \in 1..Len(s)
  BY <1>1, KidsAre DEF Linked
<1>3. q \in DOMAIN P /\ q = c[i + 1].pid /\ q # 0 /\ p \in DOMAIN P
  BY <1>1, <1>2, KidsAre DEF Linked
<1>4. /\ pl[p].lower <= s[j].key /\ Top(pl, 0, 0, q) <= pl[p].upper
  BY SMTT(30), <1>2, KidsAscend DEF Settled
<1>5. pl[q].lower = s[j].key /\ Top(pl, 0, 0, q) = pl[q].upper
  BY <1>1, <1>2, <1>3 DEF KidsSound, KidSound, Top
<1> HIDE DEF j, s, p, q
<1>6. pl[q].lower \in Nat /\ pl[q].upper \in Nat /\ pl[p].lower \in Nat /\ pl[p].upper \in Nat
  <2>1. p \in DOMAIN P /\ q \in DOMAIN P /\ Placed(P, depth, pl)
    BY <1>1, <1>3
  <2> QED BY <2>1, SpotIs
<1>7. Within(pl, q, key)
  BY <1>3
<1>8. Within(pl, p, key)
  BY <1>4, <1>5, <1>6, <1>7 DEF Within
<1> QED BY <1>8 DEF p
-----------------------------------------------------------------------------

IsTree(t) ==
  t = [page |-> t.page, header |-> t.header, bounds |-> t.bounds, pins |-> t.pins,
       cursor |-> t.cursor]

IsHeader(h) ==
  h \in [root : Nat, depth : Nat \ {0}, nLeaves : 0..SizeMod-1, nnz : 0..SizeMod-1,
         dirty : BOOLEAN, useDense : BOOLEAN, splitter : Splitter]

(* Pages on one level share no key. *)
LEMMA OnlyPlace ==
  ASSUME NEW P, NEW root, NEW depth, NEW pl, NEW o, NEW n, NEW x, Laid(P, root, depth, pl, o, n, x),
         NEW p \in DOMAIN P, NEW q \in DOMAIN P, pl[p].level = pl[q].level,
         NEW key \in Nat, Within(pl, p, key), Within(pl, q, key)
  PROVE  p = q
<1>1. Placed(P, depth, pl) /\ Apart(P, pl)
  BY DEF Laid
<1>2. pl[p].lower \in Nat /\ pl[p].upper \in Nat /\ pl[q].lower \in Nat /\ pl[q].upper \in Nat
  BY <1>1, SpotIs
<1>3. p # q => pl[p].upper <= pl[q].lower \/ pl[q].upper <= pl[p].lower
  BY <1>1 DEF Apart
<1> QED BY <1>2, <1>3 DEF Within

(* The root has every key in its range. *)
LEMMA RootWithin ==
  ASSUME NEW P, NEW root, NEW depth, NEW pl, Settled(P, root, depth, pl), NEW key \in Nat, key < EndsBy
  PROVE  root \in DOMAIN P /\ pl[root].level = 1 /\ pl[root].lower = 0 /\ pl[root].upper = EndsBy
         /\ Within(pl, root, key)
<1>1. Rooted(P, root, pl, 0, 0) /\ 0 \notin DOMAIN P
  BY DEF Settled, Laid, Nodes
<1>2. root \in DOMAIN P /\ root # 0 /\ pl[root].level = 1 /\ pl[root].lower = 0
      /\ pl[root].upper = EndsBy
  BY <1>1 DEF Rooted, Top
<1> QED BY <1>2 DEF Within

(* What a good path says of one of its levels. *)
LEMMA LevelIs ==
  ASSUME NEW P, NEW root, NEW depth, NEW pl, Settled(P, root, depth, pl),
         NEW bd, BoundsGood(P, root, pl, bd), NEW c, c \in Seq(PathLevel), Len(c) = depth,
         NEW i \in 1..depth, LevelGood(P, pl, bd, c, i)
  PROVE  /\ c[i] \in PathLevel /\ c[i].pid \in DOMAIN P /\ pl[c[i].pid].level = i
         /\ IsInternal(P, c[i].pid) <=> i < depth
         /\ c[i].lower <= pl[c[i].pid].lower /\ c[i].upper \in {0, pl[c[i].pid].upper}
         /\ c[i].pid \notin DOMAIN bd =>
              c[i].lower = pl[c[i].pid].lower /\ c[i].upper = pl[c[i].pid].upper
         /\ c[i].pid \in DOMAIN bd => i = depth /\ c[i].pid # root
<1> DEFINE p == c[i].pid
<1>1. Placed(P, depth, pl) /\ p \in DOMAIN P
  BY DEF Settled, Laid, LevelGood
<1>2. c[i] \in PathLevel /\ p \in DOMAIN P /\ pl[p].level = i /\ (IsInternal(P, p) <=> i < depth)
      /\ pl[p].lower \in Nat /\ pl[p].upper \in Nat /\ depth \in Nat
  <2>1. c[i] \in PathLevel /\ pl[p].level = i
    BY DEF LevelGood
  <2> HIDE DEF p
  <2> QED BY <1>1, <2>1, SpotIs
<1>3. p \in DOMAIN bd =>
        bd[p][1] <= pl[p].lower /\ bd[p][2] \in {0, pl[p].upper} /\ ~IsInternal(P, p) /\ p # root
  BY DEF BoundsGood
<1>4. <<c[i].lower, c[i].upper>> = IF p \in DOMAIN bd THEN bd[p] ELSE <<pl[p].lower, pl[p].upper>>
  BY DEF LevelGood, Shown
<1>5. p \notin DOMAIN bd => c[i].lower = pl[p].lower /\ c[i].upper = pl[p].upper
  BY <1>4
<1>6. p \in DOMAIN bd => c[i].lower = bd[p][1] /\ c[i].upper = bd[p][2]
  BY <1>4
<1>7. p \in DOMAIN bd => i = depth
  BY <1>2, <1>3
<1> HIDE DEF p
<1>8. c[i].lower <= pl[p].lower /\ c[i].upper \in {0, pl[p].upper}
  BY <1>2, <1>3, <1>5, <1>6
<1> QED BY <1>2, <1>3, <1>5, <1>7, <1>8 DEF p

(* The levels of the cursor that a search keeps are on the way to the key. *)
LEMMA KeptFound ==
  ASSUME NEW t, NEW root, NEW depth, NEW pl, Settled(t.page, root, depth, pl),
         BoundsGood(t.page, root, pl, t.bounds), NEW ahead, NEW key \in ahead, key \in Nat,
         CursorGood(t.page, root, depth, pl, t.bounds, t.cursor, ahead)
  PROVE  LET kept == LevelsKept(t, key)
             c == t.cursor
         IN  /\ kept \in 0..Len(c) /\ Len(c) \in Nat
             /\ kept > 0 => PathGood(t.page, root, depth, pl, t.bounds, c, ahead)
             /\ \A i \in 1..kept : Within(pl, c[i].pid, key)
             /\ \A i \in 1..kept-1 : Linked(t.page, c, i)
<1> DEFINE c == t.cursor
           P == t.page
           bd == t.bounds
           S == {i \in DOMAIN c : InRange(c[i], key)} \cup {0}
           kept == LevelsKept(t, key)
<1>1. kept = Max(S)
  BY DEF LevelsKept
<1>2. Placed(P, depth, pl) /\ depth \in Nat /\ depth > 0
  BY DEF Settled, Laid, Placed
<1>3. CASE c = <<>>
  <2>1. S = {0} /\ Len(c) = 0
    BY <1>3
  <2>2. kept = 0
    <3>1. S \in SUBSET Int /\ S # {} /\ \A n \in S : n <= 0
      BY <2>1
    <3>2. Max(S) \in S
      <4> HIDE DEF S
      <4> QED BY <3>1, GreatestOf
    <3> QED BY <1>1, <2>1, <3>2
  <2> HIDE DEF kept, c
  <2> QED BY <2>1, <2>2 DEF kept, c
<1>4. CASE c # <<>>
  <2>1. PathGood(P, root, depth, pl, bd, c, ahead)
    BY <1>4 DEF CursorGood
  <2>2. c \in Seq(PathLevel) /\ Len(c) = depth /\ DOMAIN c = 1..depth
    BY <2>1 DEF PathGood
  <2>3. S \in SUBSET Int /\ S # {} /\ \A n \in S : n <= depth
    BY <1>2, <2>2
  <2>4. kept \in S
    <3>1. depth \in Int
      BY <1>2
    <3>2. Max(S) \in S
      <4> HIDE DEF S
      <4> QED BY <2>3, <3>1, GreatestOf
    <3> QED BY <1>1, <3>2
  <2>5. kept \in 0..depth /\ (kept > 0 => InRange(c[kept], key))
    BY <1>2, <2>2, <2>4
  <2> HIDE DEF S, kept, c, P, bd
  <2>6. ASSUME kept > 0
        PROVE  Within(pl, c[kept].pid, key) /\ \A i \in 1..kept-1 : Linked(P, c, i)
    <3>1. kept \in 1..depth /\ LevelGood(P, pl, bd, c, kept)
      BY <1>2, <2>1, <2>5, <2>6 DEF PathGood
    <3>2. /\ c[kept].lower <= pl[c[kept].pid].lower /\ c[kept].upper \in {0, pl[c[kept].pid].upper}
          /\ c[kept].pid \notin DOMAIN bd =>
              c[kept].lower = pl[c[kept].pid].lower /\ c[kept].upper = pl[c[kept].pid].upper
          /\ c[kept].pid \in DOMAIN bd => kept = depth
      <4>1. Settled(P, root, depth, pl) /\ BoundsGood(P, root, pl, bd)
        BY DEF P, bd
      <4> QED BY <2>2, <3>1, <4>1, LevelIs
    <3>3. c[kept].lower <= key /\ key < c[kept].upper
      BY <2>5, <2>6 DEF InRange
    <3>4. key < pl[c[kept].pid].upper
      BY <3>2, <3>3
    <3>5. pl[c[kept].pid].lower <= key
      <4>1. CASE c[kept].pid \in DOMAIN bd
        <5>1. kept = depth /\ \A k \in ahead : pl[c[depth].pid].lower <= k
          BY <2>1, <3>2, <4>1 DEF PathGood
        <5> QED BY <5>1
      <4> QED BY <3>2, <3>3, <4>1
    <3>6. ASSUME NEW i \in 1..kept-1 PROVE Linked(P, c, i)
      <4>1. i \in 1..depth-1 /\ (i \in 1..depth-2 \/ i = depth-1)
        BY <1>2, <3>1
      <4>2. CASE i \in 1..depth-2
        BY <2>1, <4>2 DEF PathGood
      <4>3. CASE i = depth-1
        <5>1. kept = depth /\ depth > 1
          BY <1>2, <3>1, <4>3
        <5>2. ~\A k \in ahead : c[depth].upper <= k
          <6>1. c[depth].upper \in Nat /\ key < c[depth].upper
            <7>1. c[depth] \in PathLevel
              BY <1>2, <2>2
            <7> QED BY <3>3, <5>1, <7>1 DEF PathLevel
          <6> QED BY <6>1
        <5> QED BY <2>1, <4>3, <5>1, <5>2 DEF PathGood
      <4> QED BY <4>1, <4>2, <4>3
    <3> QED BY <3>4, <3>5, <3>6 DEF Within
  <2>7. ASSUME kept > 0
        PROVE  \A i \in 1..kept : Within(pl, c[i].pid, key)
    <3> DEFINE T == {n \in Int : Within(pl, c[kept-n].pid, key)}
    <3>1. 0 \in T
      <4>1. kept - 0 = kept
        BY <2>5
      <4> QED BY <2>6, <2>7, <4>1
    <3>2. ASSUME NEW n \in 0+1..kept-1, n-1 \in T PROVE n \in T
      <4> DEFINE i == kept - n
      <4>1. i \in 1..kept-1 /\ i + 1 = kept - (n-1) /\ i \in 1..depth /\ i < depth /\ n \in Int
        BY <1>2, <2>5, <3>2
      <4>2. Within(pl, c[i+1].pid, key) /\ Linked(P, c, i)
        BY <2>6, <2>7, <3>2, <4>1
      <4>3. c[i].pid \in DOMAIN P /\ IsInternal(P, c[i].pid)
        <5>1. Settled(P, root, depth, pl) /\ BoundsGood(P, root, pl, bd) /\ LevelGood(P, pl, bd, c, i)
          BY <2>1, <4>1 DEF P, bd, PathGood
        <5> HIDE DEF i
        <5> QED BY <2>2, <4>1, <5>1, LevelIs
      <4>4. Within(pl, c[i].pid, key)
        <5>1. Settled(P, root, depth, pl)
          BY DEF P
        <5> HIDE DEF i
        <5> QED BY <4>2, <4>3, <5>1, LinkedWithin
      <4> QED BY <4>1, <4>4
    <3>3. \A n \in 0..kept-1 : n \in T
      <4>1. 0 \in Int /\ kept-1 \in Int
        BY <2>5
      <4> HIDE DEF T
      <4> QED BY <3>1, <3>2, <4>1, UpTo
    <3>4. ASSUME NEW i \in 1..kept PROVE Within(pl, c[i].pid, key)
      <4>1. kept - i \in 0..kept-1 /\ kept - (kept - i) = i
        BY <2>5
      <4>2. kept - i \in T
        BY <3>3, <4>1
      <4> QED BY <4>1, <4>2
    <3> QED BY <3>4
  <2>8. kept = 0 \/ kept > 0
    BY <1>2, <2>5
  <2>9. kept \in 0..Len(c) /\ Len(c) \in Nat
    BY <1>2, <2>2, <2>5
  <2> QED BY <2>1, <2>5, <2>6, <2>7, <2>8, <2>9 DEF kept, c, P, bd
<1> QED BY <1>3, <1>4
-----------------------------------------------------------------------------

(* A tree at rest, its objects included, and a key to look for in it. *)
AtRest(t, pl) ==
  /\ Settled(t.page, t.header.root, t.header.depth, pl)
  /\ BoundsGood(t.page, t.header.root, pl, t.bounds)

Sought(t, pl, key) == AtRest(t, pl) /\ key \in Nat /\ key < EndsBy

(* A block on the way to the key. *)
Stands(t, pl, level, i, key) ==
  /\ level \in PathLevel /\ level.pid \in DOMAIN t.page /\ pl[level.pid].level = i
  /\ <<level.lower, level.upper>> = Shown(pl, t.bounds, level.pid)
  /\ Within(pl, level.pid, key)

Leads(P, level) == level.index \in 0..Len(P[level.pid].kids)-1

Led(P, level) == P[level.pid].kids[level.index + 1].value

Turned(t, level, key) == [level EXCEPT !.index = ChildIndex(t, level, key)]

(* The start of the way down, and one step of it. *)
RootLevel(t) == Level(t.header.root, 0, ObjectBounds(t, t.header.root, 0, EndsBy))

From(t, kept) ==
  IF kept > 0 THEN SubSeq(t.cursor, 1, kept)
  ELSE <<RootLevel(t)>>

LevelOf(t, kept, prev, i) == IF i <= Len(From(t, kept)) THEN From(t, kept)[i] ELSE Child(t, prev)

NextLevel(t, kept, key, prev, i) ==
  IF i < Len(From(t, kept)) \/ i = t.header.depth THEN LevelOf(t, kept, prev, i)
  ELSE Turned(t, LevelOf(t, kept, prev, i), key)

WayTo(t, kept, key) ==
  CHOOSE path : path = [i \in 1..t.header.depth |-> NextLevel(t, kept, key, path[i - 1], i)]

(* The recursive function of PathTo is defined. *)
LEMMA WayExists ==
  ASSUME NEW t, NEW kept, NEW key, t.header.depth \in Nat,
         Len(From(t, kept)) \in Nat, Len(From(t, kept)) >= 1
  PROVE  /\ \A i \in 1..t.header.depth :
              WayTo(t, kept, key)[i] = NextLevel(t, kept, key, WayTo(t, kept, key)[i - 1], i)
         /\ PathTo(t, kept, key) = SubSeq(WayTo(t, kept, key), 1, t.header.depth)
<1> DEFINE N == t.header.depth
           Step(c, i) == NextLevel(t, kept, key, c, i)
           IsWay(h, n) == h = [i \in 1..n |-> Step(h[i-1], i)]
           S == {n \in 0..N : \E h : IsWay(h, n)}
<1>a. N \in Nat /\ N \in Int /\ 0 \in 0..N /\ 0 \in Int
  OBVIOUS
<1>0. \A c, d : Step(c, 1) = Step(d, 1)
  BY DEF NextLevel, LevelOf
<1>1. 0 \in S
  <2> HIDE DEF Step
  <2> DEFINE h == [i \in 1..0 |-> 0]
  <2>1. h = [i \in 1..0 |-> Step(h[i-1], i)]
    OBVIOUS
  <2>2. IsWay(h, 0)
    BY <2>1
  <2> HIDE DEF IsWay, N
  <2> QED BY <1>a, <2>2
<1>2. ASSUME NEW n \in 0+1..N, n-1 \in S PROVE n \in S
  <2>1. PICK h : IsWay(h, n-1)
    BY <1>2
  <2> HIDE DEF Step
  <2> DEFINE g == [i \in 1..n |-> IF i = n THEN Step(h[n-1], n) ELSE h[i]]
  <2>2. \A i \in 1..n-1 : h[i] = Step(h[i-1], i)
    BY <2>1
  <2>3. ASSUME NEW i \in 1..n PROVE g[i] = Step(g[i-1], i)
    <3>1. i # 1 => i-1 \in 1..n /\ i-1 # n
      OBVIOUS
    <3>2. i # 1 => g[i-1] = h[i-1]
      BY <3>1
    <3>3. g[i] = IF i = n THEN Step(h[n-1], n) ELSE h[i]
      OBVIOUS
    <3> HIDE DEF g
    <3>4. i # n => i \in 1..n-1
      OBVIOUS
    <3> QED BY <1>0, <2>2, <3>2, <3>3, <3>4
  <2>4. g = [i \in 1..n |-> g[i]]
    OBVIOUS
  <2>5. IsWay(g, n)
    <3> HIDE DEF g
    <3> QED BY <2>3, <2>4
  <2> HIDE DEF IsWay
  <2> QED BY <2>5
<1>3. N \in S
  <2>1. \A n \in 0..N : n \in S
    <3> HIDE DEF S, N
    <3> QED BY <1>a, <1>1, <1>2, UpTo
  <2> QED BY <1>a, <2>1
<1> DEFINE way == WayTo(t, kept, key)
<1>4. IsWay(way, N)
  <2>1. PICK h : IsWay(h, N)
    BY <1>3
  <2> QED BY <2>1 DEF WayTo
<1>5. \A i \in 1..N : way[i] = Step(way[i-1], i)
  <2> HIDE DEF way, Step
  <2> QED BY SMTT(30), <1>4
<1>6. PathTo(t, kept, key) = SubSeq(way, 1, N)
  BY DEF PathTo, WayTo, NextLevel, LevelOf, From, Turned, RootLevel
<1> QED BY <1>5, <1>6

-----------------------------------------------------------------------------
(* The child a block leads to stands on the way, if the index is the one   *)
(* of the key.                                                             *)
Directs(t, pl, level, i, key) ==
  /\ Leads(t.page, level)
  /\ Child(t, level).pid = Led(t.page, level)
  /\ Stands(t, pl, Child(t, level), i + 1, key)

(* The next level of a search is the child that holds the key. *)
LEMMA ChildStands ==
  ASSUME NEW t, NEW pl, NEW key, Sought(t, pl, key), NEW i \in Nat, i < t.header.depth,
         NEW level, Stands(t, pl, level, i, key), level.index = ChildIndex(t, level, key)
  PROVE  Directs(t, pl, level, i, key)
<1> DEFINE P == t.page
           p == level.pid
           s == P[p].kids
           j == level.index + 1
           q == s[j].value
           up == IF j = Len(s) THEN level.upper ELSE s[j + 1].key
           root == t.header.root
           depth == t.header.depth
<1>0. Settled(P, root, depth, pl) /\ BoundsGood(P, root, pl, t.bounds) /\ key \in Nat
  BY DEF Sought, AtRest
<1>1. /\ Nodes(P) /\ Placed(P, depth, pl) /\ depth \in Nat /\ p \in DOMAIN P /\ pl[p].level = i
  BY <1>0 DEF Settled, Laid, Placed, Stands
<1>2. IsInternal(P, p) /\ Within(pl, p, key)
  <2>1. Within(pl, p, key)
    BY DEF Stands
  <2>2. IsInternal(P, p) <=> pl[p].level < depth
    BY <1>1 DEF Placed
  <2> QED BY <1>1, <2>1, <2>2
<1>3. /\ level.index \in 0..Len(s)-1 /\ q \in DOMAIN P /\ Within(pl, q, key)
      /\ pl[q].level = i + 1
  <2>1. GoesTo(t.page, pl, level.pid, level.index, key)
    BY <1>0, <1>1, <1>2, ChildIndexIs
  <2> QED BY <1>1, <2>1 DEF GoesTo
<1>4. KidsSound(P, pl, 0, 0, 0, p)
  BY <1>0, <1>1, <1>2 DEF Settled, Laid, PagesSound
<1>5. Len(s) \in Nat /\ j \in 1..Len(s) /\ s[j].key \in Nat /\ q # 0
  <2> HIDE DEF p
  <2>1. Len(s) \in Nat /\ \A k \in 1..Len(s) : s[k].key \in Nat /\ s[k].value # 0
    BY <1>1, <1>2, KidsAre
  <2>2. j \in 1..Len(s)
    BY SMTT(30), <1>3, <2>1
  <2> HIDE DEF j
  <2> QED BY <2>1, <2>2
<1>6. pl[q].lower = s[j].key /\ pl[q].upper = IF j = Len(s) THEN pl[p].upper ELSE s[j+1].key
  BY <1>4, <1>5 DEF KidsSound, KidSound, Top
<1>7. p \notin DOMAIN t.bounds
  BY <1>0, <1>2 DEF BoundsGood
<1>8. level.upper = pl[p].upper
  BY <1>7 DEF Stands, Shown
<1>9. pl[q].lower \in Nat /\ pl[q].upper \in Nat /\ q \in Nat
  <2> HIDE DEF q, P, depth
  <2>1. q \in DOMAIN P
    BY <1>3
  <2>2. pl[q].lower \in Nat /\ pl[q].upper \in Nat
    BY <1>1, <2>1, SpotIs
  <2>3. q \in Nat
    BY <1>1, <2>1 DEF Nodes
  <2> QED BY <2>2, <2>3
<1>10. Child(t, level) = Level(q, 0, ObjectBounds(t, q, pl[q].lower, pl[q].upper))
  BY <1>6, <1>8 DEF Child
<1>11. ObjectBounds(t, q, pl[q].lower, pl[q].upper) = Shown(pl, t.bounds, q)
  BY DEF ObjectBounds, Shown
<1> DEFINE b == Shown(pl, t.bounds, q)
<1>12. b \in Nat \X Nat
  <2>1. q \in DOMAIN t.bounds => t.bounds[q] \in Nat \X Nat
    BY <1>0 DEF BoundsGood
  <2> QED BY <1>9, <2>1, ZenonT(40) DEF Shown
<1>13. Child(t, level) = [pid |-> q, index |-> 0, lower |-> b[1], upper |-> b[2]]
  BY <1>10, <1>11 DEF Level
<1>14. Child(t, level) \in PathLevel /\ Child(t, level).pid = q
       /\ <<Child(t, level).lower, Child(t, level).upper>> = b
  <2> HIDE DEF b, q
  <2> QED BY SMTT(30), <1>9, <1>12, <1>13 DEF PathLevel
<1>15. Stands(t, pl, Child(t, level), i + 1, key)
  BY <1>3, <1>14 DEF Stands
<1> QED BY <1>3, <1>14, <1>15 DEF Leads, Led, Directs

(* The root stands on the way to every key. *)
LEMMA RootStands ==
  ASSUME NEW t, NEW pl, NEW key, Sought(t, pl, key)
  PROVE  Stands(t, pl, RootLevel(t), 1, key)
<1> DEFINE root == t.header.root
<1>0. Settled(t.page, root, t.header.depth, pl) /\ BoundsGood(t.page, root, pl, t.bounds)
      /\ key \in Nat /\ key < EndsBy
  BY DEF Sought, AtRest
<1>1. root \in DOMAIN t.page /\ pl[root].level = 1 /\ pl[root].lower = 0 /\ pl[root].upper = EndsBy
      /\ Within(pl, root, key)
  BY <1>0, RootWithin
<1>2. root \in Nat
  BY <1>0, <1>1, NodeIs DEF Settled, Laid
<1>3. root \notin DOMAIN t.bounds
  BY <1>0 DEF BoundsGood
<1> DEFINE l == RootLevel(t)
<1>4. l = [pid |-> root, index |-> 0, lower |-> 0, upper |-> EndsBy]
  BY <1>3 DEF Level, ObjectBounds, RootLevel
<1> HIDE DEF l
<1>5. Shown(pl, t.bounds, root) = <<0, EndsBy>>
  BY <1>1, <1>3 DEF Shown
<1>6. Stands(t, pl, l, 1, key)
  BY <1>1, <1>2, <1>4, <1>5, ConstantsAre DEF Stands, PathLevel
<1> QED BY <1>6 DEF l

(* Setting the index of a block leaves it where it stands. *)
LEMMA TurnedStands ==
  ASSUME NEW t, NEW pl, NEW key, Sought(t, pl, key), NEW i \in Nat, i < t.header.depth,
         NEW level, Stands(t, pl, level, i, key)
  PROVE  /\ Stands(t, pl, Turned(t, level, key), i, key)
         /\ Turned(t, level, key).pid = level.pid
         /\ Turned(t, level, key).index = ChildIndex(t, Turned(t, level, key), key)
<1> DEFINE l == Turned(t, level, key)
           c == ChildIndex(t, level, key)
<1>1. level \in PathLevel
  BY DEF Stands
<1>2. l = [level EXCEPT !.index = c]
  BY DEF Turned
<1>3. c \in Int
  <2>1. level.pid \in DOMAIN t.page /\ IsInternal(t.page, level.pid) /\ Within(pl, level.pid, key)
        /\ Nodes(t.page) /\ Settled(t.page, t.header.root, t.header.depth, pl) /\ key \in Nat
    BY DEF Stands, Settled, Laid, Placed, Sought, AtRest
  <2>2. c \in 0..Len(t.page[level.pid].kids)-1 /\ Len(t.page[level.pid].kids) \in Nat
    BY <2>1, ChildIndexIs, KidsAre DEF GoesTo
  <2> QED BY <2>2
<1> HIDE DEF c, l
<1>4. l \in PathLevel /\ l.pid = level.pid /\ l.lower = level.lower /\ l.upper = level.upper
      /\ l.index = c
  BY <1>1, <1>2, <1>3 DEF PathLevel
<1>5. ChildIndex(t, l, key) = c
  BY <1>4 DEF ChildIndex, c
<1>6. Stands(t, pl, l, i, key)
  BY <1>4 DEF Stands
<1> QED BY <1>4, <1>5, <1>6 DEF l
-----------------------------------------------------------------------------

CursorFor(t, pl, ahead) ==
  CursorGood(t.page, t.header.root, t.header.depth, pl, t.bounds, t.cursor, ahead)

(* The start of the way: the levels kept, or the root. *)
Starts(t, pl, key, kept) ==
  LET from == From(t, kept)
  IN  /\ kept \in Nat /\ kept <= t.header.depth /\ kept <= Len(t.cursor)
      /\ Len(from) = IF kept > 0 THEN kept ELSE 1
      /\ \A i \in 1..Len(from) : Stands(t, pl, from[i], i, key)
      /\ \A i \in 1..kept : from[i] = t.cursor[i]
      /\ \A i \in 1..kept-1 : Linked(t.page, t.cursor, i)

(* The levels that a search keeps, or the root, are where it can start. *)
LEMMA FromStands ==
  ASSUME NEW t, NEW pl, NEW key, Sought(t, pl, key), NEW ahead, key \in ahead, CursorFor(t, pl, ahead)
  PROVE  Starts(t, pl, key, LevelsKept(t, key))
<1> DEFINE kept == LevelsKept(t, key)
           from == From(t, kept)
           c == t.cursor
           P == t.page
           bd == t.bounds
           root == t.header.root
           depth == t.header.depth
<1>0. /\ Settled(P, root, depth, pl) /\ BoundsGood(P, root, pl, bd) /\ key \in Nat /\ key < EndsBy
      /\ CursorGood(P, root, depth, pl, bd, c, ahead)
  BY DEF Sought, AtRest, CursorFor
<1>1. /\ kept \in 0..Len(c) /\ Len(c) \in Nat
      /\ kept > 0 => PathGood(P, root, depth, pl, bd, c, ahead)
      /\ \A i \in 1..kept : Within(pl, c[i].pid, key)
      /\ \A i \in 1..kept-1 : Linked(P, c, i)
  BY <1>0, KeptFound
<1>2. depth \in Nat /\ depth > 0
  BY <1>0 DEF Settled, Laid, Placed
<1>3. CASE kept > 0
  <2>1. /\ c \in Seq(PathLevel) /\ Len(c) = depth /\ \A i \in 1..depth : LevelGood(P, pl, bd, c, i)
    BY <1>1, <1>3 DEF PathGood
  <2>2. from = SubSeq(c, 1, kept)
    BY <1>3 DEF From
  <2>3. Len(from) = kept /\ \A i \in 1..kept : from[i] = c[i]
    <3> HIDE DEF kept, from, c, P, bd, depth
    <3>1. kept \in Nat /\ kept <= Len(c)
      BY <1>1
    <3> QED BY <1>3, <2>1, <2>2, <3>1
  <2>4. ASSUME NEW i \in 1..kept PROVE Stands(t, pl, from[i], i, key)
    <3>1. i \in 1..depth /\ from[i] = c[i] /\ c[i] \in PathLevel
      <4> HIDE DEF kept, from, c, P, bd, depth
      <4> QED BY <1>1, <2>1, <2>3
    <3>2. Within(pl, c[i].pid, key) /\ LevelGood(P, pl, bd, c, i)
      BY <1>1, <2>1, <3>1
    <3> HIDE DEF from
    <3> QED BY <3>1, <3>2 DEF Stands, LevelGood
  <2> HIDE DEF kept, from
  <2> QED BY <1>1, <1>3, <2>1, <2>3, <2>4 DEF kept, from, Starts
<1>4. CASE kept = 0
  <2> DEFINE l == RootLevel(t)
  <2>1. from = <<l>>
    BY <1>4 DEF From
  <2>2. Stands(t, pl, l, 1, key)
    BY RootStands
  <2> HIDE DEF from, l
  <2>3. Len(from) = 1 /\ from[1] = l
    BY <2>1
  <2>4. \A i \in 1..Len(from) : Stands(t, pl, from[i], i, key)
    BY <2>2, <2>3
  <2>5. Starts(t, pl, key, kept)
    <3> HIDE DEF kept
    <3> QED BY <1>1, <1>2, <1>4, <2>3, <2>4 DEF from, Starts
  <2> QED BY <2>5
<1>5. kept > 0 \/ kept = 0
  <2> HIDE DEF kept
  <2> QED BY <1>1
<1> QED BY <1>3, <1>4, <1>5

(* One step down: the block i of the way, for the level it is made from. *)
Steps(t, pl, key, L, i, level, next) ==
  /\ Stands(t, pl, next, i, key) /\ next.pid = level.pid
  /\ L <= i /\ i < t.header.depth => next.index = ChildIndex(t, next, key)
  /\ i < L => next = level

(* One level of a search: kept as it is, or turned to the key. *)
LEMMA WayStep ==
  ASSUME NEW t, NEW pl, NEW key, Sought(t, pl, key), t.header.depth \in Nat,
         NEW L \in Nat, NEW i \in Nat, i <= t.header.depth,
         NEW level, Stands(t, pl, level, i, key),
         NEW next, next = IF i < L \/ i = t.header.depth THEN level ELSE Turned(t, level, key)
  PROVE  Steps(t, pl, key, L, i, level, next)
<1> DEFINE depth == t.header.depth
<1>2. CASE i < L \/ i = depth
  <2>1. next = level /\ ~(L <= i /\ i < depth)
    BY <1>2
  <2> QED BY <2>1 DEF Steps
<1>3. CASE ~(i < L \/ i = depth)
  <2>1. next = Turned(t, level, key) /\ i < depth /\ ~(i < L)
    BY <1>3
  <2>2. /\ Stands(t, pl, Turned(t, level, key), i, key)
        /\ Turned(t, level, key).pid = level.pid
        /\ Turned(t, level, key).index = ChildIndex(t, Turned(t, level, key), key)
    BY <2>1, TurnedStands
  <2> QED BY <2>1, <2>2 DEF Steps
<1> QED BY <1>2, <1>3

(* A search finds the path to the key, and keeps the blocks it says it     *)
(* keeps.                                                                  *)
Finds(t, pl, key, kept, path) ==
  /\ kept \in Nat /\ kept <= t.header.depth /\ kept <= Len(t.cursor)
  /\ Found(t.page, t.header.root, t.header.depth, pl, t.bounds, path, key)
  /\ \A i \in 1..kept : path[i].pid = t.cursor[i].pid

(* A search ends at the leaf of its key, at the levels it has kept and its *)
(* own.                                                                    *)
LEMMA PathFound ==
  ASSUME NEW t, NEW pl, NEW key, Sought(t, pl, key), NEW ahead, key \in ahead, CursorFor(t, pl, ahead)
  PROVE  Finds(t, pl, key, LevelsKept(t, key), PathTo(t, LevelsKept(t, key), key))
<1> DEFINE kept == LevelsKept(t, key)
           path == PathTo(t, kept, key)
           from == From(t, kept)
           c == t.cursor
           P == t.page
           bd == t.bounds
           root == t.header.root
           depth == t.header.depth
           L == Len(from)
           f == WayTo(t, kept, key)
<1>1. /\ kept \in Nat /\ kept <= depth /\ kept <= Len(c)
      /\ L = IF kept > 0 THEN kept ELSE 1
      /\ \A i \in 1..L : Stands(t, pl, from[i], i, key)
      /\ \A i \in 1..kept : from[i] = c[i]
      /\ \A i \in 1..kept-1 : Linked(P, c, i)
  <2>1. Starts(t, pl, key, kept)
    BY FromStands
  <2> HIDE DEF kept
  <2> QED BY <2>1 DEF Starts
<1>2. depth \in Nat /\ depth > 0 /\ Settled(P, root, depth, pl) /\ key \in Nat /\ key < EndsBy
  BY DEF Sought, AtRest, Settled, Laid, Placed
<1>3. L \in 1..depth /\ L \in Nat /\ L >= 1
  <2> HIDE DEF L, kept, from
  <2> QED BY <1>1, <1>2
<1>4. /\ \A i \in 1..depth : f[i] = NextLevel(t, kept, key, f[i-1], i)
      /\ path = SubSeq(f, 1, depth)
  <2> HIDE DEF kept
  <2> QED BY <1>2, <1>3, WayExists
<1> DEFINE Good(i) ==
      /\ Stands(t, pl, f[i], i, key)
      /\ L <= i /\ i < depth => f[i].index = ChildIndex(t, f[i], key)
      /\ i < L => f[i] = from[i]
      /\ i <= L => f[i].pid = from[i].pid
      /\ i > 1 => Leads(P, f[i-1]) /\ Led(P, f[i-1]) = f[i].pid
<1>5. ASSUME NEW i \in 1..depth, NEW level, level = LevelOf(t, kept, f[i-1], i),
             Stands(t, pl, level, i, key)
      PROVE  Steps(t, pl, key, L, i, level, f[i])
  <2>1. f[i] = IF i < L \/ i = depth THEN level ELSE Turned(t, level, key)
    BY <1>4, <1>5 DEF NextLevel
  <2>2. i \in Nat /\ i <= depth
    BY <1>2
  <2> HIDE DEF kept, f, L
  <2> QED BY <1>2, <1>3, <1>5, <2>1, <2>2, WayStep
<1>6. ASSUME NEW i \in 1..L
      PROVE  Steps(t, pl, key, L, i, from[i], f[i])
  <2>1. i \in 1..depth /\ from[i] = LevelOf(t, kept, f[i-1], i) /\ Stands(t, pl, from[i], i, key)
    <3> HIDE DEF f
    <3>1. i <= Len(from) /\ i \in 1..depth
      BY <1>1, <1>2, <1>3
    <3> QED BY <1>1, <3>1 DEF LevelOf
  <2> HIDE DEF f, kept, from, P, bd, L
  <2> QED BY <1>5, <2>1
<1>7. Good(1)
  <2>1. 1 \in 1..L /\ ~(1 > 1)
    BY <1>3
  <2> HIDE DEF f, kept, from, P, bd, L
  <2> QED BY <1>6, <2>1 DEF Steps
<1>8. ASSUME NEW i \in 1+1..depth, Good(i-1) PROVE Good(i)
  <2>1. i-1 \in 1..depth-1 /\ i \in 1..depth /\ i = (i-1)+1 /\ i > 1 /\ i-1 \in Nat /\ i-1 < depth
    BY <1>2
  <2>2. CASE i <= L
    <3>1. i \in 1..L /\ i-1 \in 1..L /\ i-1 < L /\ L = kept /\ i-1 \in 1..kept-1
            /\ i \in 1..kept /\ i-1 \in 1..kept
      <4> HIDE DEF f, kept, from, P, bd, L
      <4> QED BY <1>1, <1>3, <2>1, <2>2
    <3>1a. Steps(t, pl, key, L, i, from[i], f[i]) /\ f[i-1] = from[i-1]
      <4> HIDE DEF f, kept, from, P, bd, L, c
      <4> QED BY <1>6, <1>8, <3>1
    <3>2. f[i-1] = c[i-1] /\ f[i].pid = c[i].pid /\ Linked(P, c, i-1)
      <4> HIDE DEF f, kept, from, P, bd, L, c
      <4> QED BY <1>1, <3>1, <3>1a DEF Steps
    <3>3. Leads(P, f[i-1]) /\ Led(P, f[i-1]) = f[i].pid
      <4> HIDE DEF f, kept, from, P, bd, L, c
      <4> QED BY <2>1, <3>2 DEF Linked, Leads, Led
    <3> HIDE DEF f, kept, from, P, bd, L, c
    <3> QED BY <2>1, <3>1, <3>1a, <3>3 DEF Steps
  <2>3. CASE ~(i <= L)
    <3>1. L <= i-1 /\ i-1 < depth /\ ~(i < L) /\ ~(i <= L)
      <4> HIDE DEF f, kept, from, P, bd, L
      <4> QED BY <1>1, <1>2, <1>3, <2>1, <2>3
    <3> DEFINE level == Child(t, f[i-1])
    <3>2. /\ Leads(P, f[i-1]) /\ level.pid = Led(P, f[i-1])
          /\ Stands(t, pl, level, i, key)
      <4>1. Stands(t, pl, f[i-1], i-1, key) /\ f[i-1].index = ChildIndex(t, f[i-1], key)
        BY <1>8, <3>1
      <4> HIDE DEF f
      <4>2. Directs(t, pl, f[i-1], i-1, key)
        BY <2>1, <4>1, ChildStands
      <4> QED BY <2>1, <4>2 DEF Directs
    <3>3. level = LevelOf(t, kept, f[i-1], i)
      BY <3>1 DEF LevelOf
    <3> HIDE DEF f, kept, from, P, bd, L, c, level
    <3>4. Steps(t, pl, key, L, i, level, f[i])
      BY <1>5, <2>1, <3>2, <3>3
    <3> QED BY <2>1, <3>1, <3>2, <3>4 DEF Steps
  <2> QED BY <2>2, <2>3
<1>9. \A i \in 1..depth : Good(i)
  <2> DEFINE S == {i \in 1..depth : Good(i)}
  <2>1. 1 \in S /\ 1 \in Int /\ depth \in Int
    <3> HIDE DEF Good
    <3> QED BY <1>2, <1>7
  <2>2. ASSUME NEW i \in 1+1..depth, i-1 \in S PROVE i \in S
    <3> HIDE DEF Good
    <3>1. i \in 1..depth
      BY <1>2
    <3> QED BY <1>8, <2>2, <3>1
  <2>3. \A i \in 1..depth : i \in S
    <3> HIDE DEF S
    <3> QED BY <2>1, <2>2, UpTo
  <2> HIDE DEF Good
  <2> QED BY <2>3
<1>10. /\ path \in Seq(PathLevel) /\ Len(path) = depth /\ \A i \in 1..depth : path[i] = f[i]
  <2>1. \A i \in 1..depth : f[i] \in PathLevel
    BY <1>9 DEF Stands
  <2> HIDE DEF f, path
  <2>2. 1 \in Int /\ depth \in Int /\ depth - 1 + 1 = depth
    BY <1>2
  <2>3. SubSeq(f, 1, depth) \in Seq(PathLevel)
        /\ Len(SubSeq(f, 1, depth)) = (IF 1 <= depth THEN depth-1+1 ELSE 0)
        /\ \A i \in 1..depth-1+1 : SubSeq(f, 1, depth)[i] = f[1+i-1]
    BY <2>1, <2>2, SubSeqProperties
  <2>4. \A i \in 1..depth : 1+i-1 = i /\ i \in 1..depth-1+1
    BY <1>2
  <2>5. 1 <= depth
    BY <1>2
  <2> QED BY <1>4, <2>2, <2>3, <2>4, <2>5
<1> HIDE DEF path, f
<1>11. Found(P, root, depth, pl, bd, path, key)
  <2>1. path[1].pid = root
    <3>1. 1 \in 1..depth /\ path[1] = f[1] /\ Stands(t, pl, f[1], 1, key)
      BY <1>2, <1>9, <1>10
    <3>2. root \in DOMAIN P /\ pl[root].level = 1 /\ Within(pl, root, key)
      BY <1>2, RootWithin
    <3>3. f[1].pid \in DOMAIN P /\ pl[f[1].pid].level = 1 /\ Within(pl, f[1].pid, key)
      BY <3>1 DEF Stands
    <3> HIDE DEF root, P, depth
    <3>4. f[1].pid = root
      BY <1>2, <3>2, <3>3, OnlyPlace DEF Settled
    <3> QED BY <3>1, <3>4
  <2>2. ASSUME NEW i \in 1..depth PROVE LevelGood(P, pl, bd, path, i) /\ Within(pl, path[i].pid, key)
    <3>1. Stands(t, pl, path[i], i, key)
      BY <1>9, <1>10
    <3> QED BY <3>1 DEF Stands, LevelGood
  <2>3. ASSUME NEW i \in 1..depth-1 PROVE Linked(P, path, i)
    <3>1. i \in 1..depth /\ i+1 \in 1..depth /\ (i+1)-1 = i /\ i+1 > 1
      BY <1>2
    <3>2. Leads(P, f[(i+1)-1]) /\ Led(P, f[(i+1)-1]) = f[i+1].pid
      <4>1. Good(i+1)
        BY <1>9, <3>1
      <4> QED BY <3>1, <4>1
    <3>3. path[i] = f[i] /\ path[i+1] = f[i+1]
      BY <1>10, <3>1
    <3>4. Leads(P, path[i]) /\ Led(P, path[i]) = path[i+1].pid
      BY <3>1, <3>2, <3>3
    <3> HIDE DEF P
    <3> QED BY <3>4 DEF Linked, Leads, Led
  <2> QED BY <1>10, <2>1, <2>2, <2>3 DEF Found
<1>12. \A i \in 1..kept : path[i].pid = c[i].pid
  <2>1. ASSUME NEW i \in 1..kept PROVE path[i].pid = c[i].pid
    <3>1. i \in 1..depth /\ i <= L /\ i \in 1..L /\ from[i] = c[i]
      <4> HIDE DEF kept, L, from, c
      <4> QED BY <1>1, <1>2
    <3>2. f[i].pid = from[i].pid
      BY <1>6, <3>1 DEF Steps
    <3>3. path[i] = f[i]
      BY <1>10, <3>1
    <3> QED BY <3>1, <3>2, <3>3
  <2> QED BY <2>1
<1>13. Finds(t, pl, key, kept, path)
  <2> HIDE DEF kept
  <2> QED BY <1>1, <1>11, <1>12 DEF Finds
<1> QED BY <1>13 DEF path
-----------------------------------------------------------------------------

(* The pins of a page: one of the path, one of the tree for its header and *)
(* its root, and one of the half that a split is about to leave.           *)
On(c, p) == IF \E i \in DOMAIN c : c[i].pid = p THEN 1 ELSE 0
Kept(root, p) == IF p \in {0, root} THEN 1 ELSE 0
Held(temp, p) == IF p = temp THEN 1 ELSE 0

PinsGood(D, root, pins_, c, temp) ==
  /\ DOMAIN pins_ = D \cup {0}
  /\ pins_ = [p \in D \cup {0} |-> On(c, p) + Kept(root, p) + Held(temp, p)]

(* The blocks of the path lie on their levels. *)
OnLevels(pl, c) ==
  /\ c \in Seq(PathLevel)
  /\ \A i \in 1..Len(c) : pl[c[i].pid].level = i

(* No two blocks of a path are one. *)
LEMMA CountOne ==
  ASSUME NEW s, NEW n \in Nat, DOMAIN s = 1..n, \A i, j \in 1..n : s[i] = s[j] => i = j, NEW q
  PROVE  Cardinality({i \in DOMAIN s : s[i] = q}) = IF \E i \in 1..n : s[i] = q THEN 1 ELSE 0
<1> DEFINE T == {i \in DOMAIN s : s[i] = q}
<1>1. CASE \E i \in 1..n : s[i] = q
  <2>1. PICK i \in 1..n : s[i] = q
    BY <1>1
  <2>2. T = {i}
    BY <2>1
  <2>3. Cardinality(T) = 1
    BY <2>2, FS_Singleton
  <2> QED BY <1>1, <2>3
<1>2. CASE ~\E i \in 1..n : s[i] = q
  <2>1. T = {}
    BY <1>2
  <2>2. Cardinality(T) = 0
    BY <2>1, FS_EmptySet
  <2> QED BY <1>2, <2>2
<1> QED BY <1>1, <1>2

(* The pins of the rest of a path. *)
Rest(c, kept, q) ==
  LET s == Pids(SubSeq(c, kept + 1, Len(c)))
  IN  Cardinality({i \in DOMAIN s : s[i] = q})
        = IF \E i \in kept+1..Len(c) : c[i].pid = q THEN 1 ELSE 0

(* The pages of a cursor below a level are pinned once each. *)
LEMMA RestPins ==
  ASSUME NEW pl, NEW c, OnLevels(pl, c), NEW kept \in Nat, kept <= Len(c), NEW q
  PROVE  Rest(c, kept, q)
<1> DEFINE m == Len(c)
           r == SubSeq(c, kept + 1, m)
           s == Pids(r)
           n == m - kept
<1>1. c \in Seq(PathLevel) /\ m \in Nat /\ DOMAIN c = 1..m /\ n \in Nat
  BY DEF OnLevels
<1>2. /\ r \in Seq(PathLevel) /\ Len(r) = n /\ DOMAIN r = 1..n
      /\ \A i \in 1..n : r[i] = c[kept + i]
  <2> HIDE DEF m
  <2>1. kept + 1 \in Int /\ m \in Int /\ \A i \in kept+1..m : c[i] \in PathLevel
    BY <1>1
  <2>2. /\ SubSeq(c, kept+1, m) \in Seq(PathLevel)
        /\ Len(SubSeq(c, kept+1, m)) = (IF kept+1 <= m THEN m-(kept+1)+1 ELSE 0)
        /\ \A i \in 1..m-(kept+1)+1 : SubSeq(c, kept+1, m)[i] = c[(kept+1)+i-1]
    BY <2>1, SubSeqProperties
  <2>3. (IF kept+1 <= m THEN m-(kept+1)+1 ELSE 0) = n /\ m-(kept+1)+1 = n
    BY <1>1
  <2>4. \A i \in 1..n : (kept+1)+i-1 = kept + i
    BY <1>1
  <2> HIDE DEF n
  <2>5. r \in Seq(PathLevel) /\ Len(r) = n /\ \A i \in 1..n : r[i] = c[kept + i]
    BY <2>2, <2>3, <2>4
  <2>6. DOMAIN r = 1..Len(r)
    <3> HIDE DEF r
    <3> QED BY <2>5
  <2> QED BY <2>5, <2>6
<1>3. DOMAIN s = 1..n /\ \A i \in 1..n : s[i] = c[kept + i].pid
  <2>1. s = [i \in DOMAIN r |-> r[i].pid]
    BY DEF Pids
  <2> HIDE DEF s, r, n
  <2> QED BY <1>2, <2>1
<1>4. \A i \in 1..n : kept + i \in 1..m /\ kept + i \in kept+1..m
  BY <1>1
<1>5. ASSUME NEW i \in 1..n, NEW j \in 1..n, s[i] = s[j] PROVE i = j
  <2>1. pl[c[kept+i].pid].level = kept + i /\ pl[c[kept+j].pid].level = kept + j
    BY <1>4 DEF OnLevels
  <2>2. c[kept+i].pid = c[kept+j].pid
    BY <1>3, <1>5
  <2>3. kept + i = kept + j
    BY <2>1, <2>2
  <2> QED BY <2>3
<1>6. (\E i \in 1..n : s[i] = q) <=> \E i \in kept+1..m : c[i].pid = q
  <2>1. ASSUME NEW i \in 1..n, s[i] = q PROVE \E j \in kept+1..m : c[j].pid = q
    BY <1>3, <1>4, <2>1
  <2>2. ASSUME NEW j \in kept+1..m, c[j].pid = q PROVE \E i \in 1..n : s[i] = q
    <3>1. j - kept \in 1..n /\ kept + (j - kept) = j
      BY <1>1
    <3>2. s[j-kept] = c[j].pid
      BY <1>3, <3>1
    <3> QED BY <2>2, <3>1, <3>2
  <2> QED BY <2>1, <2>2
<1> HIDE DEF s, r, n
<1>7. Cardinality({i \in DOMAIN s : s[i] = q}) = IF \E i \in 1..n : s[i] = q THEN 1 ELSE 0
  BY <1>1, <1>3, <1>5, CountOne, ZenonT(40) DEF n
<1>8. Cardinality({i \in DOMAIN s : s[i] = q}) = IF \E i \in kept+1..m : c[i].pid = q THEN 1 ELSE 0
  BY <1>6, <1>7
<1> QED BY <1>8 DEF s, r, Rest

(* The search moves the pins from the blocks it leaves to those it comes   *)
(* to.                                                                     *)
LEMMA MovedPins ==
  ASSUME NEW D, NEW root, NEW t, PinsGood(D, root, t.pins, t.cursor, -1), -1 \notin D,
         NEW pl, OnLevels(pl, t.cursor), NEW path, OnLevels(pl, path),
         NEW kept \in Nat, kept <= Len(t.cursor), kept <= Len(path),
         \A i \in 1..kept : path[i].pid = t.cursor[i].pid
  PROVE  PinsGood(D, root,
           Pin(Unpin(t.pins, Pids(SubSeq(t.cursor, kept + 1, Len(t.cursor)))),
               Pids(SubSeq(path, kept + 1, Len(path)))), path, -1)
<1> DEFINE c == t.cursor
           a == Pids(SubSeq(c, kept + 1, Len(c)))
           b == Pids(SubSeq(path, kept + 1, Len(path)))
           pins1 == Unpin(t.pins, a)
           pins2 == Pin(pins1, b)
           E == D \cup {0}
<1>1. DOMAIN t.pins = E /\ \A p \in E : t.pins[p] = On(c, p) + Kept(root, p) + Held(-1, p)
  BY DEF PinsGood
<1>2. ASSUME NEW q PROVE Cardinality({i \in DOMAIN a : a[i] = q})
                           = IF \E i \in kept+1..Len(c) : c[i].pid = q THEN 1 ELSE 0
  BY RestPins DEF Rest
<1>3. ASSUME NEW q PROVE Cardinality({i \in DOMAIN b : b[i] = q})
                           = IF \E i \in kept+1..Len(path) : path[i].pid = q THEN 1 ELSE 0
  BY RestPins DEF Rest
<1>4. DOMAIN pins1 = E /\ \A q \in E : pins1[q] = t.pins[q] - Cardinality({i \in DOMAIN a : a[i] = q})
  BY <1>1 DEF Unpin
<1>5. DOMAIN pins2 = E /\ \A q \in E : pins2[q] = pins1[q] + Cardinality({i \in DOMAIN b : b[i] = q})
  BY <1>4 DEF Pin
<1>6. pins2 = [q \in E |-> pins2[q]]
  BY <1>4 DEF Pin
<1>7. /\ Len(c) \in Nat /\ Len(path) \in Nat /\ DOMAIN c = 1..Len(c) /\ DOMAIN path = 1..Len(path)
      /\ \A i \in 1..Len(c) : pl[c[i].pid].level = i
      /\ \A i \in 1..Len(path) : pl[path[i].pid].level = i
  BY DEF OnLevels
<1> HIDE DEF a, b, pins1, pins2, c
<1>8. ASSUME NEW q \in E
      PROVE  pins2[q] = On(path, q) + Kept(root, q) + Held(-1, q)
  <2> DEFINE K == \E i \in 1..kept : c[i].pid = q
             C == \E i \in kept+1..Len(c) : c[i].pid = q
             B == \E i \in kept+1..Len(path) : path[i].pid = q
  <2>1. On(c, q) = (IF K THEN 1 ELSE 0) + (IF C THEN 1 ELSE 0)
    <3>1. ~(K /\ C)
      <4>1. ASSUME NEW i \in 1..kept, c[i].pid = q, NEW j \in kept+1..Len(c), c[j].pid = q PROVE FALSE
        <5>1. i \in 1..Len(c) /\ j \in 1..Len(c) /\ i # j
          BY <1>7, <4>1 DEF c
        <5>2. pl[q].level = i /\ pl[q].level = j
          BY <1>7, <4>1, <5>1
        <5> QED BY <5>1, <5>2
      <4> QED BY <4>1
    <3>2. (\E i \in DOMAIN c : c[i].pid = q) <=> K \/ C
      <4>1. \A i \in 1..kept : i \in 1..Len(c)
        BY <1>7 DEF c
      <4>2. \A i \in kept+1..Len(c) : i \in 1..Len(c)
        BY <1>7
      <4>3. \A i \in 1..Len(c) : i \in 1..kept \/ i \in kept+1..Len(c)
        BY <1>7
      <4> QED BY <1>7, <4>1, <4>2, <4>3
    <3> HIDE DEF K, C
    <3> QED BY <3>1, <3>2 DEF On
  <2>2. On(path, q) = (IF K THEN 1 ELSE 0) + (IF B THEN 1 ELSE 0)
    <3>0. \A i \in 1..kept : path[i].pid = c[i].pid
      BY DEF c
    <3>1. ~(K /\ B)
      <4>1. ASSUME NEW i \in 1..kept, c[i].pid = q, NEW j \in kept+1..Len(path),
                   path[j].pid = q PROVE FALSE
        <5>1. i \in 1..Len(path) /\ j \in 1..Len(path) /\ i # j /\ path[i].pid = q
          BY <1>7, <3>0, <4>1
        <5>2. pl[q].level = i /\ pl[q].level = j
          BY <1>7, <4>1, <5>1
        <5> QED BY <5>1, <5>2
      <4> QED BY <4>1
    <3>2. (\E i \in DOMAIN path : path[i].pid = q) <=> K \/ B
      <4>1. \A i \in 1..kept : i \in 1..Len(path)
        BY <1>7
      <4>2. \A i \in kept+1..Len(path) : i \in 1..Len(path)
        BY <1>7
      <4>3. \A i \in 1..Len(path) : i \in 1..kept \/ i \in kept+1..Len(path)
        BY <1>7
      <4> QED BY <1>7, <3>0, <4>1, <4>2, <4>3
    <3> HIDE DEF K, B
    <3> QED BY <3>1, <3>2 DEF On
  <2>3. pins2[q] = t.pins[q] - (IF C THEN 1 ELSE 0) + (IF B THEN 1 ELSE 0)
    <3> HIDE DEF E
    <3>1. Cardinality({i \in DOMAIN a : a[i] = q}) = IF C THEN 1 ELSE 0
      BY <1>2
    <3>2. Cardinality({i \in DOMAIN b : b[i] = q}) = IF B THEN 1 ELSE 0
      BY <1>3
    <3> HIDE DEF B, C
    <3> QED BY <1>4, <1>5, <3>1, <3>2
  <2>4. t.pins[q] = On(c, q) + Kept(root, q) + Held(-1, q)
    BY <1>1
  <2>5. On(c, q) \in Int /\ Kept(root, q) \in Int /\ Held(-1, q) \in Int
    BY DEF On, Kept, Held
  <2> DEFINE k == IF K THEN 1 ELSE 0
             o == IF C THEN 1 ELSE 0
             n == IF B THEN 1 ELSE 0
  <2>6. On(c, q) = k + o /\ On(path, q) = k + n /\ pins2[q] = t.pins[q] - o + n
    BY <2>1, <2>2, <2>3
  <2>7. k \in Int /\ o \in Int /\ n \in Int
    OBVIOUS
  <2> HIDE DEF K, C, B, E, k, o, n
  <2> QED BY <2>4, <2>5, <2>6, <2>7
<1>9. pins2 = [q \in E |-> On(path, q) + Kept(root, q) + Held(-1, q)]
  <2> HIDE DEF E
  <2> QED BY <1>6, <1>8
<1>10. PinsGood(D, root, pins2, path, -1)
  BY <1>5, <1>9 DEF PinsGood
<1> QED BY <1>10 DEF pins2, pins1, a, b, c

(* The end of the cursor gives up its pins. *)
LEMMA ClosedPins ==
  ASSUME NEW D, NEW root, NEW t, PinsGood(D, root, t.pins, t.cursor, -1),
         NEW pl, OnLevels(pl, t.cursor)
  PROVE  PinsGood(D, root, Unpin(t.pins, Pids(t.cursor)), <<>>, -1)
<1> DEFINE c == t.cursor
           a == Pids(c)
           pins1 == Unpin(t.pins, a)
           E == D \cup {0}
<1>1. DOMAIN t.pins = E /\ \A p \in E : t.pins[p] = On(c, p) + Kept(root, p) + Held(-1, p)
  BY DEF PinsGood
<1>2. c \in Seq(PathLevel) /\ Len(c) \in Nat /\ DOMAIN c = 1..Len(c)
  BY DEF OnLevels
<1>3. SubSeq(c, 0 + 1, Len(c)) = c
  BY <1>2
<1>4. ASSUME NEW q PROVE Cardinality({i \in DOMAIN a : a[i] = q}) = On(c, q)
  <2>1. Rest(c, 0, q)
    <3>1. 0 \in Nat /\ 0 <= Len(c)
      BY <1>2
    <3> QED BY <3>1, RestPins
  <2> HIDE DEF c
  <2>2. 0+1..Len(c) = DOMAIN c
    BY <1>2
  <2> QED BY <1>3, <2>1, <2>2 DEF On, Rest
<1>5. DOMAIN pins1 = E /\ \A q \in E : pins1[q] = t.pins[q] - Cardinality({i \in DOMAIN a : a[i] = q})
  BY <1>1 DEF Unpin
<1>6. pins1 = [q \in E |-> pins1[q]]
  BY <1>1 DEF Unpin
<1> HIDE DEF pins1, a, c, E
<1>7. ASSUME NEW q \in E PROVE pins1[q] = On(<<>>, q) + Kept(root, q) + Held(-1, q)
  <2>1. On(c, q) \in Int /\ Kept(root, q) \in Int /\ Held(-1, q) \in Int
    BY DEF On, Kept, Held
  <2>2. On(<<>>, q) = 0
    BY DEF On
  <2>3. pins1[q] = On(c, q) + Kept(root, q) + Held(-1, q) - On(c, q)
    <3>1. Cardinality({i \in DOMAIN a : a[i] = q}) = On(c, q)
      BY <1>4
    <3>2. pins1[q] = t.pins[q] - Cardinality({i \in DOMAIN a : a[i] = q})
      BY <1>5
    <3>3. t.pins[q] = On(c, q) + Kept(root, q) + Held(-1, q)
      BY <1>1
    <3> QED BY <2>1, <3>1, <3>2, <3>3
  <2> QED BY <2>1, <2>2, <2>3
<1>8. pins1 = [q \in E |-> On(<<>>, q) + Kept(root, q) + Held(-1, q)]
  BY <1>6, <1>7
<1> QED BY <1>5, <1>8 DEF PinsGood, pins1, a, c, E
-----------------------------------------------------------------------------

(* Nodes keep their kind when there are more pages. *)
LEMMA MoreNodes ==
  ASSUME NEW D, NEW E, D \subseteq E, NEW v \in PageNode(D)
  PROVE  v \in PageNode(E)
<1> DEFINE Q == [key : Key, value : D]
           R == [key : Key, value : E]
<1>1. Q \subseteq R
  OBVIOUS
<1>2. Seq(Q) \subseteq Seq(R)
  <2> HIDE DEF Q, R
  <2> QED BY <1>1, SeqMonotonic
<1>3. CASE v \in [type : {"internal"}, kids : Seq(Q)]
  <2> HIDE DEF Q, R
  <2>1. v \in [type : {"internal"}, kids : Seq(R)]
    BY <1>2, <1>3
  <2> QED BY <2>1 DEF PageNode, Q, R
<1>4. CASE v \notin [type : {"internal"}, kids : Seq(Q)]
  <2> DEFINE F == UNION {[ks -> Value \ {Default}] : ks \in SUBSET Key}
  <2> HIDE DEF F
  <2>1. v \in [type : {"sparse", "dense"}, entries : F, next : D \cup {InvalidPid}]
    BY <1>4 DEF PageNode, F
  <2>2. v \in [type : {"sparse", "dense"}, entries : F, next : E \cup {InvalidPid}]
    BY <2>1
  <2> QED BY <2>2 DEF PageNode, F
<1> QED BY <1>3, <1>4

(* A page cut in two: its layout and the pages. *)
CutLayout(pl, a, n, sp) ==
  [p \in DOMAIN pl \cup {n} |->
     IF p = n THEN [level |-> pl[a].level, lower |-> sp, upper |-> pl[a].upper]
     ELSE IF p = a THEN [level |-> pl[a].level, lower |-> pl[a].lower, upper |-> sp]
     ELSE pl[p]]

CutPages(P, a, n, left, right) == Extended([P EXCEPT ![a] = left], n, right)

Fresh(P) == Cardinality(DOMAIN P) + 1

(* What may be cut, and where. *)
Cuts(P, root, depth, pl, x, a, sp, left, right) ==
  /\ Laid(P, root, depth, pl, 0, 0, x) /\ x \in {0, a} /\ a \in DOMAIN P
  /\ sp \in Nat /\ pl[a].lower < sp /\ sp < pl[a].upper
  /\ left \in PageNode(DOMAIN P \cup {Fresh(P)}) /\ right \in PageNode(DOMAIN P \cup {Fresh(P)})
  /\ left.type = "internal" <=> IsInternal(P, a)
  /\ right.type = "internal" <=> IsInternal(P, a)

HasCut(P, pl, a, sp, left, right, n, P2, pl2) ==
  /\ n \in Nat /\ n > 0 /\ n \notin DOMAIN P /\ n # a /\ a > 0
  /\ DOMAIN P2 = DOMAIN P \cup {n} /\ DOMAIN P2 = 1..n /\ Cardinality(DOMAIN P2) = n
  /\ P2[a] = left /\ P2[n] = right
  /\ \A p \in DOMAIN P : p # a => P2[p] = P[p]
  /\ DOMAIN pl2 = DOMAIN P2
  /\ pl2[n] = [level |-> pl[a].level, lower |-> sp, upper |-> pl[a].upper]
  /\ pl2[a] = [level |-> pl[a].level, lower |-> pl[a].lower, upper |-> sp]
  /\ \A p \in DOMAIN P : p # a => pl2[p] = pl[p]

(* What the pages and the layout are once a page is cut in two. *)
LEMMA CutIs ==
  ASSUME NEW P, NEW root, NEW depth, NEW pl, NEW x, NEW a, NEW sp, NEW left, NEW right,
         Cuts(P, root, depth, pl, x, a, sp, left, right),
         NEW n, n = Fresh(P), NEW P2, P2 = CutPages(P, a, n, left, right),
         NEW pl2, pl2 = CutLayout(pl, a, n, sp)
  PROVE  HasCut(P, pl, a, sp, left, right, n, P2, pl2)
<1> DEFINE D == DOMAIN P
           N == Cardinality(D)
<1>1. Nodes(P) /\ Placed(P, depth, pl) /\ a \in D
  BY DEF Cuts, Laid
<1>2. N \in Nat /\ D = 1..N /\ n = N + 1
  BY <1>1 DEF Nodes, Fresh
<1>3. DOMAIN pl = D
  BY <1>1 DEF Placed
<1> HIDE DEF D, N
<1>4. n \in Nat /\ n > 0 /\ n \notin D /\ n # a /\ a > 0 /\ D \cup {n} = 1..n
  BY <1>1, <1>2
<1>5. /\ DOMAIN P2 = D \cup {n} /\ P2[n] = right /\ P2[a] = left
      /\ \A p \in D : p # a => P2[p] = P[p]
  <2> DEFINE P1 == [P EXCEPT ![a] = left]
  <2>1. DOMAIN P1 = D /\ P1[a] = left /\ \A p \in D : p # a => P1[p] = P[p]
    BY <1>1 DEF D
  <2>2. P2 = [y \in DOMAIN P1 \cup {n} |-> IF y = n THEN right ELSE P1[y]]
    BY DEF CutPages, Extended
  <2> HIDE DEF P1
  <2> QED BY <1>1, <1>4, <2>1, <2>2
<1>6. /\ DOMAIN pl2 = D \cup {n}
      /\ pl2[n] = [level |-> pl[a].level, lower |-> sp, upper |-> pl[a].upper]
      /\ pl2[a] = [level |-> pl[a].level, lower |-> pl[a].lower, upper |-> sp]
      /\ \A p \in D : p # a => pl2[p] = pl[p]
  BY <1>1, <1>3, <1>4 DEF CutLayout
<1>7. Cardinality(1..n) = n
  BY <1>4, IntervalSize
<1>8. DOMAIN P2 = 1..n /\ Cardinality(DOMAIN P2) = n
  BY <1>4, <1>5, <1>7
<1> QED BY <1>4, <1>5, <1>6, <1>8 DEF D, HasCut

(* Whatever the two halves hold, the pages lie apart on their levels, and  *)
(* the other pages are as sound as they were.                              *)
LEMMA CutPlaced ==
  ASSUME NEW P, NEW root, NEW depth, NEW pl, NEW x, NEW a, NEW sp, NEW left, NEW right,
         Cuts(P, root, depth, pl, x, a, sp, left, right),
         NEW n, n = Fresh(P), NEW P2, P2 = CutPages(P, a, n, left, right),
         NEW pl2, pl2 = CutLayout(pl, a, n, sp)
  PROVE  /\ Nodes(P2) /\ Placed(P2, depth, pl2) /\ Apart(P2, pl2) /\ Rooted(P2, root, pl2, a, n)
         /\ \A p \in DOMAIN P : p # a =>
              IF IsInternal(P2, p) THEN KidsSound(P2, pl2, a, n, 0, p) ELSE LeafSound(P2, pl2, 0, p)
<1>1. /\ n \in Nat /\ n > 0 /\ n \notin DOMAIN P /\ n # a /\ a > 0
      /\ DOMAIN P2 = DOMAIN P \cup {n} /\ DOMAIN P2 = 1..n /\ Cardinality(DOMAIN P2) = n
      /\ P2[a] = left /\ P2[n] = right
      /\ \A p \in DOMAIN P : p # a => P2[p] = P[p]
      /\ DOMAIN pl2 = DOMAIN P2
      /\ pl2[n] = [level |-> pl[a].level, lower |-> sp, upper |-> pl[a].upper]
      /\ pl2[a] = [level |-> pl[a].level, lower |-> pl[a].lower, upper |-> sp]
      /\ \A p \in DOMAIN P : p # a => pl2[p] = pl[p]
  <2>1. HasCut(P, pl, a, sp, left, right, n, P2, pl2)
    BY CutIs
  <2> QED BY <2>1 DEF HasCut
<1>2. /\ Nodes(P) /\ Placed(P, depth, pl) /\ PagesSound(P, pl, 0, 0, x) /\ Rooted(P, root, pl, 0, 0)
      /\ Apart(P, pl) /\ a \in DOMAIN P /\ x \in {0, a}
      /\ sp \in Nat /\ pl[a].lower < sp /\ sp < pl[a].upper
      /\ left \in PageNode(DOMAIN P \cup {n}) /\ right \in PageNode(DOMAIN P \cup {n})
      /\ left.type = "internal" <=> IsInternal(P, a)
      /\ right.type = "internal" <=> IsInternal(P, a)
  BY DEF Cuts, Laid
<1>3. \A p \in DOMAIN P : /\ pl[p].level \in Nat /\ pl[p].lower \in Nat /\ pl[p].upper \in Nat
                          /\ pl[p] \in Spot /\ p \in Nat /\ p # 0
                          /\ pl[p].level \in 1..depth /\ pl[p].lower < pl[p].upper
                               /\ pl[p].upper <= EndsBy
                          /\ IsInternal(P, p) <=> pl[p].level < depth
  <2> SUFFICES ASSUME NEW p \in DOMAIN P
               PROVE  /\ pl[p].level \in Nat /\ pl[p].lower \in Nat /\ pl[p].upper \in Nat
                      /\ pl[p] \in Spot /\ p \in Nat /\ p # 0
                      /\ pl[p].level \in 1..depth /\ pl[p].lower < pl[p].upper /\ pl[p].upper <= EndsBy
                      /\ IsInternal(P, p) <=> pl[p].level < depth
    OBVIOUS
  <2>1. p \in Nat /\ p # 0
    BY <1>2 DEF Nodes
  <2> QED BY <1>2, <2>1, SpotIs
<1>4. \A p \in DOMAIN P : IsInternal(P2, p) <=> IsInternal(P, p)
  BY <1>1, <1>2 DEF IsInternal
<1>5. IsInternal(P2, n) <=> IsInternal(P, a)
  BY <1>1, <1>2 DEF IsInternal
<1>6. Nodes(P2)
  <2>1. ASSUME NEW p \in DOMAIN P2 PROVE P2[p] \in PageNode(DOMAIN P2)
    <3>1. CASE p = a \/ p = n
      BY <1>1, <1>2, <3>1
    <3>2. CASE p # a /\ p # n
      <4>1. p \in DOMAIN P /\ P2[p] = P[p] /\ P[p] \in PageNode(DOMAIN P)
        BY <1>1, <1>2, <3>2 DEF Nodes
      <4>2. DOMAIN P \subseteq DOMAIN P2
        BY <1>1
      <4> QED BY <4>1, <4>2, MoreNodes
    <3> QED BY <3>1, <3>2
  <2>2. P2 = [p \in DOMAIN P2 |-> P2[p]]
    BY DEF CutPages, Extended
  <2>3. P2 \in [DOMAIN P2 -> PageNode(DOMAIN P2)]
    BY <2>1, <2>2
  <2> QED BY <1>1, <2>3 DEF Nodes
<1>7. Placed(P2, depth, pl2)
  <2>0. depth \in Nat /\ depth > 0
    BY <1>2 DEF Placed
  <2>1. ASSUME NEW p \in DOMAIN P2
        PROVE  /\ pl2[p] \in Spot /\ pl2[p].level \in 1..depth
               /\ pl2[p].lower < pl2[p].upper /\ pl2[p].upper <= EndsBy
               /\ IsInternal(P2, p) <=> pl2[p].level < depth
    <3>0. EndsBy \in Nat
      BY ConstantsAre
    <3>1. CASE p = a
      <4>1. pl2[p].level = pl[a].level /\ pl2[p].lower = pl[a].lower /\ pl2[p].upper = sp
        BY <1>1, <3>1
      <4>2. pl2[p] \in Spot
        BY <1>1, <1>2, <1>3, <3>1 DEF Spot
      <4> QED BY <1>2, <1>3, <1>4, <3>0, <3>1, <4>1, <4>2
    <3>2. CASE p = n
      <4>1. pl2[p].level = pl[a].level /\ pl2[p].lower = sp /\ pl2[p].upper = pl[a].upper
        BY <1>1, <3>2
      <4>2. pl2[p] \in Spot
        BY <1>1, <1>2, <1>3, <3>2 DEF Spot
      <4> QED BY <1>2, <1>3, <1>5, <3>0, <3>2, <4>1, <4>2
    <3>3. CASE p # a /\ p # n
      <4>1. p \in DOMAIN P /\ pl2[p] = pl[p]
        BY <1>1, <3>3
      <4> QED BY <1>3, <1>4, <4>1
    <3> QED BY <3>1, <3>2, <3>3
  <2>2. pl2 = [p \in DOMAIN P2 |-> pl2[p]]
    <3>1. pl2 = [p \in DOMAIN pl2 |-> pl2[p]]
      BY DEF CutLayout
    <3> QED BY <1>1, <3>1
  <2>3. pl2 \in [DOMAIN P2 -> Spot]
    BY <2>1, <2>2
  <2> QED BY <2>0, <2>1, <2>3 DEF Placed
<1>8. Apart(P2, pl2)
  <2> SUFFICES ASSUME NEW p \in DOMAIN P2, NEW q \in DOMAIN P2, p # q, pl2[p].level = pl2[q].level
               PROVE  pl2[p].upper <= pl2[q].lower \/ pl2[q].upper <= pl2[p].lower
    BY DEF Apart
  <2> DEFINE Origin(r) == IF r = n THEN a ELSE r
  <2>1. ASSUME NEW r \in DOMAIN P2
        PROVE  /\ Origin(r) \in DOMAIN P /\ pl2[r].level = pl[Origin(r)].level
               /\ pl[Origin(r)].lower <= pl2[r].lower /\ pl2[r].upper <= pl[Origin(r)].upper
               /\ pl2[r].lower \in Nat /\ pl2[r].upper \in Nat
    <3>1. CASE r = n
      BY <1>1, <1>2, <1>3, <3>1
    <3>2. CASE r = a
      BY <1>1, <1>2, <1>3, <3>2
    <3>3. CASE r # n /\ r # a
      BY <1>1, <1>2, <1>3, <3>3
    <3> QED BY <3>1, <3>2, <3>3
  <2>2. CASE Origin(p) = Origin(q)
    <3>1. (p = n /\ q = a) \/ (p = a /\ q = n)
      BY <2>2
    <3>2. pl2[a].upper = pl2[n].lower /\ pl2[a].upper = sp
      BY <1>1
    <3>3. pl2[n].lower = sp /\ sp <= sp
      BY <1>1, <1>2
    <3> HIDE DEF Origin
    <3>4. CASE p = n /\ q = a
      BY <3>2, <3>3, <3>4
    <3>5. CASE p = a /\ q = n
      BY <3>2, <3>3, <3>5
    <3> QED BY <3>1, <3>4, <3>5
  <2>3. CASE Origin(p) # Origin(q)
    <3>1. pl[Origin(p)].level = pl[Origin(q)].level
      BY <2>1
    <3>2. pl[Origin(p)].upper <= pl[Origin(q)].lower \/ pl[Origin(q)].upper <= pl[Origin(p)].lower
      <4>1. Origin(p) \in DOMAIN P /\ Origin(q) \in DOMAIN P
        BY <2>1
      <4> HIDE DEF Origin
      <4> QED BY <1>2, <2>3, <3>1, <4>1 DEF Apart
    <3>3. /\ pl[Origin(p)].lower \in Nat /\ pl[Origin(p)].upper \in Nat
          /\ pl[Origin(q)].lower \in Nat /\ pl[Origin(q)].upper \in Nat
      <4>1. Origin(p) \in DOMAIN P /\ Origin(q) \in DOMAIN P
        BY <2>1
      <4> HIDE DEF Origin
      <4> QED BY <1>3, <4>1
    <3>4. /\ pl[Origin(p)].lower <= pl2[p].lower /\ pl2[p].upper <= pl[Origin(p)].upper
          /\ pl2[p].lower \in Nat /\ pl2[p].upper \in Nat
          /\ pl[Origin(q)].lower <= pl2[q].lower /\ pl2[q].upper <= pl[Origin(q)].upper
          /\ pl2[q].lower \in Nat /\ pl2[q].upper \in Nat
      BY <2>1
    <3> HIDE DEF Origin
    <3> QED BY <3>2, <3>3, <3>4
  <2> QED BY <2>2, <2>3
<1>9. Rooted(P2, root, pl2, a, n)
  <2>1. root \in DOMAIN P /\ root # 0 /\ pl[root].level = 1 /\ pl[root].lower = 0
          /\ pl[root].upper = EndsBy
    BY <1>2, <1>3 DEF Rooted, Top
  <2>2. CASE root = a
    BY <1>1, <2>1, <2>2 DEF Rooted, Top
  <2>3. CASE root # a
    BY <1>1, <2>1, <2>3 DEF Rooted, Top
  <2> QED BY <2>2, <2>3
<1>10. ASSUME NEW p \in DOMAIN P, p # a, IsInternal(P2, p)
       PROVE  KidsSound(P2, pl2, a, n, 0, p)
  <2>1. IsInternal(P, p) /\ P2[p] = P[p] /\ pl2[p] = pl[p] /\ p # x /\ p # 0
    BY <1>1, <1>2, <1>3, <1>4, <1>10
  <2>2. KidsSound(P, pl, 0, 0, x, p)
    BY <1>2, <2>1 DEF PagesSound
  <2>3. ASSUME NEW i \in 1..Len(P[p].kids) PROVE KidSound(P2, pl2, a, n, p, i)
    <3> DEFINE q == P[p].kids[i].value
    <3>1. q \in DOMAIN P /\ q # 0
      BY <1>2, <2>1, KidsAre
    <3>2. KidSound(P, pl, 0, 0, p, i)
      BY <2>2 DEF KidsSound
    <3>3. /\ pl[q].level = pl[p].level + 1 /\ pl[q].lower = P[p].kids[i].key
          /\ pl[q].upper = IF i = Len(P[p].kids) THEN pl[p].upper ELSE P[p].kids[i+1].key
      BY <3>1, <3>2 DEF KidSound, Top
    <3>4. q = P2[p].kids[i].value
      BY <2>1
    <3> HIDE DEF q
    <3>5. q # n /\ pl2[q].level = pl[q].level /\ pl2[q].lower = pl[q].lower
          /\ Top(pl2, a, n, q) = pl[q].upper
      <4>1. CASE q = a
        BY <1>1, <4>1 DEF Top
      <4>2. CASE q # a
        BY <1>1, <3>1, <4>2 DEF Top
      <4> QED BY <4>1, <4>2
    <3> QED BY <2>1, <3>3, <3>4, <3>5 DEF KidSound
  <2> QED BY <2>1, <2>2, <2>3 DEF KidsSound
<1>11. ASSUME NEW p \in DOMAIN P, p # a, ~IsInternal(P2, p)
       PROVE  LeafSound(P2, pl2, 0, p)
  <2>1. ~IsInternal(P, p) /\ P2[p] = P[p] /\ pl2[p] = pl[p] /\ p # x /\ p # 0
    BY <1>1, <1>2, <1>3, <1>4, <1>11
  <2>2. LeafSound(P, pl, x, p)
    BY <1>2, <2>1 DEF PagesSound
  <2>3. ASSUME P[p].next # InvalidPid
        PROVE  ~IsInternal(P2, P[p].next) /\ pl2[P[p].next].lower = pl[p].upper
    <3>1. P[p].next \in DOMAIN P
      <4>1. P[p].next \in DOMAIN P \cup {InvalidPid}
        BY <1>2, <2>1, NodeIs
      <4> QED BY <2>3, <4>1
    <3>2. ~IsInternal(P, P[p].next) /\ pl[P[p].next].lower = pl[p].upper
      BY <2>2, <2>3 DEF LeafSound
    <3> DEFINE q == P[p].next
    <3> HIDE DEF q
    <3>3. pl2[q].lower = pl[q].lower
      <4>1. CASE q = a
        BY <1>1, <4>1
      <4>2. CASE q # a
        BY <1>1, <3>1, <4>2 DEF q
      <4> QED BY <4>1, <4>2
    <3> QED BY <1>4, <3>1, <3>2, <3>3 DEF q
  <2> QED BY <2>1, <2>2, <2>3 DEF LeafSound
<1> QED BY <1>6, <1>7, <1>8, <1>9, <1>10, <1>11
-----------------------------------------------------------------------------

(* A leaf cut in two: the left half is chained to the right one, and the   *)
(* right one to none.                                                      *)
HalvesGood(P, pl, a, n, sp, left, right) ==
  /\ \A k \in DOMAIN left.entries : pl[a].lower <= k /\ k < sp
  /\ \A k \in DOMAIN right.entries : sp <= k /\ k < pl[a].upper
  /\ Fits(left.type, DOMAIN left.entries) /\ Fits(right.type, DOMAIN right.entries)
  /\ left.next = n /\ right.next = InvalidPid

(* A leaf that is cut in two leaves the tree laid out but for the parent   *)
(* of the new page.                                                        *)
LEMMA LeafCut ==
  ASSUME NEW P, NEW root, NEW depth, NEW pl, NEW x, NEW a, NEW sp, NEW left, NEW right,
         Cuts(P, root, depth, pl, x, a, sp, left, right), ~IsInternal(P, a),
         NEW n, n = Fresh(P), HalvesGood(P, pl, a, n, sp, left, right)
  PROVE  Laid(CutPages(P, a, n, left, right), root, depth, CutLayout(pl, a, n, sp), a, n, 0)
<1> DEFINE P2 == CutPages(P, a, n, left, right)
           pl2 == CutLayout(pl, a, n, sp)
<1>1. HasCut(P, pl, a, sp, left, right, n, P2, pl2)
  BY CutIs
<1>2. /\ Nodes(P2) /\ Placed(P2, depth, pl2) /\ Apart(P2, pl2) /\ Rooted(P2, root, pl2, a, n)
      /\ \A p \in DOMAIN P : p # a =>
           IF IsInternal(P2, p) THEN KidsSound(P2, pl2, a, n, 0, p) ELSE LeafSound(P2, pl2, 0, p)
  BY CutPlaced
<1>3. Reached(P, root, 0) /\ Nodes(P) /\ (left.type = "internal" <=> IsInternal(P, a))
      /\ (right.type = "internal" <=> IsInternal(P, a))
  BY DEF Cuts, Laid
<1> HIDE DEF P2, pl2
<1>4. DOMAIN P2 = DOMAIN P \cup {n} /\ a \in DOMAIN P /\ P2[a] = left /\ P2[n] = right
      /\ (\A p \in DOMAIN P : p # a => P2[p] = P[p])
      /\ n # a /\ pl2[a].lower = pl[a].lower /\ pl2[a].upper = sp /\ pl2[n].lower = sp
      /\ pl2[n].upper = pl[a].upper /\ n \in Nat
  BY <1>1 DEF HasCut, Cuts
<1>5. ~IsInternal(P2, a) /\ ~IsInternal(P2, n)
  BY <1>3, <1>4 DEF IsInternal
<1>6. LeafSound(P2, pl2, 0, a)
  BY <1>4, <1>5 DEF LeafSound, HalvesGood
<1>7. LeafSound(P2, pl2, 0, n)
  BY <1>4, <1>5 DEF LeafSound, HalvesGood
<1>8. PagesSound(P2, pl2, a, n, 0)
  <2> SUFFICES ASSUME NEW p \in DOMAIN P2
               PROVE  IF IsInternal(P2, p) THEN KidsSound(P2, pl2, a, n, 0, p)
                      ELSE LeafSound(P2, pl2, 0, p)
    BY DEF PagesSound
  <2> QED BY <1>2, <1>4, <1>5, <1>6, <1>7
<1>9. Reached(P2, root, n)
  <2> SUFFICES ASSUME NEW p \in DOMAIN P2, p # root, p # n PROVE \E q \in DOMAIN P2 : IsKid(P2, q, p)
    BY DEF Reached
  <2>1. p \in DOMAIN P /\ p # 0
    BY <1>3, <1>4 DEF Nodes
  <2>2. PICK q \in DOMAIN P : IsKid(P, q, p)
    BY <1>3, <2>1 DEF Reached
  <2>3. q # a
    BY <2>2 DEF IsKid
  <2>4. P2[q] = P[q] /\ q \in DOMAIN P2
    BY <1>4, <2>3
  <2>5. IsKid(P2, q, p)
    BY <2>2, <2>4 DEF IsKid, IsInternal
  <2> QED BY <2>4, <2>5
<1> QED BY <1>2, <1>8, <1>9 DEF Laid, P2, pl2

(* An internal block cut in two, between its cells s and s+1.              *)
LEMMA KidsCut ==
  ASSUME NEW P, NEW root, NEW depth, NEW pl, NEW x, NEW a, NEW sp, NEW left, NEW right,
         Cuts(P, root, depth, pl, x, a, sp, left, right), IsInternal(P, a),
         NEW s \in Nat, 1 <= s, s < Len(P[a].kids), sp = P[a].kids[s + 1].key,
         s <= InternalCap, Len(P[a].kids) - s <= InternalCap,
         left = Internal(SubSeq(P[a].kids, 1, s)),
         right = Internal(SubSeq(P[a].kids, s + 1, Len(P[a].kids))),
         NEW n, n = Fresh(P)
  PROVE  Laid(CutPages(P, a, n, left, right), root, depth, CutLayout(pl, a, n, sp), a, n, 0)
<1> DEFINE P2 == CutPages(P, a, n, left, right)
           pl2 == CutLayout(pl, a, n, sp)
           ks == P[a].kids
           N == Len(ks)
           u == SubSeq(ks, 1, s)
           v == SubSeq(ks, s + 1, N)
           R == [key : Key, value : DOMAIN P]
<1>1. HasCut(P, pl, a, sp, left, right, n, P2, pl2)
  BY CutIs
<1>2. /\ Nodes(P2) /\ Placed(P2, depth, pl2) /\ Apart(P2, pl2) /\ Rooted(P2, root, pl2, a, n)
      /\ \A p \in DOMAIN P : p # a =>
           IF IsInternal(P2, p) THEN KidsSound(P2, pl2, a, n, 0, p) ELSE LeafSound(P2, pl2, 0, p)
  BY CutPlaced
<1>3. Reached(P, root, 0) /\ Nodes(P) /\ (left.type = "internal" <=> IsInternal(P, a))
      /\ (right.type = "internal" <=> IsInternal(P, a)) /\ PagesSound(P, pl, 0, 0, x) /\ a \in DOMAIN P
      /\ Placed(P, depth, pl)
  BY DEF Cuts, Laid
<1>4. KidsSound(P, pl, 0, 0, x, a)
  BY <1>3 DEF PagesSound
<1>5. N \in Nat /\ DOMAIN ks = 1..N /\ s < N /\ N - s <= InternalCap
      /\ \A i \in 1..N : ks[i].key \in Nat /\ ks[i].value \in DOMAIN P /\ ks[i].value # 0
  BY <1>3, KidsAre
<1>6. ks \in Seq(R)
  BY <1>3, NodeIs
<1>7. /\ Len(u) = s /\ \A i \in 1..s : u[i] = ks[i]
      /\ Len(v) = N - s /\ \A i \in 1..N-s : v[i] = ks[s + i]
  <2> HIDE DEF R, ks
  <2>1. N \in Nat /\ s < N
    BY <1>5
  <2>2. \A i \in 1..N : ks[i] \in R
    BY <1>6
  <2> HIDE DEF N
  <2>3. Len(SubSeq(ks, 1, s)) = (IF 1 <= s THEN s-1+1 ELSE 0)
        /\ \A i \in 1..s-1+1 : SubSeq(ks, 1, s)[i] = ks[1+i-1]
    <3>1. \A i \in 1..s : ks[i] \in R
      BY <2>1, <2>2
    <3> QED BY <3>1, SubSeqProperties
  <2>4. Len(SubSeq(ks, s+1, N)) = (IF s+1 <= N THEN N-(s+1)+1 ELSE 0)
        /\ \A i \in 1..N-(s+1)+1 : SubSeq(ks, s+1, N)[i] = ks[(s+1)+i-1]
    <3>1. (\A i \in s+1..N : ks[i] \in R) /\ s+1 \in Int /\ N \in Int
      BY <2>1, <2>2
    <3> QED BY SMTT(30), <3>1, SubSeqProperties
  <2>5. Len(u) = s /\ \A i \in 1..s : u[i] = ks[i]
    <3>1. s-1+1 = s /\ \A i \in 1..s : 1+i-1 = i
      OBVIOUS
    <3> HIDE DEF u
    <3> QED BY <2>3, <3>1 DEF u
  <2>6. Len(v) = N - s /\ \A i \in 1..N-s : v[i] = ks[s+i]
    <3>1. s+1 <= N /\ N-(s+1)+1 = N-s /\ \A i \in 1..N-s : (s+1)+i-1 = s+i
      BY <2>1
    <3> HIDE DEF v
    <3> QED BY <2>4, <3>1 DEF v
  <2> QED BY <2>5, <2>6
<1> HIDE DEF P2, pl2
<1>8. DOMAIN P2 = DOMAIN P \cup {n} /\ a \in DOMAIN P /\ P2[a] = left /\ P2[n] = right
      /\ (\A p \in DOMAIN P : p # a => P2[p] = P[p])
      /\ n # a /\ pl2[a].lower = pl[a].lower /\ pl2[a].upper = sp /\ pl2[n].lower = sp
      /\ pl2[n].upper = pl[a].upper /\ n \in Nat /\ n \notin DOMAIN P /\ pl2[a].level = pl[a].level
      /\ pl2[n].level = pl[a].level /\ \A p \in DOMAIN P : p # a => pl2[p] = pl[p]
  BY <1>1 DEF HasCut, Cuts
<1>9. IsInternal(P2, a) /\ IsInternal(P2, n) /\ P2[a].kids = u /\ P2[n].kids = v
  BY <1>3, <1>8 DEF IsInternal, Internal
<1>10. ASSUME NEW i \in 1..N
       PROVE  LET q == ks[i].value
              IN  /\ q # n /\ q # a /\ q \in DOMAIN P
                  /\ pl2[q].level = pl[a].level + 1 /\ pl2[q].lower = ks[i].key
                  /\ Top(pl2, a, n, q) = IF i = N THEN pl[a].upper ELSE ks[i+1].key
  <2> DEFINE q == ks[i].value
  <2>1. KidSound(P, pl, 0, 0, a, i)
    BY <1>4 DEF KidsSound
  <2>2. pl[q].level = pl[a].level + 1 /\ pl[q].lower = ks[i].key
        /\ pl[q].upper = IF i = N THEN pl[a].upper ELSE ks[i+1].key
    BY <1>5, <2>1 DEF KidSound, Top
  <2>3. q \in DOMAIN P /\ pl[a].level \in Nat
    BY <1>3, <1>5, SpotIs
  <2> HIDE DEF q
  <2>4. q # a
    <3>1. pl[q].level # pl[a].level
      BY <2>2, <2>3
    <3> QED BY <3>1
  <2>5. q # n /\ pl2[q] = pl[q]
    BY <1>8, <2>3, <2>4
  <2>6. Top(pl2, a, n, q) = pl[q].upper
    BY <2>4, <2>5 DEF Top
  <2>7. /\ q # n /\ q # a /\ q \in DOMAIN P
        /\ pl2[q].level = pl[a].level + 1 /\ pl2[q].lower = ks[i].key
        /\ Top(pl2, a, n, q) = IF i = N THEN pl[a].upper ELSE ks[i+1].key
    BY <2>2, <2>3, <2>4, <2>5, <2>6
  <2> QED BY <2>7 DEF q
<1> HIDE DEF ks, u, v
<1>11. KidsSound(P2, pl2, a, n, 0, a)
  <2>1. Len(P2[a].kids) = s /\ P2[a].kids = u
    BY <1>7, <1>9
  <2>2. ASSUME NEW i \in 1..s PROVE KidSound(P2, pl2, a, n, a, i)
    <3>1. i \in 1..N /\ i # N /\ (i # s => i+1 \in 1..s)
      <4> HIDE DEF N
      <4> QED BY <1>5
    <3>4. u[i] = ks[i]
      BY <1>7
    <3>2. i # s => u[i+1] = ks[i+1]
      BY <1>7, <3>1
    <3>3. i = s => ks[i+1].key = sp
      BY DEF ks
    <3> QED BY <1>8, <1>10, <2>1, <3>1, <3>2, <3>3, <3>4 DEF KidSound
  <2>3. 1 \in 1..s /\ u[1] = ks[1] /\ ks[1].key = pl[a].lower
    BY <1>4, <1>7 DEF KidsSound, ks
  <2>4. P2[a].kids[1].key = pl2[a].lower
    BY <1>8, <2>1, <2>3
  <2>5. a # 0
    BY <1>1 DEF HasCut
  <2> QED BY <2>1, <2>2, <2>4, <2>5 DEF KidsSound
<1>12. KidsSound(P2, pl2, a, n, 0, n)
  <2>1. Len(P2[n].kids) = N-s /\ P2[n].kids = v
    BY <1>7, <1>9
  <2>2. ASSUME NEW i \in 1..N-s PROVE KidSound(P2, pl2, a, n, n, i)
    <3>1. s+i \in 1..N /\ (i = N-s <=> s+i = N) /\ (i # N-s => i+1 \in 1..N-s)
          /\ s+(i+1) = (s+i)+1
      <4> HIDE DEF N
      <4> QED BY <1>5
    <3>4. v[i] = ks[s+i]
      BY <1>7
    <3>2. i # N-s => v[i+1] = ks[(s+i)+1]
      BY <1>7, <3>1
    <3>3. /\ ks[s+i].value # n
          /\ pl2[ks[s+i].value].level = pl[a].level + 1 /\ pl2[ks[s+i].value].lower = ks[s+i].key
          /\ Top(pl2, a, n, ks[s+i].value) = IF s+i = N THEN pl[a].upper ELSE ks[(s+i)+1].key
      BY <1>10, <3>1
    <3> QED BY <1>8, <2>1, <3>1, <3>2, <3>3, <3>4 DEF KidSound
  <2>3. 1 \in 1..N-s /\ v[1] = ks[s+1] /\ ks[s+1].key = sp
    <3>1. 1 \in 1..N-s
      BY <1>5
    <3>2. ks[s+1].key = sp
      BY DEF ks
    <3> QED BY <1>7, <3>1, <3>2
  <2>4. P2[n].kids[1].key = pl2[n].lower
    BY <1>8, <2>1, <2>3
  <2>5. Len(P2[n].kids) >= 1 /\ Len(P2[n].kids) <= InternalCap
    BY <1>5, <2>1
  <2>6. ASSUME 0 = n PROVE FALSE
    BY <1>1, <2>6 DEF HasCut
  <2> QED BY <2>1, <2>2, <2>4, <2>5, <2>6 DEF KidsSound
<1>13. PagesSound(P2, pl2, a, n, 0)
  <2> SUFFICES ASSUME NEW p \in DOMAIN P2
               PROVE  IF IsInternal(P2, p) THEN KidsSound(P2, pl2, a, n, 0, p)
                      ELSE LeafSound(P2, pl2, 0, p)
    BY DEF PagesSound
  <2> QED BY <1>2, <1>8, <1>9, <1>11, <1>12
<1>14. Reached(P2, root, n)
  <2> SUFFICES ASSUME NEW p \in DOMAIN P2, p # root, p # n PROVE \E q \in DOMAIN P2 : IsKid(P2, q, p)
    BY DEF Reached
  <2>1. p \in DOMAIN P /\ p # 0
    BY <1>3, <1>8 DEF Nodes
  <2>2. PICK q \in DOMAIN P : IsKid(P, q, p)
    BY <1>3, <2>1 DEF Reached
  <2>3. CASE q # a
    <3>1. P2[q] = P[q] /\ q \in DOMAIN P2
      BY <1>8, <2>3
    <3>2. IsKid(P2, q, p)
      BY <2>2, <3>1 DEF IsKid, IsInternal
    <3> QED BY <3>1, <3>2
  <2>4. CASE q = a
    <3>1. PICK i \in 1..N : ks[i].value = p
      BY <2>2, <2>4 DEF IsKid, ks
    <3>2. CASE i <= s
      <4>1. i \in 1..s /\ u[i] = ks[i]
        BY <1>7, <3>2
      <4>2. IsKid(P2, a, p)
        BY <1>7, <1>9, <3>1, <4>1 DEF IsKid
      <4> QED BY <1>8, <4>2
    <3>3. CASE ~(i <= s)
      <4>1. i-s \in 1..N-s /\ s+(i-s) = i
        BY <1>5, <3>3
      <4>2. v[i-s] = ks[i]
        BY <1>7, <4>1
      <4>3. IsKid(P2, n, p)
        BY <1>7, <1>9, <3>1, <4>1, <4>2 DEF IsKid
      <4> QED BY <1>8, <4>3
    <3> QED BY <3>2, <3>3
  <2> QED BY <2>3, <2>4
<1> QED BY <1>2, <1>13, <1>14 DEF Laid, P2, pl2
-----------------------------------------------------------------------------

(* t is s with the cell e behind its first c cells. *)
Wider(s, t, c, e) ==
  /\ Len(t) = Len(s) + 1 /\ t[c + 1] = e
  /\ \A i \in 1..c : t[i] = s[i]
  /\ \A i \in c+1..Len(s) : t[i + 1] = s[i]

(* A sequence with one element inserted. *)
LEMMA CellPut ==
  ASSUME NEW R, NEW s \in Seq(R), NEW e \in R, NEW c \in Nat, c <= Len(s)
  PROVE  InsertAt(s, c + 1, e) \in Seq(R) /\ Wider(s, InsertAt(s, c + 1, e), c, e)
<1> DEFINE n == Len(s)
           t == SubSeq(s, 1, c) \o <<e>> \o SubSeq(s, c+1, n)
<1>1. n \in Nat
  OBVIOUS
<1>2. InsertAt(s, c+1, e) = t
  <2>1. (c+1)-1 = c
    BY <1>1
  <2>2. InsertAt(s, c+1, e) = SubSeq(s, 1, (c+1)-1) \o <<e>> \o SubSeq(s, c+1, n)
    BY DEF InsertAt
  <2> QED BY <2>1, <2>2
<1>3. /\ t \in Seq(R) /\ Len(t) = n+1 /\ t[c+1] = e
      /\ \A i \in 1..c : t[i] = s[i]
      /\ \A i \in c+1..n : t[i+1] = s[i]
  <2> DEFINE u == SubSeq(s, 1, c)
             v == SubSeq(s, c+1, n)
             r == u \o <<e>>
  <2>1. u \in Seq(R) /\ Len(u) = c /\ \A i \in 1..c : u[i] = s[i]
    BY <1>1
  <2>2. v \in Seq(R) /\ Len(v) = n-c /\ \A i \in 1..n-c : v[i] = s[c+i]
    BY <1>1
  <2> HIDE DEF u, v, n
  <2>3. r \in Seq(R) /\ Len(r) = c+1 /\ r[c+1] = e /\ \A i \in 1..c : r[i] = s[i]
    BY <1>1, <2>1
  <2>4. t = r \o v
    BY DEF u, v
  <2> HIDE DEF r, t
  <2>5. /\ t \in Seq(R) /\ Len(t) = Len(r) + Len(v)
        /\ \A i \in 1..Len(r) : t[i] = r[i]
        /\ \A i \in 1..Len(v) : t[Len(r)+i] = v[i]
    <3>1. /\ r \o v \in Seq(R) /\ Len(r \o v) = Len(r) + Len(v)
          /\ \A i \in 1..Len(r) + Len(v) : (r \o v)[i] = IF i <= Len(r) THEN r[i] ELSE v[i - Len(r)]
      BY <2>2, <2>3, ConcatProperties
    <3>2. \A i \in 1..Len(r) : i \in 1..Len(r) + Len(v) /\ i <= Len(r)
      BY <1>1, <2>2, <2>3
    <3>3. \A i \in 1..Len(v) : /\ Len(r)+i \in 1..Len(r) + Len(v) /\ ~(Len(r)+i <= Len(r))
                               /\ (Len(r)+i) - Len(r) = i
      BY <1>1, <2>2, <2>3
    <3> QED BY <2>4, <3>1, <3>2, <3>3
  <2>6. ASSUME NEW i \in c+1..n PROVE t[i+1] = s[i]
    <3>1. i-c \in 1..n-c /\ (c+1)+(i-c) = i+1 /\ c+(i-c) = i
      BY <1>1
    <3> QED BY <2>2, <2>3, <2>5, <3>1
  <2>7. Len(t) = n+1
    BY <1>1, <2>2, <2>3, <2>5
  <2>8. t[c+1] = e /\ \A i \in 1..c : t[i] = s[i]
    <3>1. c+1 \in 1..Len(r) /\ \A i \in 1..c : i \in 1..Len(r)
      BY <1>1, <2>3
    <3> QED BY <2>3, <2>5, <3>1
  <2> QED BY <2>5, <2>6, <2>7, <2>8
<1> QED BY <1>2, <1>3 DEF Wider

(* A page o that has lost its upper part to n, and its parent a, that      *)
(* leads to o by its cell k.                                               *)
Joins(P, root, depth, pl, o, n, a, k) ==
  /\ Laid(P, root, depth, pl, o, n, 0)
  /\ o \in DOMAIN P /\ n \in DOMAIN P /\ o # n
  /\ pl[o].level = pl[n].level /\ pl[o].upper = pl[n].lower
  /\ a \in DOMAIN P /\ IsInternal(P, a) /\ k \in 1..Len(P[a].kids) /\ P[a].kids[k].value = o

JoinedKids(P, pl, n, a, k) == Inserted(P[a].kids, k, pl[n].lower, n)
JoinedPages(P, pl, n, a, k) == [P EXCEPT ![a] = Internal(JoinedKids(P, pl, n, a, k))]

(* What the parent then holds. *)
LEMMA JoinedKidsAre ==
  ASSUME NEW P, NEW root, NEW depth, NEW pl, NEW o, NEW n, NEW a, NEW k,
         Joins(P, root, depth, pl, o, n, a, k)
  PROVE  /\ JoinedKids(P, pl, n, a, k) \in Seq([key : Key, value : DOMAIN P])
         /\ Wider(P[a].kids, JoinedKids(P, pl, n, a, k), k, Cells(pl[n].lower, n))
<1> DEFINE s == P[a].kids
           R == [key : Key, value : DOMAIN P]
           e == Cells(pl[n].lower, n)
<1>1. Nodes(P) /\ Placed(P, depth, pl) /\ KidsSound(P, pl, o, n, 0, a)
  BY DEF Joins, Laid, PagesSound
<1>2. s \in Seq(R) /\ Len(s) \in Nat /\ a \in DOMAIN P /\ IsInternal(P, a)
  BY <1>1, NodeIs DEF Joins
<1>3. e \in R
  <2>1. pl[n].lower \in Nat /\ pl[n].upper \in Nat /\ pl[n].lower < pl[n].upper /\ pl[n].upper <= EndsBy
    BY <1>1, SpotIs DEF Joins
  <2>2. pl[n].lower \in Key
    BY <2>1, ConstantsAre
  <2> QED BY <2>2 DEF Joins, Cells
<1>4. k < Len(s) => s[k + 1].key = pl[n].upper
  <2>1. KidSound(P, pl, o, n, a, k)
    BY <1>1 DEF KidsSound, Joins
  <2> QED BY <1>2, <2>1 DEF KidSound, Top, Joins
<1>5. ~HasKeyAt(s, k, pl[n].lower)
  <2>1. pl[n].lower \in Nat /\ pl[n].upper \in Nat /\ pl[n].lower < pl[n].upper
    BY <1>1, SpotIs DEF Joins
  <2>2. pl[n].lower # pl[n].upper
    BY <2>1
  <2> QED BY <1>4, <2>2 DEF HasKeyAt
<1>6. JoinedKids(P, pl, n, a, k) = InsertAt(s, k + 1, e)
  BY <1>5 DEF Inserted, JoinedKids
<1>7. k \in Nat /\ k <= Len(s)
  BY <1>2 DEF Joins
<1> QED
  <2> HIDE DEF s, R, e
  <2>1. InsertAt(s, k + 1, e) \in Seq(R) /\ Wider(s, InsertAt(s, k + 1, e), k, e)
    BY <1>2, <1>3, <1>7, CellPut
  <2> QED BY <1>6, <2>1 DEF s, R, e

(* A page has one parent. *)
LEMMA OneParent ==
  ASSUME NEW P, NEW root, NEW depth, NEW pl, NEW o, NEW n, NEW a, NEW k,
         Joins(P, root, depth, pl, o, n, a, k),
         NEW p \in DOMAIN P, IsInternal(P, p), NEW i \in 1..Len(P[p].kids), P[p].kids[i].value = o
  PROVE  p = a /\ i = k
<1>1. /\ Laid(P, root, depth, pl, o, n, 0) /\ Placed(P, depth, pl)
      /\ KidsSound(P, pl, o, n, 0, a) /\ KidsSound(P, pl, o, n, 0, p)
      /\ Nodes(P) /\ a \in DOMAIN P /\ IsInternal(P, a) /\ k \in 1..Len(P[a].kids)
      /\ P[a].kids[k].value = o /\ o \in DOMAIN P /\ n \in DOMAIN P /\ pl[o].upper = pl[n].lower
  BY DEF Joins, Laid, PagesSound
<1>2. KidSound(P, pl, o, n, a, k) /\ KidSound(P, pl, o, n, p, i)
  BY <1>1 DEF KidsSound
<1>3. /\ pl[o].level = pl[a].level + 1 /\ pl[o].lower = P[a].kids[k].key
      /\ pl[o].level = pl[p].level + 1 /\ pl[o].lower = P[p].kids[i].key
  BY <1>1, <1>2 DEF KidSound
<1>4. pl[a].level \in Nat /\ pl[p].level \in Nat /\ pl[o].lower \in Nat
  BY <1>1, SpotIs
<1>5. pl[a].level = pl[p].level
  BY <1>3, <1>4
<1>6. /\ pl[a].lower <= P[a].kids[k].key /\ P[a].kids[k].key < pl[a].upper
      /\ pl[p].lower <= P[p].kids[i].key /\ P[p].kids[i].key < pl[p].upper
  BY <1>1, KidsAscend
<1>7. Within(pl, a, pl[o].lower) /\ Within(pl, p, pl[o].lower)
  BY <1>3, <1>6 DEF Within
<1>8. p = a
  BY <1>1, <1>4, <1>5, <1>7, OnlyPlace
<1>9. i = k
  <2>1. Len(P[a].kids) \in Nat
    BY <1>1, KidsAre
  <2>2. i \in 1..Len(P[a].kids) /\ P[a].kids[i].key = P[a].kids[k].key /\ P[a].kids[k].key \in Nat
    BY <1>3, <1>4, <1>8
  <2>3. \A g, h \in 1..Len(P[a].kids) : g < h => P[a].kids[g].key < P[a].kids[h].key
    BY <1>1, KidsAscend
  <2>4. ~(i < k) /\ ~(k < i)
    BY <1>1, <2>2, <2>3
  <2> QED BY <1>1, <2>1, <2>2, <2>4
<1> QED BY <1>8, <1>9
-----------------------------------------------------------------------------

(* The parent learns of the new page: the pages are sound again, but for   *)
(* the parent that may have one cell too many.                             *)
LEMMA Joined ==
  ASSUME NEW P, NEW root, NEW depth, NEW pl, NEW o, NEW n, NEW a, NEW k,
         Joins(P, root, depth, pl, o, n, a, k),
         NEW x \in {0, a}, x = 0 => Len(P[a].kids) < InternalCap
  PROVE  Laid(JoinedPages(P, pl, n, a, k), root, depth, pl, 0, 0, x)
<1> DEFINE Q == JoinedPages(P, pl, n, a, k)
           s == P[a].kids
           t == JoinedKids(P, pl, n, a, k)
           N == Len(s)
           D == DOMAIN P
<1>1. /\ Nodes(P) /\ Placed(P, depth, pl) /\ PagesSound(P, pl, o, n, 0)
      /\ Rooted(P, root, pl, o, n) /\ Apart(P, pl) /\ Reached(P, root, n)
      /\ o \in D /\ n \in D /\ o # n /\ pl[o].level = pl[n].level /\ pl[o].upper = pl[n].lower
      /\ a \in D /\ IsInternal(P, a) /\ k \in 1..N /\ s[k].value = o
  BY DEF Joins, Laid
<1>2. KidsSound(P, pl, o, n, 0, a)
  BY <1>1 DEF PagesSound
<1>3. /\ a # 0 /\ o # 0 /\ n # 0 /\ N \in Nat /\ DOMAIN s = 1..N
      /\ \A i \in 1..N : s[i].key \in Nat /\ s[i].value \in D /\ s[i].value # 0
  <2>1. o # 0 /\ n # 0
    BY <1>1 DEF Nodes
  <2> QED BY <1>1, <2>1, KidsAre
<1>4. /\ t \in Seq([key : Key, value : D]) /\ Len(t) = N + 1 /\ t[k + 1] = Cells(pl[n].lower, n)
      /\ \A i \in 1..k : t[i] = s[i]
      /\ \A i \in k+1..N : t[i + 1] = s[i]
  <2>1. t \in Seq([key : Key, value : D]) /\ Wider(s, t, k, Cells(pl[n].lower, n))
    BY JoinedKidsAre
  <2> HIDE DEF s, t, D
  <2> QED BY <2>1 DEF Wider
<1> HIDE DEF t
<1>5. DOMAIN Q = D /\ Q[a] = Internal(t) /\ (\A p \in D : p # a => Q[p] = P[p])
  BY <1>1 DEF JoinedPages, t
<1>6. Q = [p \in D |-> Q[p]]
  BY <1>1 DEF JoinedPages, Nodes
<1> HIDE DEF Q
<1>7. Q[a].type = "internal" /\ Q[a].kids = t
  BY <1>5 DEF Internal
<1>8. \A p \in D : IsInternal(Q, p) <=> IsInternal(P, p)
  BY <1>1, <1>5, <1>7 DEF IsInternal
<1>9. Nodes(Q)
  <2>1. Internal(t) \in PageNode(D)
    BY <1>4 DEF Internal, PageNode
  <2>2. \A p \in D : Q[p] \in PageNode(D)
    BY <1>1, <1>5, <2>1 DEF Nodes
  <2>3. Q \in [D -> PageNode(D)]
    BY <1>6, <2>2
  <2> QED BY <1>1, <1>5, <2>3 DEF Nodes
<1>10. Placed(Q, depth, pl)
  BY <1>1, <1>5, <1>8 DEF Placed
<1>11. Apart(Q, pl)
  BY <1>1, <1>5 DEF Apart
<1>12. \A p \in D : pl[p].level \in Nat /\ pl[p].lower \in Nat /\ pl[p].upper \in Nat
         /\ pl[p].level \in 1..depth
  BY <1>1, SpotIs
<1>13. Rooted(Q, root, pl, 0, 0)
  <2>1. KidSound(P, pl, o, n, a, k)
    BY <1>1, <1>2 DEF KidsSound
  <2>2. pl[o].level = pl[a].level + 1
    BY <1>1, <2>1 DEF KidSound
  <2>3. pl[o].level # 1
    BY <1>1, <1>12, <2>2
  <2>4. root # o /\ root # 0
    BY <1>1, <2>3 DEF Rooted, Nodes
  <2> QED BY <1>1, <1>5, <2>4 DEF Rooted, Top
<1>14. ASSUME NEW p \in D, p # a, IsInternal(P, p)
       PROVE  KidsSound(Q, pl, 0, 0, x, p)
  <2>1. Q[p] = P[p] /\ KidsSound(P, pl, o, n, 0, p) /\ p # 0
    BY <1>1, <1>5, <1>14 DEF PagesSound, Nodes
  <2>2. ASSUME NEW i \in 1..Len(P[p].kids) PROVE KidSound(Q, pl, 0, 0, p, i)
    <3> DEFINE q == P[p].kids[i].value
    <3>1. q # o
      BY <1>14, OneParent
    <3>2. KidSound(P, pl, o, n, p, i) /\ q # 0
      BY <1>1, <1>14, <2>1, KidsAre DEF KidsSound
    <3> QED BY <2>1, <3>1, <3>2 DEF KidSound, Top
  <2> QED BY <1>14, <2>1, <2>2 DEF KidsSound
<1>15. KidsSound(Q, pl, 0, 0, x, a)
  <2>1. ASSUME NEW i \in 1..N+1 PROVE KidSound(Q, pl, 0, 0, a, i)
    <3>1. CASE i = k + 1
      <4>1. Q[a].kids[i].value = n /\ Q[a].kids[i].key = pl[n].lower
        BY <1>4, <1>7, <3>1 DEF Cells
      <4>2. KidSound(P, pl, o, n, a, k)
        BY <1>1, <1>2 DEF KidsSound
      <4>3. pl[n].level = pl[a].level + 1 /\ pl[n].upper = IF k = N THEN pl[a].upper ELSE s[k + 1].key
        BY <1>1, <4>2 DEF KidSound, Top
      <4>4. k # N => k + 1 \in k+1..N
        BY <1>1, <1>3
      <4>5. k # N => Q[a].kids[i + 1].key = s[k + 1].key
        BY <1>4, <1>7, <3>1, <4>4
      <4>6. (i = N + 1 <=> k = N) /\ Len(Q[a].kids) = N + 1
        BY <1>1, <1>3, <1>4, <1>7, <3>1
      <4> QED BY <1>3, <4>1, <4>3, <4>5, <4>6 DEF KidSound, Top
    <3>2. ASSUME NEW j \in 1..N, j # k, Q[a].kids[i] = s[j], Q[a].kids[i+1].key = s[j+1].key \/ j = N,
                 i = N + 1 <=> j = N
          PROVE  KidSound(Q, pl, 0, 0, a, i)
      <4>1. s[j].value # o
        BY <1>1, <3>2, OneParent
      <4>2. KidSound(P, pl, o, n, a, j) /\ s[j].value # 0
        BY <1>2, <1>3 DEF KidsSound
      <4>3. Len(Q[a].kids) = N + 1
        BY <1>4, <1>7
      <4> QED BY <3>2, <4>1, <4>2, <4>3 DEF KidSound, Top
    <3>3. CASE i < k
      <4>1. i \in 1..N /\ i # k /\ i \in 1..k /\ i + 1 \in 1..k /\ i # N + 1 /\ i # N
        BY <1>1, <1>3, <3>3
      <4>2. Q[a].kids[i] = s[i] /\ Q[a].kids[i + 1] = s[i + 1]
        BY <1>4, <1>7, <4>1
      <4> QED BY <3>2, <4>1, <4>2
    <3>4. CASE i = k
      <4>1. KidSound(P, pl, o, n, a, k) /\ Q[a].kids[i] = s[k] /\ k \in 1..k
        BY <1>1, <1>2, <1>3, <1>4, <1>7, <3>4 DEF KidsSound
      <4>2. Q[a].kids[i + 1].key = pl[n].lower
        BY <1>4, <1>7, <3>4 DEF Cells
      <4>3. i # N + 1 /\ Len(Q[a].kids) = N + 1
        BY <1>1, <1>3, <1>4, <1>7, <3>4
      <4> QED BY <1>1, <1>3, <4>1, <4>2, <4>3 DEF KidSound, Top
    <3>5. CASE i > k + 1
      <4> DEFINE j == i - 1
      <4>1. j \in 1..N /\ j # k /\ j \in k+1..N /\ j + 1 = i /\ (i = N + 1 <=> j = N)
            /\ (j # N => j + 1 \in k+1..N)
        BY <1>1, <1>3, <3>5
      <4> HIDE DEF j
      <4>2. Q[a].kids[i] = s[j]
        BY <1>4, <1>7, <4>1
      <4>3. j # N => Q[a].kids[i + 1] = s[j + 1]
        BY <1>4, <1>7, <4>1
      <4> QED BY <3>2, <4>1, <4>2, <4>3
    <3> QED
      <4>1. i < k \/ i = k \/ i = k + 1 \/ i > k + 1
        BY <1>1, <1>3
      <4> QED BY <3>1, <3>3, <3>4, <3>5, <4>1
  <2>2. Len(Q[a].kids) = N + 1 /\ Q[a].kids[1] = s[1]
    <3>1. 1 \in 1..k
      BY <1>1, <1>3
    <3> QED BY <1>4, <1>7, <3>1
  <2>3. N <= InternalCap /\ InternalCap \in Nat
    BY <1>2, <1>3, ConstantsAre DEF KidsSound
  <2>4. N + 1 >= 1 /\ N + 1 <= (IF a = x THEN InternalCap + 1 ELSE InternalCap)
    BY <1>3, <2>3
  <2>5. s[1].key = pl[a].lower
    BY <1>2 DEF KidsSound
  <2> QED BY <2>1, <2>2, <2>4, <2>5 DEF KidsSound
<1>16. PagesSound(Q, pl, 0, 0, x)
  <2> SUFFICES ASSUME NEW p \in DOMAIN Q
               PROVE  IF IsInternal(Q, p) THEN KidsSound(Q, pl, 0, 0, x, p) ELSE LeafSound(Q, pl, x, p)
    BY DEF PagesSound
  <2>1. ASSUME ~IsInternal(P, p) PROVE LeafSound(Q, pl, x, p)
    <3>1. p \in D /\ p # a /\ Q[p] = P[p] /\ LeafSound(P, pl, 0, p) /\ p # 0
      BY <1>1, <1>5, <2>1 DEF PagesSound, Nodes
    <3>2. P[p].next # InvalidPid => P[p].next \in D
      BY <1>1, <2>1, <3>1, NodeIs
    <3> QED BY <1>8, <3>1, <3>2 DEF LeafSound
  <2>2. p \in D
    BY <1>5
  <2>3. CASE IsInternal(Q, p)
    BY <1>8, <1>14, <1>15, <2>2, <2>3
  <2>4. CASE ~IsInternal(Q, p)
    BY <1>8, <2>1, <2>2, <2>4
  <2> QED BY <2>3, <2>4
<1>17. Reached(Q, root, 0)
  <2> SUFFICES ASSUME NEW p \in DOMAIN Q, p # root PROVE \E q \in DOMAIN Q : IsKid(Q, q, p)
    BY DEF Reached
  <2>1. ASSUME NEW i \in 1..N+1, t[i].value = p PROVE IsKid(Q, a, p)
    <3>1. i \in 1..Len(Q[a].kids) /\ Q[a].kids[i].value = p /\ IsInternal(Q, a)
      BY <1>1, <1>4, <1>7, <1>8, <2>1
    <3> QED BY <3>1 DEF IsKid
  <2>2. CASE p = n
    <3>1. k + 1 \in 1..N+1 /\ t[k + 1].value = p
      BY <1>1, <1>3, <1>4, <2>2 DEF Cells
    <3> QED BY <1>1, <1>5, <2>1, <3>1
  <2>3. CASE p # n
    <3>1. PICK q \in D : IsKid(P, q, p)
      BY <1>1, <1>5, <2>3 DEF Reached
    <3>2. CASE q # a
      <4>1. IsKid(Q, q, p)
        BY <1>5, <1>8, <3>1, <3>2 DEF IsKid
      <4> QED BY <1>5, <4>1
    <3>3. CASE q = a
      <4>1. PICK i \in 1..N : s[i].value = p
        BY <3>1, <3>3 DEF IsKid
      <4>2. CASE i <= k
        <5>1. i \in 1..N+1 /\ i \in 1..k
          BY <1>1, <1>3, <4>2
        <5>2. t[i].value = p
          BY <1>4, <4>1, <5>1
        <5> QED BY <1>1, <1>5, <2>1, <5>1, <5>2
      <4>3. CASE ~(i <= k)
        <5>1. i + 1 \in 1..N+1 /\ i \in k+1..N
          BY <1>1, <1>3, <4>3
        <5>2. t[i + 1].value = p
          BY SMTT(30), <1>4, <4>1, <5>1
        <5> QED BY <1>1, <1>5, <2>1, <5>1, <5>2
      <4> QED BY <4>2, <4>3
    <3> QED BY <3>2, <3>3
  <2> QED BY <2>2, <2>3
<1> QED BY <1>9, <1>10, <1>11, <1>13, <1>16, <1>17 DEF Laid, Q
-----------------------------------------------------------------------------

(* Only a tree with dense leaves has them. *)
DenseOnly(P, h) == \A p \in DOMAIN P : P[p].type = "dense" => h.useDense

(* A split under way for the key.  The blocks of the cursor hold the key,  *)
(* but for a leaf with wrong bounds that the key has passed; its parent    *)
(* may then not lead to it.                                                *)
Bent(t, key) ==
  LET level == t.cursor[t.header.depth]
  IN  level.pid \in DOMAIN t.bounds /\ level.upper <= key
Aimed(t, pl, key, i) ==
  /\ pl[t.cursor[i].pid].lower <= key
  /\ key < pl[t.cursor[i].pid].upper \/ (i = t.header.depth /\ Bent(t, key))
LinkedOrBent(t, i, key) ==
  Linked(t.page, t.cursor, i) \/ (i = t.header.depth - 1 /\ Bent(t, key))
Track(t, pl, o, n, x, temp, key) ==
  /\ IsTree(t) /\ IsHeader(t.header)
  /\ Laid(t.page, t.header.root, t.header.depth, pl, o, n, x)
  /\ BoundsGood(t.page, t.header.root, pl, t.bounds)
  /\ DenseOnly(t.page, t.header)
  /\ t.cursor \in Seq(PathLevel) /\ Len(t.cursor) = t.header.depth
  /\ \A i \in 1..t.header.depth :
       LevelGood(t.page, pl, t.bounds, t.cursor, i) /\ Aimed(t, pl, key, i)
  /\ PinsGood(DOMAIN t.page, t.header.root, t.pins, t.cursor, temp)

(* The pages are whole again, but for a block of level L that may have one *)
(* cell too many.                                                          *)
Whole(t, pl, x, L, key) ==
  /\ Track(t, pl, 0, 0, x, -1, key)
  /\ L \in 1..t.header.depth /\ t.cursor[1].pid = t.header.root
  /\ \A i \in 1..L-1 : Linked(t.page, t.cursor, i)
  /\ \A i \in L..t.header.depth-1 : LinkedOrBent(t, i, key)

(* The block of level L is torn: o has lost its upper part to n.           *)
Torn(t, pl, o, n, L, temp, key) ==
  /\ Track(t, pl, o, n, 0, temp, key)
  /\ L \in 1..t.header.depth
  /\ o \in DOMAIN t.page /\ n \in DOMAIN t.page /\ o # n
  /\ pl[o].level = L /\ pl[n].level = L /\ pl[o].upper = pl[n].lower
  /\ \/ t.cursor[L].pid = o /\ temp = n
     \/ t.cursor[L].pid = n /\ temp = o
  /\ L = 1 => o = t.header.root
  /\ L > 1 => /\ t.cursor[1].pid = t.header.root
              /\ t.cursor[L - 1].index \in 0..Len(t.page[t.cursor[L - 1].pid].kids)-1
              /\ t.page[t.cursor[L - 1].pid].kids[t.cursor[L - 1].index + 1].value = o
  /\ \A i \in 1..L-2 : Linked(t.page, t.cursor, i)
  /\ \A i \in L..t.header.depth-1 : LinkedOrBent(t, i, key)

(* What a block of the cursor is. *)
LEMMA TrackLevel ==
  ASSUME NEW t, NEW pl, NEW o, NEW n, NEW x, NEW temp, NEW key, Track(t, pl, o, n, x, temp, key),
         NEW i \in 1..t.header.depth
  PROVE  LET c == t.cursor
             p == c[i].pid
         IN  /\ c[i] \in PathLevel /\ p \in DOMAIN t.page /\ p \in Nat /\ p > 0 /\ pl[p].level = i
             /\ IsInternal(t.page, p) <=> i < t.header.depth
             /\ c[i].lower \in Nat /\ c[i].upper \in Nat /\ c[i].index \in Int
             /\ pl[p].lower \in Nat /\ pl[p].upper \in Nat
             /\ c[i].lower <= pl[p].lower /\ c[i].upper \in {0, pl[p].upper}
             /\ p \notin DOMAIN t.bounds => c[i].lower = pl[p].lower /\ c[i].upper = pl[p].upper
             /\ p \in DOMAIN t.bounds =>
                  i = t.header.depth /\ p # t.header.root /\ t.bounds[p] = <<c[i].lower, c[i].upper>>
<1> DEFINE c == t.cursor
           p == c[i].pid
           bd == t.bounds
           P == t.page
           depth == t.header.depth
           root == t.header.root
<1>1. /\ Nodes(P) /\ Placed(P, depth, pl) /\ depth \in Nat /\ LevelGood(P, pl, bd, c, i)
      /\ BoundsGood(P, root, pl, bd) /\ c \in Seq(PathLevel) /\ Len(c) = depth
  BY DEF Track, Laid, Placed
<1>2. c[i] \in PathLevel
  BY <1>1
<1>3. p \in DOMAIN P /\ pl[p].level = i
      /\ <<c[i].lower, c[i].upper>> = IF p \in DOMAIN bd THEN bd[p] ELSE <<pl[p].lower, pl[p].upper>>
  BY <1>1 DEF LevelGood, Shown
<1>4. p \in DOMAIN bd => bd[p][1] <= pl[p].lower /\ bd[p][2] \in {0, pl[p].upper}
        /\ ~IsInternal(P, p) /\ p # root
  BY <1>1 DEF BoundsGood
<1> DEFINE l == c[i]
<1> HIDE DEF l, P, bd, c
<1>5. /\ l.pid = p /\ l.lower \in Nat /\ l.upper \in Nat /\ l.index \in Int
      /\ <<l.lower, l.upper>> = IF p \in DOMAIN bd THEN bd[p] ELSE <<pl[p].lower, pl[p].upper>>
  BY <1>2, <1>3 DEF PathLevel, l
<1> HIDE DEF p
<1>6. /\ p \in Nat /\ p > 0 /\ pl[p].lower \in Nat /\ pl[p].upper \in Nat
      /\ IsInternal(P, p) <=> i < depth
  <2>1. p \in Nat /\ p > 0
    BY <1>1, <1>3 DEF Nodes
  <2>2. pl[p].lower \in Nat /\ pl[p].upper \in Nat /\ (IsInternal(P, p) <=> pl[p].level < depth)
    <3>1. Placed(P, depth, pl) /\ p \in DOMAIN P
      BY <1>1, <1>3
    <3> HIDE DEF depth
    <3> QED BY <3>1, SpotIs
  <2>3. pl[p].level = i
    BY <1>3
  <2> QED BY <2>1, <2>2, <2>3
<1>7. p \notin DOMAIN bd => l.lower = pl[p].lower /\ l.upper = pl[p].upper
  BY <1>5
<1>8. p \in DOMAIN bd => bd[p] = <<l.lower, l.upper>> /\ l.lower = bd[p][1] /\ l.upper = bd[p][2]
  BY <1>5
<1>9. l.lower <= pl[p].lower /\ l.upper \in {0, pl[p].upper}
  <2>1. CASE p \in DOMAIN bd
    BY <1>4, <1>8, <2>1
  <2>2. CASE p \notin DOMAIN bd
    BY <1>6, <1>7, <2>2
  <2> QED BY <2>1, <2>2
<1>10. p \in DOMAIN bd => i = depth /\ p # root
  BY <1>1, <1>4, <1>6
<1> QED BY <1>2, <1>3, <1>5, <1>6, <1>7, <1>8, <1>9, <1>10 DEF l, p, c, P, bd

-----------------------------------------------------------------------------
(* A block of the cursor that is to be cut at sp, into left and right; cnt *)
(* cells stay on the left.                                                 *)
Divides(t, pl, x, L, key, sp, left, right, cnt) ==
  LET a == t.cursor[L].pid
      n == Fresh(t.page)
      ks == t.page[a].kids
  IN  /\ Whole(t, pl, x, L, key) /\ key \in Nat /\ cnt \in Int /\ Within(pl, a, key)
      /\ Cuts(t.page, t.header.root, t.header.depth, pl, x, a, sp, left, right)
      /\ Laid(CutPages(t.page, a, n, left, right), t.header.root, t.header.depth,
              CutLayout(pl, a, n, sp), a, n, 0)
      /\ left.type = "dense" => t.header.useDense
      /\ right.type = "dense" => t.header.useDense
      /\ L < t.header.depth =>
           /\ cnt \in Nat /\ 1 <= cnt /\ cnt < Len(ks) /\ sp = ks[cnt + 1].key
           /\ left = Internal(SubSeq(ks, 1, cnt)) /\ right = Internal(SubSeq(ks, cnt + 1, Len(ks)))
LeftLevel(t, L, sp) == [t.cursor[L] EXCEPT !.upper = sp]
RightLevel(t, L, sp, cnt) ==
  Level(Fresh(t.page), t.cursor[L].index - cnt, <<sp, t.cursor[L].upper>>)
Takes(t, L, sp, cnt, key) == InRange(RightLevel(t, L, sp, cnt), key)
DividedCursor(t, L, key, sp, cnt) ==
  [t.cursor EXCEPT ![L] = IF Takes(t, L, sp, cnt, key) THEN RightLevel(t, L, sp, cnt)
                          ELSE LeftLevel(t, L, sp)]
DividedBounds(t, L, sp) ==
  LET a == t.cursor[L].pid
  IN  IF a \notin DOMAIN t.bounds THEN t.bounds
      ELSE Extended([t.bounds EXCEPT ![a] = <<LeftLevel(t, L, sp).lower, sp>>],
                    Fresh(t.page), <<sp, t.cursor[L].upper>>)

(* The fields of what it leaves. *)
LEMMA DivideIs ==
  ASSUME NEW t, IsTree(t), NEW L, NEW key, NEW sp, NEW left, NEW right, NEW cnt
  PROVE  LET s == Divide(t, L, key, sp, left, right, cnt)
             n == Fresh(t.page)
             a == t.cursor[L].pid
         IN  /\ IsTree(s.tree) /\ s.going /\ s.new = RightLevel(t, L, sp, cnt)
             /\ s.temp = IF Takes(t, L, sp, cnt, key) THEN a ELSE n
             /\ s.tree.page = CutPages(t.page, a, n, left, right)
             /\ s.tree.header = t.header
             /\ s.tree.bounds = DividedBounds(t, L, sp)
             /\ s.tree.pins = Extended(t.pins, n, 1)
             /\ s.tree.cursor = DividedCursor(t, L, key, sp, cnt)
<1> DEFINE s == Divide(t, L, key, sp, left, right, cnt)
<1>1. /\ s.going /\ s.new = RightLevel(t, L, sp, cnt)
      /\ s.temp = IF Takes(t, L, sp, cnt, key) THEN t.cursor[L].pid ELSE Fresh(t.page)
  BY DEF Divide, RightLevel, Takes, Fresh, NextPid
<1>2. s.tree = [t EXCEPT
         !.page = CutPages(t.page, t.cursor[L].pid, Fresh(t.page), left, right),
         !.bounds = DividedBounds(t, L, sp),
         !.pins = Extended(t.pins, Fresh(t.page), 1),
         !.cursor = DividedCursor(t, L, key, sp, cnt)]
  BY DEF Divide, RightLevel, Takes, Fresh, NextPid, CutPages, DividedBounds, DividedCursor,
     LeftLevel, IsTree
<1>3. s.tree = [page |-> CutPages(t.page, t.cursor[L].pid, Fresh(t.page), left, right),
                header |-> t.header,
                bounds |-> DividedBounds(t, L, sp),
                pins |-> Extended(t.pins, Fresh(t.page), 1),
                cursor |-> DividedCursor(t, L, key, sp, cnt)]
  BY <1>2 DEF IsTree
<1> HIDE DEF s
<1> QED BY <1>1, <1>3 DEF IsTree, s
-----------------------------------------------------------------------------

DividedTo(t, L, key, sp, left, right, cnt, t2) ==
  /\ IsTree(t2)
  /\ t2.page = CutPages(t.page, t.cursor[L].pid, Fresh(t.page), left, right)
  /\ t2.header = t.header
  /\ t2.bounds = DividedBounds(t, L, sp)
  /\ t2.pins = Extended(t.pins, Fresh(t.page), 1)
  /\ t2.cursor = DividedCursor(t, L, key, sp, cnt)

(* The facts the next lemmas share. *)
Halves(t, pl, L, key, sp, left, right, cnt, t2, a, n, pl2) ==
  /\ HasCut(t.page, pl, a, sp, left, right, n, t2.page, pl2)
  /\ a \in DOMAIN t.page /\ a \in Nat /\ pl[a].level = L /\ pl[a].lower \in Nat /\ pl[a].upper \in Nat
  /\ sp \in Nat /\ pl[a].lower < sp /\ sp < pl[a].upper /\ a # n
  /\ pl[a].lower <= key /\ key < pl[a].upper /\ key \in Nat /\ L \in Nat
  /\ L \in 1..t.header.depth /\ t.header.depth \in Nat
  /\ t.cursor[L].pid = a
  /\ IsInternal(t.page, a) <=> L < t.header.depth
  /\ t2.header = t.header
  /\ t2.bounds = [p \in DOMAIN t2.bounds |-> t2.bounds[p]]
  /\ n \notin DOMAIN t.bounds
  /\ DOMAIN t2.bounds = DOMAIN t.bounds \cup (IF a \in DOMAIN t.bounds THEN {n} ELSE {})
  /\ \A p \in DOMAIN t.bounds : p # a => t2.bounds[p] = t.bounds[p]
  /\ a \in DOMAIN t.bounds => /\ t2.bounds[a] = <<t.cursor[L].lower, sp>>
                              /\ t2.bounds[n] = <<sp, t.cursor[L].upper>>
  /\ Len(t2.cursor) = Len(t.cursor) /\ Len(t.cursor) = t.header.depth
  /\ \A i \in 1..t.header.depth : i # L => t2.cursor[i] = t.cursor[i]
  /\ t2.cursor \in Seq(PathLevel)
  /\ Takes(t, L, sp, cnt, key) <=> sp <= key /\ key < t.cursor[L].upper
  /\ Takes(t, L, sp, cnt, key) =>
       t2.cursor[L] = [pid |-> n, index |-> t.cursor[L].index - cnt, lower |-> sp,
           upper |-> t.cursor[L].upper]
  /\ ~Takes(t, L, sp, cnt, key) =>
       t2.cursor[L] = [pid |-> a, index |-> t.cursor[L].index, lower |-> t.cursor[L].lower, upper |-> sp]

(* What a split makes of the tree: the two halves and the cursor on one of *)
(* them.                                                                   *)
LEMMA HalvesAre ==
  ASSUME NEW t, NEW pl, NEW x, NEW L, NEW key, NEW sp, NEW left, NEW right, NEW cnt,
         Divides(t, pl, x, L, key, sp, left, right, cnt),
         NEW t2, DividedTo(t, L, key, sp, left, right, cnt, t2)
  PROVE  Halves(t, pl, L, key, sp, left, right, cnt, t2, t.cursor[L].pid, Fresh(t.page),
                CutLayout(pl, t.cursor[L].pid, Fresh(t.page), sp))
<1> DEFINE a == t.cursor[L].pid
           n == Fresh(t.page)
           pl2 == CutLayout(pl, a, n, sp)
           c == t.cursor
           depth == t.header.depth
           takes == Takes(t, L, sp, cnt, key)
<1>1. /\ Cuts(t.page, t.header.root, depth, pl, x, a, sp, left, right)
      /\ Track(t, pl, 0, 0, x, -1, key) /\ L \in 1..depth /\ cnt \in Int /\ key \in Nat
           /\ Within(pl, a, key)
  BY DEF Divides, Whole
<1>2. HasCut(t.page, pl, a, sp, left, right, n, t2.page, pl2)
  <2>1. t2.page = CutPages(t.page, a, n, left, right)
    BY DEF DividedTo
  <2> HIDE DEF a, n, pl2
  <2> QED BY <1>1, <2>1, CutIs DEF n, pl2
<1>3. /\ c[L] \in PathLevel /\ a \in DOMAIN t.page /\ a \in Nat /\ pl[a].level = L
      /\ (IsInternal(t.page, a) <=> L < depth)
      /\ pl[a].lower \in Nat /\ pl[a].upper \in Nat
  BY <1>1, TrackLevel
<1>4. sp \in Nat /\ pl[a].lower < sp /\ sp < pl[a].upper /\ n # a /\ n \notin DOMAIN t.page /\ n \in Nat
  BY <1>1, <1>2 DEF Cuts, HasCut
<1>5. pl[a].lower <= key /\ key < pl[a].upper
  BY <1>1 DEF Within
<1>6. depth \in Nat /\ c \in Seq(PathLevel) /\ Len(c) = depth /\ BoundsGood(t.page, t.header.root,
        pl, t.bounds)
  BY <1>1 DEF Track, Laid, Placed
<1>7. DOMAIN t.bounds \subseteq DOMAIN t.page
  BY <1>6 DEF BoundsGood
<1>8. /\ n \notin DOMAIN t.bounds
      /\ t2.bounds = [p \in DOMAIN t2.bounds |-> t2.bounds[p]]
      /\ DOMAIN t2.bounds = DOMAIN t.bounds \cup (IF a \in DOMAIN t.bounds THEN {n} ELSE {})
      /\ \A p \in DOMAIN t.bounds : p # a => t2.bounds[p] = t.bounds[p]
      /\ a \in DOMAIN t.bounds => t2.bounds[a] = <<c[L].lower, sp>> /\ t2.bounds[n] = <<sp, c[L].upper>>
  <2>1. n \notin DOMAIN t.bounds
    BY <1>4, <1>7
  <2>2. t2.bounds = DividedBounds(t, L, sp)
    BY DEF DividedTo
  <2>3. CASE a \notin DOMAIN t.bounds
    <3>1. t2.bounds = t.bounds
      BY <2>2, <2>3 DEF DividedBounds
    <3>2. t.bounds \in [DOMAIN t.bounds -> Nat \X Nat]
      BY <1>6 DEF BoundsGood
    <3>3. t.bounds = [p \in DOMAIN t.bounds |-> t.bounds[p]]
      BY <3>2
    <3> QED BY <2>1, <2>3, <3>1, <3>3
  <2>4. CASE a \in DOMAIN t.bounds
    <3> DEFINE b1 == [t.bounds EXCEPT ![a] = <<LeftLevel(t, L, sp).lower, sp>>]
    <3>1. t2.bounds = Extended(b1, n, <<sp, c[L].upper>>)
      BY <2>2, <2>4 DEF DividedBounds
    <3>2. LeftLevel(t, L, sp).lower = c[L].lower
      BY <1>3 DEF LeftLevel, PathLevel
    <3>3. /\ DOMAIN b1 = DOMAIN t.bounds /\ b1[a] = <<c[L].lower, sp>>
          /\ \A p \in DOMAIN t.bounds : p # a => b1[p] = t.bounds[p]
      BY <2>4, <3>2
    <3> HIDE DEF b1, a, n
    <3>4. t2.bounds = [y \in DOMAIN b1 \cup {n} |-> IF y = n THEN <<sp, c[L].upper>> ELSE b1[y]]
      BY <3>1 DEF Extended
    <3> QED BY <1>4, <2>1, <2>4, <3>3, <3>4
  <2> QED BY <2>3, <2>4
<1>9. takes <=> sp <= key /\ key < c[L].upper
  BY DEF Takes, InRange, RightLevel, Level
<1> DEFINE r == [pid |-> n, index |-> c[L].index - cnt, lower |-> sp, upper |-> c[L].upper]
           l == [pid |-> a, index |-> c[L].index, lower |-> c[L].lower, upper |-> sp]
<1>10. RightLevel(t, L, sp, cnt) = r
  BY DEF RightLevel, Level
<1>11. LeftLevel(t, L, sp) = l
  BY <1>3 DEF LeftLevel, PathLevel
<1>12. r \in PathLevel /\ l \in PathLevel
  <2>1. c[L].index \in Int /\ c[L].lower \in Nat /\ c[L].upper \in Nat
    BY <1>3 DEF PathLevel
  <2> HIDE DEF a, n
  <2> QED BY <1>1, <1>3, <1>4, <2>1 DEF PathLevel
<1>13. t2.cursor = [c EXCEPT ![L] = IF takes THEN r ELSE l]
  BY <1>10, <1>11 DEF DividedTo, DividedCursor
<1> HIDE DEF r, l, takes, c
<1>14. /\ Len(t2.cursor) = Len(c) /\ t2.cursor \in Seq(PathLevel)
       /\ t2.cursor[L] = IF takes THEN r ELSE l
       /\ \A i \in 1..depth : i # L => t2.cursor[i] = c[i]
  <2>1. (IF takes THEN r ELSE l) \in PathLevel /\ L \in 1..Len(c)
    BY <1>1, <1>6, <1>12
  <2> DEFINE m == IF takes THEN r ELSE l
  <2> HIDE DEF m, depth
  <2>2. t2.cursor = [c EXCEPT ![L] = m] /\ m \in PathLevel
    BY <1>13, <2>1 DEF m
  <2>3. Len(t2.cursor) = Len(c) /\ t2.cursor \in Seq(PathLevel)
    BY <1>6, <2>1, <2>2
  <2>4. t2.cursor[L] = m /\ \A i \in 1..depth : i # L => t2.cursor[i] = c[i]
    BY <1>6, <2>1, <2>2
  <2> QED BY <2>3, <2>4 DEF m
<1>15. t2.header = t.header
  BY DEF DividedTo
<1> HIDE DEF pl2
<1>16. Halves(t, pl, L, key, sp, left, right, cnt, t2, a, n, pl2)
  <2> HIDE DEF a, n
  <2>1. t.cursor[L].pid = a
    BY DEF a
  <2> QED BY <1>1, <1>2, <1>3, <1>4, <1>5, <1>6, <1>8, <1>9, <1>14, <1>15, <2>1 DEF Halves, r, l,
        takes, c
<1> QED BY <1>16 DEF pl2
-----------------------------------------------------------------------------

(* The objects of the two halves, like those of the other pages, have      *)
(* sound bounds.                                                           *)
LEMMA DividedBoundsGood ==
  ASSUME NEW t, NEW pl, NEW x, NEW L, NEW key, NEW sp, NEW left, NEW right, NEW cnt,
         Divides(t, pl, x, L, key, sp, left, right, cnt), NEW t2, NEW a, NEW n, NEW pl2,
         Halves(t, pl, L, key, sp, left, right, cnt, t2, a, n, pl2)
  PROVE  BoundsGood(t2.page, t.header.root, pl2, t2.bounds)
<1> DEFINE bd == t.bounds
           root == t.header.root
           c == t.cursor
           P == t.page
<1>0. a = t.cursor[L].pid
  BY DEF Halves
<1>1. /\ Track(t, pl, 0, 0, x, -1, key) /\ L \in 1..t.header.depth
      /\ Cuts(P, root, t.header.depth, pl, x, t.cursor[L].pid, sp, left, right)
  BY DEF Divides, Whole
<1>2. BoundsGood(P, root, pl, bd) /\ root \in DOMAIN P
  BY <1>1 DEF Track, Laid, Rooted
<1>3. /\ HasCut(P, pl, a, sp, left, right, n, t2.page, pl2)
      /\ a \in DOMAIN P /\ c[L].pid = a /\ a # n /\ sp \in Nat
      /\ n \notin DOMAIN bd
      /\ DOMAIN t2.bounds = DOMAIN bd \cup (IF a \in DOMAIN bd THEN {n} ELSE {})
      /\ \A p \in DOMAIN bd : p # a => t2.bounds[p] = bd[p]
      /\ a \in DOMAIN bd => /\ t2.bounds[a] = <<c[L].lower, sp>>
                            /\ t2.bounds[n] = <<sp, c[L].upper>>
  <2> HIDE DEF bd, c, P
  <2> QED BY DEF Halves, bd, c, P
<1>4. /\ n \notin DOMAIN P
      /\ DOMAIN t2.page = DOMAIN P \cup {n}
      /\ t2.page[a] = left /\ t2.page[n] = right
      /\ \A p \in DOMAIN P : p # a => t2.page[p] = P[p]
      /\ pl2[n] = [level |-> pl[a].level, lower |-> sp, upper |-> pl[a].upper]
      /\ pl2[a] = [level |-> pl[a].level, lower |-> pl[a].lower, upper |-> sp]
      /\ \A p \in DOMAIN P : p # a => pl2[p] = pl[p]
  BY <1>3 DEF HasCut
<1>5. /\ c[L].lower \in Nat /\ c[L].upper \in Nat
      /\ c[L].lower <= pl[a].lower /\ c[L].upper \in {0, pl[a].upper}
  BY <1>1, <1>3, TrackLevel
<1>6. (left.type = "internal" <=> IsInternal(P, a)) /\ (right.type = "internal" <=> IsInternal(P, a))
  BY <1>1, <1>3 DEF Cuts
<1>7. \A p \in DOMAIN bd : /\ bd[p] \in Nat \X Nat
       /\ p \in DOMAIN P /\ ~IsInternal(P, p) /\ p # root
       /\ bd[p][1] <= pl[p].lower /\ bd[p][2] \in {0, pl[p].upper}
  BY <1>2 DEF BoundsGood
<1> DEFINE Good(p) == /\ t2.bounds[p] \in Nat \X Nat
       /\ p \in DOMAIN t2.page /\ ~IsInternal(t2.page, p) /\ p # root
       /\ t2.bounds[p][1] <= pl2[p].lower /\ t2.bounds[p][2] \in {0, pl2[p].upper}
<1> HIDE DEF bd, c, root
<1>8. ASSUME NEW p \in DOMAIN bd, p # a PROVE Good(p)
  BY <1>3, <1>4, <1>7, <1>8 DEF IsInternal
<1>9. ASSUME a \in DOMAIN bd PROVE Good(a) /\ Good(n)
  <2>1. ~IsInternal(P, a) /\ a # root
    BY <1>7, <1>9
  <2>2. Good(a)
    <3>1. ~IsInternal(t2.page, a) /\ a \in DOMAIN t2.page
      BY <1>3, <1>4, <1>6, <2>1 DEF IsInternal
    <3>2. t2.bounds[a] = <<c[L].lower, sp>> /\ pl2[a].lower = pl[a].lower /\ pl2[a].upper = sp
      BY <1>3, <1>4, <1>9
    <3> QED BY <1>3, <1>5, <2>1, <3>1, <3>2
  <2>3. ~IsInternal(t2.page, n) /\ n # root
    BY <1>2, <1>4, <1>6, <2>1 DEF IsInternal, root
  <2>4. t2.bounds[n] = <<sp, c[L].upper>> /\ pl2[n].lower = sp /\ pl2[n].upper = pl[a].upper
    BY <1>3, <1>4, <1>9
  <2>5. Good(n)
    BY <1>3, <1>4, <1>5, <2>3, <2>4
  <2> QED BY <2>2, <2>5
<1>10. \A p \in DOMAIN t2.bounds : Good(p)
  <2> SUFFICES ASSUME NEW p \in DOMAIN t2.bounds PROVE Good(p)
    OBVIOUS
  <2> HIDE DEF Good
  <2> QED BY <1>3, <1>8, <1>9
<1>11. t2.bounds = [p \in DOMAIN t2.bounds |-> t2.bounds[p]]
  BY DEF Halves
<1> QED BY <1>10, <1>11 DEF BoundsGood, root
-----------------------------------------------------------------------------

(* The blocks of the cursor. *)
LEMMA DividedLevels ==
  ASSUME NEW t, NEW pl, NEW x, NEW L, NEW key, NEW sp, NEW left, NEW right, NEW cnt,
         Divides(t, pl, x, L, key, sp, left, right, cnt), NEW t2, NEW a, NEW n, NEW pl2,
         Halves(t, pl, L, key, sp, left, right, cnt, t2, a, n, pl2),
         NEW i \in 1..t.header.depth
  PROVE  LevelGood(t2.page, pl2, t2.bounds, t2.cursor, i) /\ Aimed(t2, pl2, key, i)
<1> DEFINE bd == t.bounds
           c == t.cursor
           P == t.page
           depth == t.header.depth
<1>1. Track(t, pl, 0, 0, x, -1, key) /\ L \in 1..depth
  BY DEF Divides, Whole
<1>2. /\ HasCut(P, pl, a, sp, left, right, n, t2.page, pl2)
      /\ a \in DOMAIN P /\ c[L].pid = a /\ a # n /\ sp \in Nat
      /\ n \notin DOMAIN bd
      /\ DOMAIN t2.bounds = DOMAIN bd \cup (IF a \in DOMAIN bd THEN {n} ELSE {})
      /\ \A p \in DOMAIN bd : p # a => t2.bounds[p] = bd[p]
      /\ a \in DOMAIN bd => /\ t2.bounds[a] = <<c[L].lower, sp>>
                            /\ t2.bounds[n] = <<sp, c[L].upper>>
      /\ depth \in Nat /\ key \in Nat /\ pl[a].upper \in Nat /\ pl[a].lower \in Nat
      /\ pl[a].lower <= key /\ key < pl[a].upper
      /\ t2.header = t.header
      /\ \A j \in 1..depth : j # L => t2.cursor[j] = c[j]
  <2> HIDE DEF bd, c, P, depth
  <2> QED BY DEF Halves, bd, c, P, depth
<1>3. /\ n \notin DOMAIN P
      /\ DOMAIN t2.page = DOMAIN P \cup {n}
      /\ pl2[n] = [level |-> pl[a].level, lower |-> sp, upper |-> pl[a].upper]
      /\ pl2[a] = [level |-> pl[a].level, lower |-> pl[a].lower, upper |-> sp]
      /\ \A p \in DOMAIN P : p # a => pl2[p] = pl[p]
  BY <1>2 DEF HasCut
<1>4. ASSUME NEW j \in 1..depth
      PROVE  /\ c[j].pid \in DOMAIN P /\ pl[c[j].pid].level = j
             /\ c[j].lower \in Nat /\ c[j].upper \in Nat /\ c[j].upper \in {0, pl[c[j].pid].upper}
             /\ c[j].pid \notin DOMAIN bd => c[j].lower = pl[c[j].pid].lower
                  /\ c[j].upper = pl[c[j].pid].upper
             /\ c[j].pid \in DOMAIN bd => j = depth /\ bd[c[j].pid] = <<c[j].lower, c[j].upper>>
             /\ LevelGood(P, pl, bd, c, j) /\ Aimed(t, pl, key, j)
  <2>1. LevelGood(P, pl, bd, c, j) /\ Aimed(t, pl, key, j)
    BY <1>1 DEF Track
  <2> QED BY <1>1, <2>1, TrackLevel
<1>5. CASE i # L
  <2>1. t2.cursor[i] = c[i] /\ c[i].pid \in DOMAIN P /\ c[i].pid # a
    <3>1. pl[c[i].pid].level # pl[c[L].pid].level
      BY <1>1, <1>4, <1>5
    <3> QED BY <1>2, <1>4, <1>5, <3>1
  <2> DEFINE p == c[i].pid
  <2>2. pl2[p] = pl[p] /\ p \in DOMAIN t2.page /\ p # n
    BY <1>3, <2>1
  <2>3. (p \in DOMAIN t2.bounds <=> p \in DOMAIN bd) /\ (p \in DOMAIN bd => t2.bounds[p] = bd[p])
    BY SMTT(30), <1>2, <2>1, <2>2
  <2>4. LevelGood(t2.page, pl2, t2.bounds, t2.cursor, i)
    BY <1>4, <2>1, <2>2, <2>3 DEF LevelGood, Shown
  <2>5. Aimed(t2, pl2, key, i)
    <3>1. Aimed(t, pl, key, i)
      BY <1>4
    <3>2. i = depth /\ Bent(t, key) => Bent(t2, key)
      BY <1>2, <2>1, <2>3 DEF Bent
    <3>3. pl[p].lower <= key /\ (key < pl[p].upper \/ (i = depth /\ Bent(t, key)))
      BY <3>1 DEF Aimed
    <3> QED BY <1>2, <2>1, <2>2, <3>2, <3>3 DEF Aimed
  <2> QED BY <2>4, <2>5
<1>6. CASE i = L
  <2> DEFINE takes == Takes(t, L, sp, cnt, key)
  <2>0. /\ takes <=> sp <= key /\ key < c[L].upper
        /\ takes =>
             t2.cursor[L] = [pid |-> n, index |-> c[L].index - cnt, lower |-> sp, upper |-> c[L].upper]
        /\ ~takes =>
             t2.cursor[L] = [pid |-> a, index |-> c[L].index, lower |-> c[L].lower, upper |-> sp]
    BY DEF Halves
  <2> HIDE DEF takes, bd
  <2>1. pl[a].level = L
    BY <1>1, <1>2, <1>4
  <2>2. CASE takes
    <3>1. t2.cursor[L].pid = n /\ t2.cursor[L].lower = sp /\ t2.cursor[L].upper = c[L].upper
      BY <2>0, <2>2
    <3>2. n \in DOMAIN t2.page /\ pl2[n].level = L
      BY <1>3, <2>1
    <3>3. Shown(pl2, t2.bounds, n) = <<sp, c[L].upper>>
      <4>1. CASE a \in DOMAIN bd
        BY <1>2, <4>1 DEF Shown
      <4>2. CASE a \notin DOMAIN bd
        <5>1. c[L].upper = pl[a].upper
          BY <1>1, <1>2, <1>4, <4>2
        <5>2. n \notin DOMAIN t2.bounds
          BY <1>2, <4>2
        <5> QED BY <1>3, <5>1, <5>2 DEF Shown
      <4> QED BY <4>1, <4>2
    <3>4. LevelGood(t2.page, pl2, t2.bounds, t2.cursor, i)
      BY <1>6, <3>1, <3>2, <3>3 DEF LevelGood
    <3>5. pl2[n].lower <= key /\ key < pl2[n].upper
      BY <1>2, <1>3, <2>0, <2>2
    <3>6. Aimed(t2, pl2, key, i)
      BY <1>6, <3>1, <3>5 DEF Aimed
    <3> QED BY <3>4, <3>6
  <2>3. CASE ~takes
    <3>1. t2.cursor[L].pid = a /\ t2.cursor[L].lower = c[L].lower /\ t2.cursor[L].upper = sp
      BY <2>0, <2>3
    <3>2. a \in DOMAIN t2.page /\ pl2[a].level = L
      BY <1>2, <1>3, <2>1
    <3>3. Shown(pl2, t2.bounds, a) = <<c[L].lower, sp>>
      <4>1. CASE a \in DOMAIN bd
        BY <1>2, <4>1 DEF Shown
      <4>2. CASE a \notin DOMAIN bd
        <5>1. c[L].lower = pl[a].lower
          BY <1>1, <1>2, <1>4, <4>2
        <5>2. a \notin DOMAIN t2.bounds
          BY <1>2, <4>2
        <5> QED BY <1>3, <5>1, <5>2 DEF Shown
      <4> QED BY <4>1, <4>2
    <3>4. LevelGood(t2.page, pl2, t2.bounds, t2.cursor, i)
      BY <1>6, <3>1, <3>2, <3>3 DEF LevelGood
    <3>5. pl2[a].lower <= key /\ pl2[a].upper = sp
      BY <1>2, <1>3
    <3>6. key < sp \/ (L = depth /\ Bent(t2, key))
      <4>1. CASE key < sp
        BY <4>1
      <4>2. CASE ~(key < sp)
        <5>1. sp <= key /\ ~(key < c[L].upper)
          BY <1>2, <2>0, <2>3, <4>2
        <5>2. c[L].upper # pl[a].upper
          BY <1>2, <5>1
        <5>3. a \in DOMAIN bd
          BY <1>1, <1>2, <1>4, <5>2
        <5>4. L = depth
          BY <1>1, <1>2, <1>4, <5>3
        <5>5. a \in DOMAIN t2.bounds
          BY <1>2, <5>3
        <5>6. Bent(t2, key)
          BY <1>2, <3>1, <5>1, <5>4, <5>5 DEF Bent
        <5> QED BY <5>4, <5>6
      <4> QED BY <4>1, <4>2
    <3>7. Aimed(t2, pl2, key, i)
      BY <1>2, <1>6, <3>1, <3>5, <3>6 DEF Aimed
    <3> QED BY <3>4, <3>7
  <2> QED BY <2>2, <2>3
<1> QED BY <1>5, <1>6

(* The pins. *)
LEMMA DividedPins ==
  ASSUME NEW t, NEW pl, NEW x, NEW L, NEW key, NEW sp, NEW left, NEW right, NEW cnt,
         Divides(t, pl, x, L, key, sp, left, right, cnt), NEW t2, NEW a, NEW n, NEW pl2,
         Halves(t, pl, L, key, sp, left, right, cnt, t2, a, n, pl2),
         t2.pins = Extended(t.pins, n, 1)
  PROVE  PinsGood(DOMAIN t2.page, t.header.root, t2.pins, t2.cursor,
                  IF Takes(t, L, sp, cnt, key) THEN a ELSE n)
<1> DEFINE c == t.cursor
           d == t2.cursor
           P == t.page
           depth == t.header.depth
           root == t.header.root
           takes == Takes(t, L, sp, cnt, key)
           temp == IF takes THEN a ELSE n
           E == DOMAIN P \cup {0}
<1>1. /\ Track(t, pl, 0, 0, x, -1, key) /\ L \in 1..depth /\ root \in DOMAIN P /\ Nodes(P)
  BY DEF Divides, Whole, Track, Laid, Rooted
<1>2. DOMAIN t.pins = E /\ \A p \in E : t.pins[p] = On(c, p) + Kept(root, p) + Held(-1, p)
  BY <1>1 DEF Track, PinsGood
<1>3. /\ n \notin DOMAIN P /\ n # 0 /\ DOMAIN t2.page = DOMAIN P \cup {n} /\ a \in DOMAIN P /\ a # n
      /\ DOMAIN c = 1..depth /\ DOMAIN d = 1..depth
      /\ \A j \in 1..depth : j # L => d[j] = c[j]
      /\ takes => d[L].pid = n
      /\ ~takes => d[L].pid = a
      /\ c[L].pid = a
  <2>1. /\ HasCut(P, pl, a, sp, left, right, n, t2.page, pl2) /\ a \in DOMAIN P /\ a # n
        /\ Len(d) = Len(c) /\ Len(c) = depth /\ d \in Seq(PathLevel)
        /\ \A j \in 1..depth : j # L => d[j] = c[j]
        /\ c[L].pid = a
    BY DEF Halves
  <2>2. c \in Seq(PathLevel)
    BY <1>1 DEF Track
  <2>3. /\ takes => d[L].pid = n
        /\ ~takes => d[L].pid = a
    BY DEF Halves
  <2>4. n \notin DOMAIN P /\ n # 0 /\ DOMAIN t2.page = DOMAIN P \cup {n}
    BY <2>1 DEF HasCut
  <2>5. DOMAIN c = 1..depth /\ DOMAIN d = 1..depth
    <3> HIDE DEF c, d
    <3> QED BY <2>1, <2>2
  <2> QED BY <2>1, <2>3, <2>4, <2>5
<1>4. ASSUME NEW j \in 1..depth PROVE c[j].pid \in DOMAIN P /\ pl[c[j].pid].level = j
  BY <1>1, TrackLevel
<1>5. 0 \notin DOMAIN P /\ -1 \notin DOMAIN P
  BY <1>1 DEF Nodes
<1> HIDE DEF c, d, P, root, takes, depth
<1>6. ASSUME NEW p \in E \cup {n}
      PROVE  t2.pins[p] = On(d, p) + Kept(root, p) + Held(temp, p)
  <2>0. /\ n \notin E
        /\ t2.pins[n] = 1 /\ \A q \in E : t2.pins[q] = t.pins[q]
    <3>1. n \notin E
      BY <1>3
    <3> QED BY <1>2, <3>1 DEF Extended
  <2>1. CASE p = n
    <3>1. Kept(root, p) = 0
      BY <1>1, <1>3, <2>1 DEF Kept, root, P
    <3>2. CASE takes
      <4>1. On(d, p) = 1
        BY <1>1, <1>3, <2>1, <3>2 DEF On, depth
      <4>2. Held(temp, p) = 0
        BY <1>3, <2>1, <3>2 DEF Held
      <4> QED BY <2>0, <2>1, <3>1, <4>1, <4>2
    <3>3. CASE ~takes
      <4>1. On(d, p) = 0
        <5>1. ASSUME NEW j \in 1..depth, d[j].pid = n PROVE FALSE
          <6>1. CASE j = L
            BY <1>3, <3>3, <5>1, <6>1
          <6>2. CASE j # L
            BY <1>3, <1>4, <5>1, <6>2
          <6> QED BY <6>1, <6>2
        <5> QED BY <1>3, <2>1, <5>1 DEF On
      <4>2. Held(temp, p) = 1
        BY <2>1, <3>3 DEF Held
      <4> QED BY <2>0, <2>1, <3>1, <4>1, <4>2
    <3> QED BY <3>2, <3>3
  <2>2. CASE p = a
    <3>0. a \in E /\ a # -1
      BY <1>3, <1>5
    <3>1. On(c, a) = 1 /\ Held(-1, a) = 0
      BY <1>1, <1>3, <3>0 DEF On, Held, depth
    <3>2. t2.pins[a] = 1 + Kept(root, a) + 0
      BY <1>2, <2>0, <3>0, <3>1
    <3>3. Kept(root, a) \in Int
      BY DEF Kept
    <3>4. CASE takes
      <4>1. On(d, a) = 0
        <5>1. ASSUME NEW j \in 1..depth, d[j].pid = a PROVE FALSE
          <6>1. CASE j = L
            BY <1>3, <3>4, <5>1, <6>1
          <6>2. CASE j # L
            <7>1. c[j].pid = a /\ pl[a].level = j /\ pl[a].level = L
              BY <1>1, <1>3, <1>4, <5>1, <6>2 DEF depth
            <7> QED BY <6>2, <7>1
          <6> QED BY <6>1, <6>2
        <5> QED BY <1>3, <5>1 DEF On
      <4>2. Held(temp, a) = 1
        BY <3>4 DEF Held
      <4> QED BY <2>2, <3>2, <3>3, <4>1, <4>2
    <3>5. CASE ~takes
      <4>1. On(d, a) = 1
        BY <1>1, <1>3, <3>5 DEF On, depth
      <4>2. Held(temp, a) = 0
        BY <1>3, <3>5 DEF Held
      <4> QED BY <2>2, <3>2, <3>3, <4>1, <4>2
    <3> QED BY <3>4, <3>5
  <2>3. CASE p # n /\ p # a
    <3>1. Held(temp, p) = 0 /\ Held(-1, p) = 0
      BY <1>5, <2>3 DEF Held
    <3>2. On(d, p) = On(c, p)
      <4>1. ASSUME NEW j \in 1..depth PROVE d[j].pid = p <=> c[j].pid = p
        <5>1. CASE j = L
          BY <1>3, <2>3, <5>1
        <5>2. CASE j # L
          BY <1>3, <5>2
        <5> QED BY <5>1, <5>2
      <4> QED BY <1>3, <4>1 DEF On
    <3>3. p \in E
      BY <2>3
    <3> HIDE DEF temp, E
    <3> QED BY <1>2, <2>0, <3>1, <3>2, <3>3
  <2> QED BY <2>1, <2>2, <2>3
<1>7. DOMAIN t2.pins = E \cup {n} /\ t2.pins = [p \in DOMAIN t2.pins |-> t2.pins[p]]
  BY <1>2 DEF Extended
<1>8. DOMAIN t2.page \cup {0} = E \cup {n}
  BY <1>3
<1>9. t2.pins = [p \in E \cup {n} |-> On(d, p) + Kept(root, p) + Held(temp, p)]
  <2> HIDE DEF E, temp
  <2> QED BY <1>6, <1>7
<1> QED
  <2> HIDE DEF E, temp
  <2>1. PinsGood(DOMAIN t2.page, root, t2.pins, d, temp)
    BY SMTT(30), <1>7, <1>8, <1>9 DEF PinsGood
  <2> QED BY <2>1 DEF temp, root, d, takes
-----------------------------------------------------------------------------

(* A link between two other blocks. *)
LEMMA OtherLinks ==
  ASSUME NEW t, NEW pl, NEW x, NEW L, NEW key, NEW sp, NEW left, NEW right, NEW cnt,
         Divides(t, pl, x, L, key, sp, left, right, cnt), NEW t2, NEW a, NEW n, NEW pl2,
         Halves(t, pl, L, key, sp, left, right, cnt, t2, a, n, pl2),
         NEW i \in 1..t.header.depth - 1, i # L
  PROVE  /\ t2.page[t2.cursor[i].pid] = t.page[t.cursor[i].pid]
         /\ i # L - 1 => (Linked(t.page, t.cursor, i) => Linked(t2.page, t2.cursor, i))
         /\ i > L => (LinkedOrBent(t, i, key) => LinkedOrBent(t2, i, key))
<1> DEFINE c == t.cursor
           d == t2.cursor
           P == t.page
           depth == t.header.depth
<1>1. Track(t, pl, 0, 0, x, -1, key) /\ L \in 1..depth /\ depth \in Nat
  BY Zenon DEF Divides, Whole, Track, Laid, Placed
<1>2. /\ HasCut(P, pl, a, sp, left, right, n, t2.page, pl2) /\ c[L].pid = a
      /\ \A j \in 1..depth : j # L => d[j] = c[j]
      /\ t2.header = t.header
      /\ n \notin DOMAIN t.bounds
      /\ DOMAIN t2.bounds = DOMAIN t.bounds \cup (IF a \in DOMAIN t.bounds THEN {n} ELSE {})
  BY DEF Halves
<1>3. \A p \in DOMAIN P : p # a => t2.page[p] = P[p]
  BY <1>2 DEF HasCut
<1>4. i \in 1..depth /\ i + 1 \in 1..depth /\ (i # L - 1 => i + 1 # L) /\ depth \in 1..depth
  BY <1>1
<1>5. ASSUME NEW j \in 1..depth
      PROVE  c[j].pid \in DOMAIN P /\ pl[c[j].pid].level = j
  BY <1>1, TrackLevel
<1>6. c[i].pid # a
  <2>1. pl[c[i].pid].level = i /\ pl[c[L].pid].level = L
    BY <1>1, <1>4, <1>5
  <2> QED BY <1>2, <2>1
<1>7. d[i] = c[i] /\ t2.page[c[i].pid] = P[c[i].pid]
  BY <1>2, <1>3, <1>4, <1>5, <1>6
<1>8. ASSUME i # L - 1, Linked(P, c, i) PROVE Linked(t2.page, d, i)
  <2>1. d[i + 1] = c[i + 1]
    BY <1>2, <1>4, <1>8
  <2> QED BY <1>7, <1>8, <2>1 DEF Linked
<1>9. ASSUME i > L, LinkedOrBent(t, i, key) PROVE LinkedOrBent(t2, i, key)
  <2>1. CASE Linked(P, c, i)
    <3>1. i # L - 1
      BY <1>1, <1>4, <1>9
    <3> QED BY <1>8, <2>1, <3>1 DEF LinkedOrBent
  <2>2. CASE i = depth - 1 /\ Bent(t, key)
    <3>1. depth # L
      BY <1>1, <1>9, <2>2
    <3>2. d[depth] = c[depth]
      BY <1>2, <1>4, <3>1
    <3>3. Bent(t2, key)
      BY <1>2, <2>2, <3>2 DEF Bent
    <3> QED BY <1>2, <2>2, <3>3 DEF LinkedOrBent
  <2> QED BY <1>9, <2>1, <2>2 DEF LinkedOrBent
<1> QED BY <1>7, <1>8, <1>9

(* The link below the two halves. *)
LEMMA LinkBelow ==
  ASSUME NEW t, NEW pl, NEW x, NEW L, NEW key, NEW sp, NEW left, NEW right, NEW cnt,
         Divides(t, pl, x, L, key, sp, left, right, cnt), NEW t2, NEW a, NEW n, NEW pl2,
         Halves(t, pl, L, key, sp, left, right, cnt, t2, a, n, pl2), L < t.header.depth
  PROVE  LinkedOrBent(t2, L, key)
<1> DEFINE c == t.cursor
           d == t2.cursor
           P == t.page
           depth == t.header.depth
           ks == P[a].kids
           N == Len(ks)
           j == c[L].index
           q == c[L + 1].pid
<1>1. /\ Track(t, pl, 0, 0, x, -1, key) /\ L \in 1..depth /\ depth \in Nat /\ LinkedOrBent(t, L, key)
      /\ Laid(P, t.header.root, depth, pl, 0, 0, x) /\ Nodes(P)
  <2>1. Track(t, pl, 0, 0, x, -1, key) /\ L \in 1..depth /\ \A i \in L..depth-1 : LinkedOrBent(t, i, key)
    BY DEF Divides, Whole
  <2>2. depth \in Nat /\ Laid(P, t.header.root, depth, pl, 0, 0, x) /\ Nodes(P)
    BY <2>1 DEF Track, Laid, Placed
  <2>3. L \in L..depth-1
    BY <2>1, <2>2
  <2> QED BY <2>1, <2>2, <2>3
<1>2. /\ HasCut(P, pl, a, sp, left, right, n, t2.page, pl2) /\ c[L].pid = a
      /\ \A i \in 1..depth : i # L => d[i] = c[i]
      /\ t2.header = t.header /\ key \in Nat /\ key < pl[a].upper
      /\ n \notin DOMAIN t.bounds
      /\ DOMAIN t2.bounds = DOMAIN t.bounds \cup (IF a \in DOMAIN t.bounds THEN {n} ELSE {})
  BY DEF Halves
<1>3. /\ cnt \in Nat /\ 1 <= cnt /\ cnt < N /\ sp = ks[cnt + 1].key
      /\ left = Internal(SubSeq(ks, 1, cnt)) /\ right = Internal(SubSeq(ks, cnt + 1, N))
  BY <1>2 DEF Divides
<1>4. t2.page[a] = left /\ t2.page[n] = right
  BY <1>2 DEF HasCut
<1>5. L + 1 \in 1..depth /\ L + 1 # L /\ (L = depth - 1 <=> L + 1 = depth) /\ depth # L
  BY <1>1
<1>6. a \in DOMAIN P /\ IsInternal(P, a) /\ pl[a].upper = c[L].upper
  <2>1. /\ c[L].pid \in DOMAIN P /\ (IsInternal(P, c[L].pid) <=> L < depth)
        /\ c[L].pid \notin DOMAIN t.bounds => c[L].upper = pl[c[L].pid].upper
        /\ c[L].pid \in DOMAIN t.bounds => L = depth
    BY <1>1, TrackLevel
  <2> QED BY <1>2, <1>5, <2>1
<1>7. ASSUME L = depth - 1, Bent(t, key) PROVE LinkedOrBent(t2, L, key)
  <2>1. d[depth] = c[depth]
    BY <1>1, <1>2, <1>5
  <2>2. Bent(t2, key)
    BY <1>2, <1>7, <2>1 DEF Bent
  <2> QED BY <1>2, <1>7, <2>2 DEF LinkedOrBent
<1>8. ASSUME ~(L = depth - 1 /\ Bent(t, key)) PROVE Linked(t2.page, d, L)
  <2>1. Linked(P, c, L)
    BY <1>1, <1>8 DEF LinkedOrBent
  <2>2. j \in 0..N-1 /\ ks[j + 1].value = q
    BY <1>2, <2>1 DEF Linked
  <2>3. N \in Nat /\ (\A i \in 1..N : ks[i].key \in Nat /\ ks[i].value # 0)
          /\ ks \in Seq([key : Key, value : DOMAIN P])
    <3>1. N \in Nat /\ \A i \in 1..N : ks[i].key \in Nat /\ ks[i].value # 0
      BY <1>1, <1>6, KidsAre
    <3>2. ks \in Seq([key : Key, value : DOMAIN P])
      BY <1>1, <1>6, NodeIs
    <3> QED BY <3>1, <3>2
  <2>4. \A g, h \in 1..N : g < h => ks[g].key < ks[h].key
    BY SMTT(30), <1>1, <1>6, KidsAscend
  <2>5. ks[j + 1].key <= key /\ (j + 1 # N => key < ks[j + 2].key) /\ j + 1 \in 1..N
    <3>1. Aimed(t, pl, key, L + 1)
      BY <1>1, <1>5 DEF Track
    <3>2. pl[q].lower <= key /\ key < pl[q].upper
      BY <1>5, <1>8, <3>1 DEF Aimed
    <3>3. j + 1 \in 1..N
      BY SMTT(30), <2>2, <2>3
    <3>4. KidsSound(P, pl, 0, 0, x, a)
      BY <1>1, <1>6 DEF Laid, PagesSound
    <3>5. KidSound(P, pl, 0, 0, a, j + 1)
      BY <3>3, <3>4 DEF KidsSound
    <3>6. q # 0
      BY <2>2, <2>3, <3>3
    <3>7. pl[q].lower = ks[j + 1].key /\ pl[q].upper = IF j + 1 = N THEN pl[a].upper
            ELSE ks[(j + 1) + 1].key
      BY <2>2, <3>5, <3>6 DEF KidSound, Top
    <3>8. (j + 1) + 1 = j + 2
      BY <2>2
    <3> QED BY <3>2, <3>3, <3>7, <3>8
  <2> DEFINE takes == Takes(t, L, sp, cnt, key)
  <2>6. /\ takes <=> sp <= key /\ key < c[L].upper
        /\ takes => d[L].pid = n /\ d[L].index = j - cnt
        /\ ~takes => d[L].pid = a /\ d[L].index = j
    BY SMTT(30) DEF Halves
  <2>7. takes <=> ks[cnt + 1].key <= key
    BY <1>2, <1>3, <1>6, <2>6
  <2>8. d[L + 1].pid = q
    BY <1>2, <1>5
  <2>9. /\ Len(SubSeq(ks, 1, cnt)) = cnt /\ \A i \in 1..cnt : SubSeq(ks, 1, cnt)[i] = ks[i]
        /\ Len(SubSeq(ks, cnt + 1, N)) = N - cnt /\ \A i \in 1..N-cnt : SubSeq(ks, cnt + 1,
             N)[i] = ks[cnt + i]
    <3> HIDE DEF ks
    <3>1. N \in Nat /\ ks \in Seq([key : Key, value : DOMAIN P]) /\ cnt \in Nat /\ 1 <= cnt /\ cnt < N
      BY <1>3, <2>3
    <3> QED BY <3>1
  <2> HIDE DEF takes, ks, N, j, q
  <2>10. cnt + 1 \in 1..N /\ N \in Nat /\ j \in Int
    BY <1>3, <2>2, <2>3
  <2>11. CASE takes
    <3>1. ks[cnt + 1].key <= key
      BY <2>7, <2>11
    <3>2. j >= cnt
      <4> SUFFICES ASSUME j < cnt PROVE FALSE
        BY <1>3, <2>10
      <4>1. j + 1 # N /\ j + 2 \in 1..N /\ (j + 2 < cnt + 1 \/ j + 2 = cnt + 1)
        BY <1>3, <2>2, <2>10
      <4>2. ks[j + 2].key \in Nat /\ ks[cnt + 1].key \in Nat
        BY <2>3, <2>10, <4>1
      <4>3. ks[j + 2].key <= ks[cnt + 1].key
        BY <2>4, <2>10, <4>1, <4>2
      <4>4. key < ks[j + 2].key
        BY <2>5, <4>1
      <4> QED BY <1>2, <3>1, <4>2, <4>3, <4>4
    <3>3. j - cnt \in 0..(N - cnt) - 1 /\ (j - cnt) + 1 \in 1..N-cnt /\ cnt + ((j - cnt) + 1) = j + 1
      BY SMTT(30), <1>3, <2>2, <2>10, <3>2
    <3>4. t2.page[d[L].pid].kids = SubSeq(ks, cnt + 1, N) /\ d[L].index = j - cnt
      BY <1>3, <1>4, <2>6, <2>11 DEF Internal, ks, N
    <3> QED BY <2>2, <2>8, <2>9, <3>3, <3>4 DEF Linked
  <2>12. CASE ~takes
    <3>1. key < ks[cnt + 1].key
      <4>1. ks[cnt + 1].key \in Nat
        BY <2>3, <2>10
      <4> QED BY <1>2, <2>7, <2>12, <4>1
    <3>2. j < cnt
      <4> SUFFICES ASSUME j >= cnt PROVE FALSE
        BY <1>3, <2>10
      <4>1. j + 1 = cnt + 1 \/ cnt + 1 < j + 1
        BY <1>3, <2>10
      <4>2. ks[cnt + 1].key \in Nat /\ ks[j + 1].key \in Nat
        BY <2>3, <2>5, <2>10
      <4>3. ks[cnt + 1].key <= ks[j + 1].key
        BY <2>4, <2>5, <2>10, <4>1, <4>2
      <4> QED BY <1>2, <2>5, <3>1, <4>2, <4>3
    <3>3. j \in 0..cnt-1 /\ j + 1 \in 1..cnt
      BY SMTT(30), <1>3, <2>2, <2>10, <3>2
    <3>4. t2.page[d[L].pid].kids = SubSeq(ks, 1, cnt) /\ d[L].index = j
      BY <1>3, <1>4, <2>6, <2>12 DEF Internal, ks, N
    <3> QED BY <2>2, <2>8, <2>9, <3>3, <3>4 DEF Linked
  <2> QED BY <2>11, <2>12
<1> QED BY <1>7, <1>8 DEF LinkedOrBent
-----------------------------------------------------------------------------

(* What a division answers. *)
Answers(s, pl, n, L, key) ==
  /\ s.going /\ s.new.pid = n /\ s.new.lower = pl[n].lower
  /\ InRange(s.new, key) <=> s.tree.cursor[L].pid = n

(* A division tears the block.                                             *)
LEMMA DivideTears ==
  ASSUME NEW t, NEW pl, NEW x, NEW L, NEW key, NEW sp, NEW left, NEW right, NEW cnt,
         Divides(t, pl, x, L, key, sp, left, right, cnt),
         NEW s, s = Divide(t, L, key, sp, left, right, cnt), NEW n, n = Fresh(t.page),
         NEW pl2, pl2 = CutLayout(pl, t.cursor[L].pid, n, sp)
  PROVE  /\ Torn(s.tree, pl2, t.cursor[L].pid, n, L, s.temp, key)
         /\ Answers(s, pl2, n, L, key)
<1> DEFINE a == t.cursor[L].pid
           t2 == s.tree
           depth == t.header.depth
           root == t.header.root
           takes == Takes(t, L, sp, cnt, key)
<1>1. /\ Track(t, pl, 0, 0, x, -1, key) /\ L \in 1..depth /\ IsTree(t)
      /\ t.cursor[1].pid = root /\ (\A i \in 1..L-1 : Linked(t.page, t.cursor, i))
      /\ \A i \in L..depth-1 : LinkedOrBent(t, i, key)
  BY DEF Divides, Whole, Track
<1>2. /\ IsTree(s.tree) /\ s.going /\ s.new = RightLevel(t, L, sp, cnt)
      /\ s.temp = (IF takes THEN a ELSE n)
      /\ s.tree.page = CutPages(t.page, a, n, left, right)
      /\ s.tree.header = t.header
      /\ s.tree.bounds = DividedBounds(t, L, sp)
      /\ s.tree.pins = Extended(t.pins, n, 1)
      /\ s.tree.cursor = DividedCursor(t, L, key, sp, cnt)
  BY <1>1, DivideIs
<1>3. Halves(t, pl, L, key, sp, left, right, cnt, t2, a, n, pl2)
  <2>1. DividedTo(t, L, key, sp, left, right, cnt, t2)
    BY <1>2 DEF DividedTo
  <2> HIDE DEF t2
  <2> QED BY <2>1, HalvesAre
<1>4. /\ Laid(t2.page, root, depth, pl2, a, n, 0)
      /\ left.type = "dense" => t.header.useDense
      /\ right.type = "dense" => t.header.useDense
  BY <1>2 DEF Divides
<1>5. IsHeader(t.header) /\ DenseOnly(t.page, t.header) /\ depth \in Nat
  BY <1>1 DEF Track, Laid, Placed
<1>6. /\ HasCut(t.page, pl, a, sp, left, right, n, t2.page, pl2)
      /\ a \in DOMAIN t.page /\ a # n /\ pl[a].level = L
      /\ Len(t2.cursor) = depth /\ t2.cursor \in Seq(PathLevel)
      /\ takes => t2.cursor[L].pid = n
      /\ ~takes => t2.cursor[L].pid = a
      /\ takes <=> sp <= key /\ key < t.cursor[L].upper
      /\ \A i \in 1..depth : i # L => t2.cursor[i] = t.cursor[i]
  BY <1>3 DEF Halves
<1>7. /\ DOMAIN t2.page = DOMAIN t.page \cup {n}
      /\ t2.page[a] = left /\ t2.page[n] = right
      /\ \A p \in DOMAIN t.page : p # a => t2.page[p] = t.page[p]
      /\ pl2[n] = [level |-> pl[a].level, lower |-> sp, upper |-> pl[a].upper]
      /\ pl2[a] = [level |-> pl[a].level, lower |-> pl[a].lower, upper |-> sp]
  BY <1>6 DEF HasCut
<1>8. BoundsGood(t2.page, root, pl2, t2.bounds)
  BY <1>3, DividedBoundsGood
<1>9. \A i \in 1..depth : LevelGood(t2.page, pl2, t2.bounds, t2.cursor, i) /\ Aimed(t2, pl2, key, i)
  BY <1>3, DividedLevels
<1>10. PinsGood(DOMAIN t2.page, root, t2.pins, t2.cursor, s.temp)
  <2> HIDE DEF a
  <2> QED BY <1>2, <1>3, DividedPins
<1>11. DenseOnly(t2.page, t.header)
  <2> SUFFICES ASSUME NEW p \in DOMAIN t2.page, t2.page[p].type = "dense" PROVE t.header.useDense
    BY DEF DenseOnly
  <2> QED BY <1>4, <1>5, <1>7 DEF DenseOnly
<1>12. Track(t2, pl2, a, n, 0, s.temp, key)
  BY <1>2, <1>4, <1>5, <1>6, <1>8, <1>9, <1>10, <1>11 DEF Track
<1>13. \A i \in L..depth-1 : LinkedOrBent(t2, i, key)
  <2> SUFFICES ASSUME NEW i \in L..depth-1 PROVE LinkedOrBent(t2, i, key)
    OBVIOUS
  <2>1. CASE i = L
    <3>1. L < depth
      BY <1>1, <1>5, <2>1
    <3> QED BY <1>3, <2>1, <3>1, LinkBelow
  <2>2. CASE i # L
    <3>1. i \in 1..depth-1 /\ i > L
      BY <1>1, <1>5, <2>2
    <3> HIDE DEF a, t2
    <3>2. LinkedOrBent(t, i, key)
      BY <1>1
    <3> QED BY <1>3, <2>2, <3>1, <3>2, OtherLinks
  <2> QED BY <2>1, <2>2
<1>14. \A i \in 1..L-2 : Linked(t2.page, t2.cursor, i)
  <2> SUFFICES ASSUME NEW i \in 1..L-2 PROVE Linked(t2.page, t2.cursor, i)
    OBVIOUS
  <2>1. i \in 1..depth-1 /\ i # L /\ i # L-1 /\ i \in 1..L-1
    BY <1>1, <1>5
  <2>2. Linked(t.page, t.cursor, i)
    BY <1>1, <2>1
  <2> HIDE DEF a, t2
  <2> QED BY <1>3, <2>1, <2>2, OtherLinks
<1>15. ASSUME L > 1
       PROVE  /\ t2.cursor[1].pid = root
              /\ t2.cursor[L - 1].index \in 0..Len(t2.page[t2.cursor[L - 1].pid].kids)-1
              /\ t2.page[t2.cursor[L - 1].pid].kids[t2.cursor[L - 1].index + 1].value = a
  <2>1. L-1 \in 1..depth-1 /\ L-1 # L /\ L-1 \in 1..L-1 /\ L-1 \in 1..depth /\ 1 \in 1..depth /\ 1 # L
        /\ (L-1) + 1 = L
    BY <1>1, <1>5, <1>15
  <2>2. Linked(t.page, t.cursor, L-1)
    BY <1>1, <2>1
  <2>3. t2.page[t2.cursor[L-1].pid] = t.page[t.cursor[L-1].pid]
    <3> DEFINE i == L-1
    <3> HIDE DEF a, t2, i
    <3>1. i \in 1..depth-1 /\ i # L
      BY <2>1 DEF i
    <3>2. t2.page[t2.cursor[i].pid] = t.page[t.cursor[i].pid]
      BY <1>3, <3>1, OtherLinks
    <3> QED BY <3>2 DEF i
  <2>4. t2.cursor[L-1] = t.cursor[L-1] /\ t2.cursor[1] = t.cursor[1]
    BY <1>6, <2>1
  <2> QED BY <1>1, <2>1, <2>2, <2>3, <2>4, Zenon DEF Linked
<1>16. L = 1 => a = root
  BY <1>1
<1>17. (t2.cursor[L].pid = a /\ s.temp = n) \/ (t2.cursor[L].pid = n /\ s.temp = a)
  BY <1>2, <1>6
<1>18. Torn(t2, pl2, a, n, L, s.temp, key)
  <2>1. /\ a \in DOMAIN t2.page /\ n \in DOMAIN t2.page /\ a # n
        /\ pl2[a].level = L /\ pl2[n].level = L /\ pl2[a].upper = pl2[n].lower
    BY <1>6, <1>7
  <2>2. t2.header = t.header
    BY <1>2
  <2> HIDE DEF t2, a, takes
  <2> QED BY <1>1, <1>12, <1>13, <1>14, <1>15, <1>16, <1>17, <2>1, <2>2, Zenon DEF Torn
<1>19. Answers(s, pl2, n, L, key)
  <2>1. s.new.pid = n /\ s.new.lower = sp
    BY <1>2 DEF RightLevel, Level
  <2>2. InRange(s.new, key) <=> takes
    BY <1>2 DEF Takes
  <2> QED BY <1>2, <1>6, <1>7, <2>1, <2>2 DEF Answers
<1> QED BY <1>18, <1>19
-----------------------------------------------------------------------------

Rising(s, pl, o, n, L, key) ==
  Torn(s.tree, pl, o, n, L, s.temp, key) /\ Answers(s, pl, n, L, key)

(* The tree once the block of level i has the new cell, wherever it fits.  *)
AttachedKids(s, i) ==
  LET level == s.tree.cursor[i]
  IN  Inserted(s.tree.page[level.pid].kids, level.index + 1, s.new.lower, s.new.pid)
AttachedPages(s, i) ==
  [s.tree.page EXCEPT ![s.tree.cursor[i].pid] = Internal(AttachedKids(s, i))]
AttachedCursor(s, i, key) ==
  [s.tree.cursor EXCEPT ![i].index = IndexAfter(s.tree.cursor[i], s.new, key)]
Attached(s, i, key) ==
  [page |-> AttachedPages(s, i), header |-> s.tree.header, bounds |-> s.tree.bounds,
   pins |-> Unpin(s.tree.pins, <<s.temp>>), cursor |-> AttachedCursor(s, i, key)]

(* A pin given up. *)
LEMMA TempUnpinned ==
  ASSUME NEW D, NEW root, NEW pins_, NEW c, NEW temp, PinsGood(D, root, pins_, c, temp), temp # -1,
         -1 \notin D, NEW c2, \A p \in D \cup {0} : On(c2, p) = On(c, p)
  PROVE  PinsGood(D, root, Unpin(pins_, <<temp>>), c2, -1)
<1> DEFINE E == D \cup {0}
           pins2 == Unpin(pins_, <<temp>>)
<1>1. DOMAIN pins_ = E /\ \A p \in E : pins_[p] = On(c, p) + Kept(root, p) + Held(temp, p)
  BY DEF PinsGood
<1>2. pins2 = [q \in E |-> pins_[q] - Cardinality({i \in DOMAIN <<temp>> : <<temp>>[i] = q})]
  BY <1>1 DEF Unpin
<1>3. ASSUME NEW q PROVE Cardinality({i \in DOMAIN <<temp>> : <<temp>>[i] = q}) = Held(temp, q)
  <2>1. DOMAIN <<temp>> = 1..1 /\ <<temp>>[1] = temp /\ 1..1 = {1}
    OBVIOUS
  <2>2. CASE q = temp
    <3>1. {i \in DOMAIN <<temp>> : <<temp>>[i] = q} = {1}
      BY <2>1, <2>2
    <3> QED BY <2>2, <3>1, FS_Singleton DEF Held
  <2>3. CASE q # temp
    <3>1. {i \in DOMAIN <<temp>> : <<temp>>[i] = q} = {}
      BY <2>1, <2>3
    <3> QED BY <2>3, <3>1, FS_EmptySet DEF Held
  <2> QED BY <2>2, <2>3
<1>4. ASSUME NEW q \in E PROVE pins2[q] = On(c2, q) + Kept(root, q) + Held(-1, q)
  <2>1. pins2[q] = pins_[q] - Held(temp, q)
    BY <1>2, <1>3
  <2>2. Held(-1, q) = 0
    BY DEF Held
  <2>3. On(c, q) \in Int /\ Kept(root, q) \in Int /\ Held(temp, q) \in Int
    BY DEF On, Kept, Held
  <2> QED BY <1>1, <2>1, <2>2, <2>3
<1>5. DOMAIN pins2 = E /\ pins2 = [q \in E |-> On(c2, q) + Kept(root, q) + Held(-1, q)]
  BY <1>2, <1>4
<1> QED BY <1>5 DEF PinsGood

(* The cursor with another index at one of its levels. *)
WithIndex(c, i, m, d) ==
  /\ d \in Seq(PathLevel) /\ Len(d) = Len(c) /\ DOMAIN d = DOMAIN c
  /\ d[i].index = m
  /\ \A j \in 1..Len(c) : /\ d[j].pid = c[j].pid /\ d[j].lower = c[j].lower
                          /\ d[j].upper = c[j].upper /\ (j # i => d[j] = c[j])

(* A cursor whose index changes at one level. *)
LEMMA Reindexed ==
  ASSUME NEW c, c \in Seq(PathLevel), NEW i, i \in 1..Len(c), NEW m, m \in Int
  PROVE  WithIndex(c, i, m, [c EXCEPT ![i].index = m])
<1> DEFINE d == [c EXCEPT ![i].index = m]
<1>1. c[i] \in PathLevel
  OBVIOUS
<1> DEFINE l == [c[i] EXCEPT !.index = m]
<1>2. l \in PathLevel /\ l.index = m /\ l.pid = c[i].pid /\ l.lower = c[i].lower /\ l.upper = c[i].upper
  BY <1>1 DEF PathLevel
<1>3. d = [c EXCEPT ![i] = l]
  OBVIOUS
<1> HIDE DEF l, d
<1>4. d \in Seq(PathLevel) /\ Len(d) = Len(c) /\ DOMAIN d = DOMAIN c /\ d[i] = l
  BY <1>2, <1>3
<1>5. \A j \in 1..Len(c) : j # i => d[j] = c[j]
  BY <1>3
<1>6. WithIndex(c, i, m, d)
  BY <1>2, <1>4, <1>5 DEF WithIndex
<1> QED BY <1>6 DEF d

(* The attached block is joined. *)
LEMMA AttachJoins ==
  ASSUME NEW s, NEW pl, NEW o, NEW n, NEW L \in Nat, L >= 1, NEW key, Rising(s, pl, o, n, L + 1, key)
  PROVE  LET t == s.tree
             a == t.cursor[L].pid
             k == t.cursor[L].index + 1
         IN  /\ Joins(t.page, t.header.root, t.header.depth, pl, o, n, a, k)
             /\ AttachedKids(s, L) = JoinedKids(t.page, pl, n, a, k)
             /\ AttachedPages(s, L) = JoinedPages(t.page, pl, n, a, k)
             /\ L \in 1..t.header.depth /\ L < t.header.depth /\ t.header.depth \in Nat
<1> DEFINE t == s.tree
           c == t.cursor
           a == c[L].pid
           k == c[L].index + 1
           P == t.page
           depth == t.header.depth
<1>1. /\ Track(t, pl, o, n, 0, s.temp, key) /\ L + 1 \in 1..depth
      /\ o \in DOMAIN t.page /\ n \in DOMAIN t.page /\ o # n
      /\ pl[o].level = L + 1 /\ pl[n].level = L + 1 /\ pl[o].upper = pl[n].lower
      /\ s.new.pid = n /\ s.new.lower = pl[n].lower
  BY DEF Rising, Torn, Answers
<1>2. (L + 1) - 1 = L /\ L + 1 > 1
  OBVIOUS
<1>3. c[L].index \in 0..Len(P[a].kids)-1 /\ P[a].kids[k].value = o
  BY <1>2, Zenon DEF Rising, Torn
<1>4. depth \in Nat /\ Laid(P, t.header.root, depth, pl, o, n, 0) /\ Nodes(P)
  BY <1>1 DEF Track, Laid, Placed
<1>5. L \in 1..depth /\ L < depth
  BY <1>1, <1>4
<1>6. a \in DOMAIN P /\ IsInternal(P, a)
  BY <1>1, <1>5, TrackLevel
<1>7. k \in 1..Len(P[a].kids)
  <2>1. Len(P[a].kids) \in Nat
    BY SMTT(30), <1>4, <1>6, KidsAre
  <2> DEFINE j == c[L].index
             N == Len(P[a].kids)
  <2>2. N \in Nat /\ j \in 0..N-1
    BY <1>3, <2>1
  <2>3. j + 1 \in 1..N
    <3> HIDE DEF j, N
    <3> QED BY SMTT(30), <2>2
  <2> QED BY <2>3
<1>8. Joins(P, t.header.root, depth, pl, o, n, a, k)
  BY <1>1, <1>3, <1>4, <1>6, <1>7 DEF Joins
<1>9. AttachedKids(s, L) = JoinedKids(P, pl, n, a, k)
  BY <1>1 DEF AttachedKids, JoinedKids
<1>10. AttachedPages(s, L) = JoinedPages(P, pl, n, a, k)
  BY <1>9 DEF AttachedPages, JoinedPages
<1> QED BY SMTT(30), <1>4, <1>5, <1>8, <1>9, <1>10
-----------------------------------------------------------------------------

(* The index in the parent, and the link to the half that the cursor goes  *)
(* on with.                                                                *)
LEMMA AttachLinks ==
  ASSUME NEW s, NEW pl, NEW o, NEW n, NEW L \in Nat, L >= 1, NEW key, Rising(s, pl, o, n, L + 1, key),
         NEW u, u = Attached(s, L, key)
  PROVE  Linked(u.page, u.cursor, L)
<1> DEFINE t == s.tree
           c == t.cursor
           d == u.cursor
           a == c[L].pid
           k == c[L].index + 1
           P == t.page
           depth == t.header.depth
           ks == P[a].kids
           kt == AttachedKids(s, L)
           m == IndexAfter(c[L], s.new, key)
<1>1. /\ Joins(P, t.header.root, depth, pl, o, n, a, k)
      /\ kt = JoinedKids(P, pl, n, a, k)
      /\ L \in 1..depth /\ L < depth /\ depth \in Nat
  BY SMTT(30), AttachJoins
<1>2. Wider(ks, kt, k, Cells(pl[n].lower, n))
  <2>1. Wider(P[a].kids, JoinedKids(P, pl, n, a, k), k, Cells(pl[n].lower, n))
    <3> HIDE DEF P, a, k, depth
    <3> QED BY <1>1, JoinedKidsAre
  <2> QED BY <1>1, <2>1
<1>3. /\ k \in 1..Len(ks) /\ ks[k].value = o /\ Len(ks) \in Nat /\ a \in DOMAIN P
  <2>1. k \in 1..Len(ks) /\ ks[k].value = o /\ a \in DOMAIN P /\ Nodes(P) /\ IsInternal(P, a)
    BY <1>1, ZenonT(40) DEF Joins, Laid
  <2> QED BY SMTT(30), <2>1, KidsAre
<1>4. /\ Track(t, pl, o, n, 0, s.temp, key) /\ L + 1 \in 1..depth
      /\ c[L + 1].pid = o \/ c[L + 1].pid = n
      /\ o # n
      /\ InRange(s.new, key) <=> c[L + 1].pid = n
  BY SMTT(30) DEF Rising, Torn, Answers
<1>5. c \in Seq(PathLevel) /\ Len(c) = depth /\ c[L].index \in Int
  <2>1. c \in Seq(PathLevel) /\ Len(c) = depth
    BY <1>4 DEF Track
  <2> QED BY <1>1, <1>4, <2>1, TrackLevel
<1>6. m = (IF c[L + 1].pid = n THEN k ELSE k - 1) /\ m \in Int
  BY <1>4, <1>5 DEF IndexAfter
<1>7. d = [c EXCEPT ![L].index = m]
  BY DEF Attached, AttachedCursor
<1>8. d[L].index = m /\ d[L].pid = a /\ d[L + 1].pid = c[L + 1].pid
  <2>1. L \in 1..Len(c) /\ L + 1 \in 1..Len(c)
    BY <1>1, <1>4, <1>5
  <2> HIDE DEF d, c, m
  <2>2. /\ d[L].index = m
        /\ \A j \in 1..Len(c) : d[j].pid = c[j].pid
    BY <1>5, <1>6, <1>7, <2>1, Reindexed DEF WithIndex
  <2> QED BY <2>1, <2>2 DEF c
<1>9. u.page[a].kids = kt
  <2>1. u.page = [P EXCEPT ![a] = Internal(kt)]
    BY DEF Attached, AttachedPages
  <2> HIDE DEF kt, P, a
  <2>2. u.page[a] = Internal(kt)
    BY <1>3, <2>1
  <2> QED BY <2>2 DEF Internal
<1> HIDE DEF kt, ks, m, a, k, c, d, P
<1>10. Len(kt) = Len(ks) + 1 /\ kt[k + 1] = Cells(pl[n].lower, n) /\ kt[k] = ks[k]
  <2>1. k \in 1..k
    BY <1>3
  <2> QED BY <1>2, <2>1 DEF Wider
<1>11. CASE c[L + 1].pid = n
  <2>1. m = k /\ m \in 0..Len(kt)-1
    BY <1>3, <1>6, <1>10, <1>11
  <2>2. kt[m + 1].value = n
    BY <1>10, <2>1 DEF Cells
  <2> QED BY <1>8, <1>9, <1>11, <2>1, <2>2 DEF Linked, d
<1>12. CASE c[L + 1].pid # n
  <2>1. m = k - 1 /\ m \in 0..Len(kt)-1 /\ m + 1 = k
    BY <1>3, <1>6, <1>10, <1>12
  <2>2. kt[m + 1].value = o /\ c[L + 1].pid = o
    BY <1>3, <1>4, <1>10, <1>12, <2>1 DEF c
  <2> QED BY <1>8, <1>9, <2>1, <2>2 DEF Linked, d
<1> QED BY <1>11, <1>12

(* The cursor is whole again, one level up. *)
LEMMA AttachWhole ==
  ASSUME NEW s, NEW pl, NEW o, NEW n, NEW L \in Nat, L >= 1, NEW key, Rising(s, pl, o, n, L + 1, key),
         NEW x \in {0, s.tree.cursor[L].pid}, x = 0 => Len(AttachedKids(s, L)) <= InternalCap,
         NEW u, u = Attached(s, L, key)
  PROVE  Whole(u, pl, x, L, key)
<1> DEFINE t == s.tree
           c == t.cursor
           d == u.cursor
           a == c[L].pid
           k == c[L].index + 1
           P == t.page
           Q == u.page
           depth == t.header.depth
           root == t.header.root
           m == IndexAfter(c[L], s.new, key)
<1>1. /\ Joins(P, root, depth, pl, o, n, a, k)
      /\ AttachedKids(s, L) = JoinedKids(P, pl, n, a, k)
      /\ AttachedPages(s, L) = JoinedPages(P, pl, n, a, k)
      /\ L \in 1..depth /\ L < depth /\ depth \in Nat
  BY AttachJoins
<1>2. /\ Track(t, pl, o, n, 0, s.temp, key) /\ L + 1 \in 1..depth
      /\ c[1].pid = root /\ s.temp \in {o, n} /\ o \in DOMAIN P /\ n \in DOMAIN P
      /\ (\A i \in 1..L-1 : Linked(P, c, i))
      /\ \A i \in L+1..depth-1 : LinkedOrBent(t, i, key)
  <2>1. L + 1 > 1 /\ (L + 1) - 2 = L - 1
    OBVIOUS
  <2> QED BY <2>1 DEF Rising, Torn
<1>3. /\ u.page = AttachedPages(s, L) /\ u.header = t.header /\ u.bounds = t.bounds
      /\ u.pins = Unpin(t.pins, <<s.temp>>) /\ u.cursor = [c EXCEPT ![L].index = m] /\ IsTree(u)
  BY DEF Attached, AttachedCursor, IsTree
<1>4. Laid(Q, root, depth, pl, 0, 0, x)
  <2>1. x = 0 => Len(P[a].kids) < InternalCap
    <3>1. Wider(P[a].kids, AttachedKids(s, L), k, Cells(pl[n].lower, n))
      BY <1>1, JoinedKidsAre
    <3>2. Len(P[a].kids) \in Nat
      <4>1. a \in DOMAIN P /\ Nodes(P) /\ IsInternal(P, a)
        BY <1>1, ZenonT(40) DEF Joins, Laid
      <4> QED BY SMTT(30), <4>1, KidsAre
    <3>3. Len(AttachedKids(s, L)) = Len(P[a].kids) + 1
      BY <3>1 DEF Wider
    <3> DEFINE g == Len(P[a].kids)
               h == Len(AttachedKids(s, L))
    <3> HIDE DEF g, h
    <3>4. g \in Nat /\ h = g + 1 /\ (x = 0 => h <= InternalCap) /\ InternalCap \in Nat
      BY <3>2, <3>3, ConstantsAre DEF g, h
    <3>5. x = 0 => g < InternalCap
      BY <3>4
    <3> QED BY <3>5 DEF g
  <2>2. x \in {0, a}
    OBVIOUS
  <2>3. Laid(JoinedPages(P, pl, n, a, k), root, depth, pl, 0, 0, x)
    <3> HIDE DEF P, a, k, root, depth
    <3> QED BY <1>1, <2>1, <2>2, Joined
  <2> QED BY <1>1, <1>3, <2>3
<1>5. c \in Seq(PathLevel) /\ Len(c) = depth /\ c[L].index \in Int /\ m \in Int
  <2>1. c \in Seq(PathLevel) /\ Len(c) = depth
    BY <1>2 DEF Track
  <2>2. c[L].index \in Int
    BY <1>1, <1>2, TrackLevel
  <2> QED BY SMTT(30), <2>1, <2>2 DEF IndexAfter
<1>6. /\ d \in Seq(PathLevel) /\ Len(d) = depth /\ DOMAIN d = DOMAIN c /\ DOMAIN c = 1..depth
      /\ \A j \in 1..depth : /\ d[j].pid = c[j].pid /\ d[j].lower = c[j].lower
                             /\ d[j].upper = c[j].upper /\ (j # L => d[j] = c[j])
  <2>1. L \in 1..Len(c) /\ DOMAIN c = 1..depth
    BY <1>1, <1>5
  <2>2. d = [c EXCEPT ![L].index = m]
    BY <1>3
  <2> HIDE DEF d, c, m
  <2>3. WithIndex(c, L, m, d)
    BY <1>5, <2>1, <2>2, Reindexed
  <2> HIDE DEF depth
  <2> QED BY <1>5, <2>1, <2>3 DEF WithIndex
<1>7. DOMAIN Q = DOMAIN P /\ (\A p \in DOMAIN P : p # a => Q[p] = P[p]) /\ Q[a].type = "internal"
      /\ a \in DOMAIN P /\ P[a].type = "internal"
  <2>1. Q = [P EXCEPT ![a] = Internal(AttachedKids(s, L))]
    BY <1>3 DEF AttachedPages
  <2>2. a \in DOMAIN P /\ P[a].type = "internal"
    BY <1>1, Zenon DEF Joins, IsInternal
  <2> HIDE DEF Q, P, a
  <2> QED BY <2>1, <2>2 DEF Internal
<1>8. /\ BoundsGood(P, root, pl, t.bounds) /\ DenseOnly(P, t.header) /\ IsHeader(t.header)
      /\ PinsGood(DOMAIN P, root, t.pins, c, s.temp)
      /\ \A i \in 1..depth : LevelGood(P, pl, t.bounds, c, i) /\ Aimed(t, pl, key, i)
  BY <1>2 DEF Track
<1>9. BoundsGood(Q, root, pl, u.bounds)
  <2>1. \A p \in DOMAIN P : IsInternal(Q, p) <=> IsInternal(P, p)
    BY <1>7 DEF IsInternal
  <2> HIDE DEF P, Q, root
  <2> QED BY <1>3, <1>7, <1>8, <2>1 DEF BoundsGood
<1>10. DenseOnly(Q, u.header)
  <2> HIDE DEF P, Q, a
  <2> QED BY <1>3, <1>7, <1>8 DEF DenseOnly
<1>11. Bent(t, key) => Bent(u, key)
  <2>1. depth \in 1..depth
    BY <1>1
  <2> QED BY <1>3, <1>6, <2>1 DEF Bent
<1>12. ASSUME NEW i \in 1..depth PROVE LevelGood(Q, pl, u.bounds, d, i) /\ Aimed(u, pl, key, i)
  <2>1. d[i].pid = c[i].pid /\ d[i].lower = c[i].lower /\ d[i].upper = c[i].upper
    BY SMTT(30), <1>6
  <2>2. LevelGood(Q, pl, u.bounds, d, i)
    BY <1>3, <1>7, <1>8, <2>1 DEF LevelGood
  <2>3. Aimed(u, pl, key, i)
    BY <1>3, <1>8, <1>11, <2>1 DEF Aimed
  <2> QED BY <2>2, <2>3
<1>13. PinsGood(DOMAIN Q, root, u.pins, d, -1)
  <2>1. -1 \notin DOMAIN P /\ s.temp # -1
    BY <1>2 DEF Track, Laid, Nodes
  <2>2. \A p \in DOMAIN P \cup {0} : On(d, p) = On(c, p)
    BY <1>6 DEF On
  <2> HIDE DEF P, Q, c, d, root
  <2> QED BY <1>3, <1>7, <1>8, <2>1, <2>2, TempUnpinned
<1>14. Track(u, pl, 0, 0, x, -1, key)
  BY <1>3, <1>4, <1>6, <1>8, <1>9, <1>10, <1>12, <1>13 DEF Track
<1>15. ASSUME NEW i \in 1..depth-1, i # L, Linked(P, c, i) PROVE Linked(Q, d, i)
  <2>1. i \in 1..depth /\ i + 1 \in 1..depth
    BY <1>1
  <2>2. c[i].pid # a /\ c[i].pid \in DOMAIN P
    <3>1. \A j \in 1..depth : pl[c[j].pid].level = j /\ c[j].pid \in DOMAIN P
      BY <1>2, TrackLevel
    <3>2. pl[c[i].pid].level = i /\ pl[c[L].pid].level = L /\ c[i].pid \in DOMAIN P
      BY <1>1, <2>1, <3>1
    <3> QED BY <1>15, <3>2
  <2>3. Q[d[i].pid] = P[c[i].pid] /\ d[i] = c[i] /\ d[i + 1].pid = c[i + 1].pid
    BY <1>6, <1>7, <1>15, <2>1, <2>2
  <2> QED BY <1>15, <2>3 DEF Linked
<1>16. \A i \in 1..L-1 : Linked(Q, d, i)
  <2> SUFFICES ASSUME NEW i \in 1..L-1 PROVE Linked(Q, d, i)
    OBVIOUS
  <2>1. i \in 1..depth-1 /\ i # L
    BY <1>1
  <2> QED BY <1>2, <1>15, <2>1
<1>17. \A i \in L..depth-1 : LinkedOrBent(u, i, key)
  <2> SUFFICES ASSUME NEW i \in L..depth-1 PROVE LinkedOrBent(u, i, key)
    OBVIOUS
  <2>1. CASE i = L
    <3>1. Linked(Q, d, L)
      BY AttachLinks
    <3> QED BY <2>1, <3>1 DEF LinkedOrBent
  <2>2. CASE i # L
    <3>1. i \in L+1..depth-1 /\ i \in 1..depth-1
      BY <1>1, <2>2
    <3>2. LinkedOrBent(t, i, key)
      BY <1>2, <3>1
    <3> QED BY <1>3, <1>11, <1>15, <2>2, <3>1, <3>2 DEF LinkedOrBent
  <2> QED BY <2>1, <2>2
<1>18. d[1].pid = root
  <2>1. 1 \in 1..depth
    BY <1>1
  <2> QED BY <1>2, <1>6, <2>1
<1> QED BY <1>1, <1>3, <1>14, <1>16, <1>17, <1>18 DEF Whole
-----------------------------------------------------------------------------

IsSplit(s) == s = [tree |-> s.tree, new |-> s.new, temp |-> s.temp, going |-> s.going]

(* What a division leaves is a record of its four fields, and depends on   *)
(* the page that is cut by nothing but its pid.                            *)
LEMMA DivideIsSplit ==
  ASSUME NEW t, NEW L, NEW key, NEW sp, NEW left, NEW right, NEW cnt
  PROVE  IsSplit(Divide(t, L, key, sp, left, right, cnt))
<1> DEFINE s == Divide(t, L, key, sp, left, right, cnt)
<1>1. \E a, b, c : s = [tree |-> a, new |-> b, temp |-> c, going |-> TRUE]
  BY DEF Divide
<1>2. PICK a, b, c : s = [tree |-> a, new |-> b, temp |-> c, going |-> TRUE]
  BY <1>1
<1> HIDE DEF s
<1>3. IsSplit(s)
  BY <1>2 DEF IsSplit
<1> QED BY <1>3 DEF s

(* A split replaces both halves, so what the page held does not matter to  *)
(* it.                                                                     *)
LEMMA DivideOver ==
  ASSUME NEW t, NEW u, IsTree(t), IsTree(u), NEW L, NEW key, NEW sp, NEW left, NEW right, NEW cnt,
         NEW a, a = t.cursor[L].pid, NEW e, a \in DOMAIN t.page, u.page = [t.page EXCEPT ![a] = e],
         u.header = t.header, u.bounds = t.bounds, u.pins = t.pins, u.cursor = t.cursor
  PROVE  Divide(t, L, key, sp, left, right, cnt) = Divide(u, L, key, sp, left, right, cnt)
<1> DEFINE s == Divide(t, L, key, sp, left, right, cnt)
           v == Divide(u, L, key, sp, left, right, cnt)
           n == Fresh(t.page)
<1>1. Fresh(u.page) = n
  BY DEF Fresh
<1>2. CutPages(u.page, a, n, left, right) = CutPages(t.page, a, n, left, right)
  <2>1. [u.page EXCEPT ![a] = left] = [t.page EXCEPT ![a] = left]
    OBVIOUS
  <2> QED BY <2>1 DEF CutPages
<1>3. /\ IsTree(s.tree) /\ s.going = TRUE /\ s.new = RightLevel(t, L, sp, cnt)
      /\ s.temp = (IF Takes(t, L, sp, cnt, key) THEN a ELSE n)
      /\ s.tree.page = CutPages(t.page, a, n, left, right)
      /\ s.tree.header = t.header
      /\ s.tree.bounds = DividedBounds(t, L, sp)
      /\ s.tree.pins = Extended(t.pins, n, 1)
      /\ s.tree.cursor = DividedCursor(t, L, key, sp, cnt)
  <2>1. s.going = TRUE
    BY DEF Divide
  <2> QED BY <2>1, DivideIs
<1>4. /\ IsTree(v.tree) /\ v.going = TRUE /\ v.new = RightLevel(u, L, sp, cnt)
      /\ v.temp = (IF Takes(u, L, sp, cnt, key) THEN a ELSE n)
      /\ v.tree.page = CutPages(u.page, a, n, left, right)
      /\ v.tree.header = u.header
      /\ v.tree.bounds = DividedBounds(u, L, sp)
      /\ v.tree.pins = Extended(u.pins, n, 1)
      /\ v.tree.cursor = DividedCursor(u, L, key, sp, cnt)
  <2>1. v.going = TRUE
    BY DEF Divide
  <2> QED BY <1>1, <2>1, DivideIs
<1>5. RightLevel(u, L, sp, cnt) = RightLevel(t, L, sp, cnt)
  BY <1>1 DEF RightLevel
<1>6. Takes(u, L, sp, cnt, key) = Takes(t, L, sp, cnt, key)
  BY <1>5 DEF Takes
<1>7. LeftLevel(u, L, sp) = LeftLevel(t, L, sp)
  BY DEF LeftLevel
<1>8. DividedBounds(u, L, sp) = DividedBounds(t, L, sp)
  BY <1>1, <1>7 DEF DividedBounds
<1>9. DividedCursor(u, L, key, sp, cnt) = DividedCursor(t, L, key, sp, cnt)
  BY <1>5, <1>6, <1>7 DEF DividedCursor
<1>10. IsSplit(s) /\ IsSplit(v)
  BY DivideIsSplit
<1> HIDE DEF s, v, n
<1>11. s.tree = v.tree
  BY <1>2, <1>3, <1>4, <1>8, <1>9 DEF IsTree
<1>12. s = v
  BY <1>3, <1>4, <1>5, <1>6, <1>10, <1>11 DEF IsSplit
<1> QED BY <1>12 DEF s, v

-----------------------------------------------------------------------------
(* What attaching leaves, in terms of the pages with the wider block.      *)
Middle(kids) == Len(kids) \div 2
AttachResult(s, L, key) ==
  LET u == Attached(s, L, key)
      kids == AttachedKids(s, L)
      sp == Middle(kids)
  IN  IF Len(kids) <= InternalCap
      THEN [tree |-> u, new |-> s.new, temp |-> s.temp, going |-> FALSE]
      ELSE Divide(u, L, key, kids[sp + 1].key, Internal(SubSeq(kids, 1, sp)),
                  Internal(SubSeq(kids, sp + 1, Len(kids))), sp)

(* Attach, with its branches told apart: the cell fits, or the block is    *)
(* split.                                                                  *)
LEMMA AttachIs ==
  ASSUME NEW s, IsSplit(s), IsTree(s.tree), s.going, NEW L, NEW key,
         s.tree.cursor[L].pid \in DOMAIN s.tree.page, L \in DOMAIN s.tree.cursor,
         s.tree.cursor[L] \in PathLevel
  PROVE  Attach(s, L, key) = AttachResult(s, L, key)
<1> DEFINE level == s.tree.cursor[L]
           a == level.pid
           index == IndexAfter(level, s.new, key)
           kids == AttachedKids(s, L)
           sp == Middle(kids)
           t == [s.tree EXCEPT !.cursor[L].index = index, !.pins = Unpin(@, <<s.temp>>)]
           u == Attached(s, L, key)
           left == Internal(SubSeq(kids, 1, sp))
           right == Internal(SubSeq(kids, sp + 1, Len(kids)))
<1>1. Attach(s, L, key) =
        IF Len(kids) <= InternalCap
        THEN [tree |-> [t EXCEPT !.page[a] = Internal(kids)], new |-> s.new, temp |-> s.temp,
            going |-> FALSE]
        ELSE Divide(t, L, key, kids[sp + 1].key, left, right, sp)
  BY DEF Attach, AttachedKids, Middle
<1>2. t = [page |-> s.tree.page, header |-> s.tree.header, bounds |-> s.tree.bounds,
           pins |-> Unpin(s.tree.pins, <<s.temp>>), cursor |-> AttachedCursor(s, L, key)]
  <2> DEFINE w == s.tree
             D == AttachedCursor(s, L, key)
             E == Unpin(w.pins, <<s.temp>>)
  <2>1. t = [w EXCEPT !.cursor = D, !.pins = E]
    BY DEF AttachedCursor
  <2>2. w = [page |-> w.page, header |-> w.header, bounds |-> w.bounds, pins |-> w.pins,
          cursor |-> w.cursor]
    BY DEF IsTree
  <2> HIDE DEF w, D, E, t
  <2>3. t = [page |-> w.page, header |-> w.header, bounds |-> w.bounds, pins |-> E, cursor |-> D]
    BY <2>1, <2>2
  <2> QED BY <2>3 DEF w, D, E
<1>3. u = [page |-> AttachedPages(s, L), header |-> s.tree.header, bounds |-> s.tree.bounds,
           pins |-> Unpin(s.tree.pins, <<s.temp>>), cursor |-> AttachedCursor(s, L, key)]
  BY DEF Attached
<1>4. AttachedPages(s, L) = [s.tree.page EXCEPT ![a] = Internal(kids)]
  BY DEF AttachedPages
<1>5. AttachedCursor(s, L, key)[L].pid = a
  <2>1. [level EXCEPT !.index = index].pid = a
    BY DEF PathLevel
  <2>2. AttachedCursor(s, L, key)[L] = [level EXCEPT !.index = index]
    BY DEF AttachedCursor
  <2> QED BY <2>1, <2>2
<1> HIDE DEF t, u, kids, a, level, index, sp, left, right
<1>6. [t EXCEPT !.page[a] = Internal(kids)] = u
  BY <1>2, <1>3, <1>4
<1>7. CASE Len(kids) <= InternalCap
  <2>1. Attach(s, L, key) = [tree |-> u, new |-> s.new, temp |-> s.temp, going |-> FALSE]
    BY <1>1, <1>6, <1>7
  <2>2. AttachResult(s, L, key) = [tree |-> u, new |-> s.new, temp |-> s.temp, going |-> FALSE]
    BY <1>7 DEF AttachResult, kids, u
  <2> QED BY <2>1, <2>2
<1>8. CASE ~(Len(kids) <= InternalCap)
  <2>1. Attach(s, L, key) = Divide(t, L, key, kids[sp + 1].key, left, right, sp)
    BY <1>1, <1>8
  <2>2. AttachResult(s, L, key) = Divide(u, L, key, kids[sp + 1].key, left, right, sp)
    BY <1>8 DEF AttachResult, kids, u, sp, left, right
  <2>3. /\ IsTree(t) /\ IsTree(u) /\ a = t.cursor[L].pid /\ a \in DOMAIN t.page
        /\ u.page = [t.page EXCEPT ![a] = Internal(kids)]
        /\ u.header = t.header /\ u.bounds = t.bounds /\ u.pins = t.pins /\ u.cursor = t.cursor
    <3>1. a \in DOMAIN s.tree.page
      BY DEF a, level
    <3> QED BY <1>2, <1>3, <1>4, <1>5, <3>1 DEF IsTree
  <2> DEFINE spKey == kids[sp + 1].key
             e == Internal(kids)
  <2> HIDE DEF spKey, e
  <2>4. u.page = [t.page EXCEPT ![a] = e]
    BY <2>3 DEF e
  <2>5. Divide(t, L, key, spKey, left, right, sp) = Divide(u, L, key, spKey, left, right, sp)
    BY <2>3, <2>4, DivideOver
  <2> QED BY <2>1, <2>2, <2>5 DEF spKey
<1> QED BY <1>7, <1>8
-----------------------------------------------------------------------------

(* The two halves of one cell too many. *)
LEMMA MiddleIs ==
  ASSUME NEW N \in Nat, NEW c \in Nat, c >= 2, N = c + 1, NEW m, m = N \div 2
  PROVE  m \in Nat /\ 1 <= m /\ m < N /\ m <= c /\ N - m <= c
OBVIOUS

KidSeq(D) == Seq([key : Key, value : D])

(* The cells of a part of an internal block. *)
LEMMA PartOfKids ==
  ASSUME NEW D, NEW E, D \subseteq E, NEW ks, ks \in KidSeq(D),
         NEW i \in Nat, NEW j \in Nat, 1 <= i, i <= j, j <= Len(ks)
  PROVE  Internal(SubSeq(ks, i, j)) \in PageNode(E) /\ Internal(SubSeq(ks, i, j)).type = "internal"
<1> DEFINE R == [key : Key, value : D]
           Q == [key : Key, value : E]
           u == SubSeq(ks, i, j)
<1>1. R \subseteq Q
  OBVIOUS
<1> HIDE DEF R, Q
<1>2. u \in Seq(R)
  <2>1. ks \in Seq(R)
    BY DEF R, KidSeq
  <2> QED BY <2>1
<1> HIDE DEF u
<1>3. u \in Seq(Q)
  BY <1>1, <1>2
<1>4. [type |-> "internal", kids |-> u] \in [type : {"internal"}, kids : Seq(Q)]
  BY <1>3
<1>5. Internal(u) \in PageNode(E) /\ Internal(u).type = "internal"
  BY <1>4 DEF Internal, PageNode, Q
<1> QED BY <1>5 DEF u

(* A block with one cell too many is cut in the middle.                    *)
CutKey(kids) == kids[Middle(kids) + 1].key
FirstHalf(kids) == Internal(SubSeq(kids, 1, Middle(kids)))
SecondHalf(kids) == Internal(SubSeq(kids, Middle(kids) + 1, Len(kids)))

(* A block with a cell too many is split at its middle cell. *)
LEMMA OverfullDivides ==
  ASSUME NEW u, NEW pl, NEW L, NEW key \in Nat, NEW a, a = u.cursor[L].pid,
         Whole(u, pl, a, L, key), L < u.header.depth,
         NEW kids, kids = u.page[a].kids, Len(kids) > InternalCap
  PROVE  Divides(u, pl, a, L, key, CutKey(kids), FirstHalf(kids), SecondHalf(kids), Middle(kids))
<1> DEFINE P == u.page
           root == u.header.root
           depth == u.header.depth
           N == Len(kids)
           m == Middle(kids)
           sp == CutKey(kids)
           left == FirstHalf(kids)
           right == SecondHalf(kids)
           n == Fresh(P)
           D == DOMAIN P
<1>1. Track(u, pl, 0, 0, a, -1, key) /\ L \in 1..depth /\ Laid(P, root, depth, pl, 0, 0, a)
  BY DEF Whole, Track
<1>2. /\ a \in D /\ a \in Nat /\ a > 0 /\ IsInternal(P, a)
      /\ pl[a].lower \in Nat /\ pl[a].upper \in Nat
  BY <1>1, TrackLevel
<1>3. Within(pl, a, key)
  <2>1. Aimed(u, pl, key, L)
    BY <1>1 DEF Track
  <2> QED BY <1>1, <2>1 DEF Aimed, Within, Laid, Placed
<1>4. Nodes(P) /\ PagesSound(P, pl, 0, 0, a)
  BY SMTT(30), <1>1 DEF Laid
<1>5. /\ N \in Nat /\ kids \in Seq([key : Key, value : D])
      /\ \A i \in 1..N : kids[i].key \in Nat
  BY ZenonT(40), <1>2, <1>4, NodeIs
<1>6. N = InternalCap + 1
  <2>1. KidsSound(P, pl, 0, 0, a, a)
    BY <1>2, <1>4 DEF PagesSound
  <2>2. N <= InternalCap + 1
    BY <2>1 DEF KidsSound
  <2> HIDE DEF N
  <2>3. N > InternalCap
    BY SMTT(30) DEF N
  <2> QED BY <1>5, <2>2, <2>3, ConstantsAre
<1>7. m \in Nat /\ 1 <= m /\ m < N /\ m <= InternalCap /\ N - m <= InternalCap
  <2>1. m = N \div 2
    BY DEF Middle
  <2> HIDE DEF m, N
  <2> QED BY <1>5, <1>6, <2>1, ConstantsAre, MiddleIs
<1>8. left \in PageNode(D \cup {n}) /\ right \in PageNode(D \cup {n})
      /\ left.type = "internal" /\ right.type = "internal"
  <2>1. D \subseteq D \cup {n} /\ 1 \in Nat /\ m + 1 \in Nat /\ 1 <= 1 /\ 1 <= m + 1
          /\ m + 1 <= N /\ m <= N /\ N <= N
    <3> HIDE DEF m, N, D
    <3> QED BY <1>5, <1>7
  <2> DEFINE E == D \cup {n}
             i == m + 1
  <2>2. left = Internal(SubSeq(kids, 1, m)) /\ right = Internal(SubSeq(kids, i, N))
    BY DEF FirstHalf, SecondHalf
  <2>3. D \subseteq E /\ kids \in KidSeq(D) /\ 1 \in Nat /\ m \in Nat /\ 1 <= 1 /\ 1 <= m
          /\ m <= Len(kids)
    BY <1>5, <1>7, <2>1, ZenonT(40) DEF KidSeq
  <2>4. i \in Nat /\ N \in Nat /\ 1 <= i /\ i <= N /\ N <= Len(kids)
    BY <1>5, <1>7, <2>1, Zenon
  <2> HIDE DEF n, m, D, N, i, E
  <2>5. Internal(SubSeq(kids, 1, m)) \in PageNode(E) /\ Internal(SubSeq(kids, 1, m)).type = "internal"
    BY <2>3, PartOfKids
  <2>6. Internal(SubSeq(kids, i, N)) \in PageNode(E) /\ Internal(SubSeq(kids, i, N)).type = "internal"
    BY ZenonT(40), <2>3, <2>4, PartOfKids
  <2> QED BY <2>2, <2>5, <2>6 DEF E
<1>9. sp \in Nat /\ pl[a].lower < sp /\ sp < pl[a].upper
  <2>1. /\ \A i \in 1..N : /\ pl[a].lower <= kids[i].key /\ kids[i].key < pl[a].upper
        /\ \A i, j \in 1..N : i < j => kids[i].key < kids[j].key
    BY ZenonT(40), <1>1, <1>2, KidsAscend
  <2>2. sp = kids[m + 1].key
    BY DEF CutKey
  <2>3. 1 \in 1..N /\ m + 1 \in 1..N /\ 1 < m + 1
    <3> HIDE DEF N, m
    <3> QED BY <1>5, <1>7
  <2> DEFINE j == m + 1
             k1 == kids[1].key
             kj == kids[j].key
  <2>4. pl[a].lower <= k1 /\ k1 < kj /\ kj < pl[a].upper /\ k1 \in Nat /\ kj \in Nat
    <3> HIDE DEF m, N
    <3>1. j \in 1..N /\ 1 \in 1..N /\ 1 < j
      BY <2>3
    <3> HIDE DEF j
    <3> QED BY <1>5, <2>1, <3>1, Zenon
  <2> HIDE DEF k1, kj
  <2>5. pl[a].lower < kj
    BY <1>2, <2>4
  <2> QED BY <2>2, <2>4, <2>5, ZenonT(40) DEF kj
<1>10. Cuts(P, root, depth, pl, a, a, sp, left, right)
  <2> HIDE DEF sp, left, right, root, depth, P
  <2> QED BY SMTT(30), <1>1, <1>2, <1>8, <1>9 DEF Cuts, n, D
<1>11. Laid(CutPages(P, a, n, left, right), root, depth, CutLayout(pl, a, n, sp), a, n, 0)
  <2>1. left = Internal(SubSeq(P[a].kids, 1, m))
    BY DEF FirstHalf
  <2>2. right = Internal(SubSeq(P[a].kids, m + 1, Len(P[a].kids)))
    BY DEF SecondHalf
  <2>3. sp = P[a].kids[m + 1].key
    BY DEF CutKey
  <2>4. m \in Nat /\ 1 <= m /\ m < Len(P[a].kids) /\ m <= InternalCap
          /\ Len(P[a].kids) - m <= InternalCap
    BY <1>7
  <2> HIDE DEF sp, left, right, root, depth, P, m, n
  <2> QED BY <1>2, <1>10, <2>1, <2>2, <2>3, <2>4, KidsCut DEF n
<1>12. Divides(u, pl, a, L, key, sp, left, right, m)
  <2>1. left = Internal(SubSeq(P[a].kids, 1, m))
    BY DEF FirstHalf
  <2>2. right = Internal(SubSeq(P[a].kids, m + 1, Len(P[a].kids)))
    BY DEF SecondHalf
  <2>3. sp = P[a].kids[m + 1].key
    BY DEF CutKey
  <2>4. left.type # "dense" /\ right.type # "dense" /\ m \in Int
    BY <1>7, <1>8
  <2> HIDE DEF sp, left, right, m
  <2> QED BY <1>3, <1>7, <1>10, <1>11, <2>1, <2>2, <2>3, <2>4, Zenon DEF Divides
<1> QED BY <1>12
-----------------------------------------------------------------------------

(* The leaves are the same, and so is what the header counts.              *)
SameLeaves(P, Q) ==
  /\ \A p \in DOMAIN Q : ~IsInternal(Q, p) => p \in DOMAIN P /\ Q[p] = P[p]
  /\ \A p \in DOMAIN P : ~IsInternal(P, p) => p \in DOMAIN Q /\ Q[p] = P[p]
SameCounts(h, g) == g.nnz = h.nnz /\ g.nLeaves = h.nLeaves /\ g.useDense = h.useDense
    /\ g.splitter = h.splitter
SameBounds(t, u) == DOMAIN u.bounds = DOMAIN t.bounds
SameBelow(t, u) ==
  SameLeaves(t.page, u.page) /\ SameCounts(t.header, u.header) /\ SameBounds(t, u)

(* What each of two steps leaves alone, they leave alone together. *)
LEMMA SameTwice ==
  ASSUME NEW t, NEW u, NEW v, SameBelow(t, u), SameBelow(u, v)
  PROVE  SameBelow(t, v)
BY DEF SameBelow, SameLeaves, SameCounts, SameBounds, IsInternal

(* The tree after one block of the way up.                                 *)
Goes(s, L, key) ==
  /\ IsSplit(s) /\ IsTree(s.tree)
  /\ IF s.going THEN \E pl, o, n : Rising(s, pl, o, n, L, key)
     ELSE \E pl : Whole(s.tree, pl, 0, L, key)

(* Putting the new cell into a block leaves the leaves and the counts alone. *)
LEMMA AttachedSame ==
  ASSUME NEW s, NEW pl, NEW o, NEW n, NEW L \in Nat, L >= 1, NEW key, Rising(s, pl, o, n, L + 1, key),
         NEW u, u = Attached(s, L, key)
  PROVE  /\ SameBelow(s.tree, u) /\ u.header = s.tree.header /\ u.cursor[L].pid = s.tree.cursor[L].pid
         /\ u.page[u.cursor[L].pid].kids = AttachedKids(s, L)
         /\ s.tree.cursor[L].pid \in DOMAIN s.tree.page /\ L \in DOMAIN s.tree.cursor
         /\ s.tree.cursor[L] \in PathLevel /\ IsTree(s.tree)
         /\ L < s.tree.header.depth
<1> DEFINE t == s.tree
           c == t.cursor
           a == c[L].pid
           P == t.page
           e == Internal(AttachedKids(s, L))
           m == IndexAfter(c[L], s.new, key)
<1>1. Track(t, pl, o, n, 0, s.temp, key) /\ L \in 1..t.header.depth /\ L < t.header.depth
  BY AttachJoins, Zenon DEF Rising, Torn
<1>2. a \in DOMAIN P /\ IsInternal(P, a) /\ c[L] \in PathLevel
  BY <1>1, TrackLevel
<1>3. IsTree(t) /\ c \in Seq(PathLevel) /\ Len(c) = t.header.depth
  BY <1>1 DEF Track
<1>4. L \in DOMAIN c
  BY <1>1, <1>3
<1>5. /\ u.page = [P EXCEPT ![a] = e] /\ u.header = t.header /\ u.bounds = t.bounds
      /\ u.cursor = [c EXCEPT ![L].index = m]
  BY DEF Attached, AttachedPages, AttachedCursor
<1>6. u.cursor[L].pid = a
  <2>1. [c[L] EXCEPT !.index = m].pid = c[L].pid
    BY <1>2 DEF PathLevel
  <2>2. u.cursor[L] = [c[L] EXCEPT !.index = m]
    BY <1>4, <1>5
  <2> QED BY <2>1, <2>2
<1>7. e.type = "internal" /\ e.kids = AttachedKids(s, L)
  BY DEF Internal
<1> HIDE DEF e, a, P
<1>8. u.page[a] = e
  BY <1>2, <1>5
<1>9. SameLeaves(P, u.page)
  <2>1. /\ DOMAIN u.page = DOMAIN P /\ IsInternal(P, a) /\ IsInternal(u.page, a)
        /\ \A p \in DOMAIN P : p # a => u.page[p] = P[p]
    BY <1>2, <1>5, <1>7, <1>8 DEF IsInternal
  <2> QED BY <2>1 DEF SameLeaves, IsInternal
<1> QED BY <1>1, <1>2, <1>3, <1>4, <1>5, <1>6, <1>7, <1>8, <1>9 DEF SameBelow, SameCounts,
      SameBounds, a, P

(* So does splitting a block. *)
LEMMA DividedSame ==
  ASSUME NEW u, NEW pl, NEW x, NEW L, NEW key, NEW sp, NEW left, NEW right, NEW cnt,
         Divides(u, pl, x, L, key, sp, left, right, cnt), L < u.header.depth,
         NEW s, s = Divide(u, L, key, sp, left, right, cnt)
  PROVE  SameBelow(u, s.tree)
<1> DEFINE a == u.cursor[L].pid
           n == Fresh(u.page)
           P == u.page
           Q == s.tree.page
<1>1. /\ Track(u, pl, 0, 0, x, -1, key) /\ L \in 1..u.header.depth
      /\ Cuts(P, u.header.root, u.header.depth, pl, x, a, sp, left, right)
  BY DEF Divides, Whole
<1>2. a \in DOMAIN P /\ IsInternal(P, a) /\ a \notin DOMAIN u.bounds
  <2>1. a \in DOMAIN u.bounds => L = u.header.depth
    BY <1>1, TrackLevel
  <2>2. a \in DOMAIN P /\ IsInternal(P, a)
    BY <1>1, TrackLevel
  <2>3. L # u.header.depth
    BY <1>1 DEF Track, Laid, Placed
  <2> QED BY <2>1, <2>2, <2>3
<1>3. /\ Q = CutPages(P, a, n, left, right) /\ s.tree.header = u.header
      /\ s.tree.bounds = DividedBounds(u, L, sp)
  BY <1>1, DivideIs DEF Track
<1>4. s.tree.bounds = u.bounds
  BY <1>2, <1>3 DEF DividedBounds
<1>5. left.type = "internal" /\ right.type = "internal"
  BY <1>1, <1>2 DEF Cuts
<1>6. HasCut(P, pl, a, sp, left, right, n, Q, CutLayout(pl, a, n, sp))
  <2> HIDE DEF a, n, Q
  <2> QED BY <1>1, <1>3, CutIs DEF n
<1>7. SameLeaves(P, Q)
  <2>1. /\ DOMAIN Q = DOMAIN P \cup {n} /\ n \notin DOMAIN P /\ IsInternal(P, a)
        /\ Q[a] = left /\ Q[n] = right
        /\ \A p \in DOMAIN P : p # a => Q[p] = P[p]
    BY <1>2, <1>6 DEF HasCut
  <2> HIDE DEF P, Q, a, n
  <2> QED BY <1>5, <2>1 DEF SameLeaves, IsInternal
<1> QED BY <1>3, <1>4, <1>7 DEF SameBelow, SameCounts, SameBounds

(* One block of the way up.                                                *)
LEMMA AttachRises ==
  ASSUME NEW s, IsSplit(s), NEW L \in Nat, L >= 1, NEW key \in Nat, NEW pl, NEW o, NEW n,
         Rising(s, pl, o, n, L + 1, key), NEW v, v = Attach(s, L, key)
  PROVE  Goes(v, L, key) /\ SameBelow(s.tree, v.tree)
<1> DEFINE u == Attached(s, L, key)
           kids == AttachedKids(s, L)
           a == s.tree.cursor[L].pid
<1>1. /\ SameBelow(s.tree, u) /\ u.header = s.tree.header /\ u.cursor[L].pid = a
      /\ u.page[u.cursor[L].pid].kids = kids
      /\ a \in DOMAIN s.tree.page /\ L \in DOMAIN s.tree.cursor
      /\ s.tree.cursor[L] \in PathLevel /\ IsTree(s.tree)
      /\ L < s.tree.header.depth
  BY AttachedSame
<1>2. s.going
  BY DEF Rising, Answers
<1>3. v = AttachResult(s, L, key)
  BY <1>1, <1>2, AttachIs
<1>4. CASE Len(kids) <= InternalCap
  <2>1. Whole(u, pl, 0, L, key)
    <3>1. 0 \in {0, a}
      OBVIOUS
    <3> HIDE DEF u
    <3> QED BY <1>4, <3>1, AttachWhole DEF u
  <2>2. v = [tree |-> u, new |-> s.new, temp |-> s.temp, going |-> FALSE]
    BY <1>3, <1>4 DEF AttachResult
  <2>3. IsTree(u)
    BY <2>1 DEF Whole, Track
  <2> HIDE DEF u
  <2>4. v.tree = u /\ ~v.going /\ IsSplit(v)
    BY <2>2 DEF IsSplit
  <2> QED BY <1>1, <2>1, <2>3, <2>4 DEF Goes
<1>5. CASE ~(Len(kids) <= InternalCap)
  <2>1. Whole(u, pl, a, L, key)
    <3>1. a \in {0, a} /\ (a = 0 => Len(kids) <= InternalCap)
      <4>1. Track(s.tree, pl, o, n, 0, s.temp, key) /\ L \in 1..s.tree.header.depth
        BY AttachJoins, Zenon DEF Rising, Torn
      <4>2. a > 0
        BY <4>1, TrackLevel
      <4> QED BY <4>2
    <3> HIDE DEF u, a
    <3> QED BY <3>1, AttachWhole DEF u, a
  <2>2. v = Divide(u, L, key, CutKey(kids), FirstHalf(kids), SecondHalf(kids), Middle(kids))
    BY <1>3, <1>5 DEF AttachResult, CutKey, FirstHalf, SecondHalf
  <2>3. Len(kids) > InternalCap
    <3>1. kids = u.page[a].kids
      BY <1>1
    <3>2. Len(kids) \in Nat
      <4>1. Track(u, pl, 0, 0, a, -1, key) /\ L \in 1..u.header.depth
        BY SMTT(30), <2>1 DEF Whole
      <4>2. a \in DOMAIN u.page /\ IsInternal(u.page, a) /\ Nodes(u.page)
        BY ZenonT(40), <1>1, <4>1, TrackLevel DEF Track, Laid
      <4> HIDE DEF u, kids, a
      <4> QED BY <3>1, <4>2, KidsAre
    <3> DEFINE g == Len(kids)
    <3> HIDE DEF g
    <3>3. g > InternalCap
      BY <1>5, <3>2, ConstantsAre DEF g
    <3> QED BY <3>3 DEF g
  <2>4. Divides(u, pl, a, L, key, CutKey(kids), FirstHalf(kids), SecondHalf(kids), Middle(kids))
    <3>1. a = u.cursor[L].pid /\ kids = u.page[a].kids /\ L < u.header.depth
      BY <1>1
    <3> HIDE DEF u, kids, a
    <3> QED BY <2>1, <2>3, <3>1, OverfullDivides
  <2> DEFINE sp == CutKey(kids)
             left == FirstHalf(kids)
             right == SecondHalf(kids)
             cnt == Middle(kids)
             m == Fresh(u.page)
             pl2 == CutLayout(pl, u.cursor[L].pid, m, sp)
  <2> HIDE DEF u, sp, left, right, cnt, m
  <2>5. Torn(v.tree, pl2, u.cursor[L].pid, m, L, v.temp, key) /\ Answers(v, pl2, m, L, key)
    BY <2>2, <2>4, DivideTears DEF sp, left, right, cnt, m
  <2>6. Rising(v, pl2, u.cursor[L].pid, m, L, key)
    BY <2>5 DEF Rising
  <2>7. SameBelow(u, v.tree)
    BY <1>1, <2>2, <2>4, DividedSame DEF sp, left, right, cnt
  <2>8. IsSplit(v)
    BY <2>2, DivideIsSplit
  <2>9. IsTree(v.tree) /\ v.going
    BY <2>5, Zenon DEF Torn, Track, Answers
  <2>10. SameBelow(s.tree, v.tree)
    BY <1>1, <2>7, SameTwice
  <2> HIDE DEF pl2
  <2> QED BY <2>6, <2>8, <2>9, <2>10 DEF Goes
<1> QED BY <1>4, <1>5

(* A block that has stopped going up stays as it is.                       *)
LEMMA AttachGoes ==
  ASSUME NEW s, NEW L \in Nat, L >= 1, NEW key \in Nat, Goes(s, L + 1, key),
         NEW v, v = Attach(s, L, key)
  PROVE  Goes(v, L, key) /\ SameBelow(s.tree, v.tree)
<1>1. CASE s.going
  <2>1. PICK pl, o, n : Rising(s, pl, o, n, L + 1, key)
    BY <1>1 DEF Goes
  <2>2. IsSplit(s)
    BY DEF Goes
  <2> QED BY <2>1, <2>2, AttachRises
<1>2. CASE ~s.going
  <2>1. v = s
    BY <1>2 DEF Attach
  <2>2. PICK pl : Whole(s.tree, pl, 0, L + 1, key)
    BY <1>2 DEF Goes
  <2>3. Whole(s.tree, pl, 0, L, key)
    <3>1. /\ Track(s.tree, pl, 0, 0, 0, -1, key)
          /\ L + 1 \in 1..s.tree.header.depth /\ s.tree.cursor[1].pid = s.tree.header.root
          /\ (\A i \in 1..(L+1)-1 : Linked(s.tree.page, s.tree.cursor, i))
          /\ \A i \in L+1..s.tree.header.depth-1 : LinkedOrBent(s.tree, i, key)
      BY <2>2 DEF Whole
    <3>2. s.tree.header.depth \in Nat
      BY <3>1 DEF Track, Laid, Placed
    <3> DEFINE d == s.tree.header.depth
    <3> HIDE DEF d
    <3>3. L \in 1..d /\ (\A i \in 1..L-1 : i \in 1..(L+1)-1)
            /\ \A i \in L..d-1 : i \in L+1..d-1 \/ i \in 1..(L+1)-1
      BY <3>1, <3>2 DEF d
    <3> QED BY <3>1, <3>3 DEF Whole, LinkedOrBent, d
  <2>4. SameBelow(s.tree, s.tree)
    BY DEF SameBelow, SameLeaves, SameCounts, SameBounds, IsInternal
  <2> QED BY <1>2, <2>1, <2>3, <2>4 DEF Goes
<1> QED BY <1>1, <1>2
-----------------------------------------------------------------------------

(* The root torn in two, and a new root over the halves.                   *)
Grows(P, root, depth, pl, n) ==
  /\ Laid(P, root, depth, pl, root, n, 0)
  /\ n \in DOMAIN P /\ n # root /\ pl[n].level = 1 /\ pl[root].upper = pl[n].lower
TwoCells(root, sp, n) == Inserted(Inserted(<<>>, 0, 0, root), 1, sp, n)
GrownPages(P, root, pl, n) == Extended(P, Fresh(P), Internal(TwoCells(root, pl[n].lower, n)))
GrownLayout(pl, r) ==
  [p \in DOMAIN pl \cup {r} |->
     IF p = r THEN [level |-> 1, lower |-> 0, upper |-> EndsBy]
     ELSE [level |-> pl[p].level + 1, lower |-> pl[p].lower, upper |-> pl[p].upper]]

(* The cells of a new root. *)
LEMMA TwoCellsAre ==
  ASSUME NEW D, NEW root \in D, NEW n \in D, NEW sp \in Key, NEW t, t = TwoCells(root, sp, n)
  PROVE  t \in KidSeq(D) /\ Len(t) = 2 /\ t[1] = Cells(0, root) /\ t[2] = Cells(sp, n)
<1> DEFINE R == [key : Key, value : D]
           e1 == Cells(0, root)
           e2 == Cells(sp, n)
           s == InsertAt(<<>>, 0 + 1, e1)
<1>1. e1 \in R /\ e2 \in R
  <2>1. 0 \in Key
    BY ConstantsAre
  <2> QED BY <2>1 DEF Cells
<1>2. Inserted(<<>>, 0, 0, root) = s
  BY DEF Inserted, HasKeyAt
<1>3. <<>> \in Seq(R) /\ Len(<<>>) = 0 /\ 0 \in Nat /\ 0 <= 0 /\ 1 \in Nat
  OBVIOUS
<1> HIDE DEF R, e1, e2
<1>4. s \in Seq(R) /\ Wider(<<>>, s, 0, e1)
  <2> DEFINE z == <<>>
             c == 0
  <2>1. z \in Seq(R) /\ c \in Nat /\ c <= Len(z)
    BY <1>3
  <2> HIDE DEF z, c
  <2>2. InsertAt(z, c + 1, e1) \in Seq(R) /\ Wider(z, InsertAt(z, c + 1, e1), c, e1)
    BY <1>1, <2>1, CellPut
  <2> QED BY <2>2 DEF z, c
<1> HIDE DEF s
<1>5. Len(s) = 1 /\ s[1] = e1
  BY <1>3, <1>4 DEF Wider
<1>8. t = InsertAt(s, 1 + 1, e2)
  <2>1. ~HasKeyAt(s, 1, sp)
    BY <1>5 DEF HasKeyAt
  <2> QED BY <1>2, <2>1 DEF TwoCells, Inserted, e2
<1>6. t \in Seq(R) /\ Wider(s, t, 1, e2)
  <2> DEFINE c == 1
  <2>1. c \in Nat /\ c <= Len(s)
    BY <1>5
  <2> HIDE DEF c
  <2>2. InsertAt(s, c + 1, e2) \in Seq(R) /\ Wider(s, InsertAt(s, c + 1, e2), c, e2)
    BY <1>1, <1>4, <2>1, CellPut
  <2> QED BY <1>8, <2>2 DEF c
<1>7. Len(t) = 2 /\ t[1] = e1 /\ t[2] = e2
  <2>1. 1 \in 1..1
    OBVIOUS
  <2> QED BY <1>5, <1>6, <2>1 DEF Wider
<1> QED BY <1>6, <1>7 DEF R, e1, e2, KidSeq

HasGrown(P, root, pl, n, r, Q, pl2) ==
  /\ r \in Nat /\ r > 0 /\ r \notin DOMAIN P /\ root \in DOMAIN P /\ n \in DOMAIN P /\ n # root
  /\ DOMAIN Q = DOMAIN P \cup {r} /\ DOMAIN Q = 1..r /\ Cardinality(DOMAIN Q) = r
  /\ Q[r].type = "internal" /\ Q[r] \in PageNode(DOMAIN Q) /\ Len(Q[r].kids) = 2
  /\ Q[r].kids[1].key = 0 /\ Q[r].kids[1].value = root
  /\ Q[r].kids[2].key = pl[n].lower /\ Q[r].kids[2].value = n
  /\ \A p \in DOMAIN P : Q[p] = P[p]
  /\ DOMAIN pl2 = DOMAIN Q
  /\ pl2[r] = [level |-> 1, lower |-> 0, upper |-> EndsBy]
  /\ \A p \in DOMAIN P :
       pl2[p] = [level |-> pl[p].level + 1, lower |-> pl[p].lower, upper |-> pl[p].upper]

(* What the pages and the layout are under a new root. *)
LEMMA GrownIs ==
  ASSUME NEW P, NEW root, NEW depth, NEW pl, NEW n, Grows(P, root, depth, pl, n),
         NEW r, r = Fresh(P), NEW Q, Q = GrownPages(P, root, pl, n), NEW pl2, pl2 = GrownLayout(pl, r)
  PROVE  HasGrown(P, root, pl, n, r, Q, pl2)
<1> DEFINE D == DOMAIN P
           N == Cardinality(D)
           kids == TwoCells(root, pl[n].lower, n)
           e == Internal(kids)
<1>1. Nodes(P) /\ Placed(P, depth, pl) /\ n \in D /\ root \in D /\ n # root
  BY DEF Grows, Laid, Rooted
<1>2. N \in Nat /\ D = 1..N /\ r = N + 1
  BY <1>1 DEF Nodes, Fresh
<1>3. DOMAIN pl = D
  BY <1>1 DEF Placed
<1>4. pl[n].lower \in Key
  <2>1. pl[n].lower \in Nat /\ pl[n].upper \in Nat /\ pl[n].lower < pl[n].upper /\ pl[n].upper <= EndsBy
    BY <1>1, SpotIs
  <2> QED BY <2>1, ConstantsAre
<1> HIDE DEF D, N
<1>5. r \in Nat /\ r > 0 /\ r \notin D /\ D \cup {r} = 1..r
  BY <1>2
<1>6. kids \in KidSeq(D \cup {r}) /\ Len(kids) = 2 /\ kids[1] = Cells(0, root)
        /\ kids[2] = Cells(pl[n].lower, n)
  <2>1. root \in D \cup {r} /\ n \in D \cup {r}
    BY <1>1
  <2> DEFINE E == D \cup {r}
             k == pl[n].lower
  <2>2. root \in E /\ n \in E /\ k \in Key /\ kids = TwoCells(root, k, n)
    BY <1>4, <2>1
  <2> HIDE DEF E, k, kids
  <2>3. kids \in KidSeq(E) /\ Len(kids) = 2 /\ kids[1] = Cells(0, root) /\ kids[2] = Cells(k, n)
    BY <2>2, TwoCellsAre
  <2> QED BY <2>3 DEF E, k
<1> HIDE DEF kids
<1>7. e.type = "internal" /\ e.kids = kids /\ e \in PageNode(D \cup {r})
  <2>1. [type |-> "internal", kids |-> kids] \in [type : {"internal"}, kids : KidSeq(D \cup {r})]
    BY <1>6
  <2> QED BY <2>1 DEF Internal, PageNode, KidSeq
<1>8. Q = [y \in D \cup {r} |-> IF y = r THEN e ELSE P[y]]
  BY DEF GrownPages, Extended, D, kids
<1> HIDE DEF e
<1>9. DOMAIN Q = D \cup {r} /\ Q[r] = e /\ \A p \in D : Q[p] = P[p]
  BY <1>5, <1>8
<1>10. /\ DOMAIN pl2 = D \cup {r}
       /\ pl2[r] = [level |-> 1, lower |-> 0, upper |-> EndsBy]
       /\ \A p \in D : pl2[p] = [level |-> pl[p].level + 1, lower |-> pl[p].lower, upper |-> pl[p].upper]
  BY <1>3, <1>5 DEF GrownLayout
<1>11. DOMAIN Q = 1..r /\ Cardinality(DOMAIN Q) = r
  BY <1>5, <1>9, IntervalSize
<1>12. kids[1].key = 0 /\ kids[1].value = root /\ kids[2].key = pl[n].lower /\ kids[2].value = n
  BY <1>6 DEF Cells
<1>13. Q[r].type = "internal" /\ Q[r].kids = kids /\ Q[r] \in PageNode(DOMAIN Q)
  BY <1>7, <1>9
<1> QED BY <1>1, <1>5, <1>6, <1>9, <1>10, <1>11, <1>12, <1>13 DEF D, HasGrown

(* A new root over the two halves of the old one settles the tree. *)
LEMMA GrownSettled ==
  ASSUME NEW P, NEW root, NEW depth, NEW pl, NEW n, Grows(P, root, depth, pl, n),
         NEW r, r = Fresh(P), NEW Q, Q = GrownPages(P, root, pl, n), NEW pl2, pl2 = GrownLayout(pl, r)
  PROVE  Settled(Q, r, depth + 1, pl2)
<1>1. /\ r \in Nat /\ r > 0 /\ r \notin DOMAIN P /\ root \in DOMAIN P /\ n \in DOMAIN P /\ n # root
      /\ DOMAIN Q = DOMAIN P \cup {r} /\ DOMAIN Q = 1..r /\ Cardinality(DOMAIN Q) = r
      /\ Q[r].type = "internal" /\ Q[r] \in PageNode(DOMAIN Q) /\ Len(Q[r].kids) = 2
      /\ Q[r].kids[1].key = 0 /\ Q[r].kids[1].value = root
      /\ Q[r].kids[2].key = pl[n].lower /\ Q[r].kids[2].value = n
      /\ \A p \in DOMAIN P : Q[p] = P[p]
      /\ DOMAIN pl2 = DOMAIN Q
      /\ pl2[r] = [level |-> 1, lower |-> 0, upper |-> EndsBy]
      /\ \A p \in DOMAIN P :
           pl2[p] = [level |-> pl[p].level + 1, lower |-> pl[p].lower, upper |-> pl[p].upper]
  <2>1. HasGrown(P, root, pl, n, r, Q, pl2)
    BY GrownIs
  <2> QED BY <2>1 DEF HasGrown
<1>2. /\ Nodes(P) /\ Placed(P, depth, pl) /\ PagesSound(P, pl, root, n, 0) /\ Rooted(P, root, pl,
           root, n)
      /\ Apart(P, pl) /\ Reached(P, root, n) /\ pl[n].level = 1 /\ pl[root].upper = pl[n].lower
  BY DEF Grows, Laid
<1>3. ASSUME NEW p \in DOMAIN P
      PROVE  /\ pl[p].level \in Nat /\ pl[p].lower \in Nat /\ pl[p].upper \in Nat /\ depth \in Nat
             /\ pl[p].level \in 1..depth /\ pl[p].lower < pl[p].upper /\ pl[p].upper <= EndsBy
             /\ IsInternal(P, p) <=> pl[p].level < depth
             /\ pl2[p].level = pl[p].level + 1 /\ pl2[p].lower = pl[p].lower
                  /\ pl2[p].upper = pl[p].upper
             /\ IsInternal(Q, p) <=> IsInternal(P, p)
             /\ p # 0 /\ p # r
  <2>1. p # 0
    BY <1>2 DEF Nodes
  <2>2. /\ pl[p].level \in Nat /\ pl[p].lower \in Nat /\ pl[p].upper \in Nat /\ depth \in Nat
        /\ pl[p].level \in 1..depth /\ pl[p].lower < pl[p].upper /\ pl[p].upper <= EndsBy
        /\ (IsInternal(P, p) <=> pl[p].level < depth)
    <3>1. Placed(P, depth, pl) /\ p \in DOMAIN P
      BY <1>2
    <3> QED BY <3>1, SpotIs
  <2>3. IsInternal(Q, p) <=> IsInternal(P, p)
    BY <1>1 DEF IsInternal
  <2> QED BY <1>1, <2>1, <2>2, <2>3
<1>4. pl2[r].level = 1 /\ pl2[r].lower = 0 /\ pl2[r].upper = EndsBy /\ IsInternal(Q, r) /\ r # 0
  BY <1>1 DEF IsInternal
<1>5. Nodes(Q)
  <2>1. \A p \in DOMAIN Q : Q[p] \in PageNode(DOMAIN Q)
    <3> SUFFICES ASSUME NEW p \in DOMAIN Q PROVE Q[p] \in PageNode(DOMAIN Q)
      OBVIOUS
    <3>1. CASE p \in DOMAIN P
      <4>1. P[p] \in PageNode(DOMAIN P) /\ DOMAIN P \subseteq DOMAIN Q
        BY <1>1, <1>2, <3>1 DEF Nodes
      <4>2. P[p] \in PageNode(DOMAIN Q)
        BY <4>1, MoreNodes
      <4> QED BY <1>1, <3>1, <4>2
    <3>2. CASE p = r
      BY <1>1, <3>2
    <3> QED BY <1>1, <3>1, <3>2
  <2>2. Q = [p \in DOMAIN Q |-> Q[p]]
    BY DEF GrownPages, Extended
  <2>3. Q \in [DOMAIN Q -> PageNode(DOMAIN Q)]
    BY <2>1, <2>2
  <2> QED BY <1>1, <2>3 DEF Nodes
<1>6. Placed(Q, depth + 1, pl2)
  <2>1. depth \in Nat /\ depth > 0
    BY <1>2 DEF Placed
  <2>2. ASSUME NEW p \in DOMAIN Q
        PROVE  /\ pl2[p] \in Spot /\ pl2[p].level \in 1..depth+1
               /\ pl2[p].lower < pl2[p].upper /\ pl2[p].upper <= EndsBy
               /\ IsInternal(Q, p) <=> pl2[p].level < depth + 1
    <3>1. CASE p \in DOMAIN P
      <4>1. pl2[p] = [level |-> pl[p].level + 1, lower |-> pl[p].lower, upper |-> pl[p].upper]
        BY <1>1, <3>1
      <4>2. pl2[p] \in Spot
        BY <1>3, <3>1, <4>1 DEF Spot
      <4> QED BY <1>3, <3>1, <4>2
    <3>2. CASE p = r
      <4>1. pl2[p] \in Spot
        BY <1>1, <3>2, ConstantsAre DEF Spot
      <4> QED BY <1>4, <2>1, <3>2, <4>1, ConstantsAre
    <3> QED BY <1>1, <3>1, <3>2
  <2>3. pl2 = [p \in DOMAIN pl2 |-> pl2[p]]
    BY DEF GrownLayout
  <2>4. pl2 \in [DOMAIN Q -> Spot]
    BY <1>1, <2>2, <2>3
  <2> QED BY <2>1, <2>2, <2>4 DEF Placed
<1>7. Rooted(Q, r, pl2, 0, 0)
  BY <1>1, <1>4 DEF Rooted, Top
<1>8. Apart(Q, pl2)
  <2> SUFFICES ASSUME NEW p \in DOMAIN Q, NEW q \in DOMAIN Q, p # q, pl2[p].level = pl2[q].level
               PROVE  pl2[p].upper <= pl2[q].lower \/ pl2[q].upper <= pl2[p].lower
    BY DEF Apart
  <2>1. p # r /\ q # r
    <3>1. \A v \in DOMAIN P : pl2[v].level # 1
      BY <1>3
    <3> QED BY <1>1, <1>4, <3>1
  <2>2. p \in DOMAIN P /\ q \in DOMAIN P /\ pl[p].level = pl[q].level
    <3>1. p \in DOMAIN P /\ q \in DOMAIN P
      BY <1>1, <2>1
    <3> QED BY <1>3, <3>1
  <2> QED BY <1>2, <1>3, <2>2 DEF Apart
<1>9. KidsSound(Q, pl2, 0, 0, 0, r)
  <2>1. /\ pl[root].lower = 0 /\ pl[root].level = 1 /\ pl[n].upper = EndsBy
    BY <1>2 DEF Rooted, Top
  <2>2. KidSound(Q, pl2, 0, 0, r, 1)
    <3>1. /\ root # 0 /\ pl2[root].level = pl2[r].level + 1 /\ pl2[root].lower = 0
          /\ pl2[root].upper = pl[n].lower
      BY <1>1, <1>2, <1>3, <1>4, <2>1
    <3> QED BY <1>1, <3>1 DEF KidSound, Top
  <2>3. KidSound(Q, pl2, 0, 0, r, 2)
    <3>1. /\ n # 0 /\ pl2[n].level = pl2[r].level + 1 /\ pl2[n].lower = pl[n].lower
          /\ pl2[n].upper = pl2[r].upper
      BY <1>1, <1>2, <1>3, <1>4, <2>1
    <3> QED BY <1>1, <3>1 DEF KidSound, Top
  <2>4. \A i \in 1..Len(Q[r].kids) : i = 1 \/ i = 2
    BY <1>1
  <2> QED BY <1>1, <1>4, <2>2, <2>3, <2>4, ConstantsAre DEF KidsSound
<1>10. ASSUME NEW p \in DOMAIN P, IsInternal(P, p) PROVE KidsSound(Q, pl2, 0, 0, 0, p)
  <2>1. KidsSound(P, pl, root, n, 0, p)
    BY <1>2, <1>10 DEF PagesSound
  <2>2. ASSUME NEW i \in 1..Len(P[p].kids) PROVE KidSound(Q, pl2, 0, 0, p, i)
    <3> DEFINE q == P[p].kids[i].value
    <3>1. /\ q \in DOMAIN P /\ q # n /\ pl[q].level = pl[p].level + 1 /\ pl[q].lower = P[p].kids[i].key
          /\ Top(pl, root, n, q) = IF i = Len(P[p].kids) THEN pl[p].upper ELSE P[p].kids[i + 1].key
      <4>1. q \in DOMAIN P
        BY <1>2, <1>10, <2>2, KidsAre
      <4>2. KidSound(P, pl, root, n, p, i)
        BY <2>1, <2>2 DEF KidsSound
      <4> QED BY <4>1, <4>2 DEF KidSound
    <3>2. q # root
      <4>1. pl[root].level = 1 /\ pl[p].level \in 1..depth /\ depth \in Nat
        BY <1>2, <1>3 DEF Rooted
      <4>2. pl[p].level + 1 # 1
        BY <4>1
      <4> QED BY <3>1, <4>1, <4>2
    <3>3. Top(pl, root, n, q) = pl[q].upper /\ Top(pl2, 0, 0, q) = pl2[q].upper
      BY <1>3, <3>1, <3>2 DEF Top
    <3>4. pl2[q].level = pl2[p].level + 1 /\ pl2[q].lower = pl[q].lower
            /\ pl2[q].upper = pl[q].upper /\ q # 0
      BY <1>3, <3>1
    <3>5. Q[p] = P[p] /\ pl2[p].upper = pl[p].upper
      BY <1>1, <1>3
    <3> QED BY <3>1, <3>3, <3>4, <3>5 DEF KidSound
  <2>3. Q[p] = P[p] /\ pl2[p].lower = pl[p].lower /\ p # 0
    BY <1>1, <1>3
  <2> QED BY <2>1, <2>2, <2>3 DEF KidsSound
<1>11. ASSUME NEW p \in DOMAIN P, ~IsInternal(P, p) PROVE LeafSound(Q, pl2, 0, p)
  <2>1. LeafSound(P, pl, 0, p)
    BY <1>2, <1>11 DEF PagesSound
  <2>2. P[p].next # InvalidPid => P[p].next \in DOMAIN P
    BY <1>2, <1>11, NodeIs
  <2>3. Q[p] = P[p] /\ pl2[p].lower = pl[p].lower /\ pl2[p].upper = pl[p].upper
    BY <1>1, <1>3
  <2>4. P[p].next # InvalidPid => ~IsInternal(Q, P[p].next) /\ pl2[P[p].next].lower = pl[p].upper
    BY <1>3, <2>1, <2>2 DEF LeafSound
  <2> QED BY <2>1, <2>3, <2>4 DEF LeafSound
<1>12. PagesSound(Q, pl2, 0, 0, 0)
  <2> SUFFICES ASSUME NEW p \in DOMAIN Q
               PROVE  IF IsInternal(Q, p) THEN KidsSound(Q, pl2, 0, 0, 0, p) ELSE LeafSound(Q, pl2, 0, p)
    BY DEF PagesSound
  <2>1. CASE p = r
    BY <1>4, <1>9, <2>1
  <2>2. CASE p \in DOMAIN P
    BY <1>3, <1>10, <1>11, <2>2
  <2> QED BY <1>1, <2>1, <2>2
<1>13. Reached(Q, r, 0)
  <2> SUFFICES ASSUME NEW p \in DOMAIN Q, p # r PROVE \E q \in DOMAIN Q : IsKid(Q, q, p)
    BY DEF Reached
  <2>1. CASE p = root \/ p = n
    <3>1. IsKid(Q, r, p)
      <4>1. 1 \in 1..Len(Q[r].kids) /\ 2 \in 1..Len(Q[r].kids)
        BY <1>1
      <4> QED BY <1>1, <1>4, <2>1, <4>1 DEF IsKid
    <3> QED BY <1>1, <3>1
  <2>2. CASE p # root /\ p # n
    <3>1. p \in DOMAIN P
      BY <1>1
    <3>2. PICK q \in DOMAIN P : IsKid(P, q, p)
      BY <1>2, <2>2, <3>1 DEF Reached
    <3>3. IsKid(Q, q, p)
      BY <1>1, <1>3, <3>2 DEF IsKid
    <3> QED BY <1>1, <3>3
  <2> QED BY <2>1, <2>2
<1> QED BY <1>5, <1>6, <1>7, <1>8, <1>12, <1>13 DEF Settled, Laid
-----------------------------------------------------------------------------

(* A tree between two entries of a batch, with the cursor for the keys     *)
(* ahead.                                                                  *)
Ready(t, pl, ahead) ==
  /\ IsTree(t) /\ IsHeader(t.header) /\ AtRest(t, pl) /\ DenseOnly(t.page, t.header)
  /\ CursorFor(t, pl, ahead)
  /\ PinsGood(DOMAIN t.page, t.header.root, t.pins, t.cursor, -1)

(* A tree with every level whole is ready for the key it was searched for. *)
LEMMA WholeReady ==
  ASSUME NEW t, NEW pl, NEW L, NEW key, Whole(t, pl, 0, L, key)
  PROVE  Ready(t, pl, {key})
<1> DEFINE P == t.page
           c == t.cursor
           depth == t.header.depth
           root == t.header.root
           bd == t.bounds
<1>1. /\ Track(t, pl, 0, 0, 0, -1, key) /\ L \in 1..depth /\ c[1].pid = root
      /\ \A i \in 1..L-1 : Linked(P, c, i)
      /\ \A i \in L..depth-1 : LinkedOrBent(t, i, key)
  BY DEF Whole
<1>2. /\ IsTree(t) /\ IsHeader(t.header) /\ Settled(P, root, depth, pl)
      /\ BoundsGood(P, root, pl, bd) /\ DenseOnly(P, t.header)
      /\ c \in Seq(PathLevel) /\ Len(c) = depth
      /\ (\A i \in 1..depth : LevelGood(P, pl, bd, c, i) /\ Aimed(t, pl, key, i))
      /\ PinsGood(DOMAIN P, root, t.pins, c, -1)
  BY <1>1 DEF Track, Settled
<1>3. depth \in Nat /\ depth > 0
  BY <1>2 DEF Settled, Laid, Placed
<1>4. \A i \in 1..depth-1 : Linked(P, c, i) \/ (i = depth - 1 /\ Bent(t, key))
  <2> SUFFICES ASSUME NEW i \in 1..depth-1 PROVE Linked(P, c, i) \/ (i = depth - 1 /\ Bent(t, key))
    OBVIOUS
  <2> HIDE DEF depth, P, c
  <2>1. i \in 1..L-1 \/ i \in L..depth-1
    BY <1>1, <1>3
  <2> QED BY <1>1, <2>1 DEF LinkedOrBent, P, c, depth
<1>5. PathGood(P, root, depth, pl, bd, c, {key})
  <2>1. \A i \in 1..depth-2 : Linked(P, c, i)
    <3> SUFFICES ASSUME NEW i \in 1..depth-2 PROVE Linked(P, c, i)
      OBVIOUS
    <3> HIDE DEF depth, P, c
    <3>1. i \in 1..depth-1 /\ i # depth - 1
      BY <1>3
    <3> QED BY <1>4, <3>1
  <2>2. depth > 1 => \/ Linked(P, c, depth - 1)
                     \/ c[depth].pid \in DOMAIN bd /\ \A k \in {key} : c[depth].upper <= k
    <3> SUFFICES ASSUME depth > 1
                 PROVE  \/ Linked(P, c, depth - 1)
                        \/ c[depth].pid \in DOMAIN bd /\ \A k \in {key} : c[depth].upper <= k
      OBVIOUS
    <3> DEFINE j == depth - 1
    <3>1. j \in 1..depth-1
      <4> HIDE DEF depth
      <4> QED BY <1>3
    <3>2. Linked(P, c, j) \/ Bent(t, key)
      <4> HIDE DEF depth, P, c, j
      <4> QED BY <1>4, <3>1
    <3> QED BY <3>2 DEF Bent
  <2>3. \A k \in {key} : pl[c[depth].pid].lower <= k
    <3>1. depth \in 1..depth
      BY <1>3
    <3>2. Aimed(t, pl, key, depth)
      BY <1>2, <3>1
    <3> QED BY <3>2 DEF Aimed
  <2> HIDE DEF P, c, depth, root, bd
  <2> QED BY <1>1, <1>2, <2>1, <2>2, <2>3 DEF PathGood, c, root
<1> QED BY <1>2, <1>5 DEF Ready, AtRest, CursorFor, CursorGood

-----------------------------------------------------------------------------
(* A new root: the header.                                                 *)
GrownHeader(h, r) == [h EXCEPT !.root = r, !.depth = @ + 1, !.dirty = TRUE]

(* The header of a tree with a new root. *)
LEMMA GrownHeaderIs ==
  ASSUME NEW h, IsHeader(h), NEW r \in Nat
  PROVE  /\ IsHeader(GrownHeader(h, r)) /\ SameCounts(h, GrownHeader(h, r))
         /\ GrownHeader(h, r).root = r /\ GrownHeader(h, r).depth = h.depth + 1
<1> DEFINE h1 == [h EXCEPT !.root = r]
           h2 == [h1 EXCEPT !.depth = @ + 1]
           h3 == [h2 EXCEPT !.dirty = TRUE]
<1>1. /\ IsHeader(h1) /\ h1.root = r /\ h1.depth = h.depth /\ h1.nLeaves = h.nLeaves /\ h1.nnz = h.nnz
      /\ h1.useDense = h.useDense /\ h1.splitter = h.splitter
  BY DEF IsHeader
<1>2. GrownHeader(h, r) = h3
  BY DEF GrownHeader
<1> HIDE DEF h1
<1>3. /\ IsHeader(h2) /\ h2.root = r /\ h2.depth = h.depth + 1 /\ h2.nLeaves = h.nLeaves
           /\ h2.nnz = h.nnz
      /\ h2.useDense = h.useDense /\ h2.splitter = h.splitter
  BY <1>1 DEF IsHeader
<1> HIDE DEF h2
<1>4. /\ IsHeader(h3) /\ h3.root = r /\ h3.depth = h.depth + 1 /\ h3.nLeaves = h.nLeaves
           /\ h3.nnz = h.nnz
      /\ h3.useDense = h.useDense /\ h3.splitter = h.splitter
  BY <1>3 DEF IsHeader
<1> HIDE DEF h3
<1> QED BY <1>2, <1>4 DEF SameCounts
-----------------------------------------------------------------------------

(* The pins of a new root.                                                 *)
Times(s, q) == Cardinality({i \in DOMAIN s : s[i] = q})

(* How often a page is among two. *)
LEMMA PairCount ==
  ASSUME NEW a, NEW b, NEW q, NEW s, s = <<a, b>>
  PROVE  Times(s, q) = (IF a = q THEN 1 ELSE 0) + (IF b = q THEN 1 ELSE 0)
<1> DEFINE I == {i \in DOMAIN s : s[i] = q}
<1>1. DOMAIN s = {1, 2} /\ s[1] = a /\ s[2] = b
  OBVIOUS
<1>2. CASE a = q /\ b = q
  <2>1. I = {1} \cup {2} /\ 2 \notin {1}
    BY <1>1, <1>2
  <2>2. IsFiniteSet({1}) /\ Cardinality({1}) = 1
    BY FS_Singleton
  <2>3. Cardinality({1} \cup {2}) = 2
    BY <2>1, <2>2, FS_AddElement
  <2> QED BY <1>2, <2>1, <2>3 DEF Times
<1>3. CASE a = q /\ b # q
  <2>1. I = {1}
    BY <1>1, <1>3
  <2> QED BY <1>3, <2>1, FS_Singleton DEF Times
<1>4. CASE a # q /\ b = q
  <2>1. I = {2}
    BY <1>1, <1>4
  <2> QED BY <1>4, <2>1, FS_Singleton DEF Times
<1>5. CASE a # q /\ b # q
  <2>1. I = {}
    BY <1>1, <1>5
  <2> QED BY <1>5, <2>1, FS_EmptySet DEF Times
<1> QED BY <1>2, <1>3, <1>4, <1>5

(* How often a page is among one. *)
LEMMA OneCount ==
  ASSUME NEW a, NEW q
  PROVE  Cardinality({i \in DOMAIN <<a>> : <<a>>[i] = q}) = IF a = q THEN 1 ELSE 0
<1> DEFINE s == <<a>>
           I == {i \in DOMAIN s : s[i] = q}
<1>1. DOMAIN s = {1} /\ s[1] = a
  OBVIOUS
<1> HIDE DEF s
<1>2. CASE a = q
  <2>1. I = {1}
    BY <1>1, <1>2
  <2> QED BY <1>2, <2>1, FS_Singleton DEF s
<1>3. CASE a # q
  <2>1. I = {}
    BY <1>1, <1>3
  <2> QED BY <1>3, <2>1, FS_EmptySet DEF s
<1> QED BY <1>2, <1>3

GrownPins(pins_, r, root, temp) == Unpin(Pin(Extended(pins_, r, 1), <<r>>), <<root, temp>>)

(* The pins of a tree with a new root balance. *)
LEMMA GrownPinsGood ==
  ASSUME NEW D, NEW root \in D, NEW pins_, NEW c, NEW temp \in D, PinsGood(D, root, pins_, c, temp),
         0 \notin D, -1 \notin D, NEW r, r \notin D, r # 0, r # -1, NEW c2,
         On(c2, r) = 1, \A p \in D \cup {0} : On(c2, p) = On(c, p)
  PROVE  PinsGood(D \cup {r}, r, GrownPins(pins_, r, root, temp), c2, -1)
<1> DEFINE E == D \cup {0}
           F == (D \cup {r}) \cup {0}
           p1 == Extended(pins_, r, 1)
           p2 == Pin(p1, <<r>>)
           p3 == Unpin(p2, <<root, temp>>)
<1>1. DOMAIN pins_ = E /\ \A p \in E : pins_[p] = On(c, p) + Kept(root, p) + Held(temp, p)
  BY DEF PinsGood
<1>2. p1 = [p \in F |-> IF p = r THEN 1 ELSE pins_[p]]
  BY <1>1 DEF Extended
<1>3. p2 = [q \in F |-> p1[q] + Cardinality({i \in DOMAIN <<r>> : <<r>>[i] = q})]
  BY <1>2 DEF Pin
<1>4. p3 = [q \in F |-> p2[q] - Cardinality({i \in DOMAIN <<root, temp>> : <<root, temp>>[i] = q})]
  BY <1>3 DEF Unpin
<1>5. ASSUME NEW q \in F PROVE p3[q] = On(c2, q) + Kept(r, q) + Held(-1, q)
  <2> DEFINE x1 == p1[q]
             x2 == p2[q]
             m1 == Cardinality({i \in DOMAIN <<r>> : <<r>>[i] = q})
             m2 == Cardinality({i \in DOMAIN <<root, temp>> : <<root, temp>>[i] = q})
  <2>1. x1 = (IF q = r THEN 1 ELSE pins_[q]) /\ x2 = x1 + m1 /\ p3[q] = x2 - m2
    BY <1>2, <1>3, <1>4
  <2>2. m1 = (IF r = q THEN 1 ELSE 0)
    BY OneCount
  <2>3. m2 = (IF root = q THEN 1 ELSE 0) + (IF temp = q THEN 1 ELSE 0)
    <3> DEFINE s == <<root, temp>>
    <3>1. s = <<root, temp>>
      OBVIOUS
    <3>2. m2 = Times(s, q)
      BY DEF Times
    <3> HIDE DEF s
    <3>3. Times(s, q) = (IF root = q THEN 1 ELSE 0) + (IF temp = q THEN 1 ELSE 0)
      BY <3>1, PairCount
    <3> QED BY <3>2, <3>3
  <2> HIDE DEF x1, x2, m1, m2, p1, p2, p3
  <2>4. CASE q = r
    <3>1. root # q /\ temp # q
      BY <2>4
    <3>2. x1 = 1 /\ m1 = 1 /\ m2 = 0
      BY <2>1, <2>2, <2>3, <2>4, <3>1
    <3>3. p3[q] = 2
      BY <2>1, <3>2
    <3>4. On(c2, q) = 1 /\ Kept(r, q) = 1 /\ Held(-1, q) = 0
      BY <2>4 DEF Kept, Held
    <3> QED BY <3>3, <3>4
  <2>5. CASE q # r
    <3>1. q \in E
      BY <2>5
    <3>2. pins_[q] = On(c2, q) + Kept(root, q) + Held(temp, q) /\ q # -1
      BY <1>1, <3>1
    <3>3. On(c2, q) \in {0, 1}
      BY DEF On
    <3>4. Kept(root, q) = (IF q = root THEN 1 ELSE 0) + Kept(r, q) /\ Kept(r, q) \in {0, 1}
      BY <2>5, <3>1 DEF Kept
    <3>5. Held(temp, q) = (IF temp = q THEN 1 ELSE 0) /\ Held(-1, q) = 0
      BY <3>2 DEF Held
    <3> DEFINE w == On(c2, q)
               k == Kept(r, q)
               u == IF q = root THEN 1 ELSE 0
               v == IF temp = q THEN 1 ELSE 0
    <3>6. m1 = 0 /\ m2 = u + v /\ x1 = w + (u + k) + v /\ u \in {0, 1} /\ v \in {0, 1}
      BY <2>1, <2>2, <2>3, <2>5, <3>2, <3>4, <3>5
    <3> HIDE DEF w, k, u, v
    <3>7. p3[q] = w + k + 0
      BY <2>1, <3>3, <3>4, <3>6 DEF w, k
    <3> QED BY <3>5, <3>7 DEF w, k
  <2> QED BY <2>4, <2>5
<1>6. DOMAIN p3 = F /\ p3 = [q \in F |-> On(c2, q) + Kept(r, q) + Held(-1, q)]
  BY <1>4, <1>5
<1> QED BY <1>6 DEF PinsGood, GrownPins

(* The cursor with the new root before it.                                 *)
LongerBy(c, l, d) ==
  /\ d \in Seq(PathLevel) /\ Len(d) = Len(c) + 1 /\ d[1] = l
  /\ \A i \in 1..Len(c) : d[i + 1] = c[i]

(* A cursor with a level put before the others. *)
LEMMA Prefixed ==
  ASSUME NEW c, c \in Seq(PathLevel), NEW l \in PathLevel
  PROVE  LongerBy(c, l, <<l>> \o c)
<1> DEFINE d == <<l>> \o c
           u == <<l>>
<1>1. u \in Seq(PathLevel) /\ Len(u) = 1 /\ u[1] = l /\ Len(c) \in Nat
  OBVIOUS
<1> HIDE DEF u
<1>2. /\ u \o c \in Seq(PathLevel) /\ Len(u \o c) = Len(u) + Len(c)
      /\ \A i \in 1..Len(u) + Len(c) : (u \o c)[i] = IF i <= Len(u) THEN u[i] ELSE c[i - Len(u)]
  BY <1>1, ConcatProperties
<1>3. d = u \o c
  BY DEF u
<1> HIDE DEF d
<1>4. d \in Seq(PathLevel) /\ Len(d) = Len(c) + 1 /\ d[1] = l
  <2>1. 1 \in 1..Len(u) + Len(c) /\ 1 <= Len(u)
    BY <1>1
  <2> QED BY <1>1, <1>2, <1>3, <2>1
<1>5. ASSUME NEW i \in 1..Len(c) PROVE d[i + 1] = c[i]
  <2> DEFINE j == i + 1
  <2>1. j \in 1..Len(u) + Len(c) /\ ~(j <= Len(u)) /\ j - Len(u) = i
    BY <1>1
  <2> HIDE DEF j
  <2>2. d[j] = c[i]
    BY <1>2, <1>3, <2>1
  <2> QED BY <2>2 DEF j
<1>6. LongerBy(c, l, d)
  BY <1>4, <1>5 DEF LongerBy
<1> QED BY <1>6 DEF d
-----------------------------------------------------------------------------

(* What a new root leaves of the tree. *)
RootIndex(s, key) == IF InRange(s.new, key) THEN 1 ELSE 0
GrownLevel(s, r, key) == Level(r, RootIndex(s, key), <<0, EndsBy>>)
HasNewRoot(s, pl, n, r, key, w) ==
  /\ IsTree(w) /\ w.page = GrownPages(s.tree.page, s.tree.header.root, pl, n)
  /\ w.header = GrownHeader(s.tree.header, r) /\ w.bounds = s.tree.bounds
  /\ w.pins = GrownPins(s.tree.pins, r, s.tree.header.root, s.temp)
  /\ w.cursor = <<GrownLevel(s, r, key)>> \o s.tree.cursor

(* What GrowRoot makes of a tree whose root was split. *)
LEMMA GrowRootIs ==
  ASSUME NEW s, IsTree(s.tree), NEW pl, NEW n, s.new.pid = n, s.new.lower = pl[n].lower, NEW key,
         NEW r, r = Fresh(s.tree.page), NEW w, w = GrowRoot(s, key)
  PROVE  HasNewRoot(s, pl, n, r, key, w)
<1> DEFINE t == s.tree
           Q == GrownPages(t.page, t.header.root, pl, n)
           H == GrownHeader(t.header, r)
           M == GrownPins(t.pins, r, t.header.root, s.temp)
           C == <<GrownLevel(s, r, key)>> \o t.cursor
<1>1. Q = Extended(t.page, r, Internal(TwoCells(t.header.root, s.new.lower, s.new.pid)))
  BY DEF GrownPages
<1>2. NextPid(t) = r
  BY DEF NextPid, Fresh
<1>3. w = [page |-> Q, header |-> H, bounds |-> t.bounds, pins |-> M, cursor |-> C]
  BY <1>1, <1>2 DEF GrowRoot, TwoCells, GrownLevel, RootIndex, GrownHeader, GrownPins
<1> HIDE DEF t, Q, H, M, C
<1>4. IsTree(w) /\ w.page = Q /\ w.header = H /\ w.bounds = t.bounds /\ w.pins = M /\ w.cursor = C
  BY <1>3 DEF IsTree
<1> QED BY <1>4 DEF HasNewRoot, t, Q, H, M, C

(* The path from the new root.                                             *)
LEMMA GrownPath ==
  ASSUME NEW s, NEW pl, NEW n, NEW key \in Nat, NEW r, r = Fresh(s.tree.page),
         Rising(s, pl, s.tree.header.root, n, 1, key),
         NEW w, HasNewRoot(s, pl, n, r, key, w), NEW pl2, pl2 = GrownLayout(pl, r),
         HasGrown(s.tree.page, s.tree.header.root, pl, n, r, w.page, pl2)
  PROVE  /\ LongerBy(s.tree.cursor, GrownLevel(s, r, key), w.cursor)
         /\ PathGood(w.page, r, s.tree.header.depth + 1, pl2, w.bounds, w.cursor, {key})
<1> DEFINE t == s.tree
           P == t.page
           Q == w.page
           c == t.cursor
           d == w.cursor
           root == t.header.root
           depth == t.header.depth
           bd == t.bounds
           l == GrownLevel(s, r, key)
<1>1. /\ Track(t, pl, root, n, 0, s.temp, key)
      /\ c[1].pid = root \/ c[1].pid = n
      /\ InRange(s.new, key) <=> c[1].pid = n
      /\ \A i \in 1..depth-1 : LinkedOrBent(t, i, key)
  BY DEF Rising, Torn, Answers
<1>2. /\ c \in Seq(PathLevel) /\ Len(c) = depth /\ BoundsGood(P, root, pl, bd)
      /\ \A i \in 1..depth : LevelGood(P, pl, bd, c, i) /\ Aimed(t, pl, key, i)
  BY <1>1 DEF Track
<1>3. depth \in Nat /\ depth > 0
  BY <1>1 DEF Track, Laid, Placed
<1>4. /\ r \in Nat /\ r > 0 /\ r \notin DOMAIN P /\ n # root
      /\ DOMAIN Q = DOMAIN P \cup {r}
      /\ Len(Q[r].kids) = 2 /\ Q[r].kids[1].value = root /\ Q[r].kids[2].value = n
      /\ \A p \in DOMAIN P : Q[p] = P[p]
      /\ pl2[r] = [level |-> 1, lower |-> 0, upper |-> EndsBy]
      /\ \A p \in DOMAIN P :
           pl2[p] = [level |-> pl[p].level + 1, lower |-> pl[p].lower, upper |-> pl[p].upper]
  BY DEF HasGrown
<1>5. l \in PathLevel /\ l.pid = r /\ l.index = RootIndex(s, key) /\ l.lower = 0 /\ l.upper = EndsBy
  <2>1. RootIndex(s, key) \in Int
    BY DEF RootIndex
  <2> QED BY <1>4, <2>1, ConstantsAre DEF GrownLevel, Level, PathLevel
<1>6. LongerBy(c, l, d)
  <2>1. d = <<l>> \o c
    BY DEF HasNewRoot
  <2> HIDE DEF l, c, d
  <2> QED BY <1>2, <1>5, <2>1, Prefixed
<1>7. /\ d \in Seq(PathLevel) /\ Len(d) = depth + 1 /\ d[1] = l
      /\ \A i \in 1..depth : d[i + 1] = c[i]
  <2> HIDE DEF l, c, d, depth
  <2> QED BY SMTT(30), <1>2, <1>6 DEF LongerBy
<1>8. w.bounds = bd /\ r \notin DOMAIN bd /\ DOMAIN bd \subseteq DOMAIN P
  BY <1>2, <1>4 DEF HasNewRoot, BoundsGood
<1>9. ASSUME NEW j \in 1..depth
      PROVE  LevelGood(Q, pl2, bd, d, j + 1)
  <2>1. c[j].pid \in DOMAIN P /\ pl[c[j].pid].level = j /\ <<c[j].lower, c[j].upper>> = Shown(pl,
          bd, c[j].pid)
    BY <1>2 DEF LevelGood
  <2> DEFINE q == c[j].pid
  <2>3. pl2[q].level = pl[q].level + 1 /\ pl2[q].lower = pl[q].lower /\ pl2[q].upper = pl[q].upper
    <3>1. q \in DOMAIN P
      BY <2>1
    <3>2. pl2[q] = [level |-> pl[q].level + 1, lower |-> pl[q].lower, upper |-> pl[q].upper]
      BY SMTT(30), <1>4, <3>1
    <3> HIDE DEF q, P
    <3> QED BY <3>2
  <2>2. pl2[c[j].pid].level = j + 1 /\ Shown(pl2, bd, c[j].pid) = Shown(pl, bd, c[j].pid)
    BY <2>1, <2>3 DEF Shown
  <2> QED BY <1>4, <1>7, <2>1, <2>2 DEF LevelGood
<1>10. ASSUME NEW i \in 1..depth+1 PROVE i = 1 \/ (i - 1 \in 1..depth /\ (i - 1) + 1 = i)
  <2> HIDE DEF depth
  <2> QED BY <1>3
<1>11. LevelGood(Q, pl2, bd, d, 1)
  <2>1. Shown(pl2, bd, r) = <<0, EndsBy>> /\ pl2[r].level = 1
    BY <1>4, <1>8 DEF Shown
  <2> QED BY <1>4, <1>5, <1>7, <2>1 DEF LevelGood
<1>12. Linked(Q, d, 1)
  <2>1. d[1].pid = r /\ d[1].index = RootIndex(s, key) /\ d[1 + 1].pid = c[1].pid
    <3>1. 1 \in 1..depth
      BY <1>3
    <3> QED BY <1>5, <1>7, <3>1
  <2>2. CASE c[1].pid = n
    <3>1. RootIndex(s, key) = 1
      BY <1>1, <2>2 DEF RootIndex
    <3> QED BY <1>4, <2>1, <2>2, <3>1 DEF Linked
  <2>3. CASE c[1].pid # n
    <3>1. RootIndex(s, key) = 0 /\ c[1].pid = root
      BY <1>1, <2>3 DEF RootIndex
    <3> QED BY <1>4, <2>1, <3>1 DEF Linked
  <2> QED BY <2>2, <2>3
<1>13. ASSUME NEW j \in 1..depth-1 PROVE Linked(Q, d, j + 1) \/ (j = depth - 1 /\ Bent(t, key))
  <2>1. j \in 1..depth /\ j + 1 \in 1..depth
    BY <1>3
  <2>2. d[j + 1] = c[j] /\ d[(j + 1) + 1] = c[j + 1]
    BY <1>7, <2>1
  <2>3. Q[c[j].pid] = P[c[j].pid]
    <3>1. c[j].pid \in DOMAIN P
      BY SMTT(30), <1>2, <2>1 DEF LevelGood
    <3> QED BY <1>4, <3>1
  <2>4. Linked(P, c, j) => Linked(Q, d, j + 1)
    BY <2>2, <2>3 DEF Linked
  <2> QED BY <1>1, <2>4 DEF LinkedOrBent
<1>14. Bent(t, key) => d[depth + 1].pid \in DOMAIN bd /\ d[depth + 1].upper <= key
  <2>1. depth \in 1..depth
    BY <1>3
  <2> QED BY <1>7, <2>1 DEF Bent
<1>15. pl2[d[depth + 1].pid].lower <= key
  <2>1. depth \in 1..depth
    BY <1>3
  <2>2. d[depth + 1] = c[depth]
    BY SMTT(30), <1>7, <2>1
  <2>3. c[depth].pid \in DOMAIN P /\ pl[c[depth].pid].lower <= key
    BY SMTT(30), <1>2, <2>1 DEF LevelGood, Aimed
  <2>4. pl2[c[depth].pid].lower = pl[c[depth].pid].lower
    <3> DEFINE q == c[depth].pid
    <3>1. q \in DOMAIN P
      BY SMTT(30), <2>3
    <3>2. pl2[q] = [level |-> pl[q].level + 1, lower |-> pl[q].lower, upper |-> pl[q].upper]
      BY <1>4, <3>1
    <3> HIDE DEF P
    <3> QED BY <3>2
  <2> QED BY <2>2, <2>3, <2>4
<1>16. PathGood(Q, r, depth + 1, pl2, bd, d, {key})
  <2>1. \A i \in 1..depth+1 : LevelGood(Q, pl2, bd, d, i)
    BY <1>9, <1>10, <1>11
  <2>2. \A i \in 1..(depth+1)-1 : Linked(Q, d, i) \/ (i = depth /\ Bent(t, key))
    <3> SUFFICES ASSUME NEW i \in 1..(depth+1)-1 PROVE Linked(Q, d, i) \/ (i = depth /\ Bent(t, key))
      OBVIOUS
    <3>1. i = 1 \/ (i - 1 \in 1..depth-1 /\ (i - 1) + 1 = i)
      <4> HIDE DEF depth
      <4> QED BY <1>3
    <3> DEFINE j == i - 1
    <3>2. CASE j \in 1..depth-1 /\ j + 1 = i
      <4>1. Linked(Q, d, j + 1) \/ (j = depth - 1 /\ Bent(t, key))
        BY <1>13, <3>2
      <4>2. j = depth - 1 => i = depth
        <5> HIDE DEF depth
        <5> QED BY <1>3
      <4> QED BY <3>2, <4>1, <4>2
    <3> QED BY <1>12, <3>1, <3>2
  <2>3. \A i \in 1..(depth+1)-2 : i \in 1..(depth+1)-1 /\ i # depth
    <3> HIDE DEF depth
    <3> QED BY <1>3
  <2>4. (depth + 1) - 1 \in 1..(depth+1)-1 /\ (depth + 1) - 1 = depth
    <3> HIDE DEF depth
    <3> QED BY <1>3
  <2>5. \A i \in 1..(depth+1)-2 : Linked(Q, d, i)
    BY <2>2, <2>3
  <2>6. \/ Linked(Q, d, (depth + 1) - 1)
        \/ d[depth + 1].pid \in DOMAIN bd /\ \A k \in {key} : d[depth + 1].upper <= k
    <3>1. Linked(Q, d, (depth + 1) - 1) \/ Bent(t, key)
      BY <2>2, <2>4
    <3> QED BY <1>14, <3>1
  <2>7. \A k \in {key} : pl2[d[depth + 1].pid].lower <= k
    BY <1>15
  <2>8. d[1].pid = r
    BY <1>5, <1>7
  <2> HIDE DEF Q, d, bd, depth
  <2> QED BY <1>7, <2>1, <2>5, <2>6, <2>7, <2>8 DEF PathGood
<1> QED BY <1>6, <1>8, <1>16
-----------------------------------------------------------------------------

(* A new root settles the tree.                                            *)
LEMMA GrowReady ==
  ASSUME NEW s, NEW pl, NEW o, NEW n, NEW key \in Nat, Rising(s, pl, o, n, 1, key),
         NEW w, w = GrowRoot(s, key)
  PROVE  (\E pl2 : Ready(w, pl2, {key})) /\ SameBelow(s.tree, w)
<1> DEFINE t == s.tree
           P == t.page
           Q == w.page
           c == t.cursor
           root == t.header.root
           depth == t.header.depth
           r == Fresh(P)
           pl2 == GrownLayout(pl, r)
           l == GrownLevel(s, r, key)
<1>1. /\ Track(t, pl, o, n, 0, s.temp, key) /\ o = root
      /\ n \in DOMAIN P /\ o \in DOMAIN P /\ o # n /\ pl[n].level = 1 /\ pl[o].upper = pl[n].lower
      /\ s.temp \in {o, n} /\ s.new.pid = n /\ s.new.lower = pl[n].lower
      /\ c[1].pid = o \/ c[1].pid = n
  BY DEF Rising, Torn, Answers
<1>2. /\ IsTree(t) /\ IsHeader(t.header) /\ Laid(P, root, depth, pl, root, n, 0)
      /\ BoundsGood(P, root, pl, t.bounds) /\ DenseOnly(P, t.header)
      /\ c \in Seq(PathLevel) /\ Len(c) = depth
      /\ PinsGood(DOMAIN P, root, t.pins, c, s.temp)
      /\ \A i \in 1..depth : LevelGood(P, pl, t.bounds, c, i)
  BY <1>1 DEF Track
<1>3. Grows(P, root, depth, pl, n)
  BY <1>1, <1>2 DEF Grows
<1>4. HasNewRoot(s, pl, n, r, key, w)
  <2> HIDE DEF r
  <2> QED BY <1>1, <1>2, GrowRootIs DEF r
<1>5. Q = GrownPages(P, root, pl, n)
  BY <1>4 DEF HasNewRoot
<1>6. Settled(Q, r, depth + 1, pl2) /\ HasGrown(P, root, pl, n, r, Q, pl2)
  <2> HIDE DEF P, Q, r, root, depth, pl2
  <2> QED BY <1>3, <1>5, GrownSettled, GrownIs DEF pl2, r
<1>7. /\ LongerBy(c, l, w.cursor)
      /\ PathGood(Q, r, depth + 1, pl2, w.bounds, w.cursor, {key})
  <2> HIDE DEF r, pl2
  <2> QED BY <1>1, <1>4, <1>6, GrownPath DEF r, pl2
<1>8. r \in Nat /\ IsHeader(w.header) /\ SameCounts(t.header, w.header) /\ w.header.root = r
        /\ w.header.depth = depth + 1
  <2>1. r \in Nat
    BY <1>6 DEF HasGrown
  <2>2. w.header = GrownHeader(t.header, r)
    BY <1>4 DEF HasNewRoot
  <2> DEFINE h == t.header
             g == GrownHeader(h, r)
  <2>3. IsHeader(h)
    BY <1>2
  <2> HIDE DEF r, h
  <2>4. IsHeader(g) /\ SameCounts(h, g) /\ g.root = r /\ g.depth = h.depth + 1
    BY <2>1, <2>3, GrownHeaderIs
  <2> QED BY <2>1, <2>2, <2>4 DEF h
<1>9. /\ r > 0 /\ r \notin DOMAIN P /\ DOMAIN Q = DOMAIN P \cup {r} /\ Q[r].type = "internal"
      /\ \A p \in DOMAIN P : Q[p] = P[p]
      /\ pl2[r] = [level |-> 1, lower |-> 0, upper |-> EndsBy]
      /\ \A p \in DOMAIN P :
           pl2[p] = [level |-> pl[p].level + 1, lower |-> pl[p].lower, upper |-> pl[p].upper]
  BY <1>6 DEF HasGrown
<1>10. w.bounds = t.bounds
  BY <1>4 DEF HasNewRoot
<1>11. SameLeaves(P, Q)
  BY <1>9 DEF SameLeaves, IsInternal
<1>12. BoundsGood(Q, r, pl2, w.bounds)
  <2> DEFINE bd == t.bounds
  <2>1. /\ bd \in [DOMAIN bd -> Nat \X Nat]
        /\ \A p \in DOMAIN bd : /\ p \in DOMAIN P /\ ~IsInternal(P, p) /\ p # root
                                /\ bd[p][1] <= pl[p].lower /\ bd[p][2] \in {0, pl[p].upper}
    BY <1>2 DEF BoundsGood
  <2>2. ASSUME NEW p \in DOMAIN bd
        PROVE  /\ p \in DOMAIN Q /\ ~IsInternal(Q, p) /\ p # r
               /\ bd[p][1] <= pl2[p].lower /\ bd[p][2] \in {0, pl2[p].upper}
    <3>1. p \in DOMAIN P
      BY <2>1
    <3>2. pl2[p] = [level |-> pl[p].level + 1, lower |-> pl[p].lower, upper |-> pl[p].upper]
      BY <1>9, <3>1
    <3> HIDE DEF P, pl2, r, root, bd
    <3>3. pl2[p].lower = pl[p].lower /\ pl2[p].upper = pl[p].upper
      BY <3>2
    <3> QED BY <1>9, <2>1, <3>1, <3>3 DEF IsInternal
  <2> HIDE DEF bd, pl2, r, Q
  <2> QED BY <1>10, <2>1, <2>2 DEF BoundsGood, bd
<1>13. DenseOnly(Q, w.header)
  <2> HIDE DEF P, Q, r
  <2> QED BY <1>2, <1>8, <1>9 DEF DenseOnly, SameCounts
<1>14. PinsGood(DOMAIN Q, r, w.pins, w.cursor, -1)
  <2> DEFINE d == w.cursor
             D == DOMAIN P
  <2>1. /\ Len(d) = depth + 1 /\ d[1].pid = r /\ d \in Seq(PathLevel)
        /\ \A i \in 1..depth : d[i + 1] = c[i]
    <3>1. l.pid = r
      BY DEF GrownLevel, Level
    <3> HIDE DEF l, c
    <3> QED BY <1>2, <1>7, <3>1 DEF LongerBy, c
  <2>2. depth \in Nat /\ DOMAIN c = 1..depth /\ DOMAIN d = 1..depth+1
    <3>1. depth \in Nat
      BY <1>2 DEF Laid, Placed
    <3> QED BY <1>2, <2>1, <3>1
  <2>3. On(d, r) = 1
    <3>1. 1 \in DOMAIN d
      BY <2>2
    <3> QED BY <2>1, <3>1 DEF On
  <2>4. ASSUME NEW p \in D \cup {0} PROVE On(d, p) = On(c, p)
    <3>1. p # r
      BY <1>9
    <3>2. (\E i \in 1..depth : c[i].pid = p) => \E i \in 1..depth+1 : d[i].pid = p
      <4> SUFFICES ASSUME NEW i \in 1..depth, c[i].pid = p PROVE \E j \in 1..depth+1 : d[j].pid = p
        OBVIOUS
      <4> DEFINE j == i + 1
      <4>1. j \in 1..depth+1
        <5> HIDE DEF depth
        <5> QED BY <2>2
      <4>2. d[j].pid = p
        BY <2>1
      <4> HIDE DEF j, d
      <4> QED BY <4>1, <4>2
    <3>3. (\E i \in 1..depth+1 : d[i].pid = p) => \E i \in 1..depth : c[i].pid = p
      <4> SUFFICES ASSUME NEW i \in 1..depth+1, d[i].pid = p PROVE \E j \in 1..depth : c[j].pid = p
        OBVIOUS
      <4>1. i # 1
        BY <2>1, <3>1
      <4> DEFINE j == i - 1
      <4>2. j \in 1..depth /\ j + 1 = i
        <5> HIDE DEF depth
        <5> QED BY <2>2, <4>1
      <4> HIDE DEF j
      <4>3. d[j + 1] = c[j]
        BY <2>1, <4>2
      <4> QED BY <4>2, <4>3
    <3> HIDE DEF d, c, depth
    <3> QED BY <2>2, <3>2, <3>3 DEF On
  <2>5. 0 \notin D /\ -1 \notin D /\ r # 0 /\ r # -1
    <3>1. Nodes(P)
      BY <1>2 DEF Laid
    <3> HIDE DEF r
    <3> QED BY <1>8, <1>9, <3>1 DEF Nodes
  <2>6. w.pins = GrownPins(t.pins, r, root, s.temp) /\ root \in D /\ s.temp \in D
          /\ DOMAIN Q = D \cup {r}
    BY <1>1, <1>4, <1>9 DEF HasNewRoot
  <2> HIDE DEF P, Q, c, d, r, root, D
  <2>7. PinsGood(D, root, t.pins, c, s.temp) /\ r \notin D
    BY <1>2, <1>9 DEF D
  <2>8. PinsGood(D \cup {r}, r, GrownPins(t.pins, r, root, s.temp), d, -1)
    BY <2>3, <2>4, <2>5, <2>6, <2>7, GrownPinsGood
  <2> QED BY <2>6, <2>8 DEF d
<1>15. IsTree(w)
  BY <1>4 DEF HasNewRoot
<1>16. Ready(w, pl2, {key})
  <2> HIDE DEF Q, r, pl2, depth, root
  <2> QED BY <1>6, <1>7, <1>8, <1>12, <1>13, <1>14, <1>15 DEF Ready, AtRest, CursorFor, CursorGood, Q
<1>17. SameBelow(t, w)
  BY <1>8, <1>10, <1>11 DEF SameBelow, SameBounds
<1> QED BY <1>16, <1>17

-----------------------------------------------------------------------------
(* The way up of a split, block after block.                               *)
Climb(t, n, key, m, spKey) ==
  CHOOSE f : f = [i \in 0..n-1 |-> IF i = 0 THEN SplitLeaf(t, key, m, spKey)
                                   ELSE Attach(f[i - 1], n - i, key)]

Climbs(t, n, key, m, spKey, f) ==
  /\ f[0] = SplitLeaf(t, key, m, spKey)
  /\ \A i \in 1..n-1 : f[i] = Attach(f[i - 1], n - i, key)
  /\ Split(t, key, m, spKey) = IF f[n - 1].going THEN GrowRoot(f[n - 1], key) ELSE f[n - 1].tree

(* The recursive function of a split that goes up is defined. *)
LEMMA ClimbExists ==
  ASSUME NEW t, NEW n, n = Len(t.cursor), n \in Nat, n > 0, NEW key, NEW m, NEW spKey,
         NEW f, f = Climb(t, n, key, m, spKey)
  PROVE  Climbs(t, n, key, m, spKey, f)
<1> DEFINE first == SplitLeaf(t, key, m, spKey)
           Step(c, i) == IF i = 0 THEN first ELSE Attach(c, n - i, key)
           IsClimb(h, k) == h = [i \in 0..k |-> Step(h[i - 1], i)]
           S == {k \in 0..n-1 : \E h : IsClimb(h, k)}
<1>1. n - 1 \in Nat /\ 0 \in 0..n-1
  OBVIOUS
<1>2. 0 \in S
  <2> DEFINE h == [i \in 0..0 |-> first]
  <2>1. h = [i \in 0..0 |-> IF i = 0 THEN first ELSE Attach(h[i - 1], n - i, key)]
    <3> HIDE DEF first
    <3>1. \A i \in 0..0 : i = 0
      OBVIOUS
    <3> QED BY <3>1
  <2>2. IsClimb(h, 0)
    BY <2>1
  <2> HIDE DEF IsClimb
  <2> QED BY <1>1, <2>2
<1>3. ASSUME NEW k \in 0+1..n-1, k - 1 \in S PROVE k \in S
  <2>1. PICK h : IsClimb(h, k - 1)
    BY <1>3
  <2> HIDE DEF Step
  <2> DEFINE g == [i \in 0..k |-> IF i = k THEN Step(h[k - 1], k) ELSE h[i]]
  <2>2. \A i \in 0..k-1 : h[i] = Step(h[i - 1], i)
    BY <2>1
  <2>0. \A c, d : Step(c, 0) = Step(d, 0)
    BY DEF Step
  <2>3. ASSUME NEW i \in 0..k PROVE g[i] = Step(g[i - 1], i)
    <3>1. i # 0 => i - 1 \in 0..k /\ i - 1 # k
      OBVIOUS
    <3>2. i # 0 => g[i - 1] = h[i - 1]
      BY <3>1
    <3>3. g[i] = IF i = k THEN Step(h[k - 1], k) ELSE h[i]
      OBVIOUS
    <3> HIDE DEF g
    <3>4. i # k => i \in 0..k-1
      OBVIOUS
    <3>5. k # 0
      OBVIOUS
    <3> QED BY <2>0, <2>2, <3>2, <3>3, <3>4, <3>5
  <2>4. g = [i \in 0..k |-> g[i]]
    OBVIOUS
  <2>5. IsClimb(g, k)
    <3> HIDE DEF g
    <3> QED BY <2>3, <2>4
  <2>6. k \in 0..n-1
    OBVIOUS
  <2> HIDE DEF IsClimb
  <2> QED BY <2>5, <2>6
<1>4. n - 1 \in S
  <2> DEFINE hi == n - 1
             lo == 0
  <2>1. lo \in Int /\ hi \in Int /\ lo \in S /\ hi \in lo..hi
    BY <1>1, <1>2
  <2>2. \A k \in lo+1..hi : k - 1 \in S => k \in S
    BY <1>3
  <2> HIDE DEF S, hi, lo
  <2>3. \A k \in lo..hi : k \in S
    BY <2>1, <2>2, UpTo
  <2> QED BY <2>1, <2>3 DEF hi
<1>5. IsClimb(f, n - 1)
  <2>1. PICK h : IsClimb(h, n - 1)
    BY <1>4
  <2> QED BY <2>1 DEF Climb
<1>6. \A i \in 0..n-1 : f[i] = Step(f[i - 1], i)
  <2> HIDE DEF Step
  <2> QED BY <1>5
<1>7. f[0] = first
  BY <1>1, <1>6
<1>8. ASSUME NEW i \in 1..n-1 PROVE f[i] = Attach(f[i - 1], n - i, key)
  <2>1. i \in 0..n-1 /\ i # 0
    OBVIOUS
  <2>2. f[i] = Step(f[i - 1], i)
    BY <1>6, <2>1
  <2> QED BY <2>1, <2>2
<1>9. Split(t, key, m, spKey) = IF f[n - 1].going THEN GrowRoot(f[n - 1], key) ELSE f[n - 1].tree
  BY DEF Split, Climb
<1> HIDE DEF first
<1> QED BY <1>7, <1>8, <1>9 DEF Climbs, first
-----------------------------------------------------------------------------

(* A split goes up to a block with room, or to a new root.                 *)
LEMMA SplitReady ==
  ASSUME NEW t, NEW n, n = Len(t.cursor), n \in Nat, n > 0, NEW key \in Nat, NEW m, NEW spKey,
         NEW first, first = SplitLeaf(t, key, m, spKey), Goes(first, n, key),
         NEW w, w = Split(t, key, m, spKey)
  PROVE  (\E pl : Ready(w, pl, {key})) /\ SameBelow(first.tree, w)
<1> DEFINE f == Climb(t, n, key, m, spKey)
           S == {i \in 0..n-1 : Goes(f[i], n - i, key) /\ SameBelow(first.tree, f[i].tree)}
<1>1. /\ f[0] = first
      /\ \A i \in 1..n-1 : f[i] = Attach(f[i - 1], n - i, key)
      /\ w = IF f[n - 1].going THEN GrowRoot(f[n - 1], key) ELSE f[n - 1].tree
  <2>1. f = Climb(t, n, key, m, spKey)
    OBVIOUS
  <2> HIDE DEF f
  <2>2. Climbs(t, n, key, m, spKey, f)
    BY <2>1, ClimbExists
  <2> QED BY <2>2 DEF Climbs
<1> HIDE DEF f
<1>2. 0 \in S
  <2>1. SameBelow(first.tree, first.tree)
    BY DEF SameBelow, SameLeaves, SameCounts, SameBounds, IsInternal
  <2>2. n - 0 = n /\ 0 \in 0..n-1
    OBVIOUS
  <2> QED BY <1>1, <2>1, <2>2
<1>3. ASSUME NEW i \in 0+1..n-1, i - 1 \in S PROVE i \in S
  <2> DEFINE L == n - i
  <2>1. i \in 1..n-1 /\ i \in 0..n-1 /\ L \in Nat /\ L >= 1 /\ n - (i - 1) = L + 1
    OBVIOUS
  <2>2. Goes(f[i - 1], L + 1, key) /\ SameBelow(first.tree, f[i - 1].tree)
    BY <1>3, <2>1
  <2>3. f[i] = Attach(f[i - 1], L, key)
    BY <1>1, <2>1
  <2> HIDE DEF L
  <2>4. Goes(f[i], L, key) /\ SameBelow(f[i - 1].tree, f[i].tree)
    BY <2>1, <2>2, <2>3, AttachGoes
  <2>5. SameBelow(first.tree, f[i].tree)
    BY <2>2, <2>4, SameTwice
  <2> QED BY <2>1, <2>4, <2>5 DEF L
<1>4. n - 1 \in S
  <2> DEFINE hi == n - 1
             lo == 0
  <2>1. lo \in Int /\ hi \in Int /\ lo \in S /\ hi \in lo..hi
    BY <1>2
  <2>2. \A k \in lo+1..hi : k - 1 \in S => k \in S
    BY <1>3
  <2> HIDE DEF S, hi, lo
  <2>3. \A k \in lo..hi : k \in S
    BY <2>1, <2>2, UpTo
  <2> QED BY <2>1, <2>3 DEF hi
<1> DEFINE s == f[n - 1]
<1>5. Goes(s, 1, key) /\ SameBelow(first.tree, s.tree)
  <2>1. n - (n - 1) = 1
    OBVIOUS
  <2> QED BY <1>4, <2>1
<1>6. w = IF s.going THEN GrowRoot(s, key) ELSE s.tree
  BY <1>1
<1> HIDE DEF s
<1>7. CASE s.going
  <2>1. PICK pl, o, k : Rising(s, pl, o, k, 1, key)
    BY <1>5, <1>7 DEF Goes
  <2>2. w = GrowRoot(s, key)
    BY <1>6, <1>7
  <2>3. (\E pl2 : Ready(w, pl2, {key})) /\ SameBelow(s.tree, w)
    BY <2>1, <2>2, GrowReady
  <2> QED BY <1>5, <2>3, SameTwice
<1>8. CASE ~s.going
  <2>1. PICK pl : Whole(s.tree, pl, 0, 1, key)
    BY <1>5, <1>8 DEF Goes
  <2>2. Ready(s.tree, pl, {key})
    BY <2>1, WholeReady
  <2> QED BY <1>5, <1>6, <1>8, <2>2
<1> QED BY <1>7, <1>8

-----------------------------------------------------------------------------
(* After a search the tree has its path, and the pins.                     *)
Searches(t, pl, key, u) ==
  /\ IsTree(u) /\ u.page = t.page /\ u.header = t.header /\ u.bounds = t.bounds
  /\ Found(t.page, t.header.root, t.header.depth, pl, t.bounds, u.cursor, key)
  /\ PinsGood(DOMAIN t.page, t.header.root, u.pins, u.cursor, -1)

(* The blocks of a good path lie on their levels. *)
LEMMA CursorLevels ==
  ASSUME NEW t, NEW pl, NEW ahead, CursorFor(t, pl, ahead)
  PROVE  OnLevels(pl, t.cursor)
<1>1. CASE t.cursor = <<>>
  <2>1. t.cursor \in Seq(PathLevel) /\ Len(t.cursor) = 0
    BY SMTT(30), <1>1
  <2> QED BY <2>1 DEF OnLevels
<1>2. CASE t.cursor # <<>>
  BY <1>2 DEF CursorFor, CursorGood, PathGood, LevelGood, OnLevels
<1> QED BY <1>1, <1>2

(* What a search leaves: the cursor on the key's leaf, everything else as  *)
(* it was.                                                                 *)
LEMMA SearchedIs ==
  ASSUME NEW t, NEW pl, NEW ahead, Ready(t, pl, ahead), NEW key \in ahead, key \in Nat, key < EndsBy,
         NEW u, u = Searched(t, key)
  PROVE  Searches(t, pl, key, u)
<1> DEFINE kept == LevelsKept(t, key)
           path == PathTo(t, kept, key)
           M == Pin(Unpin(t.pins, Pids(SubSeq(t.cursor, kept + 1, Len(t.cursor)))),
                    Pids(SubSeq(path, kept + 1, Len(path))))
<1>1. Sought(t, pl, key) /\ CursorFor(t, pl, ahead)
      /\ PinsGood(DOMAIN t.page, t.header.root, t.pins, t.cursor, -1)
      /\ IsTree(t)
  BY DEF Ready, Sought
<1>2. Finds(t, pl, key, kept, path)
  BY <1>1, PathFound
<1>3. /\ kept \in Nat /\ kept <= t.header.depth /\ kept <= Len(t.cursor)
      /\ Found(t.page, t.header.root, t.header.depth, pl, t.bounds, path, key)
      /\ \A i \in 1..kept : path[i].pid = t.cursor[i].pid
  BY <1>2 DEF Finds
<1>4. u = [t EXCEPT !.cursor = path, !.pins = M]
  BY DEF Searched, Moved
<1>5. OnLevels(pl, t.cursor) /\ OnLevels(pl, path) /\ Len(path) = t.header.depth
  <2>1. OnLevels(pl, path) /\ Len(path) = t.header.depth
    BY <1>3 DEF Found, OnLevels, LevelGood
  <2> QED BY <1>1, <2>1, CursorLevels
<1>6. -1 \notin DOMAIN t.page
  BY <1>1 DEF Sought, AtRest, Settled, Laid, Nodes
<1> HIDE DEF kept, path
<1>7. PinsGood(DOMAIN t.page, t.header.root, M, path, -1)
  <2> DEFINE D == DOMAIN t.page
             root == t.header.root
  <2>1. kept <= Len(path)
    BY <1>3, <1>5
  <2> HIDE DEF D, root
  <2>2. PinsGood(D, root, t.pins, t.cursor, -1) /\ -1 \notin D
    BY <1>1, <1>6 DEF D, root
  <2>3. PinsGood(D, root, M, path, -1)
    BY <1>3, <1>5, <2>1, <2>2, MovedPins
  <2> QED BY <2>3 DEF D, root
<1> HIDE DEF M
<1>8. u = [page |-> t.page, header |-> t.header, bounds |-> t.bounds, pins |-> M, cursor |-> path]
  BY <1>1, <1>4 DEF IsTree
<1>9. IsTree(u) /\ u.page = t.page /\ u.header = t.header /\ u.bounds = t.bounds /\ u.pins = M
        /\ u.cursor = path
  BY <1>8 DEF IsTree
<1> QED BY <1>3, <1>7, <1>9 DEF Searches

(* ... and is whole for the key.                                           *)
LEMMA SearchedWhole ==
  ASSUME NEW t, NEW pl, NEW ahead, Ready(t, pl, ahead), NEW key \in Nat, NEW u, Searches(t, pl, key, u)
  PROVE  Whole(u, pl, 0, u.header.depth, key)
<1> DEFINE P == t.page
           c == u.cursor
           root == t.header.root
           depth == t.header.depth
           bd == t.bounds
<1>1. /\ IsTree(u) /\ u.page = P /\ u.header = t.header /\ u.bounds = bd
      /\ Found(P, root, depth, pl, bd, c, key) /\ PinsGood(DOMAIN P, root, u.pins, c, -1)
  BY DEF Searches
<1>2. IsHeader(t.header) /\ Settled(P, root, depth, pl) /\ BoundsGood(P, root, pl, bd)
        /\ DenseOnly(P, t.header)
  BY DEF Ready, AtRest
<1>3. /\ c \in Seq(PathLevel) /\ Len(c) = depth /\ c[1].pid = root
      /\ \A i \in 1..depth : LevelGood(P, pl, bd, c, i) /\ Within(pl, c[i].pid, key)
      /\ \A i \in 1..depth-1 : Linked(P, c, i)
  BY <1>1 DEF Found
<1>4. depth \in Nat /\ depth > 0
  BY <1>2 DEF Settled, Laid, Placed
<1>5. \A i \in 1..depth : LevelGood(P, pl, bd, c, i) /\ Aimed(u, pl, key, i)
  BY <1>3 DEF Within, Aimed
<1>6. Track(u, pl, 0, 0, 0, -1, key)
  BY <1>1, <1>2, <1>3, <1>5 DEF Track, Settled
<1>7. depth \in 1..depth /\ \A i \in depth..depth-1 : FALSE
  BY <1>4
<1> HIDE DEF depth, P, c, root
<1> QED BY <1>1, <1>3, <1>6, <1>7 DEF Whole, depth, P, c, root
-----------------------------------------------------------------------------

-----------------------------------------------------------------------------

(* The tree with another header.                                           *)
Recounted(t, h) ==
  [page |-> t.page, header |-> h, bounds |-> t.bounds, pins |-> t.pins, cursor |-> t.cursor]
SameShape(h, g) ==
  g.root = h.root /\ g.depth = h.depth /\ g.useDense = h.useDense /\ g.splitter = h.splitter

(* The counts of the header are not part of the layout. *)
LEMMA RecountedWhole ==
  ASSUME NEW t, NEW pl, NEW x, NEW L, NEW key, Whole(t, pl, x, L, key),
         NEW h, IsHeader(h), SameShape(t.header, h), NEW u, u = Recounted(t, h)
  PROVE  Whole(u, pl, x, L, key) /\ IsTree(u)
<1>1. /\ u.page = t.page /\ u.header = h /\ u.bounds = t.bounds /\ u.pins = t.pins
      /\ u.cursor = t.cursor /\ IsTree(u)
  BY DEF Recounted, IsTree
<1>2. /\ h.root = t.header.root /\ h.depth = t.header.depth
  BY DEF SameShape
<1>3. Track(u, pl, 0, 0, x, -1, key)
  <2>1. Track(t, pl, 0, 0, x, -1, key)
    BY DEF Whole
  <2>2. DenseOnly(u.page, u.header)
    BY <1>1, <2>1 DEF Track, DenseOnly, SameShape
  <2>3. \A i \in 1..t.header.depth : Aimed(t, pl, key, i) => Aimed(u, pl, key, i)
    BY <1>1, <1>2 DEF Aimed, Bent
  <2> QED BY <1>1, <1>2, <2>1, <2>2, <2>3 DEF Track
<1>4. \A i \in L..t.header.depth-1 : LinkedOrBent(t, i, key) => LinkedOrBent(u, i, key)
  BY <1>1, <1>2 DEF LinkedOrBent, Bent
<1> QED BY <1>1, <1>2, <1>3, <1>4 DEF Whole

(* Counting changes nothing else of a header. *)
LEMMA CountedIs ==
  ASSUME NEW h, IsHeader(h), NEW c \in Int
  PROVE  /\ LET g == [h EXCEPT !.nLeaves = c % SizeMod]
            IN  IsHeader(g) /\ SameShape(h, g) /\ g.nnz = h.nnz /\ g.nLeaves = c % SizeMod
         /\ LET g == [h EXCEPT !.nnz = c % SizeMod]
            IN  IsHeader(g) /\ SameShape(h, g) /\ g.nLeaves = h.nLeaves /\ g.nnz = c % SizeMod
<1>1. c % SizeMod \in 0..SizeMod-1
  BY ConstantsAre
<1> DEFINE x == c % SizeMod
<1> HIDE DEF x
<1>2. x \in 0..SizeMod-1
  BY <1>1 DEF x
<1>3. LET g == [h EXCEPT !.nLeaves = x]
      IN  IsHeader(g) /\ SameShape(h, g) /\ g.nnz = h.nnz /\ g.nLeaves = x
  BY <1>2 DEF IsHeader, SameShape
<1>4. LET g == [h EXCEPT !.nnz = x]
      IN  IsHeader(g) /\ SameShape(h, g) /\ g.nLeaves = h.nLeaves /\ g.nnz = x
  BY <1>2 DEF IsHeader, SameShape
<1> QED BY <1>3, <1>4 DEF x

(* A new count changes the header alone. *)
LEMMA RecountIs ==
  ASSUME NEW t, IsTree(t), NEW v
  PROVE  /\ [t EXCEPT !.header.nLeaves = v] = Recounted(t, [t.header EXCEPT !.nLeaves = v])
         /\ [t EXCEPT !.header.nnz = v] = Recounted(t, [t.header EXCEPT !.nnz = v])
  BY DEF IsTree, Recounted

-----------------------------------------------------------------------------

Entries_ == UNION {[ks -> Value \ {Default}] : ks \in SUBSET Key}

(* An entry of the tree, wherever it is, or in another leaf than a.        *)
HasEntry(P, p, k, v) == ~IsInternal(P, p) /\ k \in DOMAIN P[p].entries /\ P[p].entries[k] = v
Holds(P, k, v) == \E p \in DOMAIN P : HasEntry(P, p, k, v)
HoldsElsewhere(P, a, k, v) == \E p \in DOMAIN P : p # a /\ HasEntry(P, p, k, v)

(* The entries of the leaf a are now those of m, wherever they are.        *)
HoldsInstead(P, Q, a, m) ==
  \A k, v : Holds(Q, k, v) <=> (k \in DOMAIN m /\ m[k] = v) \/ HoldsElsewhere(P, a, k, v)

(* What a put leaves, the cursor's leaf having been a.                     *)
Replaces(t, u, a, m) ==
  /\ HoldsInstead(t.page, u.page, a, m)
  /\ u.header.nnz = t.header.nnz
  /\ DOMAIN t.bounds = {} => DOMAIN u.bounds = {}

(* A leaf of the cursor that overflows with the entries m.                 *)
EndOf(t) == t.cursor[t.header.depth].pid
Bounded(t) ==
  [type |-> t.page[EndOf(t)].type, lower |-> t.cursor[t.header.depth].lower,
   upper |-> t.cursor[t.header.depth].upper]
Splits(t, pl, key, m, spKey) ==
  /\ Whole(t, pl, 0, t.header.depth, key) /\ key \in Nat /\ Within(pl, EndOf(t), key)
  /\ m \in Entries_
  /\ Overflows(Bounded(t), pl[EndOf(t)].lower, pl[EndOf(t)].upper, DOMAIN m, t.header.useDense)
  /\ spKey \in SplitKeys(t.header.splitter, Bounded(t), DOMAIN m, t.header.useDense)

Types(t, m, spKey) == SplitTypes(Bounded(t), DOMAIN m, spKey, t.header.useDense)
LeftLeaf(t, m, spKey) ==
  Leaf(Types(t, m, spKey)[1], [k \in LeftKeys(m, spKey) |-> m[k]], Fresh(t.page))
RightLeaf(t, m, spKey) ==
  Leaf(Types(t, m, spKey)[2], [k \in DOMAIN m \ LeftKeys(m, spKey) |-> m[k]], InvalidPid)

(* The entries of a leaf are a finite map of keys to data. *)
LEMMA EntriesAre ==
  ASSUME NEW m, m \in Entries_
  PROVE  /\ m = [k \in DOMAIN m |-> m[k]] /\ DOMAIN m \subseteq Key
         /\ \A k \in DOMAIN m : m[k] \in Value \ {Default} /\ k \in Nat /\ k < EndsBy
         /\ IsFiniteSet(DOMAIN m)
<1>1. PICK ks \in SUBSET Key : m \in [ks -> Value \ {Default}]
  BY DEF Entries_
<1>2. IsFiniteSet(0..EndsBy-1)
  BY ConstantsAre, FS_Interval
<1>3. IsFiniteSet(DOMAIN m)
  BY <1>1, <1>2, ConstantsAre, FS_Subset
<1>4. \A k \in Key : k \in Nat /\ k < EndsBy
  BY ConstantsAre
<1> QED BY <1>1, <1>3, <1>4

(* So is a part of them. *)
LEMMA PartOfEntries ==
  ASSUME NEW m, m \in Entries_, NEW S, S \subseteq DOMAIN m
  PROVE  [k \in S |-> m[k]] \in Entries_
<1>1. PICK ks \in SUBSET Key : m \in [ks -> Value \ {Default}]
  BY DEF Entries_
<1>2. [k \in S |-> m[k]] \in [S -> Value \ {Default}] /\ S \in SUBSET Key
  BY <1>1
<1> QED BY <1>2 DEF Entries_

(* The two halves.                                                         *)
HalvesOf(t, pl, m, spKey) ==
  LET a == EndOf(t)
      left == LeftLeaf(t, m, spKey)
      right == RightLeaf(t, m, spKey)
  IN  /\ Cuts(t.page, t.header.root, t.header.depth, pl, 0, a, spKey, left, right)
      /\ HalvesGood(t.page, pl, a, Fresh(t.page), spKey, left, right)
      /\ ~IsInternal(t.page, a)
      /\ left.type = "dense" => t.header.useDense
      /\ right.type = "dense" => t.header.useDense
      /\ left.entries = [k \in LeftKeys(m, spKey) |-> m[k]]
      /\ right.entries = [k \in DOMAIN m \ LeftKeys(m, spKey) |-> m[k]]
      /\ left.type # "internal" /\ right.type # "internal"

(* The halves of a leaf that is split are leaves within their bounds that  *)
(* fit their formats.                                                      *)
LEMMA HalvesOfLeaf ==
  ASSUME NEW t, NEW pl, NEW key, NEW m, NEW spKey, Splits(t, pl, key, m, spKey)
  PROVE  HalvesOf(t, pl, m, spKey)
<1> DEFINE D == t.header.depth
           a == EndOf(t)
           b == Bounded(t)
           ks == DOMAIN m
           dense == t.header.useDense
           types == Types(t, m, spKey)
           left == LeftLeaf(t, m, spKey)
           right == RightLeaf(t, m, spKey)
           n == Fresh(t.page)
           low == Low(ks, spKey)
           high == High(ks, spKey)
<1>1. /\ Track(t, pl, 0, 0, 0, -1, key) /\ D \in 1..D /\ key \in Nat /\ Within(pl, a, key)
      /\ m \in Entries_ /\ Overflows(b, pl[a].lower, pl[a].upper, ks, dense)
      /\ spKey \in SplitKeys(t.header.splitter, b, ks, dense)
  BY DEF Splits, Whole
<1>2. /\ a \in DOMAIN t.page /\ ~IsInternal(t.page, a) /\ pl[a].lower \in Nat /\ pl[a].upper \in Nat
  <2>1. D \in Nat
    BY <1>1 DEF Track, IsHeader
  <2>2. ~(D < D)
    BY <2>1
  <2>3. /\ t.cursor[D].pid \in DOMAIN t.page
        /\ IsInternal(t.page, t.cursor[D].pid) <=> D < D
        /\ pl[t.cursor[D].pid].lower \in Nat /\ pl[t.cursor[D].pid].upper \in Nat
    BY <1>1, TrackLevel
  <2> QED BY <2>2, <2>3 DEF EndOf
<1>3. /\ t.header.splitter \in {"M", "A", "T", "RS"} /\ IsHeader(t.header)
      /\ HalvesFit({t.header.splitter})
  <2>1. t.header.splitter \in Splitter /\ IsHeader(t.header)
    BY <1>1 DEF Track, IsHeader
  <2> QED BY <2>1, ConstantsAre, SplitterAssumption, OneSplitter
<1>4. SplitSound(b, ks, spKey, dense)
  BY <1>1, <1>3, OverflowSplits
<1>5. /\ spKey \in Int /\ low # {} /\ high # {} /\ types[1] \in {"sparse", "dense"}
           /\ types[2] \in {"sparse", "dense"}
      /\ Fits(types[1], low) /\ Fits(types[2], high)
  BY <1>4 DEF SplitSound, Types
<1>6. LeftKeys(m, spKey) = low /\ ks \ LeftKeys(m, spKey) = high /\ low \subseteq ks /\ high \subseteq ks
  <2>1. \A k \in ks : k \in Int
    BY <1>1 DEF Overflows, KeysWithin
  <2> QED BY <1>5, <2>1 DEF LeftKeys, Low, High
<1>7. /\ left.type = types[1] /\ left.entries = [k \in low |-> m[k]] /\ left.next = n
      /\ right.type = types[2] /\ right.entries = [k \in high |-> m[k]] /\ right.next = InvalidPid
      /\ left = [type |-> types[1], entries |-> [k \in low |-> m[k]], next |-> n]
      /\ right = [type |-> types[2], entries |-> [k \in high |-> m[k]], next |-> InvalidPid]
  BY <1>6 DEF LeftLeaf, RightLeaf, Leaf
<1>8. \A k \in ks : k \in Nat /\ pl[a].lower <= k /\ k < pl[a].upper
  BY <1>1, <1>2, EntriesAre DEF Overflows, KeysWithin
<1>9. spKey \in Nat /\ pl[a].lower < spKey /\ spKey < pl[a].upper
  BY <1>2, <1>5, <1>8 DEF Low, High
<1>10. ~dense => types[1] = "sparse" /\ types[2] = "sparse"
  BY <1>1 DEF Types, SplitTypes, HalfType, Overflows
<1>11. [k \in low |-> m[k]] \in Entries_ /\ [k \in high |-> m[k]] \in Entries_
  BY <1>1, <1>6, PartOfEntries
<1> HIDE DEF low, high, types, left, right, n, a, ks, b, dense, D
<1>12. left \in PageNode(DOMAIN t.page \cup {n}) /\ right \in PageNode(DOMAIN t.page \cup {n})
  BY <1>5, <1>7, <1>11 DEF PageNode, Entries_
<1>13. left.type # "internal" /\ right.type # "internal"
  BY <1>5, <1>7
<1>14. Laid(t.page, t.header.root, D, pl, 0, 0, 0)
  BY <1>1 DEF Track, D
<1>15. Cuts(t.page, t.header.root, D, pl, 0, a, spKey, left, right)
  BY <1>2, <1>9, <1>12, <1>13, <1>14 DEF Cuts, n
<1>16. HalvesGood(t.page, pl, a, n, spKey, left, right)
  <2>1. DOMAIN left.entries = low /\ DOMAIN right.entries = high
    BY <1>7
  <2>2. \A k \in low : k \in ks /\ k < spKey
    BY DEF low, Low
  <2>3. \A k \in high : k \in ks /\ spKey <= k
    BY <1>5, <1>8 DEF high, High
  <2> QED BY <1>5, <1>7, <1>8, <2>1, <2>2, <2>3 DEF HalvesGood
<1>17. /\ left.type = "dense" => dense
       /\ right.type = "dense" => dense
  BY <1>7, <1>10
<1>18. /\ left.entries = [k \in LeftKeys(m, spKey) |-> m[k]]
       /\ right.entries = [k \in DOMAIN m \ LeftKeys(m, spKey) |-> m[k]]
  BY <1>6, <1>7 DEF ks
<1> QED BY <1>2, <1>13, <1>15, <1>16, <1>17, <1>18 DEF HalvesOf, left, right, n, a, dense, D

-----------------------------------------------------------------------------

(* A split of the leaf starts the way up.                                  *)
StartsSplit(t, pl, key, m, spKey, s) ==
  /\ Goes(s, t.header.depth, key)
  /\ s.tree.page = CutPages(t.page, EndOf(t), Fresh(t.page), LeftLeaf(t, m, spKey), RightLeaf(t,
       m, spKey))
  /\ s.tree.header.nnz = t.header.nnz
  /\ DOMAIN t.bounds = {} => DOMAIN s.tree.bounds = {}

(* A leaf that is split starts a split that goes up. *)
LEMMA SplitLeafGoes ==
  ASSUME NEW t, NEW pl, NEW key, NEW m, NEW spKey, Splits(t, pl, key, m, spKey),
         NEW s, s = SplitLeaf(t, key, m, spKey)
  PROVE  StartsSplit(t, pl, key, m, spKey, s)
<1> DEFINE D == t.header.depth
           a == EndOf(t)
           left == LeftLeaf(t, m, spKey)
           right == RightLeaf(t, m, spKey)
           n == Fresh(t.page)
           h == [t.header EXCEPT !.nLeaves = (t.header.nLeaves + 1) % SizeMod]
           u == Recounted(t, h)
           pl2 == CutLayout(pl, a, n, spKey)
<1>1. /\ Whole(t, pl, 0, D, key) /\ Track(t, pl, 0, 0, 0, -1, key) /\ key \in Nat /\ Within(pl, a, key)
  BY DEF Splits, Whole
<1>2. /\ IsTree(t) /\ IsHeader(t.header) /\ Len(t.cursor) = D /\ D \in Nat /\ t.header.nLeaves \in Int
  BY <1>1 DEF Track, IsHeader
<1>3. IsHeader(h) /\ SameShape(t.header, h) /\ h.nnz = t.header.nnz
  <2>1. t.header.nLeaves + 1 \in Int
    BY <1>2
  <2> QED BY <1>2, <2>1, CountedIs
<1>4. HalvesOf(t, pl, m, spKey)
  BY HalvesOfLeaf
<1>5. s = Divide(u, D, key, spKey, left, right, 0)
  <2>1. [t EXCEPT !.header.nLeaves = (@ + 1) % SizeMod] = u
    BY <1>2, RecountIs
  <2>2. LeafOf(t) = t.cursor[D]
    BY <1>2 DEF LeafOf
  <2> HIDE DEF u
  <2>3. /\ left = Leaf(SplitTypes(Bounded(t), DOMAIN m, spKey, t.header.useDense)[1],
                       [k \in LeftKeys(m, spKey) |-> m[k]], NextPid(t))
        /\ right = Leaf(SplitTypes(Bounded(t), DOMAIN m, spKey, t.header.useDense)[2],
                       [k \in DOMAIN m \ LeftKeys(m, spKey) |-> m[k]], InvalidPid)
    BY DEF LeftLeaf, RightLeaf, Types, NextPid, Fresh
  <2>4. Bounded(t) = [type |-> t.page[LeafOf(t).pid].type, lower |-> LeafOf(t).lower,
          upper |-> LeafOf(t).upper]
    BY <2>2 DEF Bounded, EndOf
  <2> HIDE DEF left, right
  <2> QED BY <1>2, <2>1, <2>3, <2>4 DEF SplitLeaf
<1>6. Whole(u, pl, 0, D, key) /\ IsTree(u)
  BY <1>1, <1>3, RecountedWhole
<1>7. /\ u.page = t.page /\ u.header = h /\ u.bounds = t.bounds /\ u.pins = t.pins /\ u.cursor = t.cursor
  BY DEF Recounted
<1>8. /\ h.depth = D /\ h.root = t.header.root /\ h.useDense = t.header.useDense
  BY <1>3 DEF SameShape
<1> HIDE DEF u, h
<1>9. /\ Cuts(t.page, t.header.root, D, pl, 0, a, spKey, left, right)
      /\ HalvesGood(t.page, pl, a, n, spKey, left, right) /\ ~IsInternal(t.page, a)
      /\ (left.type = "dense" => t.header.useDense) /\ (right.type = "dense" => t.header.useDense)
  BY <1>4 DEF HalvesOf
<1>10. Laid(CutPages(t.page, a, n, left, right), t.header.root, D, pl2, a, n, 0)
  <2> HIDE DEF left, right, a, n, D
  <2> QED BY <1>9, LeafCut DEF n
<1>11. a = u.cursor[D].pid /\ n = Fresh(u.page)
  BY <1>7 DEF EndOf
<1> HIDE DEF left, right, a, n, D
<1>12. Divides(u, pl, 0, D, key, spKey, left, right, 0)
  <2>1. D = u.header.depth /\ ~(D < u.header.depth)
    BY <1>2, <1>7, <1>8
  <2> QED BY <1>1, <1>6, <1>7, <1>8, <1>9, <1>10, <1>11, <2>1 DEF Divides
<1>13. Torn(s.tree, pl2, a, n, D, s.temp, key) /\ Answers(s, pl2, n, D, key)
  BY <1>5, <1>11, <1>12, DivideTears
<1>14. /\ IsTree(s.tree) /\ s.tree.page = CutPages(u.page, a, n, left, right) /\ s.tree.header = u.header
       /\ s.tree.bounds = DividedBounds(u, D, spKey)
  BY <1>5, <1>6, <1>11, DivideIs
<1>15. IsSplit(s) /\ s.going
  BY <1>5, <1>13, DivideIsSplit DEF Answers
<1>16. Goes(s, D, key)
  BY <1>13, <1>14, <1>15 DEF Goes, Rising
<1>17. DOMAIN t.bounds = {} => DOMAIN s.tree.bounds = {}
  BY <1>7, <1>14 DEF DividedBounds
<1>18. s.tree.header.nnz = t.header.nnz /\ s.tree.page = CutPages(t.page, a, n, left, right)
  BY <1>3, <1>7, <1>14
<1> QED BY <1>16, <1>17, <1>18 DEF StartsSplit, a, n, left, right, D

(* The entries are then in the two halves. *)
LEMMA CutHolds ==
  ASSUME NEW t, NEW pl, NEW m, m \in Entries_, NEW spKey, HalvesOf(t, pl, m, spKey),
         NEW Q, Q = CutPages(t.page, EndOf(t), Fresh(t.page), LeftLeaf(t, m, spKey), RightLeaf(t,
             m, spKey))
  PROVE  HoldsInstead(t.page, Q, EndOf(t), m)
<1> DEFINE P == t.page
           a == EndOf(t)
           n == Fresh(t.page)
           left == LeftLeaf(t, m, spKey)
           right == RightLeaf(t, m, spKey)
           low == LeftKeys(m, spKey)
           pl2 == CutLayout(pl, a, n, spKey)
<1>1. /\ Cuts(P, t.header.root, t.header.depth, pl, 0, a, spKey, left, right)
      /\ left.entries = [k \in low |-> m[k]]
      /\ right.entries = [k \in DOMAIN m \ low |-> m[k]]
      /\ left.type # "internal" /\ right.type # "internal"
  BY DEF HalvesOf
<1>2. low \subseteq DOMAIN m
  BY DEF LeftKeys
<1> HIDE DEF P, a, left, right, low
<1>3. HasCut(P, pl, a, spKey, left, right, n, Q, pl2)
  <2>1. Q = CutPages(P, a, n, left, right) /\ n = Fresh(P)
    BY DEF P, a, n, left, right
  <2> HIDE DEF n
  <2> QED BY <1>1, <2>1, CutIs
<1>3a. a \in DOMAIN P
  BY <1>1 DEF Cuts
<1>4. /\ DOMAIN Q = DOMAIN P \cup {n} /\ n \notin DOMAIN P /\ a # n /\ a \in DOMAIN P
      /\ Q[a] = left /\ Q[n] = right /\ \A p \in DOMAIN P : p # a => Q[p] = P[p]
  BY <1>3, <1>3a DEF HasCut
<1> HIDE DEF n
<1>5. ASSUME NEW k, NEW v
      PROVE  Holds(Q, k, v) <=> (k \in DOMAIN m /\ m[k] = v) \/ HoldsElsewhere(P, a, k, v)
  <2>1. HasEntry(Q, a, k, v) <=> k \in low /\ m[k] = v
    BY <1>1, <1>4 DEF HasEntry, IsInternal
  <2>2. HasEntry(Q, n, k, v) <=> k \in DOMAIN m \ low /\ m[k] = v
    BY <1>1, <1>4 DEF HasEntry, IsInternal
  <2>3. \A p \in DOMAIN P : p # a => (HasEntry(Q, p, k, v) <=> HasEntry(P, p, k, v))
    BY <1>4 DEF HasEntry, IsInternal
  <2>4. Holds(Q, k, v) <=> HasEntry(Q, a, k, v) \/ HasEntry(Q, n, k, v)
                           \/ \E p \in DOMAIN P : p # a /\ HasEntry(Q, p, k, v)
    BY <1>4 DEF Holds
  <2>5. HoldsElsewhere(P, a, k, v) <=> \E p \in DOMAIN P : p # a /\ HasEntry(Q, p, k, v)
    BY <2>3 DEF HoldsElsewhere
  <2> QED BY <1>2, <2>1, <2>2, <2>4, <2>5
<1> QED BY <1>5 DEF HoldsInstead, P, a

(* The same leaves hold the same. *)
LEMMA SameHold ==
  ASSUME NEW P, NEW Q, SameLeaves(P, Q), NEW k, NEW v
  PROVE  Holds(P, k, v) <=> Holds(Q, k, v)
<1>1. \A p : p \in DOMAIN P /\ ~IsInternal(P, p) <=> p \in DOMAIN Q /\ ~IsInternal(Q, p)
  BY DEF SameLeaves, IsInternal
<1>2. \A p \in DOMAIN P : ~IsInternal(P, p) => P[p] = Q[p]
  BY DEF SameLeaves
<1> QED BY <1>1, <1>2 DEF Holds, HasEntry

(* A whole split: the tree is ready for the next key, with the entries m   *)
(* in place of those of the leaf.                                          *)
LEMMA SplitDone ==
  ASSUME NEW t, NEW pl, NEW key, NEW m, NEW spKey, Splits(t, pl, key, m, spKey),
         NEW w, w = Split(t, key, m, spKey)
  PROVE  (\E pl2 : Ready(w, pl2, {key})) /\ Replaces(t, w, EndOf(t), m)
<1> DEFINE D == t.header.depth
           s == SplitLeaf(t, key, m, spKey)
<1>1. /\ D = Len(t.cursor) /\ D \in Nat /\ D > 0 /\ key \in Nat /\ m \in Entries_
  <2>1. Track(t, pl, 0, 0, 0, -1, key) /\ key \in Nat /\ m \in Entries_
    BY DEF Splits, Whole
  <2> QED BY <2>1 DEF Track, IsHeader
<1>2. StartsSplit(t, pl, key, m, spKey, s)
  <2> HIDE DEF s
  <2>1. s = SplitLeaf(t, key, m, spKey)
    BY DEF s
  <2> QED BY <2>1, SplitLeafGoes
<1>3. Goes(s, D, key)
  BY <1>2 DEF StartsSplit
<1>4. (\E pl2 : Ready(w, pl2, {key})) /\ SameBelow(s.tree, w)
  <2> HIDE DEF D, s
  <2>1. s = SplitLeaf(t, key, m, spKey)
    BY DEF s
  <2> QED BY <1>1, <1>3, <2>1, SplitReady
<1>5. HoldsInstead(t.page, s.tree.page, EndOf(t), m)
  <2> HIDE DEF s
  <2>1. HalvesOf(t, pl, m, spKey)
    BY HalvesOfLeaf
  <2>2. s.tree.page = CutPages(t.page, EndOf(t), Fresh(t.page), LeftLeaf(t, m, spKey),
          RightLeaf(t, m, spKey))
    BY <1>2 DEF StartsSplit
  <2> QED BY <1>1, <2>1, <2>2, CutHolds
<1> HIDE DEF s
<1>6. SameLeaves(s.tree.page, w.page) /\ w.header.nnz = s.tree.header.nnz
        /\ DOMAIN w.bounds = DOMAIN s.tree.bounds
  BY <1>4 DEF SameBelow, SameCounts, SameBounds
<1>7. HoldsInstead(t.page, w.page, EndOf(t), m)
  <2>1. \A k, v : Holds(s.tree.page, k, v) <=> Holds(w.page, k, v)
    BY <1>6, SameHold
  <2> QED BY <1>5, <2>1 DEF HoldsInstead
<1> QED BY <1>2, <1>4, <1>6, <1>7 DEF Replaces, StartsSplit

-----------------------------------------------------------------------------

(* Another leaf in the place of one: e, with the entries m.                *)
LeafFor(t, pl, m, e) ==
  /\ m \in Entries_ /\ e = [type |-> e.type, entries |-> m, next |-> e.next]
  /\ e.type \in {"sparse", "dense"} /\ (e.type = "dense" => t.header.useDense)
  /\ e.next \in {t.page[EndOf(t)].next, InvalidPid}
  /\ Fits(e.type, DOMAIN m)
  /\ \A k \in DOMAIN m : pl[EndOf(t)].lower <= k /\ k < pl[EndOf(t)].upper
Repaged(t, a, e) ==
  [page |-> [t.page EXCEPT ![a] = e], header |-> t.header, bounds |-> t.bounds, pins |-> t.pins,
   cursor |-> t.cursor]

(* A leaf with other entries within its bounds leaves the tree settled. *)
LEMMA LeafReplacedLaid ==
  ASSUME NEW P, NEW root, NEW depth, NEW pl, Settled(P, root, depth, pl), NEW a \in DOMAIN P,
         ~IsInternal(P, a), NEW e, e \in PageNode(DOMAIN P), e.type \in {"sparse", "dense"},
         e.next \in {P[a].next, InvalidPid}, Fits(e.type, DOMAIN e.entries),
         \A k \in DOMAIN e.entries : pl[a].lower <= k /\ k < pl[a].upper,
         NEW Q, Q = [P EXCEPT ![a] = e]
  PROVE  Settled(Q, root, depth, pl)
<1>0. Laid(P, root, depth, pl, 0, 0, 0)
  BY DEF Settled
<1>1. /\ DOMAIN Q = DOMAIN P /\ Q[a] = e /\ ~IsInternal(Q, a)
      /\ \A p \in DOMAIN P : p # a => Q[p] = P[p]
      /\ \A p \in DOMAIN P : IsInternal(Q, p) <=> IsInternal(P, p)
      /\ \A p \in DOMAIN P : IsInternal(Q, p) => Q[p] = P[p]
  BY DEF IsInternal
<1>2. Nodes(Q)
  <2>1. P \in [DOMAIN P -> PageNode(DOMAIN P)]
    BY <1>0 DEF Laid, Nodes
  <2>2. Q \in [DOMAIN P -> PageNode(DOMAIN P)]
    BY <2>1
  <2> QED BY <1>0, <1>1, <2>2 DEF Laid, Nodes
<1>3. Placed(Q, depth, pl)
  BY <1>0, <1>1 DEF Laid, Placed
<1>4. PagesSound(Q, pl, 0, 0, 0)
  <2>1. PagesSound(P, pl, 0, 0, 0)
    BY <1>0 DEF Laid
  <2>2. ASSUME NEW p \in DOMAIN P, IsInternal(Q, p) PROVE KidsSound(Q, pl, 0, 0, 0, p)
    <3>1. KidsSound(P, pl, 0, 0, 0, p) /\ Q[p] = P[p]
      BY <1>1, <2>1, <2>2 DEF PagesSound
    <3> QED BY <3>1 DEF KidsSound, KidSound
  <2>3. ASSUME NEW p \in DOMAIN P, ~IsInternal(P, p) PROVE LeafSound(P, pl, 0, p)
    BY <2>1, <2>3 DEF PagesSound
  <2>4. ASSUME NEW p \in DOMAIN P, ~IsInternal(Q, p), p # a PROVE LeafSound(Q, pl, 0, p)
    <3>1. LeafSound(P, pl, 0, p) /\ Q[p] = P[p]
      BY <1>1, <2>3, <2>4
    <3>2. P[p].next = InvalidPid \/ P[p].next \in DOMAIN P
      BY <1>0, <1>1, <2>4, NodeIs DEF Laid
    <3> QED BY <1>1, <3>1, <3>2 DEF LeafSound
  <2>5. LeafSound(Q, pl, 0, a)
    <3>1. LeafSound(P, pl, 0, a)
      BY <2>3
    <3>2. P[a].next = InvalidPid \/ P[a].next \in DOMAIN P
      BY <1>0, NodeIs DEF Laid
    <3>3. e.next # InvalidPid => ~IsInternal(Q, e.next) /\ pl[e.next].lower = pl[a].upper
      BY <1>1, <3>1, <3>2 DEF LeafSound
    <3> QED BY <1>1, <3>3 DEF LeafSound
  <2> QED BY <1>1, <2>2, <2>4, <2>5 DEF PagesSound
<1>5. Rooted(Q, root, pl, 0, 0) /\ Apart(Q, pl)
  BY <1>0, <1>1 DEF Laid, Rooted, Apart
<1>6. Reached(Q, root, 0)
  <2>1. ASSUME NEW q \in DOMAIN P, NEW p PROVE IsKid(P, q, p) => IsKid(Q, q, p)
    BY <1>1 DEF IsKid
  <2> QED BY <1>0, <1>1, <2>1 DEF Laid, Reached
<1> QED BY <1>2, <1>3, <1>4, <1>5, <1>6 DEF Settled, Laid

(* A put that needs no split leaves every level whole. *)
LEMMA LeafReplaced ==
  ASSUME NEW t, NEW pl, NEW key, Whole(t, pl, 0, t.header.depth, key), NEW m, NEW e,
         LeafFor(t, pl, m, e), NEW u, u = Repaged(t, EndOf(t), e)
  PROVE  Whole(u, pl, 0, u.header.depth, key) /\ Replaces(t, u, EndOf(t), m)
<1> DEFINE D == t.header.depth
           a == EndOf(t)
           P == t.page
           Q == u.page
           c == t.cursor
<1>1. /\ Q = [P EXCEPT ![a] = e] /\ u.header = t.header /\ u.bounds = t.bounds /\ u.pins = t.pins
      /\ u.cursor = c /\ IsTree(u)
  BY DEF Repaged, IsTree
<1>2. Track(t, pl, 0, 0, 0, -1, key) /\ D \in Nat /\ D \in 1..D
  BY DEF Whole, Track, IsHeader
<1>3. \A i \in 1..D : c[i].pid \in DOMAIN P /\ (IsInternal(P, c[i].pid) <=> i < D)
  BY <1>2, TrackLevel
<1>4. a = c[D].pid /\ a \in DOMAIN P /\ ~IsInternal(P, a) /\ \A i \in 1..D : i < D => c[i].pid # a
  <2>1. ~(D < D)
    BY <1>2
  <2>2. a = c[D].pid /\ a \in DOMAIN P /\ ~IsInternal(P, a)
    BY <1>2, <1>3, <2>1 DEF EndOf
  <2> HIDE DEF a
  <2> QED BY <1>3, <2>2
<1>5. /\ m \in Entries_ /\ e = [type |-> e.type, entries |-> m, next |-> e.next]
      /\ e.type \in {"sparse", "dense"} /\ (e.type = "dense" => t.header.useDense)
      /\ e.next \in {P[a].next, InvalidPid} /\ Fits(e.type, DOMAIN m)
      /\ \A k \in DOMAIN m : pl[a].lower <= k /\ k < pl[a].upper
      /\ e.entries = m
  BY DEF LeafFor
<1>6. Settled(P, t.header.root, D, pl)
  BY <1>2 DEF Track, Settled
<1> HIDE DEF a, P, Q, c, D
<1>7. e \in PageNode(DOMAIN P)
  <2>1. P[a].next \in DOMAIN P \cup {InvalidPid}
    BY <1>4, <1>6, NodeIs DEF Settled, Laid
  <2>2. e.next \in DOMAIN P \cup {InvalidPid}
    BY <1>5, <2>1
  <2> QED BY <1>5, <2>2 DEF PageNode, Entries_
<1>8. Settled(Q, t.header.root, D, pl)
  BY <1>1, <1>4, <1>5, <1>6, <1>7, LeafReplacedLaid
<1>9. /\ DOMAIN Q = DOMAIN P /\ \A p \in DOMAIN P : p # a => Q[p] = P[p]
      /\ Q[a] = e /\ ~IsInternal(Q, a)
  BY <1>1, <1>4, <1>5 DEF IsInternal
<1>10. \A p \in DOMAIN P : IsInternal(P, p) <=> IsInternal(Q, p)
  BY <1>4, <1>9 DEF IsInternal
<1>11. Track(u, pl, 0, 0, 0, -1, key)
  <2>1. BoundsGood(P, t.header.root, pl, t.bounds)
    BY <1>2 DEF Track, P
  <2>2. BoundsGood(Q, t.header.root, pl, t.bounds)
    BY <1>9, <1>10, <2>1 DEF BoundsGood
  <2>3. DenseOnly(Q, t.header)
    <3>1. DenseOnly(P, t.header)
      BY <1>2 DEF Track, P
    <3> QED BY <1>5, <1>9, <3>1 DEF DenseOnly
  <2>4. \A i \in 1..D : LevelGood(Q, pl, t.bounds, c, i) /\ Aimed(u, pl, key, i)
    <3>1. \A i \in 1..D : LevelGood(P, pl, t.bounds, c, i) /\ Aimed(t, pl, key, i)
      BY <1>2 DEF Track, P, c, D
    <3>2. \A i : Aimed(t, pl, key, i) => Aimed(u, pl, key, i)
      BY <1>1 DEF Aimed, Bent, c
    <3> QED BY <1>9, <3>1, <3>2 DEF LevelGood
  <2> QED BY <1>1, <1>2, <1>8, <1>9, <2>2, <2>3, <2>4 DEF Track, Settled, D, P, Q, c
<1>12. Whole(u, pl, 0, u.header.depth, key)
  <2>1. \A i \in 1..D-1 : Linked(P, c, i) => Linked(Q, c, i)
    <3>1. \A i \in 1..D-1 : i \in 1..D /\ i < D
      BY <1>2
    <3>2. \A i \in 1..D-1 : c[i].pid \in DOMAIN P /\ c[i].pid # a
      BY <1>3, <1>4, <3>1
    <3> QED BY <1>9, <3>2 DEF Linked
  <2>2. \A i \in D..D-1 : FALSE
    BY <1>2
  <2>3. c[1].pid = t.header.root /\ \A i \in 1..D-1 : Linked(P, c, i)
    BY DEF Whole, D, P, c
  <2> QED BY <1>1, <1>2, <1>11, <2>1, <2>2, <2>3 DEF Whole, D, P, Q, c
<1>13. HoldsInstead(P, Q, a, m)
  <2>1. ASSUME NEW k, NEW v
        PROVE  Holds(Q, k, v) <=> (k \in DOMAIN m /\ m[k] = v) \/ HoldsElsewhere(P, a, k, v)
    <3>1. HasEntry(Q, a, k, v) <=> k \in DOMAIN m /\ m[k] = v
      BY <1>5, <1>9 DEF HasEntry, IsInternal
    <3>2. \A p \in DOMAIN P : p # a => (HasEntry(Q, p, k, v) <=> HasEntry(P, p, k, v))
      BY <1>9 DEF HasEntry, IsInternal
    <3>3. Holds(Q, k, v) <=> HasEntry(Q, a, k, v) \/ \E p \in DOMAIN P : p # a /\ HasEntry(Q, p, k, v)
      BY <1>4, <1>9 DEF Holds
    <3> QED BY <3>1, <3>2, <3>3 DEF HoldsElsewhere
  <2> QED BY <2>1 DEF HoldsInstead
<1> QED BY <1>1, <1>12, <1>13 DEF Replaces, P, Q, a

-----------------------------------------------------------------------------

(* The entries of the leaf with one of them put.                           *)
PutInto(t, pl, key, datum, m) ==
  /\ Whole(t, pl, 0, t.header.depth, key) /\ key \in Nat /\ key < EndsBy /\ datum \in Value
  /\ Within(pl, EndOf(t), key)
  /\ m = WithEntry(t.page[EndOf(t)].entries, key, datum)
PutEntries(t, pl, m) ==
  LET a == EndOf(t)
      leaf == t.page[a]
  IN  /\ a \in DOMAIN t.page /\ ~IsInternal(t.page, a) /\ leaf.type \in {"sparse", "dense"}
      /\ (leaf.type = "dense" => t.header.useDense)
      /\ leaf = [type |-> leaf.type, entries |-> leaf.entries, next |-> leaf.next]
      /\ m \in Entries_ /\ leaf.entries \in Entries_
      /\ \A k \in DOMAIN m : pl[a].lower <= k /\ k < pl[a].upper
      /\ KeysWithin(DOMAIN m, pl[a].lower, pl[a].upper)
      /\ ~Fits(leaf.type, DOMAIN m) => \E x \in DOMAIN m : Fits(leaf.type, DOMAIN m \ {x})
      /\ pl[a].lower \in Nat /\ pl[a].upper \in Nat

EntryPut(m, key, v, n) ==
  /\ n \in Entries_
  /\ DOMAIN n = IF v = Default THEN DOMAIN m \ {key} ELSE DOMAIN m \cup {key}
  /\ \A k \in DOMAIN n : n[k] = IF k = key THEN v ELSE m[k]

(* The entries of a leaf after a put: those of the other keys, and the     *)
(* key's own.                                                              *)
LEMMA WithEntryIs ==
  ASSUME NEW m, m \in Entries_, NEW key, key \in Key, NEW v \in Value, NEW n, n = WithEntry(m, key, v)
  PROVE  EntryPut(m, key, v, n)
<1>1. PICK ks \in SUBSET Key : m \in [ks -> Value \ {Default}]
  BY DEF Entries_
<1>2. CASE v = Default
  <2>1. n = [x \in ks \ {key} |-> m[x]]
    BY <1>1, <1>2 DEF WithEntry
  <2>2. n \in [ks \ {key} -> Value \ {Default}] /\ ks \ {key} \in SUBSET Key
    BY <1>1, <2>1
  <2>3. n \in Entries_
    BY <2>2 DEF Entries_
  <2> QED BY <1>1, <1>2, <2>1, <2>3 DEF EntryPut
<1>3. CASE v # Default
  <2>1. n = [x \in ks \cup {key} |-> IF x = key THEN v ELSE m[x]]
    BY <1>1, <1>3 DEF WithEntry
  <2>2. n \in [ks \cup {key} -> Value \ {Default}] /\ ks \cup {key} \in SUBSET Key
    BY <1>1, <1>3, <2>1
  <2>3. n \in Entries_
    BY <2>2 DEF Entries_
  <2> QED BY <1>1, <1>3, <2>1, <2>3 DEF EntryPut
<1> QED BY <1>2, <1>3

(* They are entries for the leaf's bounds. *)
LEMMA PutEntriesAre ==
  ASSUME NEW t, NEW pl, NEW key, NEW datum, NEW m, PutInto(t, pl, key, datum, m)
  PROVE  PutEntries(t, pl, m)
<1> DEFINE D == t.header.depth
           a == EndOf(t)
           P == t.page
           old == P[a].entries
<1>1. /\ Track(t, pl, 0, 0, 0, -1, key) /\ D \in Nat /\ D \in 1..D /\ key \in Nat /\ key < EndsBy
      /\ datum \in Value /\ Within(pl, a, key) /\ m = WithEntry(old, key, datum)
  BY DEF PutInto, Whole, Track, IsHeader
<1>2. a \in DOMAIN P /\ ~IsInternal(P, a) /\ pl[a].lower \in Nat /\ pl[a].upper \in Nat
  <2>1. ~(D < D)
    BY <1>1
  <2>2. /\ t.cursor[D].pid \in DOMAIN P
        /\ IsInternal(P, t.cursor[D].pid) <=> D < D
        /\ pl[t.cursor[D].pid].lower \in Nat /\ pl[t.cursor[D].pid].upper \in Nat
    BY <1>1, TrackLevel
  <2> QED BY <2>1, <2>2 DEF EndOf
<1>3. Laid(P, t.header.root, D, pl, 0, 0, 0) /\ DenseOnly(P, t.header)
  BY <1>1 DEF Track
<1> HIDE DEF a, P, D
<1>4. /\ P[a].type \in {"sparse", "dense"} /\ old \in Entries_
      /\ P[a] = [type |-> P[a].type, entries |-> old, next |-> P[a].next]
  BY <1>2, <1>3, NodeIs DEF Laid, Entries_
<1>5. a # 0
  BY <1>2, <1>3, NodeIs DEF Laid
<1>6. /\ \A k \in DOMAIN old : pl[a].lower <= k /\ k < pl[a].upper
      /\ Fits(P[a].type, DOMAIN old)
  BY <1>2, <1>3, <1>5 DEF Laid, PagesSound, LeafSound
<1> HIDE DEF old
<1>7. key \in Key
  BY <1>1, ConstantsAre
<1>8. /\ m \in Entries_
      /\ DOMAIN m = IF datum = Default THEN DOMAIN old \ {key} ELSE DOMAIN old \cup {key}
  <2>1. datum \in Value /\ m = WithEntry(old, key, datum)
    BY <1>1
  <2>2. old \in Entries_ /\ key \in Key
    BY <1>4, <1>7
  <2>3. EntryPut(old, key, datum, m)
    BY <2>1, <2>2, WithEntryIs
  <2> QED BY <2>3 DEF EntryPut
<1>9. \A k \in DOMAIN m : pl[a].lower <= k /\ k < pl[a].upper
  <2>1. pl[a].lower <= key /\ key < pl[a].upper
    BY <1>1 DEF Within
  <2> QED BY <1>6, <1>8, <2>1
<1>10. KeysWithin(DOMAIN m, pl[a].lower, pl[a].upper)
  BY <1>8, <1>9, EntriesAre DEF KeysWithin
<1>11. ASSUME ~Fits(P[a].type, DOMAIN m) PROVE \E x \in DOMAIN m : Fits(P[a].type, DOMAIN m \ {x})
  <2>1. Ordered(DOMAIN old, 0) /\ 0 \in Int
    BY <1>4, EntriesAre DEF Ordered
  <2>2. \A T \in SUBSET DOMAIN old : Fits(P[a].type, T)
    BY <1>6, <2>1, FitsFewer
  <2>3. datum # Default
    <3>1. datum = Default => DOMAIN m \in SUBSET DOMAIN old
      BY <1>8
    <3> QED BY <1>11, <2>2, <3>1
  <2>4. key \in DOMAIN m /\ DOMAIN m \ {key} \in SUBSET DOMAIN old
    BY <1>8, <2>3
  <2> QED BY <2>2, <2>4
<1>12. P[a].type = "dense" => t.header.useDense
  BY <1>2, <1>3 DEF DenseOnly
<1> QED BY <1>2, <1>4, <1>8, <1>9, <1>10, <1>11, <1>12 DEF PutEntries, P, a, old

(* A put into the leaf, whatever it does there: the tree is ready for what *)
(* comes next, with the entry put and nothing else changed.                *)
PutDone(t, w, key, m) ==
  /\ \E pl2 : Ready(w, pl2, {key})
  /\ HoldsInstead(t.page, w.page, EndOf(t), m)
  /\ w.header.nnz = NnzAfter(t.header.nnz, t.page[EndOf(t)].entries, m)
  /\ DOMAIN t.bounds = {} => DOMAIN w.bounds = {}

(* A put into its leaf is done, whichever of the leaf's answers it gets. *)
LEMMA PutThereDone ==
  ASSUME NEW t, NEW pl, NEW key, NEW datum, NEW m, PutInto(t, pl, key, datum, m),
         NEW w, w \in PutThere(t, t.page[EndOf(t)], key, m).trees
  PROVE  PutDone(t, w, key, m)
<1> DEFINE D == t.header.depth
           a == EndOf(t)
           leaf == t.page[a]
           nnz == NnzAfter(t.header.nnz, leaf.entries, m)
           h == [t.header EXCEPT !.nnz = nnz]
           u == Recounted(t, h)
           ks == DOMAIN m
           b == Bounded(t)
<1>1. /\ Whole(t, pl, 0, D, key) /\ Track(t, pl, 0, 0, 0, -1, key) /\ D \in Nat /\ D \in 1..D
      /\ key \in Nat /\ Within(pl, a, key) /\ IsTree(t) /\ IsHeader(t.header) /\ Len(t.cursor) = D
      /\ t.header.nnz \in Int
  BY DEF PutInto, Whole, Track, IsHeader
<1>2. PutEntries(t, pl, m)
  BY PutEntriesAre
<1>3. IsHeader(h) /\ SameShape(t.header, h) /\ h.nnz = nnz
  <2>1. /\ Cardinality(DOMAIN m) \in Nat /\ Cardinality(DOMAIN leaf.entries) \in Nat
    BY <1>2, EntriesAre, FS_CardinalityType DEF PutEntries
  <2>2. t.header.nnz + Cardinality(DOMAIN m) - Cardinality(DOMAIN leaf.entries) \in Int
    BY <1>1, <2>1
  <2> QED BY <1>1, <2>2, CountedIs DEF NnzAfter
<1>4. Whole(u, pl, 0, D, key) /\ IsTree(u)
  BY <1>1, <1>3, RecountedWhole
<1>5. /\ u.page = t.page /\ u.header = h /\ u.bounds = t.bounds /\ u.pins = t.pins /\ u.cursor = t.cursor
  BY DEF Recounted
<1>6. h.depth = D /\ h.useDense = t.header.useDense /\ h.splitter = t.header.splitter
  BY <1>3 DEF SameShape
<1>7. EndOf(u) = a /\ Bounded(u) = b /\ LeafOf(t) = t.cursor[D] /\ LeafOf(t).pid = a
  <2> HIDE DEF u, h
  <2> QED BY <1>1, <1>5, <1>6 DEF EndOf, Bounded, LeafOf
<1>8. w \in LeafPut(u, LeafOf(t), leaf, key, m)
  <2>1. [t EXCEPT !.header.nnz = NnzAfter(@, leaf.entries, m)] = u
    BY <1>1, RecountIs
  <2> HIDE DEF u
  <2> QED BY <2>1 DEF PutThere
<1>9. /\ leaf.type \in {"sparse", "dense"} /\ (leaf.type = "dense" => t.header.useDense)
      /\ leaf = [type |-> leaf.type, entries |-> leaf.entries, next |-> leaf.next]
      /\ m \in Entries_ /\ a \in DOMAIN t.page
      /\ \A k \in ks : pl[a].lower <= k /\ k < pl[a].upper
      /\ KeysWithin(ks, pl[a].lower, pl[a].upper)
      /\ ~Fits(leaf.type, ks) => \E x \in ks : Fits(leaf.type, ks \ {x})
      /\ pl[a].lower \in Nat /\ pl[a].upper \in Nat
  BY <1>2 DEF PutEntries
<1>10. b.type = leaf.type /\ b.lower = t.cursor[D].lower /\ b.upper = t.cursor[D].upper
       /\ b = [type |-> leaf.type, lower |-> LeafOf(t).lower, upper |-> LeafOf(t).upper]
  BY <1>7 DEF Bounded
<1> HIDE DEF u, h, leaf, b, ks, nnz
<1>11. ASSUME (\E pl2 : Ready(w, pl2, {key})) /\ Replaces(u, w, a, m) PROVE PutDone(t, w, key, m)
  BY <1>3, <1>5, <1>11 DEF PutDone, Replaces, nnz, leaf
<1>12. CASE Fits(leaf.type, ks)
  <2> DEFINE e == Leaf(leaf.type, m, leaf.next)
  <2>1. w = [u EXCEPT !.page[a].entries = m]
    BY <1>7, <1>8, <1>12 DEF LeafPut, PutAnswer, ks
  <2>2. [leaf EXCEPT !.entries = m] = e
    BY <1>9 DEF Leaf
  <2>3. u.page[a] = leaf
    BY <1>5 DEF leaf
  <2>4. [u.page EXCEPT ![a].entries = m] = [u.page EXCEPT ![a] = [leaf EXCEPT !.entries = m]]
    BY <2>3
  <2>5. w = Repaged(u, a, e)
    <3>1. w = [page |-> [u.page EXCEPT ![a].entries = m], header |-> u.header,
            bounds |-> u.bounds, pins |-> u.pins,
               cursor |-> u.cursor]
      BY <1>4, <2>1 DEF IsTree
    <3> QED BY <2>2, <2>4, <3>1 DEF Repaged
  <2>6. e = [type |-> e.type, entries |-> m, next |-> e.next] /\ e.type = leaf.type /\ e.next = leaf.next
    BY DEF Leaf
  <2> HIDE DEF e
  <2>7. LeafFor(u, pl, m, e)
    BY <1>5, <1>6, <1>7, <1>9, <1>12, <2>3, <2>6 DEF LeafFor, ks
  <2>8. Whole(w, pl, 0, w.header.depth, key) /\ Replaces(u, w, a, m)
    BY <1>4, <1>5, <1>6, <1>7, <2>5, <2>7, LeafReplaced
  <2> QED BY <1>11, <2>8, WholeReady
<1>13. CASE ~Fits(leaf.type, ks) /\ Fits(Other(leaf.type), ks) /\ t.header.useDense
  <2> DEFINE e == Leaf(Other(leaf.type), m, InvalidPid)
  <2>1. w = [u EXCEPT !.page[a] = e]
    BY <1>5, <1>6, <1>7, <1>8, <1>13 DEF LeafPut, PutAnswer, ks
  <2>5. w = Repaged(u, a, e)
    BY <1>4, <2>1 DEF IsTree, Repaged
  <2>6. e = [type |-> e.type, entries |-> m, next |-> e.next] /\ e.type = Other(leaf.type)
          /\ e.next = InvalidPid
    BY DEF Leaf
  <2>7. e.type \in {"sparse", "dense"}
    BY <2>6 DEF Other
  <2> HIDE DEF e
  <2>8. LeafFor(u, pl, m, e)
    BY <1>5, <1>6, <1>7, <1>9, <1>13, <2>6, <2>7 DEF LeafFor, ks
  <2>9. Whole(w, pl, 0, w.header.depth, key) /\ Replaces(u, w, a, m)
    BY <1>4, <1>5, <1>6, <1>7, <2>5, <2>8, LeafReplaced
  <2> QED BY <1>11, <2>9, WholeReady
<1>14. CASE ~Fits(leaf.type, ks) /\ ~(Fits(Other(leaf.type), ks) /\ t.header.useDense)
  <2>1. /\ w \in {Split(u, key, m, spKey) : spKey \in SplitKeys(u.header.splitter, b, ks,
             u.header.useDense)}
    BY <1>5, <1>6, <1>7, <1>8, <1>10, <1>14 DEF LeafPut, PutAnswer, ks
  <2>2. PICK spKey \in SplitKeys(u.header.splitter, b, ks, u.header.useDense) : w = Split(u, key,
          m, spKey)
    BY <2>1
  <2>3. t.header.useDense \in BOOLEAN
    BY <1>1 DEF IsHeader
  <2>4. Overflows(b, pl[a].lower, pl[a].upper, ks, t.header.useDense)
    <3>1. t.cursor[D].lower \in Nat /\ t.cursor[D].lower <= pl[a].lower
            /\ t.cursor[D].upper \in {0, pl[a].upper}
      BY <1>1, TrackLevel DEF EndOf
    <3>2. ~t.header.useDense => leaf.type = "sparse"
      BY <1>9
    <3>3. ~Fits(b.type, ks) /\ \E x \in ks : Fits(b.type, ks \ {x})
      BY <1>9, <1>10, <1>14
    <3> HIDE DEF D, a
    <3> QED BY SMTT(30), <1>9, <1>10, <1>14, <2>3, <3>1, <3>2, <3>3 DEF Overflows
  <2>5. Splits(u, pl, key, m, spKey)
    BY <1>1, <1>4, <1>5, <1>6, <1>7, <1>9, <2>2, <2>4 DEF Splits, ks
  <2>6. (\E pl2 : Ready(w, pl2, {key})) /\ Replaces(u, w, a, m)
    BY <1>7, <2>2, <2>5, SplitDone
  <2> QED BY <1>11, <2>6
<1> QED BY <1>12, <1>13, <1>14

-----------------------------------------------------------------------------

(* The leaf a search finds is the only one that may have the key.          *)
AtLeaf(P, pl, a, key) ==
  /\ a \in DOMAIN P /\ ~IsInternal(P, a) /\ Within(pl, a, key)
  /\ \A v : ~HoldsElsewhere(P, a, key, v)

(* A key lies in one leaf. *)
LEMMA OnlyLeaf ==
  ASSUME NEW P, NEW root, NEW depth, NEW pl, Settled(P, root, depth, pl), NEW a \in DOMAIN P,
         ~IsInternal(P, a), NEW key \in Nat, Within(pl, a, key)
  PROVE  AtLeaf(P, pl, a, key)
<1>1. ASSUME NEW p \in DOMAIN P, NEW v, HasEntry(P, p, key, v) PROVE p = a
  <2>1. Laid(P, root, depth, pl, 0, 0, 0)
    BY DEF Settled
  <2>2. ~IsInternal(P, p) /\ key \in DOMAIN P[p].entries
    BY <1>1 DEF HasEntry
  <2>3. Within(pl, p, key)
    BY <2>1, <2>2 DEF Laid, PagesSound, LeafSound, Within
  <2>4. pl[p].level = pl[a].level
    <3>1. Placed(P, depth, pl)
      BY <2>1 DEF Laid
    <3>2. /\ pl[p].level \in 1..depth /\ ~(pl[p].level < depth) /\ depth \in Nat
          /\ pl[a].level \in 1..depth /\ ~(pl[a].level < depth)
      BY <2>2, <3>1, SpotIs
    <3> QED BY <3>2
  <2> QED BY <2>1, <2>3, <2>4, OnlyPlace
<1> QED BY <1>1 DEF AtLeaf, HoldsElsewhere

(* A search of a tree that is ready for the key. *)
SearchDone(t, pl, key, u) ==
  /\ IsTree(u) /\ u.page = t.page /\ u.header = t.header /\ u.bounds = t.bounds
  /\ u.cursor # <<>> /\ Len(u.cursor) = t.header.depth
  /\ LeafOf(u) = u.cursor[t.header.depth] /\ LeafOf(u).pid = EndOf(u)
  /\ AtLeaf(t.page, pl, EndOf(u), key)
  /\ Whole(u, pl, 0, u.header.depth, key)

(* A search leaves the tree ready, with the cursor on the key's leaf. *)
LEMMA SearchIsDone ==
  ASSUME NEW t, NEW pl, NEW ahead, Ready(t, pl, ahead), NEW key \in ahead, key \in Nat, key < EndsBy,
         NEW u, u = Searched(t, key)
  PROVE  SearchDone(t, pl, key, u)
<1> DEFINE D == t.header.depth
           a == EndOf(u)
           P == t.page
<1>1. Searches(t, pl, key, u)
  BY SearchedIs
<1>2. Whole(u, pl, 0, u.header.depth, key)
  BY <1>1, SearchedWhole
<1>3. /\ IsTree(u) /\ u.page = P /\ u.header = t.header /\ u.bounds = t.bounds
      /\ Found(P, t.header.root, D, pl, t.bounds, u.cursor, key)
  BY <1>1 DEF Searches
<1>4. Settled(P, t.header.root, D, pl)
  BY DEF Ready, AtRest
<1>5. D \in Nat /\ D > 0 /\ D \in 1..D /\ ~(D < D)
  <2>1. D \in Nat /\ D > 0
    BY <1>2, <1>3 DEF Whole, Track, IsHeader
  <2> QED BY <2>1
<1>6. /\ Len(u.cursor) = D /\ LevelGood(P, pl, t.bounds, u.cursor, D) /\ Within(pl, u.cursor[D].pid, key)
  BY <1>3, <1>5 DEF Found
<1>7. u.cursor # <<>> /\ LeafOf(u) = u.cursor[D] /\ LeafOf(u).pid = a
  <2>1. Len(<<>>) = 0
    OBVIOUS
  <2> QED BY <1>3, <1>5, <1>6, <2>1 DEF LeafOf, EndOf
<1>8. a \in DOMAIN P /\ pl[a].level = D /\ Within(pl, a, key)
  BY <1>6, <1>7 DEF LevelGood
<1>9. ~IsInternal(P, a)
  <2>1. Placed(P, D, pl)
    BY <1>4 DEF Settled, Laid
  <2> HIDE DEF D, a, P
  <2> QED BY <1>5, <1>8, <2>1, SpotIs
<1> HIDE DEF a, P, D
<1>10. AtLeaf(P, pl, a, key)
  BY <1>4, <1>8, <1>9, OnlyLeaf
<1> QED BY <1>2, <1>3, <1>6, <1>7, <1>10 DEF SearchDone, a, P, D

(* What a put does to the tree. *)
PutStep(t, w, key, datum) ==
  /\ \E pl2 : Ready(w, pl2, {key})
  /\ \A k, v : Holds(w.page, k, v)
                 <=> (k = key /\ v = datum /\ datum # Default) \/ (k # key /\ Holds(t.page, k, v))
  /\ w.header.nnz = (t.header.nnz + (IF datum = Default THEN 0 ELSE 1)
                                  - (IF \E v : Holds(t.page, key, v) THEN 1 ELSE 0)) % SizeMod
  /\ DOMAIN t.bounds = {} => DOMAIN w.bounds = {}

(* putHelper leaves the tree ready, with the entry put, and the others kept. *)
LEMMA PutHelperDone ==
  ASSUME NEW t, NEW pl, NEW ahead, Ready(t, pl, ahead), NEW key \in ahead, key \in Nat, key < EndsBy,
         NEW datum \in Value, NEW w, w \in PutHelper(t, key, datum).trees
  PROVE  PutStep(t, w, key, datum)
<1> DEFINE u == Searched(t, key)
           a == EndOf(u)
           P == t.page
           old == P[a].entries
           m == WithEntry(old, key, datum)
<1>1. SearchDone(t, pl, key, u)
  <2> HIDE DEF u
  <2>1. u = Searched(t, key)
    BY DEF u
  <2> QED BY <2>1, SearchIsDone
<1> HIDE DEF u
<1>2. /\ u.page = P /\ u.header = t.header /\ u.bounds = t.bounds /\ LeafOf(u).pid = a
      /\ AtLeaf(P, pl, a, key) /\ Whole(u, pl, 0, u.header.depth, key)
  BY <1>1 DEF SearchDone
<1>3. w \in PutThere(u, u.page[a], key, m).trees
  BY <1>2 DEF PutHelper, PutAt, EntriesAt, u
<1>4. PutInto(u, pl, key, datum, m)
  BY <1>2 DEF PutInto, AtLeaf
<1> HIDE DEF m
<1>5. PutDone(u, w, key, m)
  BY <1>3, <1>4, PutThereDone
<1>6. PutEntries(u, pl, m)
  BY <1>4, PutEntriesAre
<1>7. m \in Entries_ /\ old \in Entries_ /\ key \in Key
  BY <1>2, <1>6, ConstantsAre DEF PutEntries
<1> HIDE DEF P, a, old
<1>8. /\ DOMAIN m = IF datum = Default THEN DOMAIN old \ {key} ELSE DOMAIN old \cup {key}
      /\ \A k \in DOMAIN m : m[k] = IF k = key THEN datum ELSE old[k]
  <2>1. m = WithEntry(old, key, datum)
    BY DEF m
  <2>2. EntryPut(old, key, datum, m)
    BY <1>7, <2>1, WithEntryIs
  <2> QED BY <2>2 DEF EntryPut
<1>9. \A k, v : HasEntry(P, a, k, v) <=> k \in DOMAIN old /\ old[k] = v
  BY <1>2 DEF HasEntry, AtLeaf, old
<1>10. \A k, v : Holds(P, k, v) <=> (k \in DOMAIN old /\ old[k] = v) \/ HoldsElsewhere(P, a, k, v)
  BY <1>2, <1>9 DEF Holds, HoldsElsewhere, AtLeaf
<1>11. \A v : ~HoldsElsewhere(P, a, key, v)
  BY <1>2 DEF AtLeaf
<1>12. \A k, v : Holds(w.page, k, v) <=> (k \in DOMAIN m /\ m[k] = v) \/ HoldsElsewhere(P, a, k, v)
  BY <1>2, <1>5 DEF PutDone, HoldsInstead, a, P
<1>13. ASSUME NEW k, NEW v
       PROVE  Holds(w.page, k, v)
                <=> (k = key /\ v = datum /\ datum # Default) \/ (k # key /\ Holds(P, k, v))
  <2>1. CASE k = key
    <3>1. key \in DOMAIN m <=> datum # Default
      BY <1>8
    <3>2. key \in DOMAIN m => m[key] = datum
      BY <1>8
    <3> QED BY <1>11, <1>12, <2>1, <3>1, <3>2
  <2>2. CASE k # key
    <3>1. k \in DOMAIN m <=> k \in DOMAIN old
      BY <1>8, <2>2
    <3>2. k \in DOMAIN m => m[k] = old[k]
      BY <1>8, <2>2
    <3> QED BY <1>10, <1>12, <2>2, <3>1, <3>2
  <2> QED BY <2>1, <2>2
<1>14. w.header.nnz = NnzAfter(t.header.nnz, old, m)
  BY <1>2, <1>5 DEF PutDone, a, old
<1>15. w.header.nnz = (t.header.nnz + (IF datum = Default THEN 0 ELSE 1)
                                    - (IF \E v : Holds(P, key, v) THEN 1 ELSE 0)) % SizeMod
  <2>1. (\E v : Holds(P, key, v)) <=> key \in DOMAIN old
    BY <1>10, <1>11
  <2>2. IsFiniteSet(DOMAIN old) /\ Cardinality(DOMAIN old) \in Nat
    BY <1>7, EntriesAre, FS_CardinalityType
  <2>3. Cardinality(DOMAIN old \ {key}) = IF key \in DOMAIN old THEN Cardinality(DOMAIN old) - 1 ELSE Cardinality(DOMAIN old)
    BY <2>2, FS_RemoveElement
  <2>4. Cardinality(DOMAIN old \cup {key}) = IF key \in DOMAIN old THEN Cardinality(DOMAIN old) ELSE Cardinality(DOMAIN old) + 1
    BY <2>2, FS_AddElement
  <2>5. t.header.nnz \in Int
    BY DEF Ready, IsHeader
  <2> DEFINE N == t.header.nnz
             c == Cardinality(DOMAIN old)
             d == Cardinality(DOMAIN m)
             e == (IF datum = Default THEN 0 ELSE 1)
             f == (IF \E v : Holds(P, key, v) THEN 1 ELSE 0)
  <2>6. d - c = e - f /\ d \in Int
    BY <1>8, <2>1, <2>2, <2>3, <2>4
  <2>7. e \in Int /\ f \in Int /\ c \in Int /\ N \in Int
    BY <2>2, <2>5
  <2>8. w.header.nnz = (N + d - c) % SizeMod
    BY <1>14 DEF NnzAfter
  <2> HIDE DEF N, c, d, e, f
  <2>9. N + d - c = N + e - f
    BY <2>6, <2>7
  <2>10. w.header.nnz = (N + e - f) % SizeMod
    BY <2>8, <2>9
  <2> QED BY <2>10 DEF N, e, f
<1> QED BY <1>2, <1>5, <1>13, <1>15 DEF PutDone, PutStep, P

-----------------------------------------------------------------------------

(* The end of a cursor.                                                    *)
LEMMA ClosedReady ==
  ASSUME NEW t, NEW pl, NEW ahead, Ready(t, pl, ahead), NEW A, NEW u, u = Closed(t)
  PROVE  /\ Ready(u, pl, A) /\ u.cursor = <<>> /\ u.page = t.page /\ u.header = t.header
         /\ u.bounds = t.bounds
<1> DEFINE M == Unpin(t.pins, Pids(t.cursor))
           D == DOMAIN t.page
           root == t.header.root
<1>1. /\ IsTree(t) /\ IsHeader(t.header) /\ AtRest(t, pl) /\ DenseOnly(t.page, t.header)
      /\ CursorFor(t, pl, ahead) /\ PinsGood(D, root, t.pins, t.cursor, -1)
  BY DEF Ready
<1>2. OnLevels(pl, t.cursor)
  BY <1>1, CursorLevels
<1>3. PinsGood(D, root, M, <<>>, -1)
  <2> HIDE DEF D, root
  <2> QED BY <1>1, <1>2, ClosedPins
<1> HIDE DEF M
<1>4. u = [page |-> t.page, header |-> t.header, bounds |-> t.bounds, pins |-> M, cursor |-> <<>>]
  BY <1>1 DEF IsTree, Closed, M
<1>5. IsTree(u) /\ u.page = t.page /\ u.header = t.header /\ u.bounds = t.bounds /\ u.pins = M
        /\ u.cursor = <<>>
  BY <1>4 DEF IsTree
<1> QED BY <1>1, <1>3, <1>5 DEF Ready, AtRest, CursorFor, CursorGood

(* A tree that is ready for a key is ready for what comes after it.        *)
LEMMA ReadyAhead ==
  ASSUME NEW t, NEW pl, NEW ahead, Ready(t, pl, ahead), NEW A,
         \/ t.cursor = <<>>
         \/ DOMAIN t.bounds = {}
         \/ \A k \in A : k \in Nat /\ \E j \in ahead : j \in Nat /\ j <= k
  PROVE  Ready(t, pl, A)
<1> DEFINE c == t.cursor
           D == t.header.depth
           P == t.page
           root == t.header.root
           bd == t.bounds
<1>1. CursorGood(P, root, D, pl, bd, c, ahead) /\ IsHeader(t.header) /\ AtRest(t, pl)
  BY DEF Ready, CursorFor
<1>2. ASSUME c # <<>> PROVE PathGood(P, root, D, pl, bd, c, A)
  <2>1. PathGood(P, root, D, pl, bd, c, ahead)
    BY <1>1, <1>2 DEF CursorGood
  <2>2. /\ c \in Seq(PathLevel) /\ Len(c) = D /\ c[1].pid = root
        /\ \A i \in 1..D : LevelGood(P, pl, bd, c, i)
        /\ \A i \in 1..D-2 : Linked(P, c, i)
        /\ D > 1 => \/ Linked(P, c, D - 1)
                    \/ c[D].pid \in DOMAIN bd /\ \A k \in ahead : c[D].upper <= k
        /\ c[D].pid \in DOMAIN bd => \A k \in ahead : pl[c[D].pid].lower <= k
    BY <2>1 DEF PathGood
  <2>3. D \in Nat /\ D > 0 /\ D \in 1..D
    <3>1. D \in Nat /\ D > 0
      BY <1>1 DEF IsHeader
    <3> QED BY <3>1
  <2>4. c[D].upper \in Nat /\ pl[c[D].pid].lower \in Nat
    <3>1. c[D] \in PathLevel
      BY <2>2, <2>3
    <3>2. c[D].pid \in DOMAIN P
      BY <2>2, <2>3 DEF LevelGood
    <3>3. Placed(P, D, pl)
      BY <1>1 DEF AtRest, Settled, Laid
    <3>4. pl[c[D].pid].lower \in Nat
      <4> HIDE DEF P, D, c
      <4> QED BY <3>2, <3>3, SpotIs
    <3> QED BY <3>1, <3>4 DEF PathLevel
  <2> DEFINE p == c[D].pid
             up == c[D].upper
             lo == pl[p].lower
  <2>5. ASSUME p \in DOMAIN bd
        PROVE  /\ (\A k \in ahead : up <= k) => \A k \in A : up <= k
               /\ (\A k \in ahead : lo <= k) => \A k \in A : lo <= k
    <3>1. \A k \in A : k \in Nat /\ \E j \in ahead : j \in Nat /\ j <= k
      BY <1>2, <2>5
    <3> HIDE DEF up, lo
    <3>2. up \in Nat /\ lo \in Nat
      BY <2>4 DEF up, lo
    <3> QED BY <3>1, <3>2
  <2> HIDE DEF P, D, c, bd, root
  <2>6. D > 1 => \/ Linked(P, c, D - 1)
                 \/ c[D].pid \in DOMAIN bd /\ \A k \in A : c[D].upper <= k
    BY <2>2, <2>5
  <2>7. c[D].pid \in DOMAIN bd => \A k \in A : pl[c[D].pid].lower <= k
    BY <2>2, <2>5
  <2> QED BY <2>2, <2>6, <2>7 DEF PathGood
<1>3. CursorFor(t, pl, A)
  BY <1>2 DEF CursorFor, CursorGood
<1> QED BY <1>3 DEF Ready

-----------------------------------------------------------------------------
(* The invariant: the tree is ready for the keys of the batch that is      *)
(* under way.                                                              *)
Ascends(es) == \A i, j \in DOMAIN es : i < j => es[i].key <= es[j].key
KeysOf(es) == {es[i].key : i \in DOMAIN es}
IsBatch(es, n) == es \in Seq(Entry) /\ Len(es) <= n

TreeIs == IsTree(Tree) /\ \E pl : Ready(Tree, pl, KeysOf(job))
TreeInv ==
  /\ TreeIs
  /\ stored \in [nLeaves : 0..SizeMod-1, nnz : 0..SizeMod-1]
  /\ IsBatch(job, MaxBatch - 1)
  /\ job = <<>> => cursor = <<>>
  /\ DOMAIN bounds = {} \/ Ascends(job)

(* The tree that the operators work on is made of the variables. *)
LEMMA TreeFields ==
  /\ IsTree(Tree) /\ Tree.page = page /\ Tree.header = header /\ Tree.bounds = bounds
  /\ Tree.pins = pins /\ Tree.cursor = cursor
  BY DEF IsTree, Tree

(* And the variables become those of the tree that an operator returns. *)
LEMMA TreeBecomes ==
  ASSUME NEW t, IsTree(t), Becomes(t)
  PROVE  /\ Tree' = t /\ page' = t.page /\ header' = t.header /\ bounds' = t.bounds
         /\ pins' = t.pins /\ cursor' = t.cursor
  BY DEF IsTree, Tree, Becomes

(* Entries and what is left of them.                                       *)
LEMMA BatchTail ==
  ASSUME NEW es, NEW n \in Nat, IsBatch(es, n), es # <<>>
  PROVE  /\ Head(es) \in Entry /\ Head(es).key \in Nat /\ Head(es).datum \in Value
         /\ Head(es).key \in KeysOf(es) /\ IsBatch(Tail(es), n - 1)
         /\ KeysOf(Tail(es)) \subseteq KeysOf(es) /\ KeysOf(es) \subseteq Nat
         /\ Len(es) = 1 <=> Tail(es) = <<>>
         /\ Ascends(es) => Ascends(Tail(es)) /\ \A k \in KeysOf(Tail(es)) : Head(es).key <= k
<1>1. /\ es \in Seq(Entry) /\ Len(es) \in Nat /\ Len(es) > 0 /\ Len(es) <= n
      /\ DOMAIN es = 1..Len(es) /\ Head(es) = es[1] /\ Tail(es) \in Seq(Entry)
      /\ Len(Tail(es)) = Len(es) - 1 /\ DOMAIN Tail(es) = 1..Len(es)-1
      /\ \A i \in 1..Len(es)-1 : Tail(es)[i] = es[i + 1]
      /\ \A i \in 1..Len(es) : es[i] \in Entry
  <2>1. es \in Seq(Entry) /\ Len(es) <= n
    BY DEF IsBatch
  <2>2. Len(es) \in Nat /\ Len(es) > 0
    BY <2>1, EmptySeq
  <2>3. Head(es) = es[1] /\ Tail(es) \in Seq(Entry) /\ Len(Tail(es)) = Len(es) - 1
        /\ \A i \in 1..Len(es)-1 : Tail(es)[i] = es[i + 1]
    BY <2>1, <2>2, HeadTailProperties
  <2> QED BY <2>1, <2>2, <2>3
<1>2. \A e \in Entry : e.key \in Nat /\ e.datum \in Value
  BY ConstantsAre DEF Entry
<1> DEFINE L == Len(es)
           T == Tail(es)
<1> HIDE DEF L, T
<1>3. \A i \in 1..L-1 : i + 1 \in 1..L /\ i \in 1..L /\ (\A j \in 1..L-1 : i < j => i + 1 < j + 1)
      /\ 1 \in 1..L /\ 1 < i + 1
  BY <1>1 DEF L
<1>4. Head(es) \in Entry /\ Head(es).key \in KeysOf(es) /\ KeysOf(es) \subseteq Nat
  <2>1. 1 \in 1..Len(es)
    BY <1>1
  <2> QED BY <1>1, <1>2, <2>1 DEF KeysOf
<1>5. KeysOf(T) \subseteq KeysOf(es)
  BY <1>1, <1>3 DEF KeysOf, T, L
<1>6. ASSUME Ascends(es) PROVE Ascends(T) /\ \A k \in KeysOf(T) : Head(es).key <= k
  <2>1. \A i, j \in 1..L-1 : i < j => T[i].key <= T[j].key
    BY <1>1, <1>3, <1>6 DEF Ascends, T, L
  <2>2. \A i \in 1..L-1 : es[1].key <= T[i].key
    BY <1>1, <1>3, <1>6 DEF Ascends, T, L
  <2> QED BY <1>1, <2>1, <2>2 DEF Ascends, KeysOf, T, L
<1>7. IsBatch(T, n - 1)
  BY <1>1 DEF IsBatch, T
<1>8. L = 1 <=> T = <<>>
  <2>1. T = <<>> <=> Len(T) = 0
    BY <1>1, EmptySeq DEF T
  <2> QED BY <1>1, <2>1 DEF L, T
<1> QED BY <1>2, <1>4, <1>5, <1>6, <1>7, <1>8 DEF T, L

-----------------------------------------------------------------------------

(* The invariant of a step that only calls. *)
LEMMA InvUnchanged ==
  ASSUME TreeInv, UNCHANGED <<page, header, stored, bounds, pins, cursor, job>>
  PROVE  TreeInv'
<1>1. /\ page' = page /\ header' = header /\ stored' = stored /\ bounds' = bounds /\ pins' = pins
      /\ cursor' = cursor /\ job' = job
  OBVIOUS
<1>2. Tree' = Tree
  BY <1>1 DEF Tree
<1> QED BY <1>1, <1>2 DEF TreeInv, TreeIs

(* The invariant once an entry of the batch es has been put.               *)
AfterPut(t, es) ==
  /\ IsTree(t) /\ \E pl : Ready(t, pl, KeysOf(Tail(es)))
  /\ DOMAIN t.bounds = {} \/ Ascends(Tail(es))

(* After an entry of a batch the tree is ready for the entries that are    *)
(* left.                                                                   *)
LEMMA PutReady ==
  ASSUME NEW t, NEW pl, NEW es, NEW n \in Nat, IsBatch(es, n), es # <<>>, Ready(t, pl, KeysOf(es)),
         DOMAIN t.bounds = {} \/ Ascends(es), Head(es).key < EndsBy,
         NEW w, w \in PutHelper(t, Head(es).key, Head(es).datum).trees
  PROVE  AfterPut(w, es)
<1> DEFINE e == Head(es)
           A == KeysOf(Tail(es))
<1>1. /\ e.key \in Nat /\ e.datum \in Value /\ e.key \in KeysOf(es) /\ A \subseteq KeysOf(es)
      /\ KeysOf(es) \subseteq Nat
      /\ Ascends(es) => Ascends(Tail(es)) /\ \A k \in A : e.key <= k
  BY BatchTail
<1> HIDE DEF e, A
<1>2. PutStep(t, w, e.key, e.datum)
  <2>1. e.key < EndsBy /\ w \in PutHelper(t, e.key, e.datum).trees
    BY DEF e
  <2> QED BY <1>1, <2>1, PutHelperDone
<1>3. PICK pl2 : Ready(w, pl2, {e.key})
  BY <1>2 DEF PutStep
<1>4. DOMAIN t.bounds = {} => DOMAIN w.bounds = {}
  BY <1>2 DEF PutStep
<1>5. Ready(w, pl2, A)
  <2> DEFINE S == {e.key}
  <2>1. DOMAIN w.bounds = {} \/ \A k \in A : k \in Nat /\ \E j \in S : j \in Nat /\ j <= k
    BY <1>1, <1>4
  <2>2. Ready(w, pl2, S)
    BY <1>3
  <2> HIDE DEF S
  <2> QED BY <2>1, <2>2, ReadyAhead
<1>6. IsTree(w)
  BY <1>5 DEF Ready
<1> QED BY <1>1, <1>4, <1>5, <1>6 DEF AfterPut, A

(* One entry of a batch.                                                   *)
LEMMA InvBatchStep ==
  ASSUME TreeInv, NEW es, IsBatch(es, MaxBatch), es # <<>>, NEW pl, Ready(Tree, pl, KeysOf(es)),
         DOMAIN bounds = {} \/ Ascends(es), BatchStep(es)
  PROVE  TreeInv'
<1> DEFINE e == Head(es)
           After(t) == IF Len(es) = 1 THEN Closed(t) ELSE t
<1>1. /\ e.key \in Nat /\ KeysOf(Tail(es)) \subseteq KeysOf(es) /\ KeysOf(es) \subseteq Nat
      /\ IsBatch(Tail(es), MaxBatch - 1) /\ (Len(es) = 1 <=> Tail(es) = <<>>)
      /\ Ascends(es) => Ascends(Tail(es))
  BY BatchTail, ConstantsAre
<1>2. /\ job' = Tail(es) /\ stored' = stored
      /\ \/ e.key >= EndsBy /\ Becomes(After(Tree))
         \/ /\ e.key < EndsBy
            /\ \E t \in PutHelper(Tree, e.key, e.datum).trees : Becomes(After(t))
  BY DEF BatchStep
<1>3. ASSUME NEW t, AfterPut(t, es), Becomes(After(t)) PROVE TreeInv'
  <2>1. PICK p : Ready(t, p, KeysOf(Tail(es)))
    BY <1>3 DEF AfterPut
  <2> DEFINE u == After(t)
  <2>2. /\ Ready(u, p, KeysOf(Tail(es))) /\ u.bounds = t.bounds /\ (Len(es) = 1 => u.cursor = <<>>)
    BY <2>1, ClosedReady
  <2>3. IsTree(u)
    BY <2>2 DEF Ready
  <2> HIDE DEF u, After
  <2>4. Tree' = u /\ bounds' = u.bounds /\ cursor' = u.cursor
    BY <1>3, <2>3, TreeBecomes DEF u
  <2>5. TreeIs'
    BY <1>2, <2>2, <2>3, <2>4 DEF TreeIs
  <2>6. DOMAIN bounds' = {} \/ Ascends(job')
    BY <1>2, <1>3, <2>2, <2>4 DEF AfterPut
  <2> QED BY <1>1, <1>2, <2>2, <2>4, <2>5, <2>6 DEF TreeInv
<1>4. CASE e.key >= EndsBy /\ Becomes(After(Tree))
  <2>1. Ready(Tree, pl, KeysOf(Tail(es)))
    <3>1. \A k \in KeysOf(Tail(es)) : k \in Nat /\ \E j \in KeysOf(es) : j \in Nat /\ j <= k
      BY <1>1
    <3> QED BY <3>1, ReadyAhead
  <2>2. AfterPut(Tree, es)
    BY <1>1, <2>1, TreeFields DEF AfterPut
  <2> QED BY <1>3, <1>4, <2>2
<1>5. CASE e.key < EndsBy /\ \E t \in PutHelper(Tree, e.key, e.datum).trees : Becomes(After(t))
  <2>1. PICK t \in PutHelper(Tree, e.key, e.datum).trees : Becomes(After(t))
    BY <1>5
  <2>2. AfterPut(t, es)
    <3>1. DOMAIN Tree.bounds = {} \/ Ascends(es)
      BY TreeFields
    <3>2. Head(es).key < EndsBy /\ t \in PutHelper(Tree, Head(es).key, Head(es).datum).trees
            /\ MaxBatch \in Nat
      BY <1>5, <2>1, ConstantsAre
    <3> QED BY <3>1, <3>2, PutReady
  <2> QED BY <1>3, <2>1, <2>2
<1> QED BY <1>2, <1>4, <1>5

(* Before a batch the cursor is closed: any keys may come.                 *)
LEMMA ReadyForAny ==
  ASSUME TreeInv, job = <<>>, NEW A
  PROVE  \E pl : Ready(Tree, pl, A)
<1>1. PICK pl : Ready(Tree, pl, KeysOf(job))
  BY DEF TreeInv, TreeIs
<1>2. Tree.cursor = <<>>
  BY TreeFields DEF TreeInv
<1>3. Ready(Tree, pl, A)
  BY <1>1, <1>2, ReadyAhead
<1> QED BY <1>3

(* A batch put of careful callers preserves the invariant. *)
LEMMA InvBatchPut ==
  ASSUME Careful, TreeInv, NEW n \in 1..MaxBatch, NEW es \in [1..n -> Entry], BatchPut(es)
  PROVE  TreeInv'
<1>1. job = <<>> /\ SafeOrder([i \in DOMAIN es |-> es[i].key]) /\ BatchStep(es)
  BY DEF BatchPut
<1>2. n \in Nat /\ n >= 1 /\ n <= MaxBatch /\ DOMAIN es = 1..n
  BY ConstantsAre
<1>3. es \in Seq(Entry) /\ Len(es) = n
  BY <1>2
<1>4. IsBatch(es, MaxBatch) /\ es # <<>>
  BY <1>2, <1>3, EmptySeq DEF IsBatch
<1>5. DOMAIN bounds = {} \/ Ascends(es)
  <2> DEFINE ks == [i \in DOMAIN es |-> es[i].key]
  <2>1. \A i \in 1..n : ks[i] = es[i].key /\ ks[i] \in Nat
    BY <1>2, ConstantsAre DEF Entry
  <2>2. DOMAIN ks = 1..n /\ Len(ks) = n
    BY <1>2
  <2> HIDE DEF ks
  <2>3. CASE bounds = [p \in {} |-> <<0, 0>>]
    BY <2>3
  <2>4. CASE Ascending(ks)
    <3>1. \A i \in 1..n-1 : ks[i] <= ks[i + 1]
      BY <2>2, <2>4 DEF Ascending
    <3>2. ASSUME NEW i \in 1..n, NEW j \in 1..n, i < j PROVE ks[i] <= ks[j]
      <4> DEFINE S == {k \in i..n : ks[i] <= ks[k]}
      <4>1. i \in S
        BY <2>1
      <4>2. ASSUME NEW k \in i+1..n, k - 1 \in S PROVE k \in S
        <5>1. k - 1 \in 1..n-1 /\ (k - 1) + 1 = k /\ k \in i..n /\ k \in 1..n /\ k - 1 \in 1..n
          BY <1>2
        <5>2. ks[k - 1] <= ks[k]
          BY <3>1, <5>1
        <5> QED BY <2>1, <4>2, <5>1, <5>2
      <4>3. i \in Int /\ n \in Int
        BY <1>2
      <4> HIDE DEF S
      <4>4. \A k \in i..n : k \in S
        BY <4>1, <4>2, <4>3, UpTo
      <4>5. j \in i..n
        BY <3>2
      <4> QED BY <4>4, <4>5 DEF S
    <3> QED BY <1>2, <2>1, <3>2 DEF Ascends
  <2> QED BY <1>1, <2>3, <2>4 DEF SafeOrder, ks
<1>6. PICK pl : Ready(Tree, pl, KeysOf(es))
  BY <1>1, ReadyForAny
<1> QED BY <1>1, <1>4, <1>5, <1>6, InvBatchStep

(* So does the next step of the batch. *)
LEMMA InvBatchPutNext ==
  ASSUME TreeInv, BatchPutNext
  PROVE  TreeInv'
<1>1. job # <<>> /\ BatchStep(job)
  BY DEF BatchPutNext
<1>2. IsBatch(job, MaxBatch) /\ (DOMAIN bounds = {} \/ Ascends(job))
  BY ConstantsAre DEF TreeInv, IsBatch
<1>3. PICK pl : Ready(Tree, pl, KeysOf(job))
  BY DEF TreeInv, TreeIs
<1> QED BY <1>1, <1>2, <1>3, InvBatchStep

(* So does a put. *)
LEMMA InvTreePut ==
  ASSUME TreeInv, NEW e \in Entry, TreePut(e)
  PROVE  TreeInv'
<1>1. job = <<>> /\ stored' = stored /\ job' = job
  BY DEF TreePut
<1>2. CASE e.key >= EndsBy /\ UNCHANGED <<page, header, bounds, pins, cursor>>
  BY <1>1, <1>2, InvUnchanged
<1>3. CASE e.key < EndsBy /\ \E t \in PutHelper(Tree, e.key, e.datum).trees : Becomes(Closed(t))
  <2>1. PICK t \in PutHelper(Tree, e.key, e.datum).trees : Becomes(Closed(t))
    BY <1>3
  <2>2. e.key \in Nat /\ e.datum \in Value /\ e.key < EndsBy
    BY <1>3, ConstantsAre DEF Entry
  <2> DEFINE A == {e.key}
  <2>3. PICK pl : Ready(Tree, pl, A)
    BY <1>1, ReadyForAny
  <2>4. PutStep(Tree, t, e.key, e.datum)
    <3>1. e.key \in A
      OBVIOUS
    <3> HIDE DEF A
    <3> QED BY <2>1, <2>2, <2>3, <3>1, PutHelperDone
  <2>5. PICK pl2 : Ready(t, pl2, {e.key})
    BY <2>4 DEF PutStep
  <2> DEFINE u == Closed(t)
  <2>6. Ready(u, pl2, KeysOf(job)) /\ u.cursor = <<>>
    BY <2>5, ClosedReady
  <2>7. IsTree(u)
    BY <2>6 DEF Ready
  <2> HIDE DEF u
  <2>8. Tree' = u /\ cursor' = u.cursor
    BY <2>1, <2>7, TreeBecomes DEF u
  <2>9. TreeIs'
    BY <1>1, <2>6, <2>7, <2>8 DEF TreeIs
  <2>10. Ascends(job')
    BY <1>1 DEF Ascends
  <2> QED BY <1>1, <2>6, <2>8, <2>9, <2>10 DEF TreeInv
<1> QED BY <1>2, <1>3 DEF TreePut

-----------------------------------------------------------------------------

(* The leaves of a range get, one after the other.                         *)
Onwards(P, last, v) ==
  IF Last(v) = last \/ P[Last(v)].next = InvalidPid THEN v ELSE Append(v, P[Last(v)].next)
Walk(P, first, last, n) ==
  CHOOSE f : f = [i \in 0..n |-> IF i = 0 THEN <<first>> ELSE Onwards(P, last, f[i - 1])]
Walks(P, first, last, n, f) ==
  f[0] = <<first>> /\ \A i \in 1..n : f[i] = Onwards(P, last, f[i - 1])

(* The recursive function of Visited is defined.                           *)
LEMMA WalkExists ==
  ASSUME NEW P, NEW first, NEW last, NEW n \in Nat, NEW f, f = Walk(P, first, last, n)
  PROVE  Walks(P, first, last, n, f)
<1> DEFINE Step(c, i) == IF i = 0 THEN <<first>> ELSE Onwards(P, last, c)
           IsWalk(h, k) == h = [i \in 0..k |-> Step(h[i - 1], i)]
           S == {k \in 0..n : \E h : IsWalk(h, k)}
<1>1. 0 \in 0..n
  OBVIOUS
<1>2. 0 \in S
  <2> DEFINE h == [i \in 0..0 |-> <<first>>]
  <2>1. h = [i \in 0..0 |-> IF i = 0 THEN <<first>> ELSE Onwards(P, last, h[i - 1])]
    <3>1. \A i \in 0..0 : i = 0
      OBVIOUS
    <3> QED BY <3>1
  <2>2. IsWalk(h, 0)
    BY <2>1
  <2> HIDE DEF IsWalk
  <2> QED BY <1>1, <2>2
<1>3. ASSUME NEW k \in 0+1..n, k - 1 \in S PROVE k \in S
  <2>1. PICK h : IsWalk(h, k - 1)
    BY <1>3
  <2> HIDE DEF Step
  <2> DEFINE g == [i \in 0..k |-> IF i = k THEN Step(h[k - 1], k) ELSE h[i]]
  <2>2. \A i \in 0..k-1 : h[i] = Step(h[i - 1], i)
    BY <2>1
  <2>3. \A c, d : Step(c, 0) = Step(d, 0)
    BY DEF Step
  <2>4. ASSUME NEW i \in 0..k PROVE g[i] = Step(g[i - 1], i)
    <3>1. i # 0 => i - 1 \in 0..k /\ i - 1 # k
      OBVIOUS
    <3>2. i # 0 => g[i - 1] = h[i - 1]
      BY <3>1
    <3>3. g[i] = IF i = k THEN Step(h[k - 1], k) ELSE h[i]
      OBVIOUS
    <3> HIDE DEF g
    <3>4. i # k => i \in 0..k-1
      OBVIOUS
    <3>5. k # 0
      OBVIOUS
    <3> QED BY <2>2, <2>3, <3>2, <3>3, <3>4, <3>5
  <2>5. g = [i \in 0..k |-> g[i]]
    OBVIOUS
  <2>6. IsWalk(g, k)
    <3> HIDE DEF g
    <3> QED BY <2>4, <2>5
  <2>7. k \in 0..n
    OBVIOUS
  <2> HIDE DEF IsWalk
  <2> QED BY <2>6, <2>7
<1>4. n \in S
  <2> DEFINE lo == 0
  <2>1. lo \in Int /\ n \in Int /\ lo \in S /\ n \in lo..n
    BY <1>1, <1>2
  <2>2. \A k \in lo+1..n : k - 1 \in S => k \in S
    BY <1>3
  <2> HIDE DEF S, lo
  <2>3. \A k \in lo..n : k \in S
    BY <2>1, <2>2, UpTo
  <2> QED BY <2>1, <2>3
<1>5. IsWalk(f, n)
  <2>1. PICK h : IsWalk(h, n)
    BY <1>4
  <2> QED BY <2>1 DEF Walk
<1>6. \A i \in 0..n : f[i] = Step(f[i - 1], i)
  <2> HIDE DEF Step
  <2> QED BY <1>5
<1>7. f[0] = <<first>>
  BY <1>1, <1>6
<1>8. ASSUME NEW i \in 1..n PROVE f[i] = Onwards(P, last, f[i - 1])
  <2>1. i \in 0..n /\ i # 0
    OBVIOUS
  <2>2. f[i] = Step(f[i - 1], i)
    BY <1>6, <2>1
  <2> QED BY <2>1, <2>2
<1> QED BY <1>7, <1>8 DEF Walks

(* They are leaves, chained one to the next.                               *)
Chained(P, first, last, v) ==
  /\ v \in Seq(DOMAIN P) /\ Len(v) >= 1 /\ v[1] = first
  /\ \A i \in 1..Len(v) : ~IsInternal(P, v[i])
  /\ \A i \in 1..Len(v)-1 : v[i] # last /\ P[v[i]].next = v[i + 1]

(* The next leaf of the chain is chained to the last one. *)
LEMMA ChainedOn ==
  ASSUME NEW P, NEW root, NEW depth, NEW pl, Settled(P, root, depth, pl), NEW first, NEW last,
         NEW v, Chained(P, first, last, v), NEW w, w = Onwards(P, last, v)
  PROVE  Chained(P, first, last, w)
<1> DEFINE n == Len(v)
           p == v[n]
           q == P[p].next
           D == DOMAIN P
<1>1. v \in Seq(D) /\ n \in Nat /\ n >= 1 /\ n \in 1..n /\ p \in D /\ ~IsInternal(P, p)
  BY DEF Chained
<1>2. CASE p = last \/ q = InvalidPid
  BY <1>2 DEF Onwards, Last
<1>3. CASE p # last /\ q # InvalidPid
  <2>1. Nodes(P) /\ PagesSound(P, pl, 0, 0, 0)
    BY DEF Settled, Laid
  <2>2. q \in D /\ ~IsInternal(P, q)
    <3>1. LeafSound(P, pl, 0, p)
      BY <1>1, <2>1 DEF PagesSound
    <3>2. q \in D \cup {InvalidPid}
      BY <1>1, <2>1, NodeIs
    <3> QED BY <1>3, <3>1, <3>2 DEF LeafSound
  <2>3. w = Append(v, q)
    BY <1>3 DEF Onwards, Last
  <2>4. /\ \A i \in 1..n : ~IsInternal(P, v[i])
        /\ \A i \in 1..n-1 : v[i] # last /\ P[v[i]].next = v[i + 1]
        /\ v[1] = first
    BY DEF Chained
  <2> HIDE DEF q, D
  <2>5. w \in Seq(D) /\ Len(w) = n + 1 /\ w[n + 1] = q /\ \A i \in 1..n : w[i] = v[i]
    BY <1>1, <2>2, <2>3, AppendProperties
  <2>6. P[v[n]].next = q /\ v[n] # last
    BY <1>3 DEF q
  <2> HIDE DEF n, p
  <2>7. \A i \in 1..n+1 : i \in 1..n \/ i = n + 1
    BY <1>1
  <2>8. \A i \in 1..n : (i \in 1..n-1 \/ i = n) /\ (i \in 1..n-1 => i + 1 \in 1..n)
    BY <1>1
  <2>9. \A i \in 1..Len(w) : ~IsInternal(P, w[i])
    BY <2>2, <2>4, <2>5, <2>7
  <2>10. ASSUME NEW i \in 1..n PROVE w[i] # last /\ P[w[i]].next = w[i + 1]
    <3>1. CASE i \in 1..n-1
      BY <2>4, <2>5, <2>8, <3>1
    <3>2. CASE i = n
      BY <2>5, <2>6, <3>2
    <3> QED BY <2>8, <3>1, <3>2
  <2>11. Len(w) >= 1 /\ Len(w) - 1 = n /\ w[1] = first
    BY <1>1, <2>4, <2>5
  <2> QED BY <2>5, <2>9, <2>10, <2>11 DEF Chained, D
<1> QED BY <1>2, <1>3

(* A range get visits leaves of one chain, from the leaf of its first key  *)
(* on.                                                                     *)
LEMMA VisitedIs ==
  ASSUME NEW pl, Ready(Tree, pl, Nat), NEW b \in Nat, NEW e \in Nat, b < e, e <= EndsBy
  PROVE  /\ Chained(page, LeafPid(b), LeafPid(e - 1), Visited(b, e))
         /\ AtLeaf(page, pl, LeafPid(b), b) /\ AtLeaf(page, pl, LeafPid(e - 1), e - 1)
<1>1. \A k \in Nat : k < EndsBy => AtLeaf(page, pl, LeafPid(k), k)
  <2> SUFFICES ASSUME NEW k \in Nat, k < EndsBy PROVE AtLeaf(page, pl, LeafPid(k), k)
    OBVIOUS
  <2> DEFINE u == Searched(Tree, k)
             A == Nat
  <2>1. SearchDone(Tree, pl, k, u)
    <3>1. k \in A /\ Ready(Tree, pl, A)
      OBVIOUS
    <3> HIDE DEF A, u
    <3>2. u = Searched(Tree, k)
      BY DEF u
    <3> QED BY <3>1, <3>2, SearchIsDone
  <2> QED BY <2>1, TreeFields DEF SearchDone, LeafPid
<1>2. b < EndsBy /\ e - 1 \in Nat /\ e - 1 < EndsBy
  BY ConstantsAre
<1> DEFINE first == LeafPid(b)
           last == LeafPid(e - 1)
           n == NextPid(Tree)
           f == Walk(page, first, last, n)
<1>3. Settled(page, header.root, header.depth, pl)
  BY TreeFields DEF Ready, AtRest
<1>4. n \in Nat
  BY <1>3, TreeFields DEF Settled, Laid, Nodes, NextPid
<1>5. Visited(b, e) = f[n]
  BY DEF Visited, Walk, Onwards
<1>6. AtLeaf(page, pl, first, b) /\ AtLeaf(page, pl, last, e - 1)
  BY <1>1, <1>2
<1> HIDE DEF first, last, n
<1>7. Walks(page, first, last, n, f)
  BY <1>4, WalkExists
<1>8. Chained(page, first, last, f[0])
  <2>1. f[0] = <<first>> /\ first \in DOMAIN page /\ ~IsInternal(page, first)
    BY <1>6, <1>7 DEF Walks, AtLeaf
  <2> QED BY <2>1 DEF Chained
<1>9. ASSUME NEW i \in 0+1..n, Chained(page, first, last, f[i - 1]) PROVE Chained(page, first,
             last, f[i])
  <2>1. f[i] = Onwards(page, last, f[i - 1])
    BY <1>7 DEF Walks
  <2> DEFINE v == f[i - 1]
             w == f[i]
  <2>2. Chained(page, first, last, v) /\ w = Onwards(page, last, v)
    BY <1>9, <2>1
  <2> HIDE DEF v, w
  <2>3. Chained(page, first, last, w)
    BY <1>3, <2>2, ChainedOn
  <2> QED BY <2>3 DEF w
<1> HIDE DEF f
<1>10. Chained(page, first, last, f[n])
  <2> DEFINE S == {i \in 0..n : Chained(page, first, last, f[i])}
             lo == 0
  <2>1. lo \in S /\ lo \in Int /\ n \in Int /\ n \in lo..n
    BY <1>4, <1>8
  <2>2. \A i \in lo+1..n : i - 1 \in S => i \in S
    BY <1>4, <1>9
  <2> HIDE DEF lo, S
  <2>3. n \in S
    BY <2>1, <2>2, UpTo
  <2> QED BY <2>3 DEF S
<1> QED BY <1>5, <1>6, <1>10 DEF first, last, f

-----------------------------------------------------------------------------

(* A tree without a cursor, with other bounds.                             *)
LEMMA OtherBounds ==
  ASSUME TreeInv, job = <<>>, NEW pl, Ready(Tree, pl, Nat),
         BoundsGood(page, header.root, pl, bounds'),
         UNCHANGED <<page, header, stored, pins, cursor, job>>
  PROVE  TreeInv'
<1>1. /\ page' = page /\ header' = header /\ stored' = stored /\ pins' = pins /\ cursor' = cursor
      /\ job' = job /\ cursor = <<>>
  BY DEF TreeInv
<1>2. IsTree(Tree') /\ Tree'.page = page /\ Tree'.header = header /\ Tree'.bounds = bounds'
      /\ Tree'.pins = pins /\ Tree'.cursor = <<>>
  BY <1>1 DEF IsTree, Tree
<1>3. /\ IsHeader(header) /\ Settled(page, header.root, header.depth, pl) /\ DenseOnly(page, header)
      /\ PinsGood(DOMAIN page, header.root, pins, <<>>, -1)
  BY <1>1, TreeFields DEF Ready, AtRest
<1>4. Ready(Tree', pl, KeysOf(job'))
  BY <1>2, <1>3 DEF Ready, AtRest, CursorFor, CursorGood
<1>5. TreeIs'
  BY <1>2, <1>4 DEF TreeIs
<1>6. Ascends(job')
  BY <1>1 DEF Ascends
<1> QED BY <1>1, <1>5, <1>6 DEF TreeInv

(* The leaves a range get builds an object for are not the root.           *)
LEMMA InvRangeGet ==
  ASSUME TreeInv, NEW b \in 0..EndsBy-1, NEW e \in b+1..EndsBy, RangeGet(b, e)
  PROVE  TreeInv'
<1> DEFINE v == Visited(b, e)
           middle == {v[i] : i \in DOMAIN v} \ {v[1], LeafPid(e - 1)}
           root == header.root
<1>1. /\ job = <<>> /\ UNCHANGED <<page, header, stored, pins, cursor, job>>
      /\ \E built \in SUBSET (middle \ DOMAIN bounds) :
           bounds' = [p \in DOMAIN bounds \cup built |-> IF p \in built THEN <<0, 0>> ELSE bounds[p]]
  BY DEF RangeGet
<1>2. b \in Nat /\ e \in Nat /\ b < e /\ e <= EndsBy
  BY ConstantsAre
<1>3. PICK pl : Ready(Tree, pl, Nat)
  BY <1>1, ReadyForAny
<1>4. /\ Chained(page, LeafPid(b), LeafPid(e - 1), v) /\ AtLeaf(page, pl, LeafPid(b), b)
  BY <1>2, <1>3, VisitedIs
<1>5. Settled(page, root, header.depth, pl) /\ BoundsGood(page, root, pl, bounds)
  BY <1>3, TreeFields DEF Ready, AtRest
<1>6. PICK built \in SUBSET (middle \ DOMAIN bounds) :
        bounds' = [p \in DOMAIN bounds \cup built |-> IF p \in built THEN <<0, 0>> ELSE bounds[p]]
  BY <1>1
<1>7. v \in Seq(DOMAIN page) /\ v[1] = LeafPid(b) /\ DOMAIN v = 1..Len(v) /\ v[1] \in DOMAIN page
      /\ ~IsInternal(page, v[1]) /\ \A i \in 1..Len(v) : ~IsInternal(page, v[i]) /\ v[i] \in DOMAIN page
  BY <1>4 DEF Chained, AtLeaf
<1>8. ASSUME NEW p \in built
      PROVE  p \in DOMAIN page /\ ~IsInternal(page, p) /\ p # root /\ 0 <= pl[p].lower
  <2>1. p \in DOMAIN page /\ ~IsInternal(page, p) /\ p # v[1]
    BY <1>6, <1>7
  <2>2. Placed(page, header.depth, pl) /\ Rooted(page, root, pl, 0, 0)
    BY <1>5 DEF Settled, Laid
  <2> DEFINE q == v[1]
             k == pl[q].lower
             depth == header.depth
  <2>3. q \in DOMAIN page /\ ~IsInternal(page, q)
    BY <1>7
  <2> HIDE DEF root, q, depth
  <2>4. /\ pl[p].lower \in Nat /\ pl[p].level \in 1..depth /\ ~(pl[p].level < depth)
        /\ k \in Nat /\ k < pl[q].upper /\ pl[q].upper <= EndsBy /\ pl[q].upper \in Nat
             /\ pl[q].level \in 1..depth /\ ~(pl[q].level < depth)
        /\ depth \in Nat
    <3>1. Placed(page, depth, pl)
      BY <2>2 DEF depth
    <3> QED BY <2>1, <2>3, <3>1, SpotIs
  <2>5. k < EndsBy
    BY <2>4, ConstantsAre
  <2> HIDE DEF k
  <2>6. root \in DOMAIN page /\ pl[root].level = 1 /\ Within(pl, root, k)
    BY <1>5, <2>4, <2>5, RootWithin
  <2>7. p # root
    <3> SUFFICES ASSUME p = root PROVE FALSE
      OBVIOUS
    <3>1. pl[p].level = pl[q].level /\ pl[q].level = pl[root].level
      BY <2>4, <2>6
    <3>2. Within(pl, q, k)
      BY <2>4 DEF Within, k
    <3>3. Laid(page, root, depth, pl, 0, 0, 0)
      BY <1>5 DEF Settled, depth
    <3>4. q = root
      BY <2>3, <2>4, <2>6, <3>1, <3>2, <3>3, OnlyPlace
    <3> QED BY <2>1, <3>4 DEF q
  <2> QED BY <2>1, <2>4, <2>7
<1>9. BoundsGood(page, root, pl, bounds')
  <2> DEFINE bd == bounds'
  <2>1. /\ DOMAIN bd = DOMAIN bounds \cup built
        /\ \A p \in DOMAIN bd : bd[p] = IF p \in built THEN <<0, 0>> ELSE bounds[p]
        /\ bd = [p \in DOMAIN bounds \cup built |-> bd[p]]
    BY <1>6
  <2>2. /\ bounds \in [DOMAIN bounds -> Nat \X Nat]
        /\ \A p \in DOMAIN bounds :
             /\ p \in DOMAIN page /\ ~IsInternal(page, p) /\ p # root
             /\ bounds[p][1] <= pl[p].lower /\ bounds[p][2] \in {0, pl[p].upper}
    BY <1>5 DEF BoundsGood
  <2>3. <<0, 0>> \in Nat \X Nat /\ <<0, 0>>[1] = 0 /\ <<0, 0>>[2] = 0
    OBVIOUS
  <2> HIDE DEF bd
  <2>4. \A p \in DOMAIN bd : bd[p] \in Nat \X Nat
    BY <2>1, <2>2, <2>3, ZenonT(40)
  <2>5. bd \in [DOMAIN bd -> Nat \X Nat]
    BY <2>1, <2>4
  <2>6. ASSUME NEW p \in DOMAIN bd
        PROVE  /\ p \in DOMAIN page /\ ~IsInternal(page, p) /\ p # root
               /\ bd[p][1] <= pl[p].lower /\ bd[p][2] \in {0, pl[p].upper}
    <3>1. CASE p \in built
      <4>1. bd[p][1] = 0 /\ bd[p][2] = 0
        BY <2>1, <2>3, <3>1
      <4> QED BY <1>8, <3>1, <4>1
    <3>2. CASE p \notin built
      BY <2>1, <2>2, <3>2
    <3> QED BY <3>1, <3>2
  <2> HIDE DEF root
  <2> QED BY <2>5, <2>6 DEF BoundsGood, bd
<1> QED BY <1>1, <1>3, <1>9, OtherBounds

(* The object of a page that is not pinned is not on the path.             *)
LEMMA InvEvict ==
  ASSUME TreeInv, NEW x \in DOMAIN page, Evict(x)
  PROVE  TreeInv'
<1> DEFINE root == header.root
           depth == header.depth
           A == KeysOf(job)
           bd == bounds'
<1>1. /\ x \in DOMAIN bounds /\ pins[x] = 0 /\ bd = [q \in DOMAIN bounds \ {x} |-> bounds[q]]
      /\ page' = page /\ header' = header /\ stored' = stored /\ pins' = pins /\ cursor' = cursor
      /\ job' = job
  BY DEF Evict
<1>2. PICK pl : Ready(Tree, pl, A)
  BY DEF TreeInv, TreeIs
<1>3. /\ IsHeader(header) /\ Settled(page, root, depth, pl) /\ DenseOnly(page, header)
      /\ BoundsGood(page, root, pl, bounds) /\ CursorGood(page, root, depth, pl, bounds, cursor, A)
      /\ PinsGood(DOMAIN page, root, pins, cursor, -1)
  BY <1>2, TreeFields DEF Ready, AtRest, CursorFor
<1>4. \A i \in DOMAIN cursor : cursor[i].pid # x
  <2> SUFFICES ASSUME NEW i \in DOMAIN cursor, cursor[i].pid = x PROVE FALSE
    OBVIOUS
  <2>1. pins[x] = On(cursor, x) + Kept(root, x) + Held(-1, x)
    BY <1>3 DEF PinsGood
  <2>2. On(cursor, x) = 1
    BY DEF On
  <2>3. Kept(root, x) \in {0, 1} /\ Held(-1, x) \in {0, 1}
    BY DEF Kept, Held
  <2> QED BY <1>1, <2>1, <2>2, <2>3
<1>5. /\ DOMAIN bd \subseteq DOMAIN bounds /\ bd = [p \in DOMAIN bd |-> bd[p]]
      /\ \A p \in DOMAIN bd : bd[p] = bounds[p]
      /\ \A p : p # x => (p \in DOMAIN bd <=> p \in DOMAIN bounds)
  BY <1>1
<1> HIDE DEF root, depth, A, bd
<1>6. BoundsGood(page, root, pl, bd)
  <2>1. /\ bounds \in [DOMAIN bounds -> Nat \X Nat]
        /\ \A p \in DOMAIN bounds :
             /\ p \in DOMAIN page /\ ~IsInternal(page, p) /\ p # root
             /\ bounds[p][1] <= pl[p].lower /\ bounds[p][2] \in {0, pl[p].upper}
    BY <1>3 DEF BoundsGood
  <2>2. bd \in [DOMAIN bd -> Nat \X Nat]
    BY <1>5, <2>1
  <2> QED BY <1>5, <2>1, <2>2 DEF BoundsGood
<1>7. CursorGood(page, root, depth, pl, bd, cursor, A)
  <2> SUFFICES ASSUME cursor # <<>> PROVE PathGood(page, root, depth, pl, bd, cursor, A)
    BY DEF CursorGood
  <2>1. PathGood(page, root, depth, pl, bounds, cursor, A)
    BY <1>3 DEF CursorGood
  <2>2. cursor \in Seq(PathLevel) /\ Len(cursor) = depth /\ DOMAIN cursor = 1..depth
          /\ depth \in 1..depth
    <3>1. cursor \in Seq(PathLevel) /\ Len(cursor) = depth
      BY <2>1 DEF PathGood
    <3>2. depth \in Nat /\ depth > 0
      BY <1>3 DEF IsHeader, depth
    <3> QED BY <3>1, <3>2
  <2>3. \A i \in 1..depth : LevelGood(page, pl, bd, cursor, i)
    <3>1. ASSUME NEW i \in 1..depth PROVE LevelGood(page, pl, bd, cursor, i)
      <4>1. LevelGood(page, pl, bounds, cursor, i) /\ cursor[i].pid # x
        BY <1>4, <2>1, <2>2 DEF PathGood
      <4>2. Shown(pl, bd, cursor[i].pid) = Shown(pl, bounds, cursor[i].pid)
        BY <1>5, <4>1 DEF Shown
      <4> QED BY <4>1, <4>2 DEF LevelGood
    <3> QED BY <3>1
  <2>4. cursor[depth].pid \in DOMAIN bd <=> cursor[depth].pid \in DOMAIN bounds
    BY <1>4, <1>5, <2>2
  <2> QED BY <2>1, <2>3, <2>4 DEF PathGood
<1>8. /\ IsTree(Tree') /\ Tree'.page = page /\ Tree'.header = header /\ Tree'.bounds = bd
      /\ Tree'.pins = pins /\ Tree'.cursor = cursor
  BY <1>1 DEF IsTree, Tree, bd
<1>9. Ready(Tree', pl, A)
  BY <1>3, <1>6, <1>7, <1>8 DEF Ready, AtRest, CursorFor, root, depth
<1>10. TreeIs'
  BY <1>1, <1>8, <1>9 DEF TreeIs, A
<1>11. DOMAIN bd = {} \/ Ascends(job)
  BY <1>5 DEF TreeInv
<1> QED BY <1>1, <1>10, <1>11 DEF TreeInv, bd

(* A tree without a cursor, with another header of the same shape, and     *)
(* without objects that have wrong bounds or with those it had.            *)
LEMMA OtherHeader ==
  ASSUME TreeInv, job = <<>>, IsHeader(header'), SameShape(header, header'),
         bounds' \in {bounds, [p \in {} |-> <<0, 0>>]}, pins' = pins,
         stored' \in [nLeaves : 0..SizeMod-1, nnz : 0..SizeMod-1],
         UNCHANGED <<page, cursor, job>>
  PROVE  TreeInv'
<1>1. PICK pl : Ready(Tree, pl, Nat)
  BY ReadyForAny
<1>2. page' = page /\ cursor' = cursor /\ job' = job /\ cursor = <<>>
  BY DEF TreeInv
<1>3. /\ Settled(page, header.root, header.depth, pl) /\ DenseOnly(page, header)
      /\ BoundsGood(page, header.root, pl, bounds)
      /\ PinsGood(DOMAIN page, header.root, pins, <<>>, -1)
  BY <1>1, <1>2, TreeFields DEF Ready, AtRest
<1>4. BoundsGood(page, header.root, pl, bounds')
  BY <1>3 DEF BoundsGood
<1>5. header'.root = header.root /\ header'.depth = header.depth /\ header'.useDense = header.useDense
  BY DEF SameShape
<1>6. DenseOnly(page, header')
  BY <1>3, <1>5 DEF DenseOnly
<1>7. IsTree(Tree') /\ Tree'.page = page /\ Tree'.header = header' /\ Tree'.bounds = bounds'
      /\ Tree'.pins = pins /\ Tree'.cursor = <<>>
  BY <1>2 DEF IsTree, Tree
<1>8. Ready(Tree', pl, KeysOf(job'))
  BY <1>3, <1>4, <1>5, <1>6, <1>7 DEF Ready, AtRest, CursorFor, CursorGood
<1>9. TreeIs'
  BY <1>7, <1>8 DEF TreeIs
<1>10. Ascends(job')
  BY <1>2 DEF Ascends
<1> QED BY <1>2, <1>9, <1>10 DEF TreeInv

(* The header in memory and in the file. *)
LEMMA HeaderOf ==
  ASSUME TreeInv
  PROVE  IsHeader(header) /\ Written \in [nLeaves : 0..SizeMod-1, nnz : 0..SizeMod-1]
<1>1. IsHeader(header)
  BY TreeFields DEF TreeInv, TreeIs, Ready
<1>2. header.nLeaves \in 0..SizeMod-1 /\ header.nnz \in 0..SizeMod-1
  BY <1>1 DEF IsHeader
<1>3. stored \in [nLeaves : 0..SizeMod-1, nnz : 0..SizeMod-1]
  BY DEF TreeInv
<1> QED BY <1>1, <1>2, <1>3 DEF Written

(* A flush preserves the invariant. *)
LEMMA InvFlush ==
  ASSUME TreeInv, Flush
  PROVE  TreeInv'
<1>1. /\ job = <<>> /\ stored' = Written /\ header' = [header EXCEPT !.dirty = FALSE]
      /\ bounds' = bounds /\ pins' = pins /\ UNCHANGED <<page, cursor, job>>
  BY DEF Flush
<1>2. IsHeader(header) /\ Written \in [nLeaves : 0..SizeMod-1, nnz : 0..SizeMod-1]
  BY HeaderOf
<1>3. IsHeader(header') /\ SameShape(header, header')
  BY <1>1, <1>2 DEF IsHeader, SameShape
<1> QED BY <1>1, <1>2, <1>3, OtherHeader

(* What is unpinned and pinned again has the pins it had.                  *)
LEMMA PinnedAgain ==
  ASSUME NEW p, NEW D, p \in [D -> Int], NEW a, NEW b
  PROVE  Pin(Unpin(p, <<a, b>>), <<a, b>>) = p
<1> DEFINE u == Unpin(p, <<a, b>>)
           w == Pin(u, <<a, b>>)
           T(q) == Times(<<a, b>>, q)
<1>1. \A q : T(q) \in Int
  <2> TAKE q
  <2>1. T(q) = (IF a = q THEN 1 ELSE 0) + (IF b = q THEN 1 ELSE 0)
    BY PairCount
  <2> QED BY <2>1
<1>2. u = [q \in D |-> p[q] - T(q)]
  BY DEF Unpin, Times
<1>3. w = [q \in D |-> u[q] + T(q)]
  BY <1>2 DEF Pin, Times
<1> HIDE DEF T, u, w
<1>4. \A q \in D : w[q] = p[q]
  BY <1>1, <1>2, <1>3
<1> QED BY <1>3, <1>4 DEF w, u

(* Closing and reopening the tree preserves the invariant. *)
LEMMA InvReopen ==
  ASSUME TreeInv, Reopen
  PROVE  TreeInv'
<1>1. /\ job = <<>> /\ stored' = Written
      /\ header' = [header EXCEPT !.dirty = FALSE, !.nLeaves = Written.nLeaves, !.nnz = Written.nnz]
      /\ bounds' = [p \in {} |-> <<0, 0>>]
      /\ pins' = Pin(Unpin(pins, <<HeaderPage, header.root>>), <<HeaderPage, header.root>>)
      /\ UNCHANGED <<page, cursor, job>>
  BY DEF Reopen
<1>2. IsHeader(header) /\ Written \in [nLeaves : 0..SizeMod-1, nnz : 0..SizeMod-1]
  BY HeaderOf
<1>3. IsHeader(header') /\ SameShape(header, header')
  BY <1>1, <1>2 DEF IsHeader, SameShape
<1>4. pins' = pins
  <2>1. PICK pl : Ready(Tree, pl, KeysOf(job))
    BY DEF TreeInv, TreeIs
  <2>2. pins = [p \in DOMAIN page \cup {0} |-> On(cursor, p) + Kept(header.root, p) + Held(-1, p)]
    BY <2>1, TreeFields DEF Ready, PinsGood
  <2>3. \A p : On(cursor, p) + Kept(header.root, p) + Held(-1, p) \in Int
    BY DEF On, Kept, Held
  <2>4. pins \in [DOMAIN page \cup {0} -> Int]
    BY <2>2, <2>3
  <2> QED BY <1>1, <2>4, PinnedAgain
<1> QED BY <1>1, <1>2, <1>3, <1>4, OtherHeader

-----------------------------------------------------------------------------

(* A new tree: one empty leaf, for all the keys.                           *)
NewPages == [p \in {1} |-> Leaf("sparse", NoEntries, InvalidPid)]
NewLayout == [p \in {1} |-> [level |-> 1, lower |-> 0, upper |-> EndsBy]]

(* A new tree is one empty leaf. *)
LEMMA NewSettled == Settled(NewPages, 1, 1, NewLayout)
<1> DEFINE P == NewPages
           pl == NewLayout
           leaf == Leaf("sparse", NoEntries, InvalidPid)
<1>1. Cardinality({1}) = 1 /\ {1} = 1..1
  <2>1. Cardinality({1}) = 1
    BY FS_Singleton
  <2> QED BY <2>1
<1>2. DOMAIN P = {1} /\ P[1] = leaf /\ P = [p \in {1} |-> P[p]]
  BY DEF NewPages
<1>3. DOMAIN pl = {1} /\ pl[1] = [level |-> 1, lower |-> 0, upper |-> EndsBy] /\ pl \in [{1} -> Spot]
  BY ConstantsAre DEF NewLayout, Spot
<1>4. NoEntries \in Entries_ /\ DOMAIN NoEntries = {}
  <2>1. NoEntries \in [{} -> Value \ {Default}] /\ {} \in SUBSET Key
    BY DEF NoEntries
  <2> QED BY <2>1 DEF Entries_, NoEntries
<1>5. leaf.type = "sparse" /\ leaf.entries = NoEntries /\ leaf.next = InvalidPid
      /\ leaf \in PageNode({1})
  BY <1>4 DEF Leaf, PageNode, Entries_
<1>6. Fits("sparse", {})
  BY FS_EmptySet, CapAssumption DEF Fits
<1> HIDE DEF P, pl, leaf
<1>7. ~IsInternal(P, 1)
  BY <1>2, <1>5 DEF IsInternal
<1>8. Nodes(P)
  BY <1>1, <1>2, <1>5 DEF Nodes
<1>9. Placed(P, 1, pl)
  BY <1>2, <1>3, <1>7, ConstantsAre DEF Placed
<1>10. PagesSound(P, pl, 0, 0, 0)
  <2>1. LeafSound(P, pl, 0, 1)
    BY <1>2, <1>4, <1>5, <1>6 DEF LeafSound
  <2> QED BY <1>2, <1>7, <2>1 DEF PagesSound
<1>11. Rooted(P, 1, pl, 0, 0)
  BY <1>2, <1>3 DEF Rooted, Top
<1>12. Apart(P, pl) /\ Reached(P, 1, 0)
  BY <1>2 DEF Apart, Reached
<1> QED BY <1>8, <1>9, <1>10, <1>11, <1>12 DEF Settled, Laid, P, pl

(* The invariant holds of it. *)
LEMMA InvInit == Init => TreeInv
<1> SUFFICES ASSUME Init PROVE TreeInv
  OBVIOUS
<1>1. /\ page = NewPages /\ stored = [nLeaves |-> 0, nnz |-> 0] /\ bounds = [p \in {} |-> <<0, 0>>]
      /\ pins = [p \in {0, 1} |-> 1] /\ cursor = <<>> /\ job = <<>>
      /\ \E dense \in BOOLEAN, sp \in Splitter :
           header = [root |-> 1, depth |-> 1, nLeaves |-> 2, nnz |-> 0, dirty |-> TRUE,
                     useDense |-> dense, splitter |-> sp]
  BY DEF Init, HeaderPage, NewPages
<1>2. IsHeader(header) /\ header.root = 1 /\ header.depth = 1
  <2>1. 2 \in 0..SizeMod-1 /\ 0 \in 0..SizeMod-1
    BY ConstantsAre
  <2> QED BY <1>1, <2>1 DEF IsHeader
<1>3. Settled(page, header.root, header.depth, NewLayout)
  BY <1>1, <1>2, NewSettled
<1>4. DenseOnly(page, header)
  BY <1>1 DEF DenseOnly, NewPages, Leaf
<1>5. BoundsGood(page, header.root, NewLayout, bounds)
  BY <1>1 DEF BoundsGood
<1>6. PinsGood(DOMAIN page, header.root, pins, cursor, -1)
  <2>1. DOMAIN page = {1}
    BY <1>1 DEF NewPages
  <2>2. \A p : On(<<>>, p) = 0
    BY DEF On
  <2>3. \A p \in {0, 1} : Kept(1, p) = 1 /\ Held(-1, p) = 0
    BY DEF Kept, Held
  <2>4. [p \in {0, 1} |-> 1] = [p \in {1} \cup {0} |-> On(<<>>, p) + Kept(1, p) + Held(-1, p)]
    BY <2>2, <2>3
  <2> QED BY <1>1, <1>2, <2>1, <2>4 DEF PinsGood
<1>7. Ready(Tree, NewLayout, KeysOf(job))
  BY <1>1, <1>2, <1>3, <1>4, <1>5, <1>6, TreeFields DEF Ready, AtRest, CursorFor, CursorGood
<1>8. TreeIs
  BY <1>7, TreeFields DEF TreeIs
<1>9. IsBatch(job, MaxBatch - 1)
  BY <1>1, ConstantsAre DEF IsBatch
<1>10. stored \in [nLeaves : 0..SizeMod-1, nnz : 0..SizeMod-1]
  BY <1>1, ConstantsAre
<1> QED BY <1>1, <1>8, <1>9, <1>10 DEF TreeInv

(* Every step keeps the invariant.                                         *)
LEMMA InvStep ==
  ASSUME Careful, TreeInv, [Next]_vars
  PROVE  TreeInv'
<1>1. CASE UNCHANGED vars
  BY <1>1, InvUnchanged DEF vars
<1>2. ASSUME NEW e \in Entry, TreePut(e) PROVE TreeInv'
  BY <1>2, InvTreePut
<1>3. ASSUME NEW n \in 1..MaxBatch, NEW es \in [1..n -> Entry], BatchPut(es) PROVE TreeInv'
  BY <1>3, InvBatchPut
<1>4. CASE BatchPutNext
  BY <1>4, InvBatchPutNext
<1>5. ASSUME NEW key, Get(key) PROVE TreeInv'
  BY SMTT(30), <1>5, InvUnchanged DEF Get, Unchanged
<1>6. ASSUME NEW keys, BatchGet(keys) PROVE TreeInv'
  BY <1>6, InvUnchanged DEF BatchGet, Unchanged
<1>7. ASSUME NEW b \in 0..EndsBy-1, NEW e \in b+1..EndsBy, RangeGet(b, e) PROVE TreeInv'
  BY <1>7, InvRangeGet
<1>8. ASSUME NEW p \in DOMAIN page, Evict(p) PROVE TreeInv'
  BY <1>8, InvEvict
<1>9. CASE Flush
  BY <1>9, InvFlush
<1>10. CASE Reopen
  BY <1>10, InvReopen
<1> QED BY <1>1, <1>2, <1>3, <1>4, <1>5, <1>6, <1>7, <1>8, <1>9, <1>10 DEF Next

(* The invariant: the tree is laid out and ready for what is left of the   *)
(* batch, if callers avoid what the violation runs show.                   *)
THEOREM TreeInvariant == ASSUME Careful PROVE Spec => []TreeInv
<1>1. Init => TreeInv
  BY InvInit
<1>2. TreeInv /\ [Next]_vars => TreeInv'
  BY InvStep
<1> QED BY <1>1, <1>2, PTL DEF Spec

-----------------------------------------------------------------------------

(* What the invariant says of the variables.                               *)
Laying(pl) ==
  /\ IsHeader(header) /\ Settled(page, header.root, header.depth, pl)
  /\ BoundsGood(page, header.root, pl, bounds)
  /\ \E A : CursorGood(page, header.root, header.depth, pl, bounds, cursor, A)
  /\ OnLevels(pl, cursor)
  /\ PinsGood(DOMAIN page, header.root, pins, cursor, -1)

(* The invariant gives the tree a layout. *)
LEMMA TreeLies ==
  ASSUME TreeInv
  PROVE  \E pl : Laying(pl)
<1>1. PICK pl : Ready(Tree, pl, KeysOf(job))
  BY DEF TreeInv, TreeIs
<1>2. OnLevels(pl, cursor)
  <2>1. CursorFor(Tree, pl, KeysOf(job))
    BY <1>1 DEF Ready
  <2> QED BY <2>1, TreeFields, CursorLevels
<1> QED BY <1>1, <1>2, TreeFields DEF Laying, Ready, AtRest, CursorFor

(* The invariant implies BTree.TypeOK. *)
LEMMA TypesFollow ==
  ASSUME TreeInv
  PROVE  TypeOK
<1>1. PICK pl : Laying(pl)
  BY TreeLies
<1>2. IsHeader(header) /\ Nodes(page) /\ Rooted(page, header.root, pl, 0, 0)
  BY <1>1 DEF Laying, Settled, Laid
<1>3. page \in [DOMAIN page -> LeafPage \cup InternalPage]
  BY <1>2 DEF Nodes, PageNode, LeafPage, InternalPage
<1>4. header \in [root : DOMAIN page, depth : Nat \ {0}, nLeaves : 0..SizeMod-1,
                  nnz : 0..SizeMod-1, dirty : BOOLEAN, useDense : BOOLEAN, splitter : Splitter]
  BY <1>2 DEF IsHeader, Rooted
<1>5. stored \in [nLeaves : 0..SizeMod-1, nnz : 0..SizeMod-1]
  BY DEF TreeInv
<1>6. DOMAIN bounds \subseteq DOMAIN page /\ bounds \in [DOMAIN bounds -> Nat \X Nat]
  BY <1>1 DEF Laying, BoundsGood
<1>7. pins \in [DOMAIN page \cup {HeaderPage} -> Nat]
  <2>1. pins = [p \in DOMAIN page \cup {0} |-> On(cursor, p) + Kept(header.root, p) + Held(-1, p)]
    BY <1>1 DEF Laying, PinsGood
  <2>2. \A p : On(cursor, p) + Kept(header.root, p) + Held(-1, p) \in Nat
    BY DEF On, Kept, Held
  <2> QED BY <2>1, <2>2 DEF HeaderPage
<1>8. Len(cursor) \in {0, header.depth}
  BY <1>1 DEF Laying, CursorGood, PathGood
<1>9. job \in UNION {[1..n -> Entry] : n \in 0..MaxBatch-1}
  <2>1. job \in Seq(Entry) /\ Len(job) <= MaxBatch - 1
    BY DEF TreeInv, IsBatch
  <2>2. job \in [1..Len(job) -> Entry] /\ Len(job) \in 0..MaxBatch-1
    BY <2>1, ConstantsAre
  <2> QED BY <2>2
<1> QED BY <1>3, <1>4, <1>5, <1>6, <1>7, <1>8, <1>9 DEF TypeOK

(* The invariant implies BTree.PinsBalance. *)
LEMMA PinsFollow ==
  ASSUME TreeInv
  PROVE  PinsBalance
<1>1. PICK pl : Laying(pl)
  BY TreeLies
<1>2. OnLevels(pl, cursor) /\ PinsGood(DOMAIN page, header.root, pins, cursor, -1) /\ Nodes(page)
  BY <1>1 DEF Laying, Settled, Laid
<1>3. cursor \in Seq(PathLevel) /\ DOMAIN cursor = 1..Len(cursor) /\ Len(cursor) \in Nat
      /\ \A i \in 1..Len(cursor) : pl[cursor[i].pid].level = i
  BY <1>2 DEF OnLevels
<1>4. ASSUME NEW p \in DOMAIN pins
      PROVE  pins[p] = Cardinality({i \in DOMAIN cursor : cursor[i].pid = p})
                       + IF p \in {HeaderPage, header.root} THEN 1 ELSE 0
  <2> DEFINE s == Pids(cursor)
             n == Len(cursor)
  <2>1. DOMAIN s = 1..n /\ \A i \in 1..n : s[i] = cursor[i].pid
    BY <1>3 DEF Pids
  <2>2. \A i, j \in 1..n : s[i] = s[j] => i = j
    BY <1>3, <2>1
  <2> HIDE DEF s, n
  <2>3. Cardinality({i \in DOMAIN s : s[i] = p}) = IF \E i \in 1..n : s[i] = p THEN 1 ELSE 0
    BY ZenonT(40), <1>3, <2>1, <2>2, CountOne DEF n
  <2>4. {i \in DOMAIN s : s[i] = p} = {i \in DOMAIN cursor : cursor[i].pid = p}
    BY <1>3, <2>1 DEF n
  <2>5. On(cursor, p) = IF \E i \in 1..n : s[i] = p THEN 1 ELSE 0
    BY <1>3, <2>1 DEF On, n
  <2>6. p # -1
    BY <1>2 DEF PinsGood, Nodes
  <2>7. pins[p] = On(cursor, p) + Kept(header.root, p) + Held(-1, p)
    BY <1>2 DEF PinsGood
  <2>8. Held(-1, p) = 0 /\ On(cursor, p) \in {0, 1}
    BY <2>6 DEF Held, On
  <2>9. Kept(header.root, p) = IF p \in {HeaderPage, header.root} THEN 1 ELSE 0
    BY DEF Kept, HeaderPage
  <2> QED BY <2>3, <2>4, <2>5, <2>7, <2>8, <2>9
<1> QED BY <1>4 DEF PinsBalance

-----------------------------------------------------------------------------
(* The recursive function of Blocks is defined.                            *)
BlockOf(pl, p) == [pid |-> p, lower |-> pl[p].lower, upper |-> pl[p].upper]
RootBlock == [pid |-> header.root, lower |-> 0, upper |-> EndsBy]
Below(S) == UNION {Children(b) : b \in S}

(* The recursive function of the levels of the tree is defined. *)
LEMMA BlocksExist ==
  ASSUME header.depth \in Nat
  PROVE  /\ DOMAIN Blocks = 1..header.depth
         /\ \A i \in 1..header.depth : Blocks[i] = IF i = 1 THEN {RootBlock} ELSE Below(Blocks[i - 1])
<1> DEFINE n == header.depth
           Step(c, i) == IF i = 1 THEN {RootBlock} ELSE Below(c)
           AreBlocks(h, k) == h = [i \in 1..k |-> Step(h[i - 1], i)]
           S == {k \in 0..n : \E h : AreBlocks(h, k)}
<1>1. n \in Nat /\ 0 \in 0..n
  OBVIOUS
<1>2. 0 \in S
  <2> DEFINE h == [i \in 1..0 |-> {}]
  <2>1. AreBlocks(h, 0)
    OBVIOUS
  <2> HIDE DEF AreBlocks
  <2> QED BY <1>1, <2>1
<1>3. ASSUME NEW k \in 0+1..n, k - 1 \in S PROVE k \in S
  <2>1. PICK h : AreBlocks(h, k - 1)
    BY <1>3
  <2> HIDE DEF Step
  <2> DEFINE g == [i \in 1..k |-> IF i = k THEN Step(h[k - 1], k) ELSE h[i]]
  <2>2. \A i \in 1..k-1 : h[i] = Step(h[i - 1], i)
    BY <2>1
  <2>3. \A c, d : Step(c, 1) = Step(d, 1)
    BY DEF Step
  <2>4. ASSUME NEW i \in 1..k PROVE g[i] = Step(g[i - 1], i)
    <3>1. i # 1 => i - 1 \in 1..k /\ i - 1 # k
      OBVIOUS
    <3>2. i # 1 => g[i - 1] = h[i - 1]
      BY <3>1
    <3>3. g[i] = IF i = k THEN Step(h[k - 1], k) ELSE h[i]
      OBVIOUS
    <3> HIDE DEF g
    <3>4. i # k => i \in 1..k-1
      OBVIOUS
    <3> QED BY <2>2, <2>3, <3>2, <3>3, <3>4
  <2>5. g = [i \in 1..k |-> g[i]]
    OBVIOUS
  <2>6. AreBlocks(g, k)
    <3> HIDE DEF g
    <3> QED BY <2>4, <2>5
  <2>7. k \in 0..n
    OBVIOUS
  <2> HIDE DEF AreBlocks
  <2> QED BY <2>6, <2>7
<1>4. n \in S
  <2> DEFINE lo == 0
  <2>1. lo \in Int /\ n \in Int /\ lo \in S /\ n \in lo..n
    BY <1>1, <1>2
  <2>2. \A k \in lo+1..n : k - 1 \in S => k \in S
    BY <1>3
  <2> HIDE DEF S, lo, n
  <2>3. \A k \in lo..n : k \in S
    BY <2>1, <2>2, UpTo
  <2> QED BY <2>1, <2>3
<1>5. AreBlocks(Blocks, n)
  <2>1. PICK h : AreBlocks(h, n)
    BY <1>4
  <2> QED BY <2>1 DEF Blocks, RootBlock, Below
<1> HIDE DEF n
<1>6. DOMAIN Blocks = 1..n
  <2> HIDE DEF Step
  <2> QED BY <1>5
<1>7. \A i \in 1..n : Blocks[i] = Step(Blocks[i - 1], i)
  <2> HIDE DEF Step
  <2> QED BY <1>5
<1> QED BY <1>6, <1>7 DEF n

(* The blocks of a level are the pages that the layout has there.          *)
LevelBlocks(pl, i) == {BlockOf(pl, p) : p \in {p \in DOMAIN page : pl[p].level = i}}

(* The children of a block lie where its separators say.                   *)
LEMMA ChildrenAre ==
  ASSUME NEW pl, Settled(page, header.root, header.depth, pl), NEW p \in DOMAIN page,
         IsInternal(page, p)
  PROVE  Children(BlockOf(pl, p)) = {BlockOf(pl, q) : q \in {page[p].kids[i].value : i \in 1..Len(page[p].kids)}}
<1> DEFINE kids == page[p].kids
           Kid(i) == [pid |-> kids[i].value, lower |-> kids[i].key,
                      upper |-> IF i = Len(kids) THEN pl[p].upper ELSE kids[i + 1].key]
<1>1. Nodes(page) /\ PagesSound(page, pl, 0, 0, 0)
  BY DEF Settled, Laid
<1>2. DOMAIN kids = 1..Len(kids) /\ \A i \in 1..Len(kids) : kids[i].value # 0
  BY <1>1, KidsAre
<1>3. \A i \in 1..Len(kids) : KidSound(page, pl, 0, 0, p, i)
  BY <1>1 DEF PagesSound, KidsSound
<1>4. \A i \in 1..Len(kids) : Kid(i) = BlockOf(pl, kids[i].value)
  BY <1>2, <1>3 DEF KidSound, Top, BlockOf
<1>5. BlockOf(pl, p).pid = p /\ BlockOf(pl, p).upper = pl[p].upper
  BY DEF BlockOf
<1>6. Children(BlockOf(pl, p)) = {Kid(i) : i \in DOMAIN kids}
  BY <1>5 DEF Children
<1> HIDE DEF Kid, kids
<1>7. Children(BlockOf(pl, p)) = {BlockOf(pl, kids[i].value) : i \in 1..Len(kids)}
  BY <1>2, <1>4, <1>6
<1> QED BY <1>7 DEF kids

(* The blocks reached from the root at a level are those the layout puts   *)
(* there.                                                                  *)
LEMMA BlocksAre ==
  ASSUME NEW pl, Settled(page, header.root, header.depth, pl)
  PROVE  \A i \in 1..header.depth : Blocks[i] = LevelBlocks(pl, i)
<1> DEFINE D == header.depth
           root == header.root
<1>1. /\ Nodes(page) /\ Placed(page, D, pl) /\ PagesSound(page, pl, 0, 0, 0) /\ Rooted(page, root,
           pl, 0, 0)
      /\ Apart(page, pl) /\ Reached(page, root, 0) /\ Laid(page, root, D, pl, 0, 0, 0)
  BY DEF Settled, Laid
<1>2. D \in Nat /\ D > 0 /\ 0 \notin DOMAIN page
  BY <1>1 DEF Placed, Nodes
<1>3. \A i \in 1..D : Blocks[i] = IF i = 1 THEN {RootBlock} ELSE Below(Blocks[i - 1])
  BY <1>2, BlocksExist
<1>4. root \in DOMAIN page /\ pl[root].level = 1 /\ BlockOf(pl, root) = RootBlock
  BY <1>1, <1>2 DEF Rooted, Top, BlockOf, RootBlock
<1>5. ASSUME NEW q \in DOMAIN page, pl[q].level = 1 PROVE q = root
  <2> DEFINE k == pl[q].lower
             end == pl[q].upper
  <2> HIDE DEF D, root
  <2>1. k \in Nat /\ end \in Nat /\ k < end /\ end <= EndsBy
    BY <1>1, SpotIs
  <2>2. Within(pl, q, k)
    BY <2>1 DEF Within
  <2> HIDE DEF k, end
  <2>3. k < EndsBy
    BY <2>1, ConstantsAre
  <2>4. Within(pl, root, k)
    BY <2>1, <2>3, RootWithin DEF root, D
  <2> QED BY <1>1, <1>4, <1>5, <2>1, <2>2, <2>4, OnlyPlace
<1>6. Blocks[1] = LevelBlocks(pl, 1)
  <2>1. 1 \in 1..D
    BY <1>2
  <2>2. {p \in DOMAIN page : pl[p].level = 1} = {root}
    BY <1>4, <1>5
  <2> HIDE DEF root
  <2> QED BY <1>3, <1>4, <2>1, <2>2 DEF LevelBlocks
<1>7. ASSUME NEW i \in 1+1..D, Blocks[i - 1] = LevelBlocks(pl, i - 1)
             PROVE Blocks[i] = LevelBlocks(pl, i)
  <2>1. i \in 1..D /\ i # 1 /\ i \in Nat /\ i - 1 < D /\ i - 1 \in Nat
    BY <1>2
  <2>2. Blocks[i] = Below(LevelBlocks(pl, i - 1))
    BY <1>3, <1>7, <2>1
  <2>3. ASSUME NEW b \in Blocks[i] PROVE b \in LevelBlocks(pl, i)
    <3>1. PICK p \in DOMAIN page : pl[p].level = i - 1 /\ b \in Children(BlockOf(pl, p))
      BY <2>2 DEF Below, LevelBlocks
    <3>2. IsInternal(page, p)
      BY <1>1, <2>1, <3>1 DEF Placed
    <3>3. PICK k \in 1..Len(page[p].kids) : b = BlockOf(pl, page[p].kids[k].value)
      BY <3>1, <3>2, ChildrenAre
    <3>4. pl[page[p].kids[k].value].level = pl[p].level + 1 /\ page[p].kids[k].value \in DOMAIN page
      <4>1. KidSound(page, pl, 0, 0, p, k)
        BY <1>1, <3>2 DEF PagesSound, KidsSound
      <4> QED BY <1>1, <3>2, <4>1, KidsAre DEF KidSound
    <3> QED BY <2>1, <3>1, <3>3, <3>4 DEF LevelBlocks
  <2>4. ASSUME NEW b \in LevelBlocks(pl, i) PROVE b \in Blocks[i]
    <3>1. PICK q \in DOMAIN page : pl[q].level = i /\ b = BlockOf(pl, q)
      BY DEF LevelBlocks
    <3>2. q # root /\ q # 0
      BY <1>2, <1>4, <2>1, <3>1
    <3>3. PICK p \in DOMAIN page : IsKid(page, p, q)
      BY <1>1, <3>2 DEF Reached
    <3>4. PICK k \in 1..Len(page[p].kids) : page[p].kids[k].value = q
      BY <3>3 DEF IsKid
    <3>5. IsInternal(page, p)
      BY <3>3 DEF IsKid
    <3>6. pl[q].level = pl[p].level + 1
      <4>1. KidSound(page, pl, 0, 0, p, k)
        BY <1>1, <3>5 DEF PagesSound, KidsSound
      <4> QED BY <3>4, <4>1 DEF KidSound
    <3>7. pl[p].level = i - 1
      <4>1. pl[p].level \in Nat
        BY <1>1, SpotIs
      <4> QED BY <2>1, <3>1, <3>6, <4>1
    <3>8. b \in Children(BlockOf(pl, p))
      BY <3>1, <3>4, <3>5, ChildrenAre
    <3>9. BlockOf(pl, p) \in LevelBlocks(pl, i - 1)
      BY <3>7 DEF LevelBlocks
    <3> QED BY <2>2, <3>8, <3>9 DEF Below
  <2> QED BY <2>3, <2>4
<1> DEFINE S == {i \in 1..D : Blocks[i] = LevelBlocks(pl, i)}
           lo == 1
<1>8. lo \in S /\ lo \in Int /\ D \in Int
  BY <1>2, <1>6
<1>9. \A i \in lo+1..D : i - 1 \in S => i \in S
  BY <1>2, <1>7
<1> HIDE DEF S, lo, D
<1>10. \A i \in lo..D : i \in S
  BY <1>8, <1>9, UpTo
<1> QED BY <1>10 DEF S, lo, D

-----------------------------------------------------------------------------

(* What a block is, by its layout.                                         *)
LEMMA BlockIsSound ==
  ASSUME NEW pl, Settled(page, header.root, header.depth, pl), NEW p \in DOMAIN page
  PROVE  BlockSound(BlockOf(pl, p))
<1> DEFINE b == BlockOf(pl, p)
           node == page[p]
           D == header.depth
           root == header.root
<1>1. /\ Nodes(page) /\ Placed(page, D, pl) /\ PagesSound(page, pl, 0, 0, 0)
      /\ Laid(page, root, D, pl, 0, 0, 0)
  BY DEF Settled, Laid
<1>2. b.pid = p /\ b.lower = pl[p].lower /\ b.upper = pl[p].upper
  BY DEF BlockOf
<1>3. pl[p].lower \in Nat /\ pl[p].upper \in Nat
  <2> HIDE DEF D
  <2> QED BY <1>1, SpotIs
<1>4. CASE IsInternal(page, p)
  <2>1. KidsSound(page, pl, 0, 0, 0, p)
    BY <1>1, <1>4 DEF PagesSound
  <2>2. Len(node.kids) \in Nat /\ DOMAIN node.kids = 1..Len(node.kids) /\ p # 0
    BY <1>1, <1>4, KidsAre
  <2>3. Len(node.kids) \in 1..InternalCap /\ node.kids[1].key = pl[p].lower
    BY <2>1, <2>2, ConstantsAre DEF KidsSound
  <2> HIDE DEF root, D
  <2>4. /\ \A i \in 1..Len(node.kids) : node.kids[i].key < pl[p].upper
        /\ \A i, j \in 1..Len(node.kids) : i < j => node.kids[i].key < node.kids[j].key
    BY <1>1, <1>4, KidsAscend
  <2>5. \A i \in 1..Len(node.kids)-1 : i \in 1..Len(node.kids) /\ i + 1 \in 1..Len(node.kids)
          /\ i < i + 1
    BY <2>2
  <2>6. \A i \in 1..Len(node.kids)-1 : node.kids[i].key < node.kids[i + 1].key
    BY <2>4, <2>5
  <2>7. node.type = "internal"
    BY <1>4 DEF IsInternal
  <2> HIDE DEF node, b
  <2> QED BY <1>2, <2>2, <2>3, <2>4, <2>6, <2>7 DEF BlockSound, node, b
<1>5. CASE ~IsInternal(page, p)
  <2>1. LeafSound(page, pl, 0, p) /\ p # 0
    BY <1>1, <1>5 DEF PagesSound, Nodes
  <2>2. node.entries \in Entries_
    BY <1>1, <1>5, NodeIs DEF Entries_
  <2>3. DOMAIN node.entries \subseteq pl[p].lower..pl[p].upper-1
    <3>1. \A k \in DOMAIN node.entries : k \in Nat
      BY <2>2, EntriesAre
    <3>2. \A k \in DOMAIN node.entries : pl[p].lower <= k /\ k < pl[p].upper
      BY <2>1 DEF LeafSound
    <3> QED BY <1>3, <3>1, <3>2
  <2>4. Fits(node.type, DOMAIN node.entries) /\ node.type # "internal"
    BY <1>5, <2>1 DEF LeafSound, IsInternal
  <2> HIDE DEF node, b
  <2> QED BY <1>2, <2>3, <2>4 DEF BlockSound, node, b
<1> QED BY <1>4, <1>5

(* The invariant implies BTree.TreeSound. *)
LEMMA SoundFollows ==
  ASSUME TreeInv
  PROVE  TreeSound
<1>1. PICK pl : Laying(pl)
  BY TreeLies
<1> DEFINE D == header.depth
           All == {BlockOf(pl, p) : p \in DOMAIN page}
<1>2. Settled(page, header.root, D, pl) /\ Nodes(page) /\ Placed(page, D, pl)
  BY <1>1 DEF Laying, Settled, Laid
<1>3. \A i \in 1..D : Blocks[i] = LevelBlocks(pl, i)
  BY <1>2, BlocksAre
<1>4. ASSUME NEW i \in 1..D, NEW b \in Blocks[i]
      PROVE  (page[b.pid].type = "internal" <=> i < D) /\ BlockSound(b)
  <2>1. PICK p \in DOMAIN page : pl[p].level = i /\ b = BlockOf(pl, p)
    BY <1>3 DEF LevelBlocks
  <2>2. b.pid = p
    BY <2>1 DEF BlockOf
  <2>3. page[p].type = "internal" <=> i < D
    BY <1>2, <2>1 DEF Placed, IsInternal
  <2> QED BY <1>2, <2>1, <2>2, <2>3, BlockIsSound
<1>5. \A p \in DOMAIN page : pl[p].level \in 1..D
  BY <1>2 DEF Placed
<1>6. UNION {{b.pid : b \in Blocks[i]} : i \in 1..D} = DOMAIN page
  <2>1. \A p \in DOMAIN page : BlockOf(pl, p) \in Blocks[pl[p].level] /\ BlockOf(pl, p).pid = p
    BY <1>3, <1>5 DEF LevelBlocks, BlockOf
  <2>2. ASSUME NEW i \in 1..D, NEW b \in Blocks[i] PROVE b.pid \in DOMAIN page
    BY <1>3 DEF LevelBlocks, BlockOf
  <2> HIDE DEF D
  <2> QED BY <1>5, <2>1, <2>2
<1>7. UNION {Blocks[i] : i \in 1..D} \subseteq All
  BY <1>3 DEF LevelBlocks
<1>8. Cardinality(UNION {Blocks[i] : i \in 1..D}) <= Cardinality(DOMAIN page)
  <2>1. IsFiniteSet(DOMAIN page) /\ Cardinality(DOMAIN page) \in Nat
    <3>1. DOMAIN page = 1..Cardinality(DOMAIN page) /\ Cardinality(DOMAIN page) \in Nat
      BY <1>2 DEF Nodes
    <3> DEFINE n == Cardinality(DOMAIN page)
    <3> HIDE DEF n
    <3>2. IsFiniteSet(1..n)
      BY <3>1, FS_Interval DEF n
    <3> QED BY <3>1, <3>2 DEF n
  <2> DEFINE f == [p \in DOMAIN page |-> BlockOf(pl, p)]
  <2>2. f \in [DOMAIN page -> All]
    OBVIOUS
  <2>3. \A b \in All : \E p \in DOMAIN page : f[p] = b
    OBVIOUS
  <2>4. f \in Surjection(DOMAIN page, All)
    BY <2>2, <2>3 DEF Surjection
  <2> HIDE DEF f, All
  <2>5. IsFiniteSet(All) /\ Cardinality(All) <= Cardinality(DOMAIN page)
    BY <2>1, <2>4, FS_Surjection
  <2> DEFINE U == UNION {Blocks[i] : i \in 1..D}
  <2> HIDE DEF U, D
  <2>6. IsFiniteSet(U) /\ Cardinality(U) <= Cardinality(All) /\ Cardinality(U) \in Nat
          /\ Cardinality(All) \in Nat
    BY <1>7, <2>5, FS_Subset, FS_CardinalityType DEF U
  <2> QED BY <2>1, <2>5, <2>6 DEF U, D
<1> QED BY <1>4, <1>6, <1>8 DEF TreeSound

(* The invariant implies BTree.CursorIsPath. *)
LEMMA PathFollows ==
  ASSUME TreeInv
  PROVE  CursorIsPath
<1> SUFFICES ASSUME bounds = [p \in {} |-> <<0, 0>>], NEW i \in DOMAIN cursor
             PROVE  /\ [pid |-> cursor[i].pid, lower |-> cursor[i].lower, upper |-> cursor[i].upper]
                         \in Blocks[i]
                    /\ i < Len(cursor) =>
                         page[cursor[i].pid].kids[cursor[i].index + 1].value = cursor[i + 1].pid
  BY DEF CursorIsPath
<1>1. PICK pl : Laying(pl)
  BY TreeLies
<1> DEFINE D == header.depth
<1>2. Settled(page, header.root, D, pl) /\ IsHeader(header)
  BY <1>1 DEF Laying
<1>3. PICK A : CursorGood(page, header.root, D, pl, bounds, cursor, A)
  BY <1>1 DEF Laying
<1>4. cursor # <<>> /\ DOMAIN bounds = {}
  OBVIOUS
<1>5. PathGood(page, header.root, D, pl, bounds, cursor, A)
  BY <1>3, <1>4 DEF CursorGood
<1>6. /\ cursor \in Seq(PathLevel) /\ Len(cursor) = D /\ D \in Nat /\ D > 0 /\ i \in 1..D
      /\ LevelGood(page, pl, bounds, cursor, i)
  <2>1. cursor \in Seq(PathLevel) /\ Len(cursor) = D /\ \A j \in 1..D : LevelGood(page, pl,
          bounds, cursor, j)
    BY <1>5 DEF PathGood
  <2>2. D \in Nat /\ D > 0
    BY <1>2 DEF IsHeader
  <2> QED BY <2>1, <2>2
<1> HIDE DEF D
<1>7. [pid |-> cursor[i].pid, lower |-> cursor[i].lower, upper |-> cursor[i].upper] \in Blocks[i]
  <2> DEFINE q == cursor[i].pid
             l == cursor[i].lower
             u == cursor[i].upper
  <2>1. q \in DOMAIN page /\ pl[q].level = i /\ <<l, u>> = <<pl[q].lower, pl[q].upper>>
    BY <1>4, <1>6 DEF LevelGood, Shown
  <2> HIDE DEF q, l, u
  <2>2. l = pl[q].lower /\ u = pl[q].upper
    BY <2>1
  <2>3. [pid |-> q, lower |-> l, upper |-> u] = BlockOf(pl, q)
    BY <2>2 DEF BlockOf
  <2>4. Blocks[i] = LevelBlocks(pl, i)
    BY <1>2, <1>6, BlocksAre DEF D
  <2> QED BY <2>1, <2>3, <2>4 DEF LevelBlocks, q, l, u
<1>8. i < D => Linked(page, cursor, i)
  <2>1. i < D => i \in 1..D-2 \/ (i = D - 1 /\ D > 1)
    BY <1>6
  <2> QED BY <1>4, <1>5, <2>1 DEF PathGood
<1> QED BY <1>6, <1>7, <1>8 DEF Linked

-----------------------------------------------------------------------------
(* The variables keep their types. *)
THEOREM TypeCorrect == ASSUME Careful PROVE Spec => []TypeOK
  BY TreeInvariant, TypesFollow, PTL

(* Whatever splits and changes of format a put leads to, the keys of every *)
(* block lie within the separators above it, all leaves at one depth, no   *)
(* block over its capacity, and every page is in the tree, once.           *)
THEOREM AlwaysSound == ASSUME Careful PROVE Spec => []TreeSound
  BY TreeInvariant, SoundFollows, PTL

(* The cursor a batch goes on from is a path from the root to a leaf.      *)
THEOREM CursorFollowsTree == ASSUME Careful PROVE Spec => []CursorIsPath
  BY TreeInvariant, PathFollows, PTL

(* Nothing but the header, the root and the cursor's path is pinned.       *)
THEOREM PinsBalanced == ASSUME Careful PROVE Spec => []PinsBalance
  BY TreeInvariant, PinsFollow, PTL

-----------------------------------------------------------------------------

(* What the pages of a tree store.                                         *)
StoredIn(P) ==
  UNION {{<<k, P[p].entries[k]>> : k \in DOMAIN P[p].entries} :
           p \in {p \in DOMAIN P : P[p].type # "internal"}}
ContentsIn(P) ==
  [k \in Key |-> IF \E e \in StoredIn(P) : e[1] = k
                 THEN (CHOOSE e \in StoredIn(P) : e[1] = k)[2]
                 ELSE Default]

(* What is stored, and the map it makes, before and after a step. *)
LEMMA ContentsNow ==
  /\ Stored = StoredIn(page) /\ Contents = ContentsIn(page)
  /\ Stored' = StoredIn(page') /\ Contents' = ContentsIn(page')
<1>1. Stored = StoredIn(page) /\ Stored' = StoredIn(page')
  BY DEF Stored, StoredIn, Leaves
<1> QED BY <1>1 DEF Contents, ContentsIn

(* What is stored is what some leaf holds. *)
LEMMA StoredHolds ==
  ASSUME NEW P
  PROVE  /\ \A k, v : <<k, v>> \in StoredIn(P) <=> Holds(P, k, v)
         /\ \A e \in StoredIn(P) : e = <<e[1], e[2]>>
  BY DEF StoredIn, Holds, HasEntry, IsInternal

(* The map the pages hold. *)
Maps(P) ==
  /\ ContentsIn(P) \in [Key -> Value]
  /\ \A k, v : Holds(P, k, v) => k \in Key /\ v # Default /\ ContentsIn(P)[k] = v
  /\ \A k \in Key : ContentsIn(P)[k] # Default => Holds(P, k, ContentsIn(P)[k])

(* The leaves of a settled tree hold a map. *)
LEMMA ContentsAre ==
  ASSUME NEW P, NEW root, NEW depth, NEW pl, Settled(P, root, depth, pl)
  PROVE  Maps(P)
<1>1. Nodes(P) /\ PagesSound(P, pl, 0, 0, 0)
  BY DEF Settled, Laid
<1>2. ASSUME NEW k, NEW v, NEW p \in DOMAIN P, HasEntry(P, p, k, v)
      PROVE  k \in Key /\ k \in Nat /\ v \in Value /\ v # Default /\ Within(pl, p, k)
  <2>1. ~IsInternal(P, p) /\ k \in DOMAIN P[p].entries /\ P[p].entries[k] = v
    BY <1>2 DEF HasEntry
  <2>2. P[p].entries \in Entries_
    BY <1>1, <2>1, NodeIs DEF Entries_
  <2>3. k \in Key /\ k \in Nat /\ v \in Value \ {Default}
    BY <2>1, <2>2, EntriesAre
  <2>4. LeafSound(P, pl, 0, p)
    BY <1>1, <2>1 DEF PagesSound
  <2> QED BY <2>1, <2>3, <2>4 DEF LeafSound, Within
<1>3. ASSUME NEW k, NEW v, NEW w, Holds(P, k, v), Holds(P, k, w) PROVE v = w
  <2>1. PICK p \in DOMAIN P : HasEntry(P, p, k, v)
    BY <1>3 DEF Holds
  <2>2. PICK q \in DOMAIN P : HasEntry(P, q, k, w)
    BY <1>3 DEF Holds
  <2>3. k \in Nat /\ Within(pl, p, k) /\ ~IsInternal(P, p)
    BY <1>2, <2>1 DEF HasEntry
  <2>4. AtLeaf(P, pl, p, k)
    BY <2>3, OnlyLeaf
  <2>5. q = p
    BY <2>2, <2>4 DEF AtLeaf, HoldsElsewhere
  <2> QED BY <2>1, <2>2, <2>5 DEF HasEntry
<1>4. \A k, v : Holds(P, k, v) => k \in Key /\ v \in Value /\ v # Default
  BY <1>2 DEF Holds
<1> DEFINE S == StoredIn(P)
           C == ContentsIn(P)
<1>5. /\ \A k, v : <<k, v>> \in S <=> Holds(P, k, v)
      /\ \A e \in S : e = <<e[1], e[2]>>
  BY StoredHolds
<1>6. C = [k \in Key |-> IF \E e \in S : e[1] = k THEN (CHOOSE e \in S : e[1] = k)[2] ELSE Default]
  BY DEF ContentsIn
<1> HIDE DEF S, C
<1>7. ASSUME NEW k, NEW v, Holds(P, k, v) PROVE C[k] = v
  <2>1. <<k, v>> \in S /\ <<k, v>>[1] = k /\ k \in Key
    BY <1>4, <1>5, <1>7
  <2> DEFINE c == CHOOSE e \in S : e[1] = k
  <2>2. c \in S /\ c[1] = k
    BY <2>1
  <2>3. C[k] = c[2]
    BY <1>6, <2>1
  <2> HIDE DEF c
  <2>4. c = <<k, c[2]>>
    BY <1>5, <2>2
  <2>5. Holds(P, k, c[2])
    BY <1>5, <2>2, <2>4
  <2> QED BY <1>3, <1>7, <2>3, <2>5
<1>8. ASSUME NEW k \in Key, ~\E v : Holds(P, k, v) PROVE C[k] = Default
  <2>1. ~\E e \in S : e[1] = k
    BY <1>5, <1>8
  <2> QED BY <1>6, <2>1
<1>9. \A k \in Key : C[k] \in Value
  BY <1>4, <1>7, <1>8, ConstantsAre
<1>10. C \in [Key -> Value]
  BY <1>6, <1>9
<1> QED BY <1>4, <1>7, <1>8, <1>10 DEF Maps, C

(* A put changes the datum of its key and no other.                        *)
HoldsPut(P, Q, key, datum) ==
  \A k, v : Holds(Q, k, v)
              <=> (k = key /\ v = datum /\ datum # Default) \/ (k # key /\ Holds(P, k, v))

(* The map after a put. *)
LEMMA ContentsPut ==
  ASSUME NEW P, Maps(P), NEW Q, Maps(Q), NEW key \in Key, NEW datum \in Value,
         HoldsPut(P, Q, key, datum)
  PROVE  ContentsIn(Q) = [ContentsIn(P) EXCEPT ![key] = datum]
<1> DEFINE B == ContentsIn(P)
           C == ContentsIn(Q)
<1>1. /\ B \in [Key -> Value] /\ C \in [Key -> Value]
      /\ \A k, v : Holds(P, k, v) => v # Default /\ B[k] = v
      /\ \A k, v : Holds(Q, k, v) => v # Default /\ C[k] = v
      /\ \A k \in Key : B[k] # Default => Holds(P, k, B[k])
      /\ \A k \in Key : C[k] # Default => Holds(Q, k, C[k])
  BY DEF Maps
<1> HIDE DEF B, C
<1>2. C[key] = datum
  BY <1>1 DEF HoldsPut
<1>3. ASSUME NEW k \in Key, k # key PROVE C[k] = B[k]
  BY <1>1, <1>3 DEF HoldsPut
<1> QED BY <1>1, <1>2, <1>3 DEF B, C

(* There are finitely many entries.                                        *)
LEMMA StoredFinite ==
  ASSUME NEW P, Maps(P)
  PROVE  IsFiniteSet(StoredIn(P))
<1> DEFINE C == ContentsIn(P)
           S == StoredIn(P)
           T == {<<k, C[k]>> : k \in Key}
           f == [k \in Key |-> <<k, C[k]>>]
<1>1. IsFiniteSet(Key)
  <2> DEFINE n == EndsBy - 1
  <2>1. 0 \in Int /\ n \in Int /\ Key = 0..n
    BY ConstantsAre
  <2> HIDE DEF n
  <2> QED BY <2>1, FS_Interval
<1>2. f \in Surjection(Key, T)
  BY DEF Surjection
<1>3. IsFiniteSet(T)
  <2> HIDE DEF f, T
  <2> QED BY <1>1, <1>2, FS_Surjection
<1>4. ASSUME NEW e \in S PROVE e \in T
  <2>1. e = <<e[1], e[2]>> /\ Holds(P, e[1], e[2])
    BY StoredHolds
  <2>2. e[1] \in Key /\ C[e[1]] = e[2]
    BY <2>1 DEF Maps
  <2> HIDE DEF C
  <2> QED BY <2>1, <2>2
<1>5. S \in SUBSET T
  BY <1>4
<1> HIDE DEF T, S
<1>6. IsFiniteSet(S)
  BY <1>3, <1>5, FS_Subset
<1> QED BY <1>6 DEF S

(* The number of entries after a put.                                      *)
Counts(P, Q, key, datum) ==
  Cardinality(StoredIn(Q)) =
    Cardinality(StoredIn(P)) + (IF datum = Default THEN 0 ELSE 1)
                             - (IF \E v : Holds(P, key, v) THEN 1 ELSE 0)

(* A put of a new key adds an entry, a put of Default takes one away. *)
LEMMA StoredCounts ==
  ASSUME NEW P, Maps(P), NEW Q, Maps(Q), NEW key, NEW datum, HoldsPut(P, Q, key, datum)
  PROVE  /\ Counts(P, Q, key, datum)
         /\ Cardinality(StoredIn(P)) \in Nat /\ Cardinality(StoredIn(Q)) \in Nat
<1> DEFINE S == StoredIn(P)
           T == StoredIn(Q)
           rest == {e \in S : e[1] # key}
           new == <<key, datum>>
<1>1. IsFiniteSet(S) /\ IsFiniteSet(T)
  BY StoredFinite
<1>2. /\ \A k, v : <<k, v>> \in S <=> Holds(P, k, v)
      /\ \A e \in S : e = <<e[1], e[2]>>
      /\ \A k, v : <<k, v>> \in T <=> Holds(Q, k, v)
      /\ \A e \in T : e = <<e[1], e[2]>>
  BY StoredHolds
<1> HIDE DEF S, T
<1>3. IsFiniteSet(rest)
  <2>1. rest \in SUBSET S
    OBVIOUS
  <2> HIDE DEF rest
  <2> QED BY <1>1, <2>1, FS_Subset
<1>4. Cardinality(S) \in Nat /\ Cardinality(T) \in Nat /\ Cardinality(rest) \in Nat
  <2> HIDE DEF rest
  <2> QED BY <1>1, <1>3, FS_CardinalityType
<1>5. Cardinality(S) = Cardinality(rest) + IF \E v : Holds(P, key, v) THEN 1 ELSE 0
  <2>1. CASE ~\E v : Holds(P, key, v)
    <3>1. rest = S
      BY <1>2, <2>1
    <3> QED BY <1>4, <2>1, <3>1
  <2>2. ASSUME NEW v, Holds(P, key, v) PROVE Cardinality(S) = Cardinality(rest) + 1
    <3> DEFINE x == <<key, v>>
    <3>1. x \in S /\ x[1] = key
      BY <1>2, <2>2
    <3>2. \A e \in S : e[1] = key => e = x
      <4>1. \A k, w : Holds(P, k, w) => ContentsIn(P)[k] = w
        BY DEF Maps
      <4> QED BY <1>2, <2>2, <4>1
    <3> HIDE DEF x
    <3>3. S = rest \cup {x} /\ x \notin rest
      BY <3>1, <3>2
    <3> HIDE DEF rest
    <3> QED BY <1>3, <3>3, FS_AddElement
  <2> QED BY <2>1, <2>2
<1>6. Cardinality(T) = Cardinality(rest) + IF datum = Default THEN 0 ELSE 1
  <2>1. \A e \in rest : e \in T /\ e[1] # key
    BY <1>2 DEF HoldsPut
  <2>2. \A e \in T : e \in rest \/ (e = new /\ datum # Default)
    BY <1>2 DEF HoldsPut
  <2>3. datum # Default => new \in T
    BY <1>2 DEF HoldsPut
  <2>4. new[1] = key
    OBVIOUS
  <2>5. CASE datum = Default
    <3>1. T = rest
      BY <2>1, <2>2, <2>5
    <3> QED BY <1>4, <2>5, <3>1
  <2>6. CASE datum # Default
    <3>1. new \notin rest
      BY <2>4
    <3> HIDE DEF rest, new
    <3>2. T = rest \cup {new}
      BY <2>1, <2>2, <2>3, <2>6
    <3> QED BY <1>3, <2>6, <3>1, <3>2, FS_AddElement
  <2> QED BY <2>5, <2>6
<1> HIDE DEF rest
<1> DEFINE a == IF datum = Default THEN 0 ELSE 1
           b == IF \E v : Holds(P, key, v) THEN 1 ELSE 0
<1>7. a \in Nat /\ b \in Nat
  OBVIOUS
<1>8. Cardinality(T) = Cardinality(S) + a - b
  <2>1. Cardinality(S) = Cardinality(rest) + b /\ Cardinality(T) = Cardinality(rest) + a
    BY <1>5, <1>6
  <2> HIDE DEF a, b
  <2> QED BY <1>4, <1>7, <2>1
<1> QED BY <1>4, <1>8 DEF Counts, S, T

-----------------------------------------------------------------------------

(* What a put does to the variables.                                       *)
Puts(e) ==
  /\ e.key \in Key /\ e.datum \in Value
  /\ \E t : PutStep(Tree, t, e.key, e.datum) /\ page' = t.page /\ header' = t.header

(* A cursor that is closed leaves the pages and the header as they are. *)
LEMMA ClosedPuts ==
  ASSUME NEW t, NEW key, NEW datum, PutStep(Tree, t, key, datum), NEW u, u \in {t, Closed(t)}, Becomes(u)
  PROVE  page' = t.page /\ header' = t.header
<1>1. PICK pl : Ready(t, pl, {key})
  BY DEF PutStep
<1>2. u.page = t.page /\ u.header = t.header
  <2> DEFINE w == Closed(t)
             A == {key}
  <2> HIDE DEF w, A
  <2>1. w.page = t.page /\ w.header = t.header
    BY <1>1, ClosedReady DEF w, A
  <2> QED BY <2>1 DEF w
<1> QED BY <1>2 DEF Becomes

(* A put puts its entry. *)
LEMMA TreePuts ==
  ASSUME TreeInv, NEW e \in Entry, TreePut(e), e.key < EndsBy
  PROVE  Puts(e)
<1>1. job = <<>> /\ e.key \in Nat /\ e.datum \in Value /\ e.key \in Key
  BY ConstantsAre DEF TreePut, Entry
<1>2. PICK t \in PutHelper(Tree, e.key, e.datum).trees : Becomes(Closed(t))
  <2>1. ~(e.key >= EndsBy)
    BY <1>1, ConstantsAre
  <2> QED BY <2>1 DEF TreePut
<1> DEFINE A == {e.key}
<1>3. PICK pl : Ready(Tree, pl, A)
  BY <1>1, ReadyForAny
<1>4. PutStep(Tree, t, e.key, e.datum)
  <2>1. e.key \in A
    OBVIOUS
  <2> HIDE DEF A
  <2> QED BY <1>1, <1>2, <1>3, <2>1, PutHelperDone
<1>5. page' = t.page /\ header' = t.header
  <2> DEFINE u == Closed(t)
  <2>1. u \in {t, Closed(t)} /\ Becomes(u)
    BY <1>2
  <2> HIDE DEF u
  <2> QED BY <1>4, <2>1, ClosedPuts
<1> QED BY <1>1, <1>4, <1>5 DEF Puts

(* A step of a batch puts its first entry, unless its key is out of range. *)
LEMMA BatchPuts ==
  ASSUME NEW es, IsBatch(es, MaxBatch), es # <<>>, NEW pl, Ready(Tree, pl, KeysOf(es)),
         BatchStep(es)
  PROVE  IF Head(es).key < EndsBy THEN Puts(Head(es)) ELSE page' = page /\ header' = header
<1> DEFINE e == Head(es)
           After(t) == IF Len(es) = 1 THEN Closed(t) ELSE t
<1>1. e.key \in Nat /\ e.datum \in Value /\ e.key \in KeysOf(es)
  BY BatchTail, ConstantsAre
<1>2. \/ e.key >= EndsBy /\ Becomes(After(Tree))
      \/ /\ e.key < EndsBy
         /\ \E t \in PutHelper(Tree, e.key, e.datum).trees : Becomes(After(t))
  BY DEF BatchStep
<1>3. CASE e.key < EndsBy
  <2>1. PICK t \in PutHelper(Tree, e.key, e.datum).trees : Becomes(After(t))
    BY <1>1, <1>2, <1>3, ConstantsAre
  <2> DEFINE key == e.key
             datum == e.datum
  <2>2. PutStep(Tree, t, key, datum)
    BY <1>1, <1>3, <2>1, PutHelperDone
  <2>3. page' = t.page /\ header' = t.header
    <3> DEFINE u == After(t)
    <3>1. u \in {t, Closed(t)} /\ Becomes(u)
      BY <2>1
    <3> HIDE DEF u, key, datum
    <3> QED BY <2>2, <3>1, ClosedPuts
  <2>4. e.key \in Key
    BY <1>1, <1>3, ConstantsAre
  <2>5. Puts(e)
    BY <1>1, <2>2, <2>3, <2>4 DEF Puts
  <2> QED BY <1>3, <2>5
<1>4. CASE ~(e.key < EndsBy)
  <2>1. Becomes(After(Tree))
    BY <1>2, <1>4
  <2>2. Closed(Tree).page = page /\ Closed(Tree).header = header
    <3> DEFINE w == Closed(Tree)
               A == KeysOf(es)
    <3> HIDE DEF w, A
    <3>1. w.page = Tree.page /\ w.header = Tree.header
      BY ClosedReady DEF w, A
    <3> QED BY <3>1, TreeFields DEF w
  <2>3. After(Tree).page = page /\ After(Tree).header = header
    BY <2>2, TreeFields
  <2> HIDE DEF After
  <2>4. page' = page /\ header' = header
    BY <2>1, <2>3 DEF Becomes
  <2> QED BY <1>4, <2>4
<1> QED BY <1>3, <1>4

(* A batch that begins, or goes on.                                        *)
LEMMA BatchBegins ==
  ASSUME TreeInv, NEW n \in 1..MaxBatch, NEW es \in [1..n -> Entry], BatchPut(es)
  PROVE  /\ IsBatch(es, MaxBatch) /\ es # <<>> /\ BatchStep(es) /\ job = <<>>
         /\ \E pl : Ready(Tree, pl, KeysOf(es))
<1>1. job = <<>> /\ BatchStep(es)
  BY DEF BatchPut
<1>2. n \in Nat /\ n >= 1 /\ n <= MaxBatch
  BY ConstantsAre
<1>3. es \in Seq(Entry) /\ Len(es) = n
  BY <1>2
<1>4. IsBatch(es, MaxBatch) /\ es # <<>>
  BY <1>2, <1>3, EmptySeq DEF IsBatch
<1>5. \E pl : Ready(Tree, pl, KeysOf(es))
  BY <1>1, ReadyForAny
<1> QED BY <1>1, <1>4, <1>5

(* A batch that goes on is one that is ready to. *)
LEMMA BatchGoesOn ==
  ASSUME TreeInv, BatchPutNext
  PROVE  /\ IsBatch(job, MaxBatch) /\ job # <<>> /\ BatchStep(job)
         /\ \E pl : Ready(Tree, pl, KeysOf(job))
<1>1. job # <<>> /\ BatchStep(job)
  BY DEF BatchPutNext
<1>2. IsBatch(job, MaxBatch)
  BY ConstantsAre DEF TreeInv, IsBatch
<1>3. \E pl : Ready(Tree, pl, KeysOf(job))
  BY DEF TreeInv, TreeIs
<1> QED BY <1>1, <1>2, <1>3

(* The map before and after a step.                                        *)
LEMMA TreeMaps ==
  ASSUME TreeInv
  PROVE  Maps(page)
<1>1. PICK pl : Laying(pl)
  BY TreeLies
<1> QED BY <1>1, ContentsAre DEF Laying

(* The leaves hold a map after the step, too. *)
LEMMA TreeMapsNext ==
  ASSUME TreeInv'
  PROVE  Maps(page')
<1>1. TreeIs'
  BY DEF TreeInv
<1>2. PICK pl : Ready(Tree', pl, KeysOf(job'))
  BY <1>1 DEF TreeIs
<1>3. Tree'.page = page' /\ Tree'.header = header'
  BY DEF Tree
<1>4. Settled(page', header'.root, header'.depth, pl)
  BY <1>2, <1>3 DEF Ready, AtRest
<1> QED BY <1>4, ContentsAre

(* Every step puts an entry, or leaves the pages and the count.            *)
LEMMA StepEffect ==
  ASSUME TreeInv, Next
  PROVE  \/ \E e : Puts(e)
         \/ page' = page /\ (header'.nnz = header.nnz \/ call'.op = "reopen")
<1>1. ASSUME NEW e \in Entry, TreePut(e)
      PROVE  (\E x : Puts(x)) \/ (page' = page /\ header' = header)
  <2>1. e.key \in 0..EndsBy /\ EndsBy \in Nat
    BY ConstantsAre DEF Entry
  <2>2. CASE e.key < EndsBy
    BY <1>1, <2>2, TreePuts
  <2>3. CASE e.key >= EndsBy
    BY <1>1, <2>1, <2>3 DEF TreePut
  <2> QED BY <2>1, <2>2, <2>3
<1>2. ASSUME NEW n \in 1..MaxBatch, NEW es \in [1..n -> Entry], BatchPut(es)
      PROVE  (\E x : Puts(x)) \/ (page' = page /\ header' = header)
  <2>1. IsBatch(es, MaxBatch) /\ es # <<>> /\ BatchStep(es) /\ \E pl : Ready(Tree, pl, KeysOf(es))
    BY <1>2, BatchBegins
  <2>2. PICK pl : Ready(Tree, pl, KeysOf(es))
    BY <2>1
  <2> QED BY <2>1, <2>2, BatchPuts
<1>3. ASSUME BatchPutNext
      PROVE  (\E x : Puts(x)) \/ (page' = page /\ header' = header)
  <2>1. IsBatch(job, MaxBatch) /\ job # <<>> /\ BatchStep(job) /\ \E pl : Ready(Tree, pl, KeysOf(job))
    BY <1>3, BatchGoesOn
  <2>2. PICK pl : Ready(Tree, pl, KeysOf(job))
    BY <2>1
  <2> QED BY <2>1, <2>2, BatchPuts
<1>4. ASSUME NEW key, Get(key) PROVE page' = page /\ header' = header
  BY SMTT(30), <1>4 DEF Get, Unchanged
<1>5. ASSUME NEW keys, BatchGet(keys) PROVE page' = page /\ header' = header
  BY <1>5 DEF BatchGet, Unchanged
<1>6. ASSUME NEW b, NEW e, RangeGet(b, e) PROVE page' = page /\ header' = header
  BY <1>6 DEF RangeGet
<1>7. ASSUME NEW p, Evict(p) PROVE page' = page /\ header' = header
  BY <1>7 DEF Evict
<1>8. ASSUME Flush PROVE page' = page /\ header'.nnz = header.nnz
  <2>1. IsHeader(header)
    BY HeaderOf
  <2>2. page' = page /\ header' = [header EXCEPT !.dirty = FALSE]
    BY <1>8 DEF Flush
  <2> QED BY <2>1, <2>2 DEF IsHeader
<1>9. ASSUME Reopen PROVE page' = page /\ call'.op = "reopen"
  BY <1>9 DEF Reopen, Called
<1> QED BY <1>1, <1>2, <1>3, <1>4, <1>5, <1>6, <1>7, <1>8, <1>9 DEF Next

(* The count of a step is the count of the entries it adds or takes away. *)
LEMMA CountStep ==
  ASSUME TreeInv, TreeInv', [Next]_vars
  PROVE  [CountFollows]_vars
<1> SUFFICES ASSUME Next, call'.op # "reopen" PROVE CountFollows
  BY DEF CountFollows
<1> DEFINE n == header.nnz
           S == StoredIn(page)
           T == StoredIn(page')
<1>1. Entries = Cardinality(S) /\ Entries' = Cardinality(T)
  BY ContentsNow DEF Entries
<1>2. Maps(page) /\ Maps(page')
  BY TreeMaps, TreeMapsNext
<1>3. n \in 0..SizeMod-1
  BY HeaderOf DEF IsHeader
<1>4. CASE page' = page /\ header'.nnz = header.nnz
  <2>1. Entries' - Entries = 0
    <3>1. Cardinality(S) \in Nat
      BY <1>2, StoredFinite, FS_CardinalityType
    <3> HIDE DEF S, T
    <3>2. T = S
      BY <1>4 DEF S, T
    <3> QED BY <1>1, <3>1, <3>2
  <2>2. header'.nnz - header.nnz = 0
    BY <1>3, <1>4
  <2> QED BY <2>1, <2>2 DEF CountFollows
<1>5. ASSUME NEW e, Puts(e) PROVE CountFollows
  <2> DEFINE key == e.key
             datum == e.datum
             a == IF datum = Default THEN 0 ELSE 1
             b == IF \E v : Holds(page, key, v) THEN 1 ELSE 0
  <2>1. PICK t : PutStep(Tree, t, key, datum) /\ page' = t.page /\ header' = t.header
    BY <1>5 DEF Puts
  <2>2. HoldsPut(page, page', key, datum) /\ header'.nnz = (n + a - b) % SizeMod
    BY <2>1, TreeFields DEF PutStep, HoldsPut
  <2>3. Cardinality(T) = Cardinality(S) + a - b /\ Cardinality(S) \in Nat
    BY <1>2, <2>2, StoredCounts DEF Counts
  <2>4. a \in {0, 1} /\ b \in {0, 1} /\ SizeMod \in Nat /\ SizeMod > 2
    BY ConstantsAre
  <2> DEFINE d == a - b
  <2> HIDE DEF a, b, n, S, T
  <2>5. d \in {-1, 0, 1} /\ n + a - b = n + d /\ Entries' - Entries = d
    BY <1>1, <1>3, <2>3, <2>4
  <2> HIDE DEF d
  <2>6. (((n + d) % SizeMod) - n) % SizeMod = d % SizeMod
    BY <1>3, <2>4, <2>5, CountChange
  <2> QED BY <2>2, <2>5, <2>6 DEF CountFollows, n
<1> QED BY <1>4, <1>5, StepEffect

(* nnz follows the number of entries, put after put.                       *)
THEOREM CountsFollow == ASSUME Careful PROVE Spec => NnzFollows
<1>1. TreeInv /\ TreeInv' /\ [Next]_vars => [CountFollows]_vars
  BY CountStep
<1> QED BY <1>1, TreeInvariant, PTL DEF Spec, NnzFollows

-----------------------------------------------------------------------------

(* What the store makes of one entry.                                      *)
LEMMA StoreAfterOne ==
  ASSUME NEW m, m \in [Key -> Value], NEW e
  PROVE  Store!After(m, <<e>>) = IF e.key \in Key THEN [m EXCEPT ![e.key] = e.datum] ELSE m
<1> DEFINE own(k) == {i \in DOMAIN <<e>> : <<e>>[i].key = k}
           w == Store!After(m, <<e>>)
<1>1. DOMAIN <<e>> = {1} /\ <<e>>[1] = e
  OBVIOUS
<1>2. w = [k \in Key |-> IF own(k) = {} THEN m[k] ELSE <<e>>[Store!Max(own(k))].datum]
  BY DEF Store!After
<1>3. Store!Max({1}) = 1
  BY DEF Store!Max
<1>4. \A k : own(k) = IF e.key = k THEN {1} ELSE {}
  BY <1>1
<1> HIDE DEF own, w
<1>5. ASSUME NEW k \in Key PROVE w[k] = IF k = e.key THEN e.datum ELSE m[k]
  <2>1. CASE e.key = k
    <3>1. own(k) = {1}
      BY <1>4, <2>1
    <3>2. w[k] = <<e>>[Store!Max({1})].datum
      BY <1>2, <3>1
    <3> QED BY <1>1, <1>3, <2>1, <3>2
  <2>2. CASE e.key # k
    <3>1. own(k) = {}
      BY <1>4, <2>2
    <3> QED BY <1>2, <2>2, <3>1
  <2> QED BY <2>1, <2>2
<1>6. DOMAIN w = Key /\ w = [k \in Key |-> w[k]]
  BY <1>2
<1> QED BY ZenonT(40), <1>5, <1>6 DEF w

(* A put changes the map as the store promises. *)
LEMMA PutsAfter ==
  ASSUME TreeInv, TreeInv', NEW e, Puts(e)
  PROVE  Contents' = Store!After(Contents, <<e>>)
<1>1. Maps(page) /\ Maps(page')
  BY TreeMaps, TreeMapsNext
<1> DEFINE key == e.key
           datum == e.datum
<1>2. PICK t : PutStep(Tree, t, key, datum) /\ page' = t.page
  BY DEF Puts
<1>3. key \in Key /\ datum \in Value /\ HoldsPut(page, page', key, datum)
  BY <1>2, TreeFields DEF Puts, PutStep, HoldsPut
<1>4. ContentsIn(page') = [ContentsIn(page) EXCEPT ![key] = datum]
  <2> HIDE DEF key, datum
  <2> QED BY <1>1, <1>3, ContentsPut
<1>5. Contents \in [Key -> Value]
  BY <1>1, ContentsNow DEF Maps
<1> QED BY <1>3, <1>4, <1>5, ContentsNow, StoreAfterOne

(* A step that leaves the pages alone leaves the map alone. *)
LEMMA PagesAfter ==
  ASSUME page' = page
  PROVE  Contents' = Contents
  BY ContentsNow

(* The first put of a tree, of a batch, of what is left of it.             *)
LEMMA TreePutIs ==
  ASSUME TreeInv, TreeInv', NEW e \in Entry, TreePut(e)
  PROVE  Store!Put
<1>1. job = <<>> /\ job' = job /\ e.key \in 0..EndsBy /\ EndsBy \in Nat /\ Key = 0..EndsBy-1
  BY ConstantsAre DEF TreePut, Entry
<1>2. Contents \in [Key -> Value]
  BY TreeMaps, ContentsNow DEF Maps
<1>3. CASE e.key < EndsBy
  <2>1. Puts(e) /\ e.key \in Key
    BY <1>1, <1>3, TreePuts
  <2>2. Contents' = Store!After(Contents, <<e>>)
    BY <2>1, PutsAfter
  <2>3. call' = Called("put", e, PutHelper(Tree, e.key, e.datum).answer)
    BY <1>1, <1>3 DEF TreePut
  <2>4. PutHelper(Tree, e.key, e.datum).answer \in {"kOK", "kOverflow", "kSwitchFormat"}
    BY DEF PutHelper, PutAt, PutThere, PutAnswer
  <2> HIDE DEF PutHelper
  <2>5. call'.op = "put" /\ call'.arg = e /\ call'.answer \in {"kOK", "kOverflow", "kSwitchFormat"}
    BY <2>3, <2>4 DEF Called
  <2> QED BY <1>1, <2>1, <2>2, <2>5 DEF Store!Put
<1>4. CASE e.key >= EndsBy
  <2>1. e.key \notin Key
    BY <1>1, <1>4
  <2>2. page' = page /\ call'.op = "put" /\ call'.arg = e /\ call'.answer = "kOutOfBound"
    BY <1>1, <1>4 DEF TreePut, Called
  <2>3. Contents' = Store!After(Contents, <<e>>)
    BY <1>2, <2>1, <2>2, PagesAfter, StoreAfterOne
  <2> QED BY <1>1, <2>1, <2>2, <2>3 DEF Store!Put
<1> QED BY <1>1, <1>3, <1>4

(* A step of a batch is one of the store. *)
LEMMA BatchStepIs ==
  ASSUME TreeInv, TreeInv', NEW es, IsBatch(es, MaxBatch), es # <<>>, BatchStep(es),
         NEW pl, Ready(Tree, pl, KeysOf(es)), job \in {<<>>, es}
  PROVE  Store!Step
<1> DEFINE e == Head(es)
<1>1. /\ call'.op = "batchPut" /\ call'.arg.left = es /\ call'.arg.group = <<e>> /\ job' = Tail(es)
  BY DEF BatchStep, Called
<1>2. es \in Seq(Entry) /\ Len(es) \in Nat /\ Len(es) >= 1
  <2>1. es \in Seq(Entry)
    BY DEF IsBatch
  <2> QED BY <2>1, EmptySeq
<1>3. <<e>> = SubSeq(es, 1, 1) /\ Tail(es) = SubSeq(es, 1 + 1, Len(es)) /\ 1 \in 1..Len(es)
  BY <1>2
<1>4. e.key \in Nat /\ EndsBy \in Nat /\ Key = 0..EndsBy-1
  BY BatchTail, ConstantsAre
<1>5. Contents' = Store!After(Contents, <<e>>)
  <2>1. CASE e.key < EndsBy
    <3>1. Puts(e)
      BY <2>1, BatchPuts
    <3> HIDE DEF e
    <3> QED BY <3>1, PutsAfter
  <2>2. CASE ~(e.key < EndsBy)
    <3>1. page' = page /\ e.key \notin Key
      BY <1>4, <2>2, BatchPuts
    <3>2. Contents \in [Key -> Value]
      BY TreeMaps, ContentsNow DEF Maps
    <3> HIDE DEF e
    <3> QED BY <3>1, <3>2, PagesAfter, StoreAfterOne
  <2> QED BY <2>1, <2>2
<1> HIDE DEF e
<1> QED BY <1>1, <1>3, <1>5 DEF Store!Step

-----------------------------------------------------------------------------
(* What the leaf of a key has for it.                                      *)
LEMMA DatumAt ==
  ASSUME NEW P, Maps(P), NEW pl, NEW a, NEW key \in Key, AtLeaf(P, pl, a, key)
  PROVE  DatumIn(P[a].entries, key) = ContentsIn(P)[key]
<1> DEFINE m == P[a].entries
           C == ContentsIn(P)
<1>1. a \in DOMAIN P /\ ~IsInternal(P, a) /\ \A v : ~HoldsElsewhere(P, a, key, v)
  BY DEF AtLeaf
<1>2. CASE key \in DOMAIN m
  <2>1. Holds(P, key, m[key])
    BY <1>1, <1>2 DEF Holds, HasEntry
  <2> HIDE DEF m, C
  <2>2. C[key] = m[key]
    BY <2>1 DEF Maps, C
  <2> QED BY <1>2, <2>2 DEF DatumIn, m, C
<1>3. CASE key \notin DOMAIN m
  <2>1. ~Holds(P, key, C[key])
    BY <1>1, <1>3 DEF Holds, HasEntry, HoldsElsewhere
  <2>2. C[key] = Default
    BY <2>1 DEF Maps
  <2> QED BY <1>3, <2>2 DEF DatumIn
<1> QED BY <1>2, <1>3

(* A get answers with what was put. *)
LEMMA GetIs ==
  ASSUME TreeInv, NEW key \in 0..EndsBy, Get(key)
  PROVE  Store!Read
<1>1. job = <<>> /\ page' = page /\ job' = job
  BY DEF Get, Unchanged
<1>2. key \in Nat /\ (key \in Key <=> ~(key >= EndsBy))
  BY ConstantsAre
<1> DEFINE answer == IF key >= EndsBy THEN NA ELSE DatumIn(EntriesAt(Searched(Tree, key)), key)
<1>3. call' = Called("get", key, answer)
  BY DEF Get
<1>4. answer = IF key \in Key THEN Contents[key] ELSE NA
  <2>1. CASE key \in Key
    <3> DEFINE u == Searched(Tree, key)
               A == Nat
    <3>1. PICK pl : Ready(Tree, pl, A)
      BY <1>1, ReadyForAny
    <3>2. SearchDone(Tree, pl, key, u)
      <4>1. key \in A /\ key \in Nat /\ key < EndsBy
        BY <1>2, <2>1, ConstantsAre
      <4> HIDE DEF A, u
      <4>2. u = Searched(Tree, key)
        BY DEF u
      <4> QED BY <3>1, <4>1, <4>2, SearchIsDone
    <3> DEFINE a == EndOf(u)
    <3>3. AtLeaf(page, pl, a, key) /\ EntriesAt(u) = page[a].entries
      BY <3>2, TreeFields DEF SearchDone, EntriesAt
    <3>4. Maps(page)
      BY TreeMaps
    <3> HIDE DEF u, a
    <3>5. DatumIn(page[a].entries, key) = Contents[key]
      BY <2>1, <3>3, <3>4, DatumAt, ContentsNow
    <3> QED BY <1>2, <2>1, <3>3, <3>5 DEF u
  <2>2. CASE key \notin Key
    BY <1>2, <2>2
  <2> QED BY <2>1, <2>2
<1> HIDE DEF answer
<1>5. call'.op = "get" /\ call'.arg = key /\ call'.answer = answer
  BY <1>3 DEF Called
<1>6. Store!Answers("get", key, answer)
  BY <1>4 DEF Store!Answers
<1> QED BY <1>1, <1>5, <1>6, PagesAfter DEF Store!Read

(* The steps that change nothing a caller sees.                            *)
LEMMA QuietIs ==
  ASSUME (\E p : Evict(p)) \/ Flush \/ Reopen
  PROVE  Store!Quiet
<1>1. ASSUME NEW p, Evict(p) PROVE page' = page /\ job' = job /\ call'.op = "quiet"
  BY <1>1 DEF Evict, Called
<1>2. ASSUME Flush PROVE page' = page /\ job' = job /\ call'.op = "quiet"
  BY <1>2 DEF Flush, Called
<1>3. ASSUME Reopen PROVE page' = page /\ job' = job /\ call'.op = "reopen"
  BY <1>3 DEF Reopen, Called
<1>4. page' = page /\ job' = job /\ call'.op \in {"quiet", "reopen"}
  BY <1>1, <1>2, <1>3
<1> QED BY <1>4, PagesAfter DEF Store!Quiet

(* A new tree is an empty store. *)
LEMMA StoreInit ==
  ASSUME Init
  PROVE  Store!Init
<1>1. page = NewPages /\ job = <<>> /\ call.op = "create"
  BY DEF Init, NewPages, Called
<1>2. StoredIn(page) = {}
  BY <1>1 DEF StoredIn, NewPages, Leaf, NoEntries
<1>3. Contents = [k \in Key |-> Default]
  BY <1>2, ContentsNow DEF ContentsIn
<1> QED BY <1>1, <1>3 DEF Store!Init

-----------------------------------------------------------------------------

(* Neighbours in order: all in order.                                      *)
LEMMA AscendingIs ==
  ASSUME NEW ks, NEW n \in Nat, DOMAIN ks = 1..n, Len(ks) = n, \A i \in 1..n : ks[i] \in Nat,
         Ascending(ks)
  PROVE  \A i, j \in 1..n : i < j => ks[i] <= ks[j]
<1>1. \A i \in 1..n-1 : ks[i] <= ks[i + 1]
  BY DEF Ascending
<1> SUFFICES ASSUME NEW i \in 1..n, NEW j \in 1..n, i < j PROVE ks[i] <= ks[j]
  OBVIOUS
<1> DEFINE S == {k \in i..n : ks[i] <= ks[k]}
<1>2. i \in S
  OBVIOUS
<1>3. ASSUME NEW k \in i+1..n, k - 1 \in S PROVE k \in S
  <2>1. k - 1 \in 1..n-1 /\ (k - 1) + 1 = k /\ k \in i..n /\ k \in 1..n /\ k - 1 \in 1..n
    OBVIOUS
  <2>2. ks[k - 1] <= ks[k]
    BY <1>1, <2>1
  <2> QED BY <1>3, <2>1, <2>2
<1>4. i \in Int /\ n \in Int /\ j \in i..n
  OBVIOUS
<1> HIDE DEF S
<1>5. \A k \in i..n : k \in S
  BY <1>2, <1>3, <1>4, UpTo
<1> QED BY <1>4, <1>5 DEF S

(* The gets of a batch, one after the other.                               *)
NextGot(r, key) ==
  IF key >= EndsBy THEN [r EXCEPT !.data = Append(@, Default)]
  ELSE LET t == Searched(r.tree, key)
       IN  [tree |-> t, data |-> Append(r.data, DatumIn(EntriesAt(t), key))]
FirstGot == [tree |-> Tree, data |-> <<>>]
Got(keys) ==
  CHOOSE f : f = [i \in 0..Len(keys) |-> IF i = 0 THEN FirstGot ELSE NextGot(f[i - 1], keys[i])]
Gets(keys, f) ==
  f[0] = FirstGot /\ \A i \in 1..Len(keys) : f[i] = NextGot(f[i - 1], keys[i])

(* The recursive function of BatchGet is defined. *)
LEMMA GotExists ==
  ASSUME NEW keys, Len(keys) \in Nat, NEW f, f = Got(keys)
  PROVE  Gets(keys, f)
<1> DEFINE n == Len(keys)
           Step(c, i) == IF i = 0 THEN FirstGot ELSE NextGot(c, keys[i])
           IsGot(h, k) == h = [i \in 0..k |-> Step(h[i - 1], i)]
           S == {k \in 0..n : \E h : IsGot(h, k)}
<1>1. n \in Nat /\ 0 \in 0..n
  OBVIOUS
<1>2. 0 \in S
  <2> DEFINE h == [i \in 0..0 |-> FirstGot]
  <2>1. h = [i \in 0..0 |-> IF i = 0 THEN FirstGot ELSE NextGot(h[i - 1], keys[i])]
    <3>1. \A i \in 0..0 : i = 0
      OBVIOUS
    <3> QED BY <3>1
  <2>2. IsGot(h, 0)
    BY <2>1
  <2> HIDE DEF IsGot
  <2> QED BY <1>1, <2>2
<1>3. ASSUME NEW k \in 0+1..n, k - 1 \in S PROVE k \in S
  <2>1. PICK h : IsGot(h, k - 1)
    BY <1>3
  <2> HIDE DEF Step
  <2> DEFINE g == [i \in 0..k |-> IF i = k THEN Step(h[k - 1], k) ELSE h[i]]
  <2>2. \A i \in 0..k-1 : h[i] = Step(h[i - 1], i)
    BY <2>1
  <2>3. \A c, d : Step(c, 0) = Step(d, 0)
    BY DEF Step
  <2>4. ASSUME NEW i \in 0..k PROVE g[i] = Step(g[i - 1], i)
    <3>1. i # 0 => i - 1 \in 0..k /\ i - 1 # k
      OBVIOUS
    <3>2. i # 0 => g[i - 1] = h[i - 1]
      BY <3>1
    <3>3. g[i] = IF i = k THEN Step(h[k - 1], k) ELSE h[i]
      OBVIOUS
    <3> HIDE DEF g
    <3>4. i # k => i \in 0..k-1
      OBVIOUS
    <3>5. k # 0
      OBVIOUS
    <3> QED BY <2>2, <2>3, <3>2, <3>3, <3>4, <3>5
  <2>5. g = [i \in 0..k |-> g[i]]
    OBVIOUS
  <2>6. IsGot(g, k)
    <3> HIDE DEF g
    <3> QED BY <2>4, <2>5
  <2>7. k \in 0..n
    OBVIOUS
  <2> HIDE DEF IsGot
  <2> QED BY <2>6, <2>7
<1>4. n \in S
  <2> DEFINE lo == 0
  <2>1. lo \in Int /\ n \in Int /\ lo \in S /\ n \in lo..n
    BY <1>1, <1>2
  <2>2. \A k \in lo+1..n : k - 1 \in S => k \in S
    BY <1>3
  <2> HIDE DEF S, lo, n
  <2>3. \A k \in lo..n : k \in S
    BY <2>1, <2>2, UpTo
  <2> QED BY <2>1, <2>3
<1>5. IsGot(f, n)
  <2>1. PICK h : IsGot(h, n)
    BY <1>4
  <2> QED BY <2>1 DEF Got
<1>6. \A i \in 0..n : f[i] = Step(f[i - 1], i)
  <2> HIDE DEF Step
  <2> QED BY <1>5
<1>7. f[0] = FirstGot
  BY <1>1, <1>6
<1>8. ASSUME NEW i \in 1..n PROVE f[i] = NextGot(f[i - 1], keys[i])
  <2>1. i \in 0..n /\ i # 0
    OBVIOUS
  <2>2. f[i] = Step(f[i - 1], i)
    BY <1>6, <2>1
  <2> QED BY <2>1, <2>2
<1> QED BY <1>7, <1>8 DEF Gets

(* What the first i gets have answered, and the tree they leave for the    *)
(* keys that are ahead.                                                    *)
DatumOf(key) == IF key \in Key THEN Contents[key] ELSE Default
Ahead(keys, i) == {keys[j] : j \in {j \in DOMAIN keys : i < j}}
GotUpTo(pl, keys, i, r) ==
  /\ r = [tree |-> r.tree, data |-> r.data]
  /\ r.tree.page = page /\ r.tree.bounds = bounds /\ Ready(r.tree, pl, Ahead(keys, i))
  /\ r.data = [j \in 1..i |-> DatumOf(keys[j])]

GetsOf(keys, n) ==
  /\ n \in Nat /\ DOMAIN keys = 1..n /\ Len(keys) = n
  /\ \A i \in 1..n : keys[i] \in 0..EndsBy
  /\ DOMAIN bounds = {} \/ \A i, j \in 1..n : i < j => keys[i] <= keys[j]

(* The answer with one more datum. *)
LEMMA DataLonger ==
  ASSUME NEW i \in Nat, NEW keys, NEW d
  PROVE  Append([j \in 1..i |-> DatumOf(keys[j])], DatumOf(keys[i + 1])) = [j \in 1..i+1 |-> DatumOf(keys[j])]
<1> DEFINE s == [j \in 1..i |-> DatumOf(keys[j])]
           t == [j \in 1..i+1 |-> DatumOf(keys[j])]
           S == {DatumOf(keys[j]) : j \in 1..i+1}
           x == DatumOf(keys[i + 1])
<1>1. \A j \in 1..i : DatumOf(keys[j]) \in S
  OBVIOUS
<1>2. s \in Seq(S) /\ Len(s) = i /\ x \in S
  <2> HIDE DEF S
  <2>1. s \in [1..i -> S] /\ DOMAIN s = 1..i
    BY <1>1
  <2>2. x \in S
    BY DEF S
  <2> HIDE DEF s, x
  <2> QED BY <2>1, <2>2
<1> DEFINE a == Append(s, x)
<1>3. DOMAIN a = 1..i+1 /\ a = [j \in 1..i+1 |-> a[j]] /\ a[i + 1] = x /\ \A j \in 1..i : a[j] = s[j]
  <2> HIDE DEF s, x, S
  <2>1. a \in Seq(S) /\ Len(a) = i + 1 /\ a[i + 1] = x /\ \A j \in 1..i : a[j] = s[j]
    BY <1>2, AppendProperties
  <2> HIDE DEF a
  <2>2. DOMAIN a = 1..i+1 /\ a = [j \in 1..i+1 |-> a[j]]
    BY <2>1
  <2> QED BY <2>1, <2>2
<1> HIDE DEF a
<1>4. \A j \in 1..i+1 : a[j] = t[j]
  <2>1. \A j \in 1..i+1 : j \in 1..i \/ j = i + 1
    OBVIOUS
  <2>2. \A j \in 1..i : j \in 1..i+1
    OBVIOUS
  <2> QED BY <1>3, <2>1, <2>2
<1>5. a = t
  BY <1>3, <1>4
<1> QED BY <1>5 DEF a

(* One more get of the batch answers with what was put. *)
LEMMA GotNext ==
  ASSUME Maps(page), NEW pl, NEW keys, NEW n, GetsOf(keys, n), NEW i \in Nat, i < n,
         NEW r, GotUpTo(pl, keys, i, r), NEW s, s = NextGot(r, keys[i + 1])
  PROVE  GotUpTo(pl, keys, i + 1, s)
<1> DEFINE key == keys[i + 1]
           A == Ahead(keys, i)
           B == Ahead(keys, i + 1)
<1>1. /\ n \in Nat /\ DOMAIN keys = 1..n /\ i + 1 \in 1..n /\ key \in Nat /\ key \in 0..EndsBy
      /\ \A j \in 1..n : keys[j] \in 0..EndsBy
      /\ DOMAIN bounds = {} \/ \A k, j \in 1..n : k < j => keys[k] <= keys[j]
  BY ConstantsAre DEF GetsOf
<1>2. key \in A /\ B \subseteq A /\ \A k \in A : k \in Nat
  BY <1>1, ConstantsAre DEF Ahead
<1>3. /\ r = [tree |-> r.tree, data |-> r.data] /\ r.tree.page = page /\ r.tree.bounds = bounds
      /\ Ready(r.tree, pl, A) /\ r.data = [j \in 1..i |-> DatumOf(keys[j])]
  BY DEF GotUpTo
<1>4. Append(r.data, DatumOf(key)) = [j \in 1..i+1 |-> DatumOf(keys[j])]
  BY <1>3, DataLonger
<1>5. DOMAIN bounds = {} \/ \A k \in B : k \in Nat /\ key <= k
  <2>1. ASSUME \A k, j \in 1..n : k < j => keys[k] <= keys[j] PROVE \A k \in B : k \in Nat /\ key <= k
    <3>1. ASSUME NEW j \in 1..n, i + 1 < j PROVE keys[j] \in Nat /\ key <= keys[j]
      BY <1>1, <2>1, <3>1, ConstantsAre
    <3> QED BY <1>1, <3>1 DEF Ahead
  <2> QED BY <1>1, <2>1
<1>6. CASE key >= EndsBy
  <2>1. DatumOf(key) = Default
    BY <1>1, <1>6, ConstantsAre DEF DatumOf
  <2>2. s = [r EXCEPT !.data = Append(r.data, Default)]
    BY <1>6 DEF NextGot
  <2>3. s = [tree |-> r.tree, data |-> Append(r.data, Default)]
    BY <1>3, <2>2
  <2>4. Ready(r.tree, pl, B)
    <3>1. \A k \in B : k \in Nat /\ \E j \in A : j \in Nat /\ j <= k
      BY <1>2
    <3> HIDE DEF A, B
    <3> QED BY <1>3, <3>1, ReadyAhead
  <2>5. s.tree = r.tree /\ s.data = Append(r.data, Default)
    BY <2>3
  <2> HIDE DEF key
  <2> QED BY <1>3, <1>4, <2>1, <2>3, <2>4, <2>5 DEF GotUpTo
<1>7. CASE ~(key >= EndsBy)
  <2> DEFINE t == r.tree
             u == Searched(t, key)
             data == r.data
             S == {key}
  <2>1. key < EndsBy /\ key \in Key
    BY <1>1, <1>7, ConstantsAre
  <2>2. s = [tree |-> u, data |-> Append(data, DatumIn(EntriesAt(u), key))]
    BY <1>7 DEF NextGot
  <2> HIDE DEF A, B, key
  <2>3. SearchDone(t, pl, key, u)
    <3> HIDE DEF u, t
    <3>1. Ready(t, pl, A) /\ u = Searched(t, key)
      BY <1>3 DEF t, u
    <3> QED BY <1>1, <1>2, <2>1, <3>1, SearchIsDone
  <2> HIDE DEF u, t, data
  <2>4. u.page = page /\ u.bounds = bounds /\ EntriesAt(u) = page[EndOf(u)].entries
        /\ AtLeaf(page, pl, EndOf(u), key) /\ Whole(u, pl, 0, u.header.depth, key)
    BY <1>3, <2>3 DEF SearchDone, EntriesAt, t
  <2>5. DatumIn(EntriesAt(u), key) = DatumOf(key)
    <3> DEFINE a == EndOf(u)
    <3>1. AtLeaf(page, pl, a, key) /\ EntriesAt(u) = page[a].entries
      BY <2>4
    <3> HIDE DEF a
    <3>2. DatumIn(page[a].entries, key) = ContentsIn(page)[key]
      BY <2>1, <3>1, DatumAt
    <3> QED BY <2>1, <3>1, <3>2, ContentsNow DEF DatumOf
  <2>6. Ready(u, pl, B)
    <3> DEFINE L == u.header.depth
    <3>1. Whole(u, pl, 0, L, key)
      BY <2>4
    <3> HIDE DEF L
    <3>2. Ready(u, pl, {key})
      BY <3>1, WholeReady
    <3>3. Ready(u, pl, S) /\ key \in S
      BY <3>2
    <3> HIDE DEF S
    <3>4. DOMAIN u.bounds = {} \/ \A k \in B : k \in Nat /\ \E j \in S : j \in Nat /\ j <= k
      BY <1>1, <1>5, <2>4, <3>3
    <3> QED BY <3>3, <3>4, ReadyAhead
  <2>7. s.tree = u /\ s.data = Append(r.data, DatumOf(key)) /\ s = [tree |-> s.tree, data |-> s.data]
    BY <2>2, <2>5 DEF data
  <2> QED BY <1>4, <2>4, <2>6, <2>7 DEF GotUpTo, B
<1> QED BY <1>6, <1>7

(* A batch get of careful callers answers with what was put.               *)
LEMMA BatchGetIs ==
  ASSUME Careful, TreeInv, NEW n \in 1..MaxBatch, NEW keys \in [1..n -> 0..EndsBy], BatchGet(keys)
  PROVE  Store!Read
<1>1. job = <<>> /\ page' = page /\ job' = job /\ SafeOrder(keys)
  BY Zenon DEF BatchGet, Unchanged
<1>2. n \in Nat /\ DOMAIN keys = 1..n /\ Len(keys) = n /\ \A i \in 1..n : keys[i] \in 0..EndsBy
  BY ConstantsAre
<1>3. GetsOf(keys, n)
  <2>1. \A i \in 1..n : keys[i] \in Nat
    BY <1>2, ConstantsAre
  <2>2. DOMAIN bounds = {} \/ Ascending(keys)
    BY <1>1 DEF SafeOrder
  <2>3. Ascending(keys) => \A i, j \in 1..n : i < j => keys[i] <= keys[j]
    BY <1>2, <2>1, AscendingIs
  <2> QED BY <1>2, <2>2, <2>3 DEF GetsOf
<1> DEFINE f == Got(keys)
<1>4. call' = Called("batchGet", keys, f[Len(keys)].data)
  BY Zenon DEF BatchGet, Got, NextGot, FirstGot
<1>5. Gets(keys, f)
  BY <1>2, GotExists
<1>6. Maps(page)
  BY TreeMaps
<1>7. PICK pl : Ready(Tree, pl, Ahead(keys, 0))
  BY <1>1, ReadyForAny
<1> HIDE DEF f
<1>8. GotUpTo(pl, keys, 0, f[0])
  <2>1. f[0] = [tree |-> Tree, data |-> <<>>]
    BY <1>5 DEF Gets, FirstGot
  <2>2. [j \in 1..0 |-> DatumOf(keys[j])] = <<>>
    OBVIOUS
  <2>3. f[0].tree = Tree /\ f[0].data = <<>>
    BY <2>1
  <2> QED BY <1>7, <2>1, <2>2, <2>3, TreeFields DEF GotUpTo
<1>9. ASSUME NEW i \in 0+1..n, GotUpTo(pl, keys, i - 1, f[i - 1]) PROVE GotUpTo(pl, keys, i, f[i])
  <2> DEFINE k == i - 1
             r == f[k]
             s == f[i]
  <2>1. k \in Nat /\ k < n /\ k + 1 = i /\ i \in 1..n
    BY <1>2
  <2>2. s = NextGot(r, keys[k + 1])
    BY <1>2, <1>5, <2>1 DEF Gets
  <2>3. GotUpTo(pl, keys, k, r)
    BY <1>9
  <2> HIDE DEF k, r, s
  <2>4. GotUpTo(pl, keys, k + 1, s)
    BY <1>3, <1>6, <2>1, <2>2, <2>3, GotNext
  <2> QED BY <2>1, <2>4 DEF s
<1>10. GotUpTo(pl, keys, n, f[n])
  <2> DEFINE S == {i \in 0..n : GotUpTo(pl, keys, i, f[i])}
             lo == 0
  <2>1. lo \in S /\ lo \in Int /\ n \in Int /\ n \in lo..n
    BY <1>2, <1>8
  <2>2. \A i \in lo+1..n : i - 1 \in S => i \in S
    BY <1>2, <1>9
  <2> HIDE DEF lo, S
  <2>3. n \in S
    BY <2>1, <2>2, UpTo
  <2> QED BY <2>3 DEF S
<1>11. f[n].data = [j \in 1..n |-> DatumOf(keys[j])]
  BY <1>10 DEF GotUpTo
<1>12. call'.op = "batchGet" /\ call'.arg = keys
       /\ call'.answer = [j \in 1..n |-> DatumOf(keys[j])]
  BY <1>2, <1>4, <1>11 DEF Called
<1>13. Store!Answers("batchGet", keys, [j \in 1..n |-> DatumOf(keys[j])])
  BY <1>2 DEF Store!Answers, DatumOf
<1> QED BY <1>1, <1>12, <1>13, PagesAfter DEF Store!Read

-----------------------------------------------------------------------------

(* A slice of what is stored: the data between two keys that lie in a      *)
(* range.                                                                  *)
SliceKeys(C, b, e, l, u) ==
  {k \in Key : b <= k /\ k < e /\ l <= k /\ k < u /\ C[k] # Default}
Slice(C, b, e, l, u) == [k \in SliceKeys(C, b, e, l, u) |-> C[k]]

(* The list of a slice, and after it that of the next.                     *)
LEMMA ListsTogether ==
  ASSUME NEW C, NEW b \in Nat, NEW e \in Nat, NEW x \in Nat, NEW y \in Nat, x <= y,
         NEW s, Lists(s, Slice(C, b, e, 0, x)), NEW t, Lists(t, Slice(C, b, e, x, y))
  PROVE  Lists(s \o t, Slice(C, b, e, 0, y))
<1> DEFINE R1 == EntryRecords(Slice(C, b, e, 0, x))
           R2 == EntryRecords(Slice(C, b, e, x, y))
           R == EntryRecords(Slice(C, b, e, 0, y))
           Rec(k) == [key |-> k, datum |-> C[k]]
<1>1. /\ R1 = {Rec(k) : k \in SliceKeys(C, b, e, 0, x)}
      /\ R2 = {Rec(k) : k \in SliceKeys(C, b, e, x, y)}
      /\ R = {Rec(k) : k \in SliceKeys(C, b, e, 0, y)}
  BY DEF EntryRecords, Slice
<1>2. /\ SliceKeys(C, b, e, 0, y) = SliceKeys(C, b, e, 0, x) \cup SliceKeys(C, b, e, x, y)
      /\ \A k \in SliceKeys(C, b, e, 0, x), j \in SliceKeys(C, b, e, x, y) : k < j
      /\ \A k \in SliceKeys(C, b, e, 0, y) : k \in Nat
  BY ConstantsAre DEF SliceKeys
<1>3. \A k : Rec(k).key = k
  OBVIOUS
<1> HIDE DEF Rec
<1>4. R = R1 \cup R2 /\ (\A r \in R1, q \in R2 : r.key < q.key) /\ \A r \in R : r.key \in Nat
  BY <1>1, <1>2, <1>3
<1>5. /\ s \in Seq(R1) /\ {s[i] : i \in DOMAIN s} = R1
      /\ t \in Seq(R2) /\ {t[i] : i \in DOMAIN t} = R2
      /\ \A i, j \in DOMAIN s : i < j => s[i].key < s[j].key
      /\ \A i, j \in DOMAIN t : i < j => t[i].key < t[j].key
  BY DEF Lists
<1> HIDE DEF R1, R2, R
<1> DEFINE w == s \o t
           m == Len(s)
           n == Len(t)
<1>6. m \in Nat /\ n \in Nat /\ DOMAIN s = 1..m /\ DOMAIN t = 1..n
  BY <1>5
<1>7. s \in Seq(R) /\ t \in Seq(R)
  BY <1>4, <1>5
<1>8. /\ w \in Seq(R) /\ Len(w) = m + n
      /\ \A i \in 1..m+n : w[i] = IF i <= m THEN s[i] ELSE t[i - m]
  BY <1>7, ConcatProperties
<1>9. DOMAIN w = 1..m+n
  BY <1>8
<1> HIDE DEF w, m, n
<1>10. \A i \in 1..m+n : \/ i \in 1..m /\ w[i] = s[i] /\ s[i] \in R1
                         \/ i - m \in 1..n /\ i > m /\ w[i] = t[i - m] /\ t[i - m] \in R2
  BY <1>5, <1>6, <1>8
<1>11. {w[i] : i \in DOMAIN w} = R
  <2>1. ASSUME NEW r \in R1 PROVE \E i \in DOMAIN w : w[i] = r
    <3>1. PICK i \in DOMAIN s : s[i] = r
      BY <1>5
    <3>2. i \in 1..m+n /\ i <= m
      BY <1>6, <3>1
    <3> QED BY <1>8, <1>9, <3>1, <3>2
  <2>2. ASSUME NEW r \in R2 PROVE \E i \in DOMAIN w : w[i] = r
    <3>1. PICK i \in DOMAIN t : t[i] = r
      BY <1>5
    <3>2. i + m \in 1..m+n /\ ~(i + m <= m) /\ (i + m) - m = i
      BY <1>6, <3>1
    <3>3. w[i + m] = t[i]
      BY <1>8, <3>2
    <3> QED BY <1>9, <3>1, <3>2, <3>3
  <2> QED BY <1>4, <1>9, <1>10, <2>1, <2>2
<1>12. ASSUME NEW i \in 1..m+n, NEW j \in 1..m+n, i < j PROVE w[i].key < w[j].key
  <2>1. CASE i \in 1..m /\ j \in 1..m
    <3>1. w[i] = s[i] /\ w[j] = s[j]
      BY <1>8, <2>1, <1>6
    <3> QED BY <1>5, <1>6, <1>12, <2>1, <3>1
  <2>2. CASE i \in 1..m /\ j \notin 1..m
    <3>1. w[i] \in R1 /\ w[j] \in R2
      BY <1>10, <2>2, <1>6
    <3> QED BY <1>4, <3>1
  <2>3. CASE i \notin 1..m
    <3>1. i - m \in 1..n /\ j - m \in 1..n /\ i - m < j - m /\ ~(i <= m) /\ ~(j <= m)
      BY <1>6, <1>12, <2>3
    <3>2. w[i] = t[i - m] /\ w[j] = t[j - m]
      BY <1>8, <3>1
    <3> QED BY <1>5, <1>6, <3>1, <3>2
  <2> QED BY <2>1, <2>2, <2>3
<1> QED BY <1>8, <1>9, <1>11, <1>12 DEF Lists, w, R

-----------------------------------------------------------------------------

(* The part of a leaf's entries that a range get takes lists the slice     *)
(* between the bounds of the leaf.                                         *)
SortedCells(m) ==
  [i \in 1..Cardinality(DOMAIN m) |->
     LET k == KeyAt(DOMAIN m, i - 1) IN [key |-> k, datum |-> m[k]]]

(* What a range get takes of a leaf is the slice within the leaf's bounds. *)
LEMMA PartIsSlice ==
  ASSUME NEW P, NEW root, NEW depth, NEW pl, Settled(P, root, depth, pl), Maps(P),
         NEW b \in Nat, NEW e \in Nat, NEW p \in DOMAIN P, ~IsInternal(P, p)
  PROVE  Part(P[p].entries, b, e) = Slice(ContentsIn(P), b, e, pl[p].lower, pl[p].upper)
<1> DEFINE m == P[p].entries
           C == ContentsIn(P)
           l == pl[p].lower
           u == pl[p].upper
<1>1. Nodes(P) /\ Placed(P, depth, pl) /\ LeafSound(P, pl, 0, p)
  BY DEF Settled, Laid, PagesSound
<1>2. /\ \A k \in DOMAIN m : l <= k /\ k < u /\ k \in Key
      /\ l \in Nat /\ u \in Nat
  <2>1. P[p].entries \in UNION {[ks -> Value \ {Default}] : ks \in SUBSET Key}
    BY <1>1, NodeIs
  <2>2. DOMAIN m \subseteq Key
    BY <2>1
  <2>3. l \in Nat /\ u \in Nat
    BY <1>1, SpotIs
  <2> QED BY <1>1, <2>2, <2>3 DEF LeafSound
<1>3. ASSUME NEW k \in Key, l <= k, k < u PROVE DatumIn(m, k) = C[k]
  <2>1. k \in Nat /\ Within(pl, p, k)
    BY <1>3, ConstantsAre DEF Within
  <2>2. AtLeaf(P, pl, p, k)
    BY <2>1, OnlyLeaf
  <2> QED BY <2>2, DatumAt
<1>4. ASSUME NEW k \in DOMAIN m PROVE C[k] = m[k] /\ C[k] # Default
  <2>1. Holds(P, k, m[k])
    BY <1>4 DEF Holds, HasEntry
  <2> HIDE DEF m, C
  <2> QED BY <2>1 DEF Maps, C
<1> HIDE DEF m, C, l, u
<1>5. {k \in DOMAIN m : b <= k /\ k < e} = SliceKeys(C, b, e, l, u)
  <2>1. ASSUME NEW k \in DOMAIN m, b <= k, k < e PROVE k \in SliceKeys(C, b, e, l, u)
    BY <1>2, <1>4, <2>1 DEF SliceKeys
  <2>2. ASSUME NEW k \in SliceKeys(C, b, e, l, u) PROVE k \in DOMAIN m /\ b <= k /\ k < e
    <3>1. k \in Key /\ b <= k /\ k < e /\ l <= k /\ k < u /\ C[k] # Default
      BY DEF SliceKeys
    <3>2. DatumIn(m, k) # Default
      BY <1>3, <3>1
    <3> QED BY <3>1, <3>2 DEF DatumIn
  <2> QED BY <2>1, <2>2
<1>6. \A k \in SliceKeys(C, b, e, l, u) : m[k] = C[k]
  BY <1>4, <1>5
<1>7. Part(m, b, e) = Slice(C, b, e, l, u)
  BY <1>5, <1>6 DEF Part, Slice
<1> QED BY <1>7 DEF m, C, l, u

(* The sorted cells of a leaf list that slice. *)
LEMMA PieceLists ==
  ASSUME NEW P, NEW root, NEW depth, NEW pl, Settled(P, root, depth, pl), Maps(P),
         NEW b \in Nat, NEW e \in Nat, NEW p \in DOMAIN P, ~IsInternal(P, p)
  PROVE  Lists(SortedCells(Part(P[p].entries, b, e)),
               Slice(ContentsIn(P), b, e, pl[p].lower, pl[p].upper))
<1> DEFINE m == Part(P[p].entries, b, e)
           C == ContentsIn(P)
           l == pl[p].lower
           u == pl[p].upper
           lo == 0
<1>1. m = Slice(C, b, e, l, u)
  BY PartIsSlice
<1> HIDE DEF C, l, u, m
<1>2. DOMAIN m \subseteq Key
  BY <1>1 DEF Slice, SliceKeys
<1>3. Ordered(DOMAIN m, lo) /\ lo \in Int
  <2>1. IsFiniteSet(Key) /\ \A k \in Key : k \in Int /\ 0 <= k
    BY ConstantsAre, FS_Interval
  <2>2. IsFiniteSet(DOMAIN m)
    BY <1>2, <2>1, FS_Subset
  <2> QED BY <1>2, <2>1, <2>2 DEF Ordered
<1> HIDE DEF lo
<1>4. Lists(SortedCells(m), m)
  BY <1>3, DenseLists DEF SortedCells
<1>5. Lists(SortedCells(m), Slice(C, b, e, l, u))
  BY <1>1, <1>4
<1> QED BY <1>5 DEF m, C, l, u

(* The leaves that a range get visits lie end to end.                      *)
LEMMA LeavesEndToEnd ==
  ASSUME NEW P, NEW root, NEW depth, NEW pl, Settled(P, root, depth, pl),
         NEW first, NEW last, NEW v, Chained(P, first, last, v)
  PROVE  /\ DOMAIN v = 1..Len(v) /\ Len(v) \in Nat /\ Len(v) >= 1
         /\ \A i \in 1..Len(v) : /\ v[i] \in DOMAIN P /\ ~IsInternal(P, v[i])
                                 /\ pl[v[i]].lower \in Nat /\ pl[v[i]].upper \in Nat
                                 /\ pl[v[i]].lower < pl[v[i]].upper
         /\ \A i \in 2..Len(v) : pl[v[i]].lower = pl[v[i - 1]].upper
<1>1. Nodes(P) /\ Placed(P, depth, pl) /\ PagesSound(P, pl, 0, 0, 0)
  BY DEF Settled, Laid
<1> DEFINE n == Len(v)
<1>2. v \in Seq(DOMAIN P) /\ n >= 1 /\ \A i \in 1..n : ~IsInternal(P, v[i])
  BY DEF Chained
<1>3. DOMAIN v = 1..n /\ n \in Nat /\ \A i \in 1..n : v[i] \in DOMAIN P
  BY <1>2
<1>4. \A i \in 1..n-1 : P[v[i]].next = v[i + 1]
  BY DEF Chained
<1> HIDE DEF n
<1>5. ASSUME NEW i \in 2..n PROVE pl[v[i]].lower = pl[v[i - 1]].upper
  <2>1. i - 1 \in 1..n-1 /\ i - 1 \in 1..n /\ (i - 1) + 1 = i /\ i \in 1..n
    BY <1>3
  <2>2. P[v[i - 1]].next = v[i] /\ v[i - 1] \in DOMAIN P /\ ~IsInternal(P, v[i - 1])
    BY <1>2, <1>3, <1>4, <2>1
  <2>3. v[i] # InvalidPid
    <3>1. v[i] \in DOMAIN P
      BY <1>3, <2>1
    <3>2. v[i] \in Nat /\ v[i] > 0
      BY <1>1, <3>1, NodeIs
    <3> QED BY <3>2 DEF InvalidPid
  <2>4. LeafSound(P, pl, 0, v[i - 1])
    BY <1>1, <2>2 DEF PagesSound
  <2> QED BY <2>2, <2>3, <2>4 DEF LeafSound
<1>6. \A i \in 1..n : pl[v[i]].lower \in Nat /\ pl[v[i]].upper \in Nat /\ pl[v[i]].lower < pl[v[i]].upper
  BY <1>1, <1>3, SpotIs
<1> QED BY <1>2, <1>3, <1>5, <1>6 DEF n

-----------------------------------------------------------------------------

(* The lists of leaves that lie end to end, joined, list what lies between *)
(* the two keys.                                                           *)
EndToEnd(pl, v, n, b, e) ==
  /\ n \in Nat /\ n >= 1
  /\ \A i \in 1..n : /\ pl[v[i]].lower \in Nat /\ pl[v[i]].upper \in Nat
                     /\ pl[v[i]].lower < pl[v[i]].upper
  /\ \A i \in 2..n : pl[v[i]].lower = pl[v[i - 1]].upper
  /\ pl[v[1]].lower <= b /\ e <= pl[v[n]].upper

(* Joined, they list everything between the two keys. *)
LEMMA JointLists ==
  ASSUME NEW C, NEW pl, NEW v, NEW n, NEW b \in Nat, NEW e \in Nat, EndToEnd(pl, v, n, b, e),
         e <= EndsBy, NEW parts, Len(parts) = n,
         \A i \in 1..n : Lists(parts[i], Slice(C, b, e, pl[v[i]].lower, pl[v[i]].upper)),
         NEW f, JoinsUp(parts, f)
  PROVE  Lists(f[n], Slice(C, b, e, 0, EndsBy))
<1> DEFINE up(i) == pl[v[i]].upper
           lower(i) == pl[v[i]].lower
           S == {i \in 1..n : Lists(f[i], Slice(C, b, e, 0, up(i)))}
           lo == 1
<1>1. /\ n \in Nat /\ n >= 1
      /\ \A i \in 1..n : lower(i) \in Nat /\ up(i) \in Nat /\ lower(i) < up(i)
      /\ \A i \in 2..n : lower(i) = up(i - 1)
      /\ lower(1) <= b /\ e <= up(n)
  BY DEF EndToEnd
<1>2. /\ f[1] = parts[1] /\ \A i \in 2..n : f[i] = f[i - 1] \o parts[i]
      /\ \A i \in 1..n : Lists(parts[i], Slice(C, b, e, lower(i), up(i)))
  BY DEF JoinsUp
<1> HIDE DEF up, lower
<1>3. 1 \in S
  <2>1. 1 \in 1..n
    BY <1>1
  <2>2. SliceKeys(C, b, e, lower(1), up(1)) = SliceKeys(C, b, e, 0, up(1))
    BY <1>1, <2>1, ConstantsAre DEF SliceKeys
  <2>3. Slice(C, b, e, lower(1), up(1)) = Slice(C, b, e, 0, up(1))
    BY <2>2 DEF Slice
  <2> QED BY <1>2, <2>1, <2>3
<1>4. ASSUME NEW i \in 1+1..n, i - 1 \in S PROVE i \in S
  <2>1. i \in 2..n /\ i \in 1..n /\ i - 1 \in 1..n
    BY <1>1
  <2> DEFINE x == lower(i)
             y == up(i)
             s == f[i - 1]
             t == parts[i]
  <2>2. x \in Nat /\ y \in Nat /\ x <= y /\ x = up(i - 1)
    BY <1>1, <2>1
  <2>3. Lists(s, Slice(C, b, e, 0, up(i - 1))) /\ Lists(t, Slice(C, b, e, x, y)) /\ f[i] = s \o t
    BY <1>2, <1>4, <2>1
  <2>4. Lists(s, Slice(C, b, e, 0, x))
    BY <2>2, <2>3
  <2> HIDE DEF x, y, s, t
  <2>5. Lists(s \o t, Slice(C, b, e, 0, y))
    BY <2>2, <2>3, <2>4, ListsTogether
  <2> QED BY <2>1, <2>3, <2>5 DEF y
<1>5. n \in S
  <2>1. lo \in Int /\ n \in Int /\ n \in lo..n
    BY <1>1
  <2>2. lo \in S
    BY <1>3
  <2>3. \A i \in lo+1..n : i - 1 \in S => i \in S
    BY <1>4
  <2> HIDE DEF S, lo
  <2> QED BY <2>1, <2>2, <2>3, UpTo
<1>7. SliceKeys(C, b, e, 0, up(n)) = SliceKeys(C, b, e, 0, EndsBy)
  <2>1. up(n) \in Nat /\ e <= up(n)
    BY <1>1
  <2> QED BY <2>1, ConstantsAre DEF SliceKeys
<1>8. Slice(C, b, e, 0, up(n)) = Slice(C, b, e, 0, EndsBy)
  BY <1>7 DEF Slice
<1> QED BY <1>5, <1>8

(* A range get of careful callers answers with what was put, in order.     *)
LEMMA RangeGetIs ==
  ASSUME Careful, TreeInv, NEW b \in 0..EndsBy-1, NEW e \in b+1..EndsBy, RangeGet(b, e)
  PROVE  Store!Read
<1> DEFINE v == Visited(b, e)
           n == Len(v)
           C == ContentsIn(page)
           first == LeafPid(b)
           last == LeafPid(e - 1)
           parts == [i \in DOMAIN v |-> SortedCells(Part(page[v[i]].entries, b, e))]
<1>1. job = <<>> /\ page' = page /\ job' = job /\ v[n] = last
  BY DEF RangeGet, ChainReaches
<1>2. call' = Called("batchGetVector", <<b, e>>, FlattenSeq(parts))
  BY DEF RangeGet, SortedCells
<1>3. b \in Nat /\ e \in Nat /\ b < e /\ e <= EndsBy
  BY ConstantsAre
<1>4. PICK pl : Ready(Tree, pl, Nat)
  BY <1>1, ReadyForAny
<1>5. /\ Chained(page, first, last, v) /\ AtLeaf(page, pl, first, b)
      /\ AtLeaf(page, pl, last, e - 1)
  BY <1>3, <1>4, VisitedIs
<1>6. Settled(page, header.root, header.depth, pl) /\ Maps(page)
  BY <1>4, TreeFields, TreeMaps DEF Ready, AtRest
<1>7. v[1] = first
  BY <1>5 DEF Chained
<1> HIDE DEF v, first, last
<1>8. /\ DOMAIN v = 1..n /\ n \in Nat /\ n >= 1
      /\ \A i \in 1..n : /\ v[i] \in DOMAIN page /\ ~IsInternal(page, v[i])
                         /\ pl[v[i]].lower \in Nat /\ pl[v[i]].upper \in Nat
                         /\ pl[v[i]].lower < pl[v[i]].upper
      /\ \A i \in 2..n : pl[v[i]].lower = pl[v[i - 1]].upper
  <2> DEFINE root == header.root
             depth == header.depth
  <2>1. Settled(page, root, depth, pl)
    BY <1>6
  <2> HIDE DEF root, depth
  <2> QED BY <1>5, <2>1, LeavesEndToEnd
<1> HIDE DEF n
<1>9. EndToEnd(pl, v, n, b, e)
  <2>1. pl[first].lower <= b
    BY <1>5 DEF AtLeaf, Within
  <2>2. n \in 1..n
    BY <1>8
  <2>3. e - 1 < pl[last].upper /\ pl[last].upper \in Nat
    BY <1>1, <1>5, <1>8, <2>2 DEF AtLeaf, Within
  <2>4. e <= pl[last].upper
    BY <1>3, <2>3
  <2> QED BY <1>1, <1>7, <1>8, <2>1, <2>4 DEF EndToEnd
<1>10. ASSUME NEW i \in 1..n
       PROVE  Lists(parts[i], Slice(C, b, e, pl[v[i]].lower, pl[v[i]].upper))
  <2> DEFINE root == header.root
             depth == header.depth
             p == v[i]
  <2>1. Settled(page, root, depth, pl) /\ Maps(page) /\ p \in DOMAIN page /\ ~IsInternal(page, p)
    BY <1>6, <1>8
  <2>2. parts[i] = SortedCells(Part(page[p].entries, b, e))
    BY <1>8
  <2> HIDE DEF root, depth, p
  <2>3. Lists(SortedCells(Part(page[p].entries, b, e)),
              Slice(ContentsIn(page), b, e, pl[p].lower, pl[p].upper))
    BY <1>3, <2>1, PieceLists
  <2> QED BY <2>2, <2>3 DEF p
<1>11. Len(parts) = n /\ DOMAIN parts = 1..n
  <2> DEFINE Cells_(i) == SortedCells(Part(page[v[i]].entries, b, e))
  <2>1. parts = [i \in 1..n |-> Cells_(i)]
    BY <1>8
  <2> HIDE DEF Cells_, parts
  <2> QED BY <1>8, <2>1
<1> HIDE DEF parts
<1> DEFINE f == Joint(parts)
<1>12. FlattenSeq(parts) = f[n]
  BY <1>8, <1>11 DEF FlattenSeq, Joint
<1>13. JoinsUp(parts, f)
  BY <1>8, <1>11, JointExists
<1> HIDE DEF f, C
<1>14. Lists(f[n], Slice(C, b, e, 0, EndsBy))
  <2>1. \A i \in 1..n : Lists(parts[i], Slice(C, b, e, pl[v[i]].lower, pl[v[i]].upper))
    BY <1>10 DEF C
  <2>2. Len(parts) = n
    BY <1>11
  <2> QED BY <1>3, <1>9, <1>13, <2>1, <2>2, JointLists
<1> DEFINE answer == f[n]
           found == {[key |-> k, datum |-> C[k]] : k \in {k \in b..e-1 : C[k] # Default}}
<1>15. EntryRecords(Slice(C, b, e, 0, EndsBy)) = found
  <2>1. SliceKeys(C, b, e, 0, EndsBy) = {k \in b..e-1 : C[k] # Default}
    BY <1>3, ConstantsAre DEF SliceKeys
  <2> QED BY <2>1 DEF EntryRecords, Slice
<1>16. call'.op = "batchGetVector" /\ call'.arg = <<b, e>> /\ call'.answer = answer
  BY <1>2, <1>12 DEF Called
<1>17. /\ answer \in Seq(found) /\ {answer[i] : i \in DOMAIN answer} = found
       /\ \A i, j \in DOMAIN answer : i < j => answer[i].key < answer[j].key
  BY <1>14, <1>15 DEF Lists
<1>18. C = Contents
  BY ContentsNow DEF C
<1> HIDE DEF answer
<1>19. Store!Answers("batchGetVector", <<b, e>>, answer)
  <2>1. <<b, e>>[1] = b /\ <<b, e>>[2] = e
    OBVIOUS
  <2> DEFINE arg == <<b, e>>
  <2>2. arg[1] = b /\ arg[2] = e
    OBVIOUS
  <2> HIDE DEF arg
  <2>3. Store!Answers("batchGetVector", arg, answer)
    BY <1>17, <1>18, <2>2 DEF Store!Answers, Store!Range
  <2> QED BY <2>3 DEF arg
<1> QED BY <1>1, <1>16, <1>19, PagesAfter DEF Store!Read

-----------------------------------------------------------------------------

(* Every step of the tree is one of the store, or none.                    *)
LEMMA StoreStep ==
  ASSUME Careful, TreeInv, TreeInv', [Next]_vars
  PROVE  [Store!Next]_<<Contents, job, call.op, call>>
<1>1. CASE UNCHANGED vars
  <2>1. page' = page /\ job' = job /\ call' = call
    BY <1>1 DEF vars
  <2> QED BY <2>1, PagesAfter
<1>2. ASSUME NEW e \in Entry, TreePut(e) PROVE Store!Put
  BY <1>2, TreePutIs
<1>3. ASSUME NEW n \in 1..MaxBatch, NEW es \in [1..n -> Entry], BatchPut(es) PROVE Store!Step
  <2>1. /\ IsBatch(es, MaxBatch) /\ es # <<>> /\ BatchStep(es) /\ job = <<>>
        /\ \E pl : Ready(Tree, pl, KeysOf(es))
    BY <1>3, BatchBegins
  <2>2. PICK pl : Ready(Tree, pl, KeysOf(es))
    BY <2>1
  <2>3. job \in {<<>>, es}
    BY <2>1
  <2> QED BY <2>1, <2>2, <2>3, BatchStepIs
<1>4. ASSUME BatchPutNext PROVE Store!Step
  <2>1. /\ IsBatch(job, MaxBatch) /\ job # <<>> /\ BatchStep(job)
        /\ \E pl : Ready(Tree, pl, KeysOf(job))
    BY <1>4, BatchGoesOn
  <2>2. PICK pl : Ready(Tree, pl, KeysOf(job))
    BY <2>1
  <2> DEFINE es == job
  <2>3. job \in {<<>>, es} /\ IsBatch(es, MaxBatch) /\ es # <<>> /\ BatchStep(es) /\ Ready(Tree,
          pl, KeysOf(es))
    BY <2>1, <2>2
  <2> HIDE DEF es
  <2> QED BY <2>3, BatchStepIs
<1>5. ASSUME NEW key \in 0..EndsBy, Get(key) PROVE Store!Read
  BY <1>5, GetIs
<1>6. ASSUME NEW n \in 1..MaxBatch, NEW keys \in [1..n -> 0..EndsBy], BatchGet(keys)
      PROVE  Store!Read
  BY <1>6, BatchGetIs
<1>7. ASSUME NEW b \in 0..EndsBy-1, NEW e \in b+1..EndsBy, RangeGet(b, e) PROVE Store!Read
  BY <1>7, RangeGetIs
<1>8. ASSUME NEW p \in DOMAIN page, Evict(p) PROVE Store!Quiet
  BY <1>8, QuietIs
<1>9. ASSUME Flush PROVE Store!Quiet
  BY <1>9, QuietIs
<1>10. ASSUME Reopen PROVE Store!Quiet
  BY <1>10, QuietIs
<1>11. ASSUME Next PROVE Store!Next
  <2> DEFINE N == Store!Next
  <2>1. (Store!Put => N) /\ (Store!Step => N) /\ (Store!Read => N) /\ (Store!Quiet => N)
    BY DEF Store!Next
  <2> HIDE DEF N
  <2>2. N
    BY <1>2, <1>3, <1>4, <1>5, <1>6, <1>7, <1>8, <1>9, <1>10, <1>11, <2>1 DEF Next
  <2> QED BY <2>2 DEF N
<1> QED BY <1>1, <1>11

(* BTree.ImplementsMap: through splits, changes of format, cursors kept    *)
(* from one entry of a batch to the next, and the stale bounds of range    *)
(* gets, the tree answers with what was put.                               *)
THEOREM StoresMap == ASSUME Careful PROVE Spec => ImplementsMap
<1>1. Init => Store!Init
  BY StoreInit
<1>2. TreeInv /\ TreeInv' /\ [Next]_vars => [Store!Next]_<<Contents, job, call.op, call>>
  BY StoreStep
<1>3. Spec => []TreeInv
  BY TreeInvariant
<1> QED BY <1>1, <1>2, <1>3, PTL DEF Spec, ImplementsMap, Store!Spec

=============================================================================
