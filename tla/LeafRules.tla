----------------------------- MODULE LeafRules -----------------------------
(***************************************************************************)
(* What the formats of a B-tree leaf allow (btree/BtreeSparseBlock.h,      *)
(* BtreeDenseLeafBlock.h) and where an overflowing leaf is split           *)
(* (Splitter.cpp), said of the leaf's entries: a function from its keys to *)
(* their data.  Keys without an entry have the default value.              *)
(***************************************************************************)
EXTENDS Integers, FiniteSetsExt

CONSTANTS
  SparseCap,  \* config->sparseLeafCapacity
  DenseCap,   \* config->denseLeafCapacity
  Threshold,  \* config->TSplitterThreshold, as a fraction
  Default     \* Block::kDefaultValue

(* Config.cpp reads any capacities and any threshold: the defaults are     *)
(* 511, 1021 and 0.7, src/riotrc has 500, 1000 and 0.7.                    *)
ASSUME CapAssumption == SparseCap \in Nat \ {0} /\ DenseCap \in Nat \ {0, 1}
ASSUME ThresholdAssumption == Threshold[1] \in Nat \ {0} /\ Threshold[2] \in Nat \ {0}

(* When every half of a split leaf has a format.  "M" and "T" take their   *)
(* key whatever splitTypes says of it, and need half of an overflowing     *)
(* dense leaf to fit a sparse one: 2 * 511 > 1021, but not 2 * 500 > 1000. *)
(* "T" also needs a half that is full enough to leave no more than half of *)
(* the entries.                                                            *)
HalvesFit(splitters) ==
  /\ SparseCap <= DenseCap
  /\ splitters \cap {"M", "T"} # {} => DenseCap < 2 * SparseCap
  /\ "T" \in splitters => 2 * Threshold[1] >= Threshold[2]

NoEntries == [k \in {} |-> Default]

WithEntry(m, k, v) ==
  IF v = Default THEN [x \in DOMAIN m \ {k} |-> m[x]]
  ELSE [x \in DOMAIN m \cup {k} |-> IF x = k THEN v ELSE m[x]]

Part(m, l, u) == [k \in {k \in DOMAIN m : l <= k /\ k < u} |-> m[k]]

(* The cells a dense leaf needs for these keys, from the first to the last *)
(* (DenseLeafBlock::extendStoredRange).                                    *)
Span(ks) == IF ks = {} THEN 0 ELSE Max(ks) + 1 - Min(ks)

Fits(type, ks) ==
  IF type = "sparse" THEN Cardinality(ks) <= SparseCap ELSE Span(ks) <= DenseCap

Other(type) == IF type = "sparse" THEN "dense" ELSE "sparse"

(* The answer of put when the block then has the entries of ks, the one    *)
(* that overflowed included.                                               *)
PutAnswer(type, ks) ==
  IF Fits(type, ks) THEN "kOK"
  ELSE IF Fits(Other(type), ks) THEN "kSwitchFormat"
  ELSE "kOverflow"

-----------------------------------------------------------------------------
(* Mutant: a dense half may be one key too wide. *)
HalfType_Wide(type, i, part, bound, useDense) ==
  IF ~useDense THEN type
  ELSE IF bound \in 0..DenseCap+1 THEN "dense" ELSE "sparse"

(* Splitter::splitTypes: the formats of the two halves of a leaf, or       *)
(* "none" where the code gives up.  In unsigned arithmetic a bound that    *)
(* lies on the wrong side of spKey is far away.                            *)
HalfType(type, i, part, bound, useDense) ==
  IF ~useDense THEN type
  ELSE IF bound \in 0..DenseCap THEN "dense"
  ELSE IF i = 1 /\ type = "sparse" /\ Fits("sparse", part) /\ Fits("dense", part) THEN "sparse"
  ELSE IF Fits("dense", part) THEN "dense"
  ELSE IF Cardinality(part) <= SparseCap /\ Cardinality(part) <= DenseCap THEN "sparse"
  ELSE "none"

SplitTypes(leaf, ks, spKey, useDense) ==
  <<HalfType(leaf.type, 1, {k \in ks : k < spKey}, spKey - leaf.lower, useDense),
    HalfType(leaf.type, 2, {k \in ks : k >= spKey}, leaf.upper - spKey, useDense)>>

(* What the splitter finds in its types once splitTypes has set them: one  *)
(* that gives up sets neither that half's nor those after it, and they are *)
(* what was on the stack, a leaf's format among others.                    *)
TypesUsed(types) ==
  {t \in [1..2 -> {"sparse", "dense"}] :
     \A i \in 1..2 : (\A j \in 1..i : types[j] # "none") => t[i] = types[i]}

(* The sp-th smallest key, counting from 0. *)
KeyAt(ks, sp) == CHOOSE k \in ks : Cardinality({j \in ks : j < k}) = sp

(* MSplitter: before the record in the middle. *)
MiddleKey(ks) == KeyAt(ks, Cardinality(ks) \div 2)

(* BSplitter: the multiple of boundary closest to the median that gives    *)
(* both halves a format; the search goes left and right from the median,   *)
(* one record at a time.                                                   *)
BoundaryBefore(ks, sp, boundary, right) ==
  IF right THEN (KeyAt(ks, sp - 1) \div boundary + 1) * boundary
  ELSE (KeyAt(ks, sp) \div boundary) * boundary

BoundaryKey(leaf, ks, boundary, useDense) ==
  LET n == Cardinality(ks)
      median == MiddleKey(ks)
      From(d) ==
        {t \in [sp : {n \div 2 - d}, right : {FALSE}]
               \cup [sp : {((n + 1) \div 2) + d}, right : {TRUE}] :
           /\ t.sp \in 1..n-1
           /\ KeyAt(ks, t.sp - 1) \div boundary < KeyAt(ks, t.sp) \div boundary
           /\ \A i \in 1..2 : SplitTypes(leaf, ks, BoundaryBefore(ks, t.sp, boundary, t.right),
                                         useDense)[i] # "none"}
      d == Min({e \in 0..n : From(e) # {}})
      keys == {BoundaryBefore(ks, t.sp, boundary, t.right) : t \in From(d)}
      Far(k) == IF k < median THEN median - k ELSE k - median
  IN  CHOOSE k \in keys : \A j \in keys : Far(k) < Far(j) \/ (Far(k) = Far(j) /\ k <= j)

(* TSplitter: at a distance of one capacity from the bound where the half  *)
(* is fuller, if it is at least Threshold[1] / Threshold[2] full; else in  *)
(* the middle.  A distance too long for the bounds leaves nothing there.   *)
ThresholdKey(leaf, ks, useDense) ==
  LET n(cap, i) == IF i = 1 THEN Cardinality({k \in ks : k < leaf.lower + cap})
                   ELSE IF leaf.upper < cap THEN 0
                   ELSE Cardinality({k \in ks : k >= leaf.upper - cap})
      cap(i) == IF useDense /\ n(SparseCap, i) * DenseCap < n(DenseCap, i) * SparseCap
                THEN DenseCap ELSE SparseCap
      Thin(i) == n(cap(i), i) * Threshold[2] < Threshold[1] * cap(i)
  IN  CASE Thin(1) /\ Thin(2) -> MiddleKey(ks)
        [] ~(Thin(1) /\ Thin(2)) /\ n(cap(1), 1) * cap(2) > n(cap(2), 2) * cap(1) ->
             leaf.lower + cap(1)
        [] OTHER -> leaf.upper - cap(2)

(* Where each splitter may split.  The ratio of RSplitter and the expected *)
(* values of SSplitter choose among the records that give both halves a    *)
(* format, and before the second record if none does; which one they       *)
(* choose is left open ("RS").                                             *)
SplitKeys(splitter, leaf, ks, useDense) ==
  LET fitting == {k \in ks \ {Min(ks)} :
                    \A i \in 1..2 : SplitTypes(leaf, ks, k, useDense)[i] # "none"}
  IN  CASE splitter = "M" -> {MiddleKey(ks)}
        [] splitter = "T" -> {ThresholdKey(leaf, ks, useDense)}
        [] splitter = "A" ->
             {BoundaryKey(leaf, ks, IF useDense THEN DenseCap ELSE SparseCap, useDense)}
        [] splitter = "RS" -> IF fitting = {} THEN {KeyAt(ks, 1)} ELSE fitting
=============================================================================
