--------------------------- MODULE OperatorProofs ---------------------------
(***************************************************************************)
(* Lemmas on the operators that several components are built from, for     *)
(* every value of the constants: the list of the page replacer (LRUList),  *)
(* the bitmap and the file (BitmapFile), and the formats and splitters of  *)
(* the B-tree's leaves (LeafRules).                                        *)
(***************************************************************************)
EXTENDS LRUList, BitmapFile, LeafRules, Sequences, FiniteSetTheorems, WellFoundedInduction,
        TLAPS

(* A nonempty set of numbers from some point on has a least element. *)
LEMMA LeastOf ==
  ASSUME NEW lo \in Int, NEW S \in SUBSET Int, S # {}, \A n \in S : n >= lo
  PROVE  \E m \in S : \A n \in S : m <= n
<1> DEFINE T == {n - lo : n \in S}
<1>0. \A n \in S : n \in Int /\ n - lo \in Nat
  OBVIOUS
<1>1. T \in SUBSET Nat /\ T # {}
  BY <1>0
<1>2. PICK m \in T : \A n \in T : ~ (<<n, m>> \in OpToRel(<, Nat))
  BY <1>1, NatLessThanWellFounded, WFMin
<1>3. \A n \in T : ~ (n < m)
  BY <1>1, <1>2 DEF OpToRel
<1>4. PICK k \in S : m = k - lo
  BY <1>2
<1>5. \A n \in S : n - lo \in T
  OBVIOUS
<1>6. ASSUME NEW n \in S PROVE k <= n
  <2>1. n \in Int /\ k \in Int /\ ~ (n - lo < k - lo)
    BY <1>0, <1>3, <1>4, <1>5
  <2> QED BY <2>1
<1> QED BY <1>6

(* Induction up to a bound. *)
LEMMA UpTo ==
  ASSUME NEW lo \in Int, NEW hi \in Int, NEW S, lo \in S,
         \A i \in lo+1..hi : i-1 \in S => i \in S
  PROVE  \A i \in lo..hi : i \in S
<1> DEFINE T == {i \in lo..hi : i \notin S}
<1>1. SUFFICES ASSUME T # {} PROVE FALSE
  OBVIOUS
<1>2. T \in SUBSET Int /\ \A n \in T : n >= lo
  OBVIOUS
<1>3. PICK m \in T : \A n \in T : m <= n
  <2> HIDE DEF T
  <2> QED BY <1>1, <1>2, LeastOf
<1>4. m \in lo+1..hi /\ m - 1 \in lo..hi /\ ~(m <= m - 1)
  BY <1>3
<1> QED BY <1>3, <1>4

(* The greatest of some numbers below a bound. *)
LEMMA GreatestOf ==
  ASSUME NEW hi \in Int, NEW S \in SUBSET Int, S # {}, \A n \in S : n <= hi
  PROVE  /\ Max(S) \in S
         /\ \A n \in S : n <= Max(S)
<1> DEFINE T == {-n : n \in S}
<1>1. \A n \in S : n \in Int /\ -n >= -hi
  OBVIOUS
<1>2. T # {} /\ \A n \in T : n \in Int /\ n >= -hi
  <2>1. PICK k \in S : TRUE
    OBVIOUS
  <2>2. -k \in T
    OBVIOUS
  <2> QED BY <1>1, <2>2
<1>3. PICK m \in T : \A n \in T : m <= n
  <2> HIDE DEF T
  <2>1. T \in SUBSET Int /\ -hi \in Int
    BY <1>2
  <2> QED BY <1>2, <2>1, LeastOf
<1>4. PICK k \in S : m = -k
  BY <1>3
<1>5. ASSUME NEW n \in S PROVE k >= n
  <2>1. n \in Int /\ k \in Int /\ m <= -n
    BY <1>1, <1>3
  <2> QED BY <1>4, <2>1
<1>6. \E x \in S : \A y \in S : x >= y
  BY <1>5
<1>7. Max(S) \in S /\ \A y \in S : Max(S) >= y
  BY <1>6 DEF Max
<1> QED BY <1>1, <1>7

(* The least of some numbers above a bound. *)
LEMMA SmallestOf ==
  ASSUME NEW lo \in Int, NEW S \in SUBSET Int, S # {}, \A n \in S : n >= lo
  PROVE  /\ Min(S) \in S
         /\ \A n \in S : Min(S) <= n
<1>1. \E x \in S : \A y \in S : x <= y
  BY LeastOf
<1>2. Min(S) \in S /\ \A y \in S : Min(S) <= y
  BY <1>1 DEF Min
<1> QED BY <1>2

LEMMA IntervalSize ==
  ASSUME NEW n \in Nat
  PROVE  Cardinality(1..n) = n
<1>1. 1 \in Int /\ n \in Int
  OBVIOUS
<1>2. Cardinality(1..n) = IF 1 > n THEN 0 ELSE n-1+1
  BY <1>1, FS_Interval
<1> QED BY <1>2

-----------------------------------------------------------------------------
(* The list of the page replacer: each operation keeps the links mutually   *)
(* inverse and changes the set of listed records by exactly its argument.   *)

(* The counter stays a machine word whatever is added to it. *)
LEMMA CountWraps ==
  ASSUME NEW n \in Int
  PROVE  n % CountMod \in 0..CountMod-1
BY CountModAssumption, SMT

(* A record added at the most recently used end joins the list. *)
LEMMA AddLemma ==
  ASSUME NEW l \in List, WellLinked(l), NEW s \in Slot, s \notin Listed(l)
  PROVE  /\ Add(l, s) \in List
         /\ Listed(Add(l, s)) = Listed(l) \cup {s}
         /\ WellLinked(Add(l, s))
<1> DEFINE last == l.prev[HEAD]
           m == Add(l, s)
           On == Listed(l) \cup {HEAD}
           New == Listed(m) \cup {HEAD}
<1>1. /\ l.next \in [Node -> Node \cup {NULL}]
      /\ l.prev \in [Node -> Node \cup {NULL}]
      /\ l.count \in 0..CountMod-1
  BY DEF List
<1>2. last \in On /\ last \in Node /\ s \in Node /\ HEAD \in Node /\ s # HEAD /\ last # s
  BY SlotAssumption DEF WellLinked, Node, Listed
<1>3. m.count \in 0..CountMod-1
  BY <1>1, CountWraps DEF Add
<1>4. m \in List
  BY <1>1, <1>2, <1>3 DEF List, Add
<1>5. \A x \in Node :
         /\ m.next[x] = IF x = s THEN HEAD ELSE IF x = last THEN s ELSE l.next[x]
         /\ m.prev[x] = IF x = HEAD THEN s ELSE IF x = s THEN last ELSE l.prev[x]
  BY <1>1, <1>2 DEF Add
<1> HIDE DEF m
<1>6. On \subseteq Node /\ Slot \subseteq Node /\ NULL \notin Node /\ s \notin On
  BY SlotAssumption, <1>2 DEF Listed, Node
<1>7. Listed(m) = Listed(l) \cup {s}
  <2>1. ASSUME NEW x \in Slot
        PROVE  m.next[x] # NULL <=> l.next[x] # NULL \/ x = s
    <3>1. CASE x = s
      BY <1>5, <1>6, <3>1
    <3>2. CASE x # s /\ x = last
      BY <1>2, <1>5, <1>6, <3>2, SlotAssumption DEF Listed
    <3>3. CASE x # s /\ x # last
      BY <1>5, <1>6, <3>3
    <3> QED BY <3>1, <3>2, <3>3
  <2> QED BY <2>1 DEF Listed
<1>8. WellLinked(m)
  <2> HIDE DEF last
  <2>1. New = On \cup {s}
    BY <1>7
  <2>2. l.prev[HEAD] = last /\ l.next[last] = HEAD
    BY DEF WellLinked, last
  <2>3. /\ \A x \in On : l.next[x] \in On /\ l.prev[x] \in On
        /\ \A x \in On : l.prev[l.next[x]] = x /\ l.next[l.prev[x]] = x
        /\ \A x \in Node \ On : l.prev[x] = NULL
    BY DEF WellLinked
  <2> HIDE DEF On, New
  <2>4. HEAD \in On
    BY DEF On
  <2>5. m.next[HEAD] # NULL
    BY <1>2, <1>5, <1>6, <2>3, <2>4
  <2>6. ASSUME NEW x \in New
        PROVE  /\ m.next[x] \in New
               /\ m.prev[x] \in New
               /\ m.prev[m.next[x]] = x
               /\ m.next[m.prev[x]] = x
    BY <1>2, <1>5, <1>6, <2>1, <2>2, <2>3, <2>4
  <2>7. ASSUME NEW x \in Node \ New
        PROVE  m.prev[x] = NULL
    BY <1>2, <1>5, <2>1, <2>3, <2>4
  <2> QED BY <2>5, <2>6, <2>7 DEF WellLinked, New
<1> QED BY <1>4, <1>7, <1>8 DEF m
(* A record added at the least recently used end joins the list. *)
LEMMA AddBackLemma ==
  ASSUME NEW l \in List, WellLinked(l), NEW s \in Slot, s \notin Listed(l)
  PROVE  /\ AddBack(l, s) \in List
         /\ Listed(AddBack(l, s)) = Listed(l) \cup {s}
         /\ WellLinked(AddBack(l, s))
<1> DEFINE first == l.next[HEAD]
           m == AddBack(l, s)
           On == Listed(l) \cup {HEAD}
           New == Listed(m) \cup {HEAD}
<1>1. /\ l.next \in [Node -> Node \cup {NULL}]
      /\ l.prev \in [Node -> Node \cup {NULL}]
      /\ l.count \in 0..CountMod-1
  BY DEF List
<1>2. first \in On /\ first \in Node /\ s \in Node /\ HEAD \in Node /\ s # HEAD /\ first # s
  BY SlotAssumption DEF WellLinked, Node, Listed
<1>3. m.count \in 0..CountMod-1
  BY <1>1, CountWraps DEF AddBack
<1>4. m \in List
  BY <1>1, <1>2, <1>3 DEF List, AddBack
<1>5. \A x \in Node :
         /\ m.next[x] = IF x = HEAD THEN s ELSE IF x = s THEN first ELSE l.next[x]
         /\ m.prev[x] = IF x = s THEN HEAD ELSE IF x = first THEN s ELSE l.prev[x]
  BY <1>1, <1>2 DEF AddBack
<1> HIDE DEF m
<1>6. On \subseteq Node /\ Slot \subseteq Node /\ NULL \notin Node /\ s \notin On
  BY SlotAssumption, <1>2 DEF Listed, Node
<1>7. Listed(m) = Listed(l) \cup {s}
  <2>1. ASSUME NEW x \in Slot
        PROVE  m.next[x] # NULL <=> l.next[x] # NULL \/ x = s
    <3>1. CASE x = s
      BY <1>2, <1>5, <1>6, <3>1
    <3>2. CASE x # s
      BY <1>2, <1>5, <1>6, <3>2, SlotAssumption
    <3> QED BY <3>1, <3>2
  <2> QED BY <2>1 DEF Listed
<1>8. WellLinked(m)
  <2> HIDE DEF first
  <2>1. New = On \cup {s}
    BY <1>7
  <2>2. l.next[HEAD] = first /\ l.prev[first] = HEAD
    BY DEF WellLinked, first
  <2>3. /\ \A x \in On : l.next[x] \in On /\ l.prev[x] \in On
        /\ \A x \in On : l.prev[l.next[x]] = x /\ l.next[l.prev[x]] = x
        /\ \A x \in Node \ On : l.prev[x] = NULL
    BY DEF WellLinked
  <2> HIDE DEF On, New
  <2>4. HEAD \in On
    BY DEF On
  <2>5. m.next[HEAD] # NULL
    BY <1>2, <1>5, <1>6, <2>3, <2>4
  <2>6. ASSUME NEW x \in New
        PROVE  /\ m.next[x] \in New
               /\ m.prev[x] \in New
               /\ m.prev[m.next[x]] = x
               /\ m.next[m.prev[x]] = x
    BY <1>2, <1>5, <1>6, <2>1, <2>2, <2>3, <2>4
  <2>7. ASSUME NEW x \in Node \ New
        PROVE  m.prev[x] = NULL
    BY <1>2, <1>5, <2>1, <2>3, <2>4
  <2> QED BY <2>5, <2>6, <2>7 DEF WellLinked, New
<1> QED BY <1>4, <1>7, <1>8 DEF m
(* A record on the list can be unlinked, and nothing else leaves with it. *)
LEMMA RemoveLemma ==
  ASSUME NEW l \in List, WellLinked(l), NEW s \in Listed(l)
  PROVE  /\ CanUnlink(l, s)
         /\ RemoveSlot(l, s) \in List
         /\ Listed(RemoveSlot(l, s)) = Listed(l) \ {s}
         /\ WellLinked(RemoveSlot(l, s))
<1> DEFINE before == l.prev[s]
           after == l.next[s]
           m == RemoveSlot(l, s)
           On == Listed(l) \cup {HEAD}
           New == Listed(m) \cup {HEAD}
<1>1. /\ l.next \in [Node -> Node \cup {NULL}]
      /\ l.prev \in [Node -> Node \cup {NULL}]
      /\ l.count \in 0..CountMod-1
  BY DEF List
<1>2. On \subseteq Node /\ NULL \notin Node /\ s \in On /\ s # HEAD /\ HEAD \in On
  BY SlotAssumption DEF Listed, Node
<1>3. /\ \A x \in On : l.next[x] \in On /\ l.prev[x] \in On
      /\ \A x \in On : l.prev[l.next[x]] = x /\ l.next[l.prev[x]] = x
      /\ \A x \in Node \ On : l.prev[x] = NULL
  BY DEF WellLinked
<1>4. before \in On /\ after \in On /\ l.next[before] = s /\ l.prev[after] = s
  BY <1>2, <1>3
<1>5. CanUnlink(l, s)
  BY <1>2, <1>4 DEF CanUnlink
<1>6. m.count \in 0..CountMod-1
  BY <1>1, CountWraps DEF RemoveSlot
<1>7. m \in List
  BY <1>1, <1>2, <1>4, <1>6 DEF List, RemoveSlot
<1>8. \A x \in Node :
         /\ m.next[x] = IF x = s THEN NULL ELSE IF x = before THEN after ELSE l.next[x]
         /\ m.prev[x] = IF x = s THEN NULL ELSE IF x = after THEN before ELSE l.prev[x]
  BY <1>1, <1>2, <1>4 DEF RemoveSlot
<1> HIDE DEF m
<1>9. Listed(m) = Listed(l) \ {s}
  <2>1. ASSUME NEW x \in Slot
        PROVE  m.next[x] # NULL <=> l.next[x] # NULL /\ x # s
    <3>1. x \in Node
      BY DEF Node
    <3>2. CASE x = s
      BY <1>8, <3>1, <3>2
    <3>3. CASE x # s /\ x = before
      BY <1>2, <1>4, <1>8, <3>1, <3>3
    <3>4. CASE x # s /\ x # before
      BY <1>8, <3>1, <3>4
    <3> QED BY <3>2, <3>3, <3>4
  <2> QED BY <2>1 DEF Listed
<1>10. WellLinked(m)
  <2>1. New = On \ {s}
    BY <1>2, <1>9
  <2>2. before = l.prev[s] /\ after = l.next[s]
    OBVIOUS
  <2> HIDE DEF before, after, On, New
  <2>3. m.next[HEAD] # NULL
    BY <1>2, <1>3, <1>4, <1>8
  <2>4. ASSUME NEW x \in New
        PROVE  /\ m.next[x] \in New
               /\ m.prev[x] \in New
               /\ m.prev[m.next[x]] = x
               /\ m.next[m.prev[x]] = x
    BY <1>2, <1>3, <1>4, <1>8, <2>1, <2>2
  <2>5. ASSUME NEW x \in Node \ New
        PROVE  m.prev[x] = NULL
    BY <1>3, <1>4, <1>8, <2>1
  <2> QED BY <2>3, <2>4, <2>5 DEF WellLinked, New
<1> QED BY <1>5, <1>7, <1>9, <1>10 DEF m

(* The list the constructor builds. *)
LEMMA EmptyListLemma ==
  EmptyList \in List /\ WellLinked(EmptyList) /\ Listed(EmptyList) = {}
<1>1. EmptyList \in List
  BY CountModAssumption DEF EmptyList, List, Node
<1>2. Listed(EmptyList) = {}
  BY SlotAssumption DEF Listed, EmptyList, Node
<1>3. WellLinked(EmptyList)
  BY <1>2, SlotAssumption DEF WellLinked, EmptyList, Node
<1> QED BY <1>1, <1>2, <1>3

(* What selectToReplace hands out is on the list. *)
LEMMA VictimLemma ==
  ASSUME NEW l \in List, WellLinked(l), ~IsEmpty(l)
  PROVE  Victim(l) \in Listed(l)
BY DEF WellLinked, IsEmpty, Victim
-----------------------------------------------------------------------------
(* The bitmap and the file. *)

USE DEF Page, PID

(* A file object whose bits are all within its extent, and a file long     *)
(* enough for its bitmap and too short for numContentPages to wrap.        *)
FileGood(f) == f \in FileObject /\ \A p \in f.header : p < f.numContentPages
DiskGood(d) == /\ d \in DiskFile
               /\ d.size < NumHeaderPages + WordMod
               /\ \A p \in d.header : InFile(d, p)

(* Unsigned subtraction, as the constructor computes it. *)
LEMMA WrappedDifference ==
  ASSUME NEW n \in -NumHeaderPages..WordMod-1
  PROVE  n % WordMod = IF n >= 0 THEN n ELSE n + WordMod
BY NumHeaderPagesAssumption, NumBitsAssumption, WordModAssumption, SMT

(* What the constructor makes of a file's length and bitmap. *)
LEMMA OpenedLemma ==
  ASSUME NEW d, DiskGood(d), NEW f \in Opened(d)
  PROVE  FileGood(f)
<1> USE NumHeaderPagesAssumption, NumBitsAssumption, WordModAssumption
<1>1. /\ d.size \in Nat /\ d.header \subseteq Page
      /\ d.size < NumHeaderPages + WordMod
      /\ \A p \in d.header : InFile(d, p)
  BY DEF DiskGood, DiskFile
<1>2. /\ f = [header |-> f.header, numContentPages |-> f.numContentPages]
      /\ f.numContentPages = (d.size - NumHeaderPages) % WordMod
      /\ f.header \subseteq Page
      /\ d.size >= NumHeaderPages => f.header = d.header
  BY <1>1 DEF Opened
<1>3. CASE d.size >= NumHeaderPages
  <2>1. f.numContentPages = d.size - NumHeaderPages
    BY <1>1, <1>2, <1>3, WrappedDifference
  <2>2. \A p \in f.header : p < f.numContentPages
    BY <1>1, <1>2, <1>3, <2>1 DEF InFile
  <2> QED BY <1>1, <1>2, <1>3, <2>1, <2>2 DEF FileObject, FileGood
<1>4. CASE d.size < NumHeaderPages
  <2>1. f.numContentPages = d.size - NumHeaderPages + WordMod
    BY <1>1, <1>2, <1>4, WrappedDifference
  <2>2. \A p \in f.header : p < f.numContentPages
    BY <1>1, <1>2, <1>4, <2>1
  <2> QED BY <1>1, <1>2, <1>4, <2>1, <2>2 DEF FileObject, FileGood
<1> QED BY <1>1, <1>3, <1>4

(* The lowest clear bit exists while there is one. *)
LEMMA LeastElement ==
  ASSUME NEW S \in SUBSET Nat, S # {}
  PROVE  \E m \in S : \A n \in S : m <= n
<1>1. PICK m \in S : \A n \in S : ~ (<<n, m>> \in OpToRel(<, Nat))
  BY NatLessThanWellFounded, WFMin
<1>2. \A n \in S : ~ (n < m)
  BY <1>1 DEF OpToRel
<1> QED BY <1>2

(* Both allocations keep every bit within the extent and set one bit that  *)
(* was clear.                                                              *)
LEMMA AllocatePageLemma ==
  ASSUME NEW f, FileGood(f), AllocatePageStatus(f) = OK
  PROVE  /\ FileGood(AllocatePage(f))
         /\ AllocatePagePID(f) \in Page \ f.header
         /\ AllocatePage(f).header = f.header \cup {AllocatePagePID(f)}
<1> USE NumHeaderPagesAssumption, NumBitsAssumption, WordModAssumption
<1>1. /\ f.header \subseteq Page /\ f.numContentPages \in 0..WordMod-1
      /\ \A p \in f.header : p < f.numContentPages
  BY DEF FileGood, FileObject
<1>2. CASE f.numContentPages < NumBits
  BY <1>1, <1>2 DEF AllocatePage, AllocatePagePID, FileObject, FileGood
<1>3. CASE f.numContentPages >= NumBits
  <2>1. FreeBits(f) # {} /\ FreeBits(f) \subseteq Nat
    BY <1>1, <1>3 DEF AllocatePageStatus, OK, OutOfSpace, FreeBits
  <2>2. \E p \in FreeBits(f) : \A q \in FreeBits(f) : p <= q
    BY <2>1, LeastElement
  <2>3. AllocatePagePID(f) = CHOOSE p \in FreeBits(f) : \A q \in FreeBits(f) : p <= q
    BY <1>1, <1>3 DEF AllocatePagePID
  <2>4. AllocatePagePID(f) \in FreeBits(f)
    BY <2>2, <2>3
  <2>5. AllocatePage(f) = [header |-> f.header \cup {AllocatePagePID(f)},
                           numContentPages |-> f.numContentPages]
    <3>1. ~(f.numContentPages < NumBits)
      BY <1>1, <1>3
    <3> QED BY <3>1 DEF AllocatePage
  <2> QED BY <1>1, <1>3, <2>4, <2>5 DEF FileObject, FileGood, FreeBits
<1> QED BY <1>1, <1>2, <1>3

LEMMA AllocatePIDLemma ==
  ASSUME NEW f, FileGood(f), NEW pid \in PID, AllocatePIDStatus(f, pid) = OK
  PROVE  /\ FileGood(AllocatePID(f, pid))
         /\ pid \in Page \ f.header
         /\ AllocatePID(f, pid).header = f.header \cup {pid}
<1> USE NumHeaderPagesAssumption, NumBitsAssumption, WordModAssumption
<1>1. /\ f.header \subseteq Page /\ f.numContentPages \in 0..WordMod-1
      /\ \A p \in f.header : p < f.numContentPages
  BY DEF FileGood, FileObject
<1>2. pid < NumBits /\ pid \notin f.header
  BY <1>1 DEF AllocatePIDStatus, OK, OutOfRange, AlreadyAllocated, IsAllocated
<1> QED BY <1>1, <1>2 DEF AllocatePID, FileObject, FileGood, Larger

LEMMA CreatedLemma == FileGood(Created)
BY NumHeaderPagesAssumption, NumBitsAssumption, WordModAssumption
   DEF Created, FileGood, FileObject

LEMMA DisposeLemma ==
  ASSUME NEW f, FileGood(f), NEW pid \in PID
  PROVE  FileGood(Dispose(f, pid)) /\ Dispose(f, pid).header = f.header \ {pid}
BY DEF Dispose, FileGood, FileObject

(* A page that may be accessed is described by the bitmap. *)
LEMMA AccessLemma ==
  ASSUME NEW f, FileGood(f), NEW pid \in PID
  PROVE  AccessStatus(f, pid) = OK <=> pid \in f.header
<1>1. f.header \subseteq Page /\ \A p \in f.header : p < f.numContentPages
  BY DEF FileGood, FileObject
<1>2. f.numContentPages \in Int /\ pid \in Int
  BY DEF FileGood, FileObject
<1> QED BY <1>1, <1>2 DEF AccessStatus, OK, OutOfRange, NotAllocated, IsAllocated

LEMMA WriteLemma ==
  ASSUME NEW d, DiskGood(d), NEW pid \in Page, NEW img \in Image
  PROVE  /\ DiskGood(Write(d, pid, img))
         /\ Write(d, pid, img).size >= d.size
         /\ Write(d, pid, img).page = [d.page EXCEPT ![pid] = img]
         /\ InFile(Write(d, pid, img), pid)
<1> USE NumHeaderPagesAssumption, NumBitsAssumption, WordModAssumption
<1> DEFINE size == Larger(d.size, NumHeaderPages + pid + 1)
           page == [d.page EXCEPT ![pid] = img]
<1>1. /\ d.size \in Nat /\ d.page \in [Page -> Image] /\ d.header \in SUBSET Page
      /\ d.size < NumHeaderPages + WordMod
      /\ \A p \in d.header : NumHeaderPages + p < d.size
  BY DEF DiskGood, DiskFile, InFile
<1>2. /\ size \in Nat /\ size >= d.size /\ size < NumHeaderPages + WordMod
      /\ NumHeaderPages + pid < size
  BY <1>1 DEF Larger
<1>3. Write(d, pid, img) = [size |-> size, header |-> d.header, page |-> page]
  BY DEF Write
<1>4. page \in [Page -> Image]
  BY <1>1
<1>5. \A p \in d.header : NumHeaderPages + p < size
  BY <1>1, <1>2
<1> HIDE DEF size, page
<1>6. DiskGood(Write(d, pid, img))
  BY <1>1, <1>2, <1>3, <1>4, <1>5 DEF DiskGood, DiskFile, InFile
<1> QED BY <1>2, <1>3, <1>6 DEF page, InFile

(* Extending the file loses nothing it holds. *)
LEMMA ExtendLemma ==
  ASSUME NEW d, DiskGood(d), NEW f, FileGood(f)
  PROVE  /\ DiskGood(ExtendFile(f, d))
         /\ ExtendFile(f, d).size >= NumHeaderPages + f.numContentPages
         /\ \A p \in Page : InFile(d, p) => /\ InFile(ExtendFile(f, d), p)
                                            /\ ExtendFile(f, d).page[p] = d.page[p]
<1> USE NumHeaderPagesAssumption, NumBitsAssumption, WordModAssumption, ImageAssumption
<1> DEFINE total == NumHeaderPages + f.numContentPages
<1>1. /\ d.size \in Nat /\ f.numContentPages \in 0..WordMod-1
      /\ d.page \in [Page -> Image] /\ d.header \in SUBSET Page
      /\ \A p \in d.header : NumHeaderPages + p < d.size
  BY DEF DiskGood, FileGood, DiskFile, FileObject, InFile
<1>2. CASE total > d.size
  <2> DEFINE page == [p \in Page |-> IF NumHeaderPages + p = total - 1
                                     THEN HeaderImage ELSE d.page[p]]
  <2>1. ExtendFile(f, d) = [size |-> total, header |-> d.header, page |-> page]
    BY <1>1, <1>2 DEF ExtendFile
  <2>2. /\ page \in [Page -> Image] /\ total \in 0..NumHeaderPages+WordMod
        /\ total < NumHeaderPages + WordMod
        /\ \A p \in d.header : NumHeaderPages + p < total
    BY <1>1, <1>2
  <2>3. \A p \in Page : NumHeaderPages + p < d.size
                          => page[p] = d.page[p] /\ NumHeaderPages + p < total
    BY <1>1, <1>2
  <2> HIDE DEF page, total
  <2>4. DiskGood(ExtendFile(f, d))
    BY <1>1, <2>1, <2>2 DEF DiskGood, DiskFile, InFile
  <2>5. total >= NumHeaderPages + f.numContentPages
    BY <1>1 DEF total
  <2> QED BY <2>1, <2>3, <2>4, <2>5 DEF InFile
<1>3. CASE ~(total > d.size)
  BY <1>1, <1>3 DEF ExtendFile
<1> QED BY <1>2, <1>3

(* Writing the bitmap of an extended file keeps the pages. *)
LEMMA WriteHeaderLemma ==
  ASSUME NEW d, DiskGood(d), NEW f, FileGood(f),
         d.size >= NumHeaderPages + f.numContentPages
  PROVE  /\ DiskGood(WriteHeader(f, d))
         /\ WriteHeader(f, d) = [size |-> d.size, header |-> f.header, page |-> d.page]
<1> USE NumHeaderPagesAssumption, NumBitsAssumption, WordModAssumption
<1>1. /\ d.size \in 0..NumHeaderPages+WordMod /\ f.numContentPages \in 0..WordMod-1
      /\ f.header \in SUBSET Page /\ d.page \in [Page -> Image]
      /\ d.size < NumHeaderPages + WordMod
      /\ \A p \in f.header : p < f.numContentPages
  BY DEF DiskGood, FileGood, DiskFile, FileObject
<1>2. Larger(d.size, NumHeaderPages) = d.size
  BY <1>1 DEF Larger
<1>3. WriteHeader(f, d) = [size |-> d.size, header |-> f.header, page |-> d.page]
  BY <1>2 DEF WriteHeader
<1>4. \A p \in f.header : NumHeaderPages + p < d.size
  BY <1>1
<1> QED BY <1>1, <1>3, <1>4 DEF DiskGood, DiskFile, InFile
-----------------------------------------------------------------------------
(* The capacities of a leaf, the span of its keys, and their order. *)

(* What the assumptions say of the capacities. *)
LEMMA CapacitiesAre ==
  DenseCap \in Nat /\ DenseCap > 1 /\ SparseCap \in Nat /\ SparseCap > 0
BY CapAssumption

(* The span of some keys, by two bounds of them. *)
LEMMA SpanIs ==
  ASSUME NEW ks, IsFiniteSet(ks), \A k \in ks : k \in Int, NEW n \in Nat, NEW lo \in Int, NEW hi \in Int,
         \A k \in ks : lo <= k /\ k < hi
  PROVE  /\ Span(ks) \in Nat
         /\ hi - lo <= n => Span(ks) <= n
         /\ \A i, j \in ks : Span(ks) >= j + 1 - i
         /\ ks # {} => Min(ks) \in ks /\ Max(ks) \in ks /\ \A k \in ks : Min(ks) <= k /\ k <= Max(ks)
<1>1. CASE ks = {}
  BY <1>1 DEF Span
<1>2. CASE ks # {}
  <2>1. ks \in SUBSET Int /\ (\A k \in ks : k >= lo) /\ \A k \in ks : k <= hi
    BY <1>2
  <2>2. Min(ks) \in ks /\ \A k \in ks : Min(ks) <= k
    BY <1>2, <2>1, SmallestOf
  <2>3. Max(ks) \in ks /\ \A k \in ks : k <= Max(ks)
    BY <1>2, <2>1, GreatestOf
  <2>4. Span(ks) = Max(ks) + 1 - Min(ks)
    BY <1>2 DEF Span
  <2>5. Min(ks) \in Int /\ Max(ks) \in Int /\ Min(ks) <= Max(ks) /\ lo <= Min(ks) /\ Max(ks) < hi
    BY <2>1, <2>2, <2>3
  <2> DEFINE a == Min(ks)
             z == Max(ks)
  <2> HIDE DEF a, z
  <2>6. Span(ks) \in Nat /\ (hi - lo <= n => Span(ks) <= n)
    BY <2>4, <2>5
  <2>7. ASSUME NEW i \in ks, NEW j \in ks PROVE Span(ks) >= j + 1 - i
    <3>1. i \in Int /\ j \in Int /\ Min(ks) <= i /\ j <= Max(ks)
      BY <2>2, <2>3
    <3> QED BY <2>4, <2>5, <3>1
  <2> QED BY <2>2, <2>3, <2>6, <2>7
<1> QED BY <1>1, <1>2

(* The keys in their order. *)
Ordered(ks, lo) == IsFiniteSet(ks) /\ \A k \in ks : k \in Int /\ lo <= k

Before(ks, k) == {j \in ks : j < k}

FirstKeys(ks, i) == IF i = Cardinality(ks) THEN ks ELSE Before(ks, KeyAt(ks, i))

LEMMA KeyAtIs ==
  ASSUME NEW ks, NEW lo \in Int, Ordered(ks, lo), NEW i \in Int, 0 <= i, i < Cardinality(ks)
  PROVE  /\ KeyAt(ks, i) \in ks /\ KeyAt(ks, i) \in Int
         /\ IsFiniteSet(Before(ks, KeyAt(ks, i))) /\ Cardinality(Before(ks, KeyAt(ks, i))) = i
<1> DEFINE n == Cardinality(ks)
           S == {c \in 0..n-1 : \E k \in ks : Cardinality(Before(ks, k)) = c}
<1>1. IsFiniteSet(ks) /\ n \in Nat /\ \A k \in ks : k \in Int /\ lo <= k
  BY FS_CardinalityType DEF Ordered
<1>2. ASSUME NEW k \in ks
      PROVE  /\ IsFiniteSet(Before(ks, k)) /\ IsFiniteSet(Before(ks, k) \cup {k})
             /\ Cardinality(Before(ks, k) \cup {k}) = Cardinality(Before(ks, k)) + 1
  <2>1. Before(ks, k) \in SUBSET ks /\ k \notin Before(ks, k)
    BY <1>1 DEF Before
  <2>2. IsFiniteSet(Before(ks, k))
    BY <1>1, <2>1, FS_Subset
  <2> QED BY <2>1, <2>2, FS_AddElement
<1>3. 0 \in S
  <2>1. ks # {} /\ ks \in SUBSET Int
    BY <1>1, FS_EmptySet
  <2>2. PICK k \in ks : \A j \in ks : k <= j
    BY <1>1, <2>1, LeastOf
  <2>3. Before(ks, k) = {}
    BY <1>1, <2>2 DEF Before
  <2> QED BY <1>1, <2>3, FS_EmptySet
<1>4. ASSUME NEW c \in 0+1..n-1, c-1 \in S PROVE c \in S
  <2>1. PICK k \in ks : Cardinality(Before(ks, k)) = c - 1
    BY <1>4
  <2> DEFINE T == Before(ks, k) \cup {k}
             rest == ks \ T
  <2>2. Cardinality(T) = c /\ c # n
    BY <1>1, <1>2, <2>1
  <2>3. rest # {} /\ rest \in SUBSET Int /\ \A j \in rest : j >= lo
    <3>1. T \subseteq ks
      BY DEF Before
    <3>2. T # ks
      BY <2>2
    <3> QED BY <1>1, <3>1, <3>2
  <2>4. PICK q \in rest : \A j \in rest : q <= j
    <3> HIDE DEF rest
    <3> QED BY <2>3, LeastOf
  <2>5. q \in ks /\ q \in Int /\ k \in Int /\ k < q
    BY <1>1, <2>4 DEF Before
  <2>6. Before(ks, q) = T
    <3>1. ASSUME NEW j \in T PROVE j \in Before(ks, q)
      BY <1>1, <2>5 DEF Before
    <3>2. ASSUME NEW j \in Before(ks, q) PROVE j \in T
      <4>1. j \in ks /\ j \in Int /\ ~(q <= j)
        BY <1>1, <2>5 DEF Before
      <4> QED BY <2>4, <4>1
    <3> QED BY <3>1, <3>2
  <2> QED BY <2>2, <2>5, <2>6
<1>5. i \in S
  <2>1. 0 \in Int /\ n-1 \in Int /\ i \in 0..n-1
    BY <1>1
  <2> HIDE DEF S, n
  <2> QED BY <1>3, <1>4, <2>1, UpTo
<1>6. \E k \in ks : Cardinality({j \in ks : j < k}) = i
  BY <1>5 DEF Before
<1>7. KeyAt(ks, i) \in ks /\ Cardinality(Before(ks, KeyAt(ks, i))) = i
  BY <1>6 DEF KeyAt, Before
<1> QED BY <1>1, <1>2, <1>7

(* Keys are told apart by how many are smaller. *)
LEMMA BelowTells ==
  ASSUME NEW ks, NEW lo \in Int, Ordered(ks, lo), NEW a \in Int, NEW b \in Int,
         Cardinality(Before(ks, a)) = Cardinality(Before(ks, b))
  PROVE  Before(ks, a) = Before(ks, b)
<1>1. IsFiniteSet(Before(ks, a)) /\ IsFiniteSet(Before(ks, b))
  <2>1. Before(ks, a) \in SUBSET ks /\ Before(ks, b) \in SUBSET ks
    BY DEF Before
  <2> QED BY <2>1, FS_Subset DEF Ordered
<1>2. CASE a <= b
  <2>1. Before(ks, a) \in SUBSET Before(ks, b)
    BY <1>2 DEF Before, Ordered
  <2> QED BY <1>1, <2>1, FS_Subset
<1>3. CASE b <= a
  <2>1. Before(ks, b) \in SUBSET Before(ks, a)
    BY <1>3 DEF Before, Ordered
  <2> QED BY <1>1, <2>1, FS_Subset
<1> QED BY <1>2, <1>3

LEMMA FirstKeysAre ==
  ASSUME NEW ks, NEW lo \in Int, Ordered(ks, lo), NEW i \in Int, 0 <= i, i < Cardinality(ks)
  PROVE  /\ FirstKeys(ks, 0) = {}
         /\ KeyAt(ks, i) \in ks \ FirstKeys(ks, i) /\ KeyAt(ks, i) \in Int
         /\ FirstKeys(ks, i+1) = FirstKeys(ks, i) \cup {KeyAt(ks, i)}
         /\ \A k \in FirstKeys(ks, i) : k \in ks /\ k < KeyAt(ks, i)
<1> DEFINE n == Cardinality(ks)
           k == KeyAt(ks, i)
<1>1. IsFiniteSet(ks) /\ n \in Nat /\ \A j \in ks : j \in Int /\ lo <= j
  BY FS_CardinalityType DEF Ordered
<1>2. k \in ks /\ k \in Int /\ IsFiniteSet(Before(ks, k)) /\ Cardinality(Before(ks, k)) = i
  BY KeyAtIs
<1>3. FirstKeys(ks, i) = Before(ks, k)
  BY <1>1 DEF FirstKeys
<1> HIDE DEF k
<1>4. FirstKeys(ks, 0) = {}
  <2>1. n # 0 /\ FirstKeys(ks, 0) = Before(ks, KeyAt(ks, 0))
    BY <1>1 DEF FirstKeys
  <2>2. IsFiniteSet(Before(ks, KeyAt(ks, 0))) /\ Cardinality(Before(ks, KeyAt(ks, 0))) = 0
    <3>1. 0 \in Int /\ 0 <= 0 /\ 0 < Cardinality(ks)
      BY <1>1
    <3> QED BY <3>1, KeyAtIs
  <2> QED BY <2>1, <2>2, FS_EmptySet
<1>5. k \notin Before(ks, k) /\ \A j \in Before(ks, k) : j \in ks /\ j < k
  BY <1>2 DEF Before
<1> DEFINE T == Before(ks, k) \cup {k}
<1>6. T \in SUBSET ks /\ IsFiniteSet(T) /\ Cardinality(T) = i + 1
  BY <1>2, <1>5, FS_AddElement
<1>7. FirstKeys(ks, i+1) = T
  <2>1. CASE i + 1 = n
    <3>1. ks = T
      BY <1>1, <1>6, <2>1, FS_Subset
    <3> QED BY <2>1, <3>1 DEF FirstKeys
  <2>2. CASE i + 1 # n
    <3> DEFINE q == KeyAt(ks, i+1)
    <3>1. FirstKeys(ks, i+1) = Before(ks, q) /\ i + 1 \in Int /\ 0 <= i+1 /\ i+1 < n
      BY <1>1, <2>2 DEF FirstKeys
    <3>2. q \in Int /\ Cardinality(Before(ks, q)) = i + 1
      BY <3>1, KeyAtIs
    <3>3. Before(ks, k+1) = T
      <4>1. \A j \in ks : j < k+1 <=> j < k \/ j = k
        BY <1>1, <1>2
      <4> QED BY <1>2, <4>1 DEF Before
    <3>4. k + 1 \in Int /\ Cardinality(Before(ks, k+1)) = Cardinality(Before(ks, q))
      BY <1>2, <1>6, <3>2, <3>3
    <3>5. Before(ks, k+1) = Before(ks, q)
      <4> HIDE DEF q
      <4> QED BY <3>2, <3>4, BelowTells
    <3> QED BY <3>1, <3>3, <3>5
  <2> QED BY <2>1, <2>2
<1> QED BY <1>2, <1>3, <1>4, <1>5, <1>7 DEF k

(* What holds some keys holds fewer. *)
LEMMA FitsFewer ==
  ASSUME NEW ks, NEW lo \in Int, Ordered(ks, lo), NEW type, Fits(type, ks), NEW T \in SUBSET ks
  PROVE  Fits(type, T)
<1>1. SparseCap \in Nat /\ DenseCap \in Nat
  BY CapacitiesAre
<1>2. IsFiniteSet(ks) /\ IsFiniteSet(T) /\ \A k \in ks : k \in Int /\ lo <= k
  BY FS_Subset DEF Ordered
<1>3. CASE type = "sparse"
  <2>1. Cardinality(T) <= Cardinality(ks) /\ Cardinality(ks) \in Nat /\ Cardinality(T) \in Nat
    BY <1>2, FS_Subset, FS_CardinalityType
  <2>2. Cardinality(ks) <= SparseCap
    BY <1>3 DEF Fits
  <2>3. Cardinality(T) <= SparseCap
    BY <1>1, <2>1, <2>2
  <2> QED BY <1>3, <2>3 DEF Fits
<1>4. CASE type # "sparse"
  <2>1. Span(ks) <= DenseCap
    BY <1>4 DEF Fits
  <2>2. CASE T = {}
    BY <1>1, <1>4, <2>2 DEF Fits, Span
  <2>3. CASE T # {}
    <3>1. \E hi \in Int : \A k \in ks : k <= hi
      <4>1. ks # {} /\ ks \in SUBSET Int
        BY <1>2, <2>3
      <4> DEFINE n == Cardinality(ks)
                 q == KeyAt(ks, n-1)
      <4>2. n \in Nat /\ n # 0
        BY <1>2, <4>1, FS_CardinalityType, FS_EmptySet
      <4>3. FirstKeys(ks, (n-1)+1) = FirstKeys(ks, n-1) \cup {q} /\ q \in Int
              /\ \A k \in FirstKeys(ks, n-1) : k < q
        <5>1. n-1 \in Int /\ 0 <= n-1 /\ n-1 < n
          BY <4>2
        <5> QED BY <5>1, FirstKeysAre
      <4>4. FirstKeys(ks, (n-1)+1) = ks
        BY <4>2 DEF FirstKeys
      <4>5. \A k \in ks : k <= q
        <5> HIDE DEF q
        <5>1. ASSUME NEW k \in ks PROVE k <= q
          <6>1. k \in FirstKeys(ks, n-1) \/ k = q
            BY <4>3, <4>4
          <6> QED BY <1>2, <4>3, <6>1
        <5> QED BY <5>1
      <4> QED BY <4>3, <4>5
    <3>2. PICK hi \in Int : \A k \in ks : k <= hi
      BY <3>1
    <3>3. /\ Span(ks) \in Nat /\ Min(ks) \in ks /\ Max(ks) \in ks
          /\ \A k \in ks : Min(ks) <= k /\ k <= Max(ks)
      <4>1. hi + 1 \in Int /\ 0 \in Nat /\ ks # {} /\ \A k \in ks : lo <= k /\ k < hi + 1
        BY <1>2, <2>3, <3>2
      <4> QED BY <1>2, <4>1, SpanIs
    <3>4. Span(ks) = Max(ks) + 1 - Min(ks)
      BY <2>3 DEF Span
    <3> DEFINE a == Min(ks)
               z == Max(ks)
    <3> HIDE DEF a, z
    <3>5. /\ a \in Int /\ z + 1 \in Int /\ (z + 1) - a <= DenseCap
          /\ \A k \in T : k \in Int /\ a <= k /\ k < z + 1
      BY <1>1, <1>2, <2>1, <3>3, <3>4 DEF a, z
    <3>6. Span(T) <= DenseCap
      BY <1>1, <1>2, <3>5, SpanIs
    <3> QED BY <1>4, <3>6 DEF Fits
  <2> QED BY <2>2, <2>3
<1> QED BY <1>3, <1>4

(* KeyAt counts the keys up. *)
LEMMA KeyAtOrders ==
  ASSUME NEW ks, NEW lo \in Int, Ordered(ks, lo)
  PROVE  /\ \A k \in ks : \E i \in 1..Cardinality(ks) : KeyAt(ks, i-1) = k
         /\ \A i, j \in 1..Cardinality(ks) : i < j => KeyAt(ks, i-1) < KeyAt(ks, j-1)
<1> DEFINE n == Cardinality(ks)
<1>1. n \in Nat /\ IsFiniteSet(ks) /\ \A k \in ks : k \in Int
  BY FS_CardinalityType DEF Ordered
<1>2. ASSUME NEW i \in 1..n
      PROVE  /\ KeyAt(ks, i-1) \in ks /\ KeyAt(ks, i-1) \in Int
             /\ Cardinality(Before(ks, KeyAt(ks, i-1))) = i-1
  <2>1. i-1 \in Int /\ 0 <= i-1 /\ i-1 < n
    BY <1>1
  <2> QED BY <2>1, KeyAtIs
<1>3. ASSUME NEW k \in ks PROVE \E i \in 1..n : KeyAt(ks, i-1) = k
  <2> DEFINE c == Cardinality(Before(ks, k))
             a == KeyAt(ks, c)
  <2>1. c \in Nat /\ c < n
    <3>1. Before(ks, k) \in SUBSET ks /\ Before(ks, k) # ks
      <4>1. k \notin Before(ks, k)
        BY <1>1 DEF Before
      <4> QED BY <4>1 DEF Before
    <3>2. IsFiniteSet(Before(ks, k)) /\ c <= n
      BY <1>1, <3>1, FS_Subset
    <3>3. c \in Nat
      BY <3>2, FS_CardinalityType
    <3>4. c # n
      BY <1>1, <3>1, FS_Subset
    <3> QED BY <1>1, <3>2, <3>3, <3>4
  <2> HIDE DEF c
  <2>2. a \in ks /\ a \in Int /\ Cardinality(Before(ks, a)) = c
    BY <1>1, <2>1, KeyAtIs
  <2>3. Before(ks, a) = Before(ks, k)
    BY <1>1, <2>2, BelowTells DEF c
  <2> HIDE DEF a
  <2>4. a = k
    BY <1>1, <2>2, <2>3 DEF Before
  <2>5. c+1 \in 1..n /\ (c+1)-1 = c
    BY <1>1, <2>1
  <2> QED BY <2>4, <2>5 DEF a
<1>4. ASSUME NEW i \in 1..n, NEW j \in 1..n, i < j PROVE KeyAt(ks, i-1) < KeyAt(ks, j-1)
  <2> DEFINE a == KeyAt(ks, i-1)
             b == KeyAt(ks, j-1)
  <2>1. /\ a \in Int /\ b \in Int
        /\ Cardinality(Before(ks, a)) = i-1 /\ Cardinality(Before(ks, b)) = j-1
    BY <1>2
  <2> HIDE DEF a, b
  <2>2. ASSUME b <= a PROVE FALSE
    <3>1. Before(ks, b) \in SUBSET Before(ks, a) /\ Before(ks, a) \in SUBSET ks
      BY <1>1, <2>1, <2>2 DEF Before
    <3>2. Cardinality(Before(ks, b)) <= Cardinality(Before(ks, a))
      BY <1>1, <3>1, FS_Subset
    <3> QED BY <1>1, <1>4, <2>1, <3>2
  <2> QED BY <2>1, <2>2 DEF a, b
<1> QED BY <1>3, <1>4

-----------------------------------------------------------------------------
(* Where an overfull leaf may be split.  All of its keys but one fit.      *)
Low(ks, s) == {k \in ks : k < s}
High(ks, s) == {k \in ks : k >= s}

KeysWithin(ks, lo, hi) == IsFiniteSet(ks) /\ \A k \in ks : k \in Int /\ lo <= k /\ k < hi

Overfull(leaf, ks, dense) ==
  /\ leaf.type \in {"sparse", "dense"}
  /\ leaf.lower \in Int /\ 0 <= leaf.lower /\ leaf.upper \in Int
  /\ KeysWithin(ks, leaf.lower, leaf.upper)
  /\ ~Fits(leaf.type, ks) /\ \E x \in ks : Fits(leaf.type, ks \ {x})
  /\ dense \in BOOLEAN
  /\ dense => ~Fits(Other(leaf.type), ks)
  /\ ~dense => leaf.type = "sparse"

SplitSound(leaf, ks, s, dense) ==
  /\ s \in Int /\ Low(ks, s) # {} /\ High(ks, s) # {}
  /\ SplitTypes(leaf, ks, s, dense)[1] \in {"sparse", "dense"}
  /\ SplitTypes(leaf, ks, s, dense)[2] \in {"sparse", "dense"}
  /\ Fits(SplitTypes(leaf, ks, s, dense)[1], Low(ks, s))
  /\ Fits(SplitTypes(leaf, ks, s, dense)[2], High(ks, s))

(* A cut parts the keys. *)
LEMMA PartsAre ==
  ASSUME NEW ks, NEW lo \in Int, NEW hi \in Int, KeysWithin(ks, lo, hi), NEW s \in Int
  PROVE  /\ KeysWithin(Low(ks, s), lo, s) /\ KeysWithin(High(ks, s), s, hi)
         /\ Cardinality(Low(ks, s)) \in Nat /\ Cardinality(High(ks, s)) \in Nat
         /\ Cardinality(ks) = Cardinality(Low(ks, s)) + Cardinality(High(ks, s))
         /\ Low(ks, s) # {} <=> Cardinality(Low(ks, s)) > 0
         /\ High(ks, s) # {} <=> Cardinality(High(ks, s)) > 0
<1>1. IsFiniteSet(ks) /\ \A k \in ks : k \in Int /\ lo <= k /\ k < hi
  BY DEF KeysWithin
<1>2. Low(ks, s) \in SUBSET ks /\ High(ks, s) \in SUBSET ks
  BY DEF Low, High
<1>3. Low(ks, s) \cup High(ks, s) = ks /\ Low(ks, s) \cap High(ks, s) = {}
  BY <1>1 DEF Low, High
<1>4. IsFiniteSet(Low(ks, s)) /\ IsFiniteSet(High(ks, s))
  BY <1>1, <1>2, FS_Subset
<1>5. /\ Cardinality(Low(ks, s)) \in Nat /\ Cardinality(High(ks, s)) \in Nat
      /\ Cardinality(Low(ks, s)) = 0 <=> Low(ks, s) = {}
      /\ Cardinality(High(ks, s)) = 0 <=> High(ks, s) = {}
  BY <1>4, FS_CardinalityType, FS_EmptySet
<1>6. Cardinality(ks) = Cardinality(Low(ks, s)) + Cardinality(High(ks, s)) - Cardinality({})
  BY <1>3, <1>4, FS_Union
<1>7. KeysWithin(Low(ks, s), lo, s) /\ KeysWithin(High(ks, s), s, hi)
  BY <1>1, <1>4 DEF KeysWithin, Low, High
<1>8. Cardinality({}) = 0
  BY FS_EmptySet
<1> DEFINE l == Cardinality(Low(ks, s))
           h == Cardinality(High(ks, s))
<1> HIDE DEF l, h
<1>9. /\ l \in Nat /\ h \in Nat /\ Cardinality(ks) = l + h - 0
      /\ l = 0 <=> Low(ks, s) = {}
      /\ h = 0 <=> High(ks, s) = {}
  BY <1>5, <1>6, <1>8 DEF l, h
<1>10. /\ Cardinality(ks) = l + h
       /\ Low(ks, s) # {} <=> l > 0
       /\ High(ks, s) # {} <=> h > 0
  BY <1>9
<1> QED BY <1>5, <1>7, <1>10 DEF l, h

(* Keys between two bounds. *)
LEMMA WithinIs ==
  ASSUME NEW ks, NEW lo \in Int, NEW hi \in Int, KeysWithin(ks, lo, hi)
  PROVE  /\ Cardinality(ks) \in Nat /\ Span(ks) \in Nat
         /\ lo <= hi => Cardinality(ks) <= hi - lo
         /\ hi - lo <= DenseCap => Fits("dense", ks)
         /\ Cardinality(ks) <= Span(ks)
         /\ \A i, j \in ks : Span(ks) >= j + 1 - i
<1>1. IsFiniteSet(ks) /\ \A k \in ks : k \in Int /\ lo <= k /\ k < hi
  BY DEF KeysWithin
<1>2. DenseCap \in Nat
  BY CapacitiesAre
<1>3. /\ Span(ks) \in Nat /\ (hi - lo <= DenseCap => Span(ks) <= DenseCap)
      /\ \A i, j \in ks : Span(ks) >= j + 1 - i
      /\ ks # {} => Min(ks) \in ks /\ Max(ks) \in ks /\ \A k \in ks : Min(ks) <= k /\ k <= Max(ks)
  BY <1>1, <1>2, SpanIs
<1>4. ASSUME NEW a \in Int, NEW b \in Int, a <= b, \A k \in ks : a <= k /\ k < b
      PROVE  Cardinality(ks) <= b - a
  <2>1. ks \in SUBSET (a..b-1)
    BY <1>1, <1>4
  <2>2. IsFiniteSet(a..b-1) /\ Cardinality(a..b-1) = b - a
    <3>1. b - 1 \in Int /\ (a > b-1 => b - a = 0) /\ b-1-a+1 = b - a
      BY <1>4
    <3> QED BY <3>1, FS_Interval
  <2> QED BY <2>1, <2>2, FS_Subset
<1>5. Cardinality(ks) <= Span(ks)
  <2>1. CASE ks = {}
    <3>1. Cardinality(ks) = 0
      BY <2>1, FS_EmptySet
    <3> QED BY <1>3, <3>1
  <2>2. CASE ks # {}
    <3> DEFINE a == Min(ks)
               z == Max(ks)
    <3>1. a \in Int /\ z \in Int /\ a <= z /\ (\A k \in ks : a <= k /\ k <= z) /\ Span(ks) = z + 1 - a
      BY <1>1, <1>3, <2>2 DEF Span
    <3> HIDE DEF a, z
    <3>2. a \in Int /\ z + 1 \in Int /\ a <= z + 1 /\ \A k \in ks : a <= k /\ k < z + 1
      BY <1>1, <3>1
    <3> QED BY <1>4, <3>1, <3>2
  <2> QED BY <2>1, <2>2
<1> QED BY <1>1, <1>3, <1>4, <1>5, FS_CardinalityType DEF Fits

(* The format that splitTypes names holds the half. *)
LEMMA HalfTypeIs ==
  ASSUME SparseCap <= DenseCap, NEW type, NEW i, NEW lo \in Int, NEW hi \in Int, NEW part,
         KeysWithin(part, lo, hi), NEW dense \in BOOLEAN
  PROVE  LET t == HalfType(type, i, part, hi - lo, dense)
         IN  /\ dense /\ (Fits("dense", part) \/ Cardinality(part) <= SparseCap) =>
                  t \in {"sparse", "dense"} /\ Fits(t, part)
             /\ dense /\ t # "none" => t \in {"sparse", "dense"} /\ Fits(t, part)
             /\ ~dense => t = type
<1> DEFINE t == HalfType(type, i, part, hi - lo, dense)
<1>1. /\ SparseCap \in Nat /\ DenseCap \in Nat /\ SparseCap <= DenseCap
      /\ Cardinality(part) \in Nat
      /\ hi - lo \in 0..DenseCap => Fits("dense", part)
      /\ Fits("sparse", part) <=> Cardinality(part) <= SparseCap
  BY CapacitiesAre, WithinIs DEF Fits
<1>2. t = IF ~dense THEN type
          ELSE IF hi - lo \in 0..DenseCap THEN "dense"
          ELSE IF i = 1 /\ type = "sparse" /\ Fits("sparse", part) /\ Fits("dense", part) THEN "sparse"
          ELSE IF Fits("dense", part) THEN "dense"
          ELSE IF Cardinality(part) <= SparseCap /\ Cardinality(part) <= DenseCap THEN "sparse"
          ELSE "none"
  BY DEF HalfType
<1> HIDE DEF t
<1>3. ASSUME dense, hi - lo \in 0..DenseCap
      PROVE  t \in {"sparse", "dense"} /\ Fits(t, part)
  BY <1>1, <1>2, <1>3
<1>4. ASSUME dense, ~(hi - lo \in 0..DenseCap), Fits("dense", part)
      PROVE  t \in {"sparse", "dense"} /\ Fits(t, part)
  BY <1>2, <1>4
<1>5. ASSUME dense, ~(hi - lo \in 0..DenseCap), ~Fits("dense", part), Cardinality(part) <= SparseCap
      PROVE  t \in {"sparse", "dense"} /\ Fits(t, part)
  BY <1>1, <1>2, <1>5
<1>6. ASSUME dense, ~(hi - lo \in 0..DenseCap), ~Fits("dense", part), ~(Cardinality(part) <= SparseCap)
      PROVE  t = "none"
  BY <1>1, <1>2, <1>6
<1>7. ~dense => t = type
  BY <1>2
<1> QED BY <1>3, <1>4, <1>5, <1>6, <1>7 DEF t

(* An overfull sparse leaf has one entry too many, a dense one a key that  *)
(* is too far from the others.                                             *)
LEMMA OverfullIs ==
  ASSUME NEW leaf, NEW ks, NEW dense, Overfull(leaf, ks, dense)
  PROVE  /\ Cardinality(ks) \in Nat /\ Cardinality(ks) >= 2 /\ Cardinality(ks) > SparseCap
         /\ leaf.type = "sparse" => Cardinality(ks) = SparseCap + 1
         /\ leaf.type = "dense" => Cardinality(ks) <= DenseCap + 1 /\ dense = TRUE
         /\ dense => ~Fits("dense", ks)
<1>1. /\ leaf.type \in {"sparse", "dense"} /\ leaf.lower \in Int /\ leaf.upper \in Int
      /\ KeysWithin(ks, leaf.lower, leaf.upper) /\ IsFiniteSet(ks)
      /\ SparseCap \in Nat /\ SparseCap > 0 /\ DenseCap \in Nat
      /\ ~Fits(leaf.type, ks) /\ (dense => ~Fits(Other(leaf.type), ks))
      /\ dense \in BOOLEAN /\ (~dense => leaf.type = "sparse")
  BY CapacitiesAre DEF Overfull, KeysWithin
<1>2. Cardinality(ks) \in Nat
  BY <1>1, FS_CardinalityType
<1>3. PICK x \in ks : Fits(leaf.type, ks \ {x})
  BY DEF Overfull
<1> DEFINE T == ks \ {x}
<1>4. Cardinality(T) = Cardinality(ks) - 1 /\ KeysWithin(T, leaf.lower, leaf.upper)
  BY <1>1, FS_RemoveElement DEF KeysWithin
<1>5. Cardinality(ks) > SparseCap
  BY <1>1, <1>2 DEF Fits, Other
<1>6. leaf.type = "sparse" => Cardinality(ks) = SparseCap + 1
  <2>1. leaf.type = "sparse" => Cardinality(T) <= SparseCap
    BY <1>3 DEF Fits
  <2> QED BY <1>1, <1>2, <1>4, <1>5, <2>1
<1>7. leaf.type = "dense" => Cardinality(ks) <= DenseCap + 1
  <2>1. ASSUME leaf.type = "dense" PROVE Cardinality(ks) <= DenseCap + 1
    <3>1. Span(T) <= DenseCap
      BY <1>3, <2>1 DEF Fits
    <3>2. Cardinality(T) <= Span(T) /\ Span(T) \in Nat
      <4> HIDE DEF T
      <4> QED BY <1>1, <1>4, WithinIs
    <3> QED BY <1>1, <1>2, <1>4, <3>1, <3>2
  <2> QED BY <2>1
<1>8. dense => ~Fits("dense", ks)
  BY <1>1 DEF Other
<1> QED BY <1>1, <1>2, <1>5, <1>6, <1>7, <1>8

(* A cut with keys on both sides is sound if a dense leaf's halves fit some format. *)
LEMMA SplitIsSound ==
  ASSUME SparseCap <= DenseCap, NEW leaf, NEW ks, NEW dense, Overfull(leaf, ks, dense), NEW s \in Int,
         Low(ks, s) # {}, High(ks, s) # {},
         leaf.type = "dense" =>
           /\ Fits("dense", Low(ks, s)) \/ Cardinality(Low(ks, s)) <= SparseCap
           /\ Fits("dense", High(ks, s)) \/ Cardinality(High(ks, s)) <= SparseCap
  PROVE  SplitSound(leaf, ks, s, dense)
<1> DEFINE low == Low(ks, s)
           high == High(ks, s)
           t1 == HalfType(leaf.type, 1, low, s - leaf.lower, dense)
           t2 == HalfType(leaf.type, 2, high, leaf.upper - s, dense)
<1>1. SplitTypes(leaf, ks, s, dense)[1] = t1 /\ SplitTypes(leaf, ks, s, dense)[2] = t2
  BY DEF SplitTypes, Low, High
<1>2. /\ leaf.type \in {"sparse", "dense"} /\ leaf.lower \in Int /\ leaf.upper \in Int
      /\ KeysWithin(ks, leaf.lower, leaf.upper) /\ dense \in BOOLEAN /\ (~dense => leaf.type = "sparse")
      /\ SparseCap \in Nat
  BY CapacitiesAre DEF Overfull
<1>3. /\ KeysWithin(low, leaf.lower, s) /\ KeysWithin(high, s, leaf.upper)
      /\ Cardinality(low) \in Nat /\ Cardinality(high) \in Nat
      /\ Cardinality(ks) = Cardinality(low) + Cardinality(high)
      /\ Cardinality(low) > 0 /\ Cardinality(high) > 0
  BY <1>2, PartsAre
<1>4. ASSUME leaf.type = "sparse"
      PROVE  Cardinality(low) <= SparseCap /\ Cardinality(high) <= SparseCap
  <2>1. Cardinality(ks) = SparseCap + 1
    BY <1>4, OverfullIs
  <2> HIDE DEF low, high
  <2> QED BY <1>2, <1>3, <2>1
<1> HIDE DEF low, high
<1>5. /\ dense => (t1 \in {"sparse", "dense"} /\ Fits(t1, low))
      /\ dense => (t2 \in {"sparse", "dense"} /\ Fits(t2, high))
      /\ ~dense => t1 = leaf.type /\ t2 = leaf.type
  <2>1. /\ Fits("dense", low) \/ Cardinality(low) <= SparseCap
        /\ Fits("dense", high) \/ Cardinality(high) <= SparseCap
    BY <1>2, <1>4 DEF low, high
  <2>2. /\ dense => (t1 \in {"sparse", "dense"} /\ Fits(t1, low))
        /\ ~dense => t1 = leaf.type
    BY <1>2, <1>3, <2>1, HalfTypeIs
  <2>3. /\ dense => (t2 \in {"sparse", "dense"} /\ Fits(t2, high))
        /\ ~dense => t2 = leaf.type
    <3> HIDE DEF low, high
    <3>1. KeysWithin(high, s, leaf.upper) /\ (Fits("dense", high) \/ Cardinality(high) <= SparseCap)
      BY <1>3, <2>1
    <3>2. s \in Int /\ leaf.upper \in Int /\ dense \in BOOLEAN
      BY <1>2
    <3> QED BY <3>1, <3>2, HalfTypeIs
  <2> QED BY <2>2, <2>3
<1> HIDE DEF t1, t2
<1>6. ~dense => Fits(t1, low) /\ Fits(t2, high) /\ t1 = "sparse" /\ t2 = "sparse"
  BY <1>2, <1>4, <1>5 DEF Fits
<1>7. /\ t1 \in {"sparse", "dense"} /\ Fits(t1, low) /\ t2 \in {"sparse", "dense"} /\ Fits(t2, high)
  BY <1>2, <1>5, <1>6
<1> QED BY <1>1, <1>7 DEF SplitSound, low, high

(* MSplitter. *)
LEMMA MiddleSound ==
  ASSUME SparseCap <= DenseCap, DenseCap < 2 * SparseCap,
         NEW leaf, NEW ks, NEW dense, Overfull(leaf, ks, dense)
  PROVE  SplitSound(leaf, ks, MiddleKey(ks), dense)
<1> DEFINE n == Cardinality(ks)
           s == MiddleKey(ks)
<1>1. /\ leaf.lower \in Int /\ leaf.upper \in Int /\ KeysWithin(ks, leaf.lower, leaf.upper)
      /\ n \in Nat /\ n >= 2 /\ (leaf.type = "dense" => n <= DenseCap + 1)
      /\ SparseCap \in Nat /\ DenseCap \in Nat /\ DenseCap < 2 * SparseCap
  BY CapacitiesAre, OverfullIs DEF Overfull
<1> HIDE DEF n
<1>2. n \div 2 \in Int /\ 0 <= n \div 2 /\ n \div 2 < n /\ n \div 2 > 0 /\ n <= 2 * (n \div 2) + 1
        /\ 2 * (n \div 2) <= n
  BY <1>1
<1>3. s \in Int /\ Cardinality(Before(ks, s)) = n \div 2
  <2>1. s = KeyAt(ks, n \div 2)
    BY DEF MiddleKey, n
  <2>2. Ordered(ks, leaf.lower)
    BY <1>1 DEF Ordered, KeysWithin
  <2> QED BY <1>1, <1>2, <2>1, <2>2, KeyAtIs DEF n
<1> HIDE DEF s
<1>4. Cardinality(Low(ks, s)) = n \div 2
  BY <1>3 DEF Low, Before
<1>5. /\ n = Cardinality(Low(ks, s)) + Cardinality(High(ks, s))
      /\ Cardinality(High(ks, s)) \in Nat
      /\ Low(ks, s) # {} <=> Cardinality(Low(ks, s)) > 0
      /\ High(ks, s) # {} <=> Cardinality(High(ks, s)) > 0
  BY <1>1, <1>3, PartsAre DEF n
<1>6. Low(ks, s) # {} /\ High(ks, s) # {}
  BY <1>1, <1>2, <1>4, <1>5
<1>7. ASSUME leaf.type = "dense"
      PROVE  Cardinality(Low(ks, s)) <= SparseCap /\ Cardinality(High(ks, s)) <= SparseCap
  BY <1>1, <1>2, <1>4, <1>5, <1>7
<1> QED BY <1>3, <1>6, <1>7, SplitIsSound DEF s

-----------------------------------------------------------------------------
(* The key of an overfull dense leaf that is too far from the others.      *)
LEMMA FarKey ==
  ASSUME NEW leaf, NEW ks, NEW dense, Overfull(leaf, ks, dense), leaf.type = "dense"
  PROVE  \E x \in ks, h, e \in Int :
           /\ h \in ks /\ e - 1 \in ks /\ e - h <= DenseCap /\ h < e
           /\ KeysWithin(ks \ {x}, h, e) /\ Fits("dense", ks \ {x}) /\ x \in Int
           /\ leaf.lower <= h /\ e <= leaf.upper /\ leaf.lower <= x /\ x < leaf.upper
           /\ x >= h + DenseCap \/ x < e - DenseCap
<1>1. /\ leaf.lower \in Int /\ leaf.upper \in Int /\ KeysWithin(ks, leaf.lower, leaf.upper)
      /\ IsFiniteSet(ks) /\ \A k \in ks : k \in Int /\ leaf.lower <= k /\ k < leaf.upper
      /\ ~Fits("dense", ks)
  BY DEF Overfull, KeysWithin
<1>2. PICK x \in ks : Fits("dense", ks \ {x})
  BY DEF Overfull
<1>3. Cardinality(ks) \in Nat /\ Cardinality(ks) >= 2 /\ DenseCap \in Nat
  BY CapacitiesAre, OverfullIs
<1> DEFINE T == ks \ {x}
<1>4. IsFiniteSet(T) /\ T # {} /\ KeysWithin(T, leaf.lower, leaf.upper)
  <2>1. IsFiniteSet(T) /\ Cardinality(T) = Cardinality(ks) - 1
    BY <1>1, FS_RemoveElement
  <2>2. Cardinality(T) # 0
    BY <1>3, <2>1
  <2> QED BY <1>1, <2>1, <2>2, FS_EmptySet DEF KeysWithin
<1> DEFINE h == Min(T)
           e == Max(T) + 1
<1>5. h \in T /\ Max(T) \in T /\ Span(T) = Max(T) + 1 - h /\ \A k \in T : h <= k /\ k <= Max(T)
  <2>1. \A k \in T : k \in Int /\ leaf.lower <= k /\ k < leaf.upper
    BY <1>1
  <2> HIDE DEF T
  <2>2. 0 \in Nat
    OBVIOUS
  <2> QED BY <1>1, <1>4, <2>1, <2>2, SpanIs DEF Span
<1>6. Span(T) <= DenseCap
  BY <1>2 DEF Fits
<1>7. /\ h \in Int /\ e \in Int /\ h \in ks /\ e - 1 \in ks /\ e - h <= DenseCap /\ h < e
      /\ (\A k \in T : k \in Int /\ h <= k /\ k < e)
      /\ leaf.lower <= h /\ e <= leaf.upper
  <2> DEFINE z == Max(T)
  <2>1. /\ h \in Int /\ z \in Int /\ h <= z /\ leaf.lower <= h /\ z < leaf.upper /\ h \in ks /\ z \in ks
        /\ \A k \in T : k \in Int /\ h <= k /\ k <= z
    BY <1>1, <1>5
  <2> HIDE DEF z, h
  <2>2. e = z + 1 /\ z + 1 - h <= DenseCap /\ z + 1 - 1 = z
    BY <1>5, <1>6, <2>1 DEF z
  <2> HIDE DEF e, T
  <2>3. \A k \in T : k \in Int /\ h <= k /\ k < e
    BY <2>1, <2>2
  <2>4. e \in Int /\ e - 1 = z /\ h < e /\ e <= leaf.upper
    BY <1>1, <2>1, <2>2
  <2> QED BY <2>1, <2>2, <2>3, <2>4
<1> HIDE DEF h, e
<1>8. KeysWithin(T, h, e)
  BY <1>4, <1>7 DEF KeysWithin
<1>9. x \in Int /\ leaf.lower <= x /\ x < leaf.upper
  BY <1>1
<1>10. x >= h + DenseCap \/ x < e - DenseCap
  <2> SUFFICES ASSUME ~(x >= h + DenseCap), ~(x < e - DenseCap) PROVE FALSE
    OBVIOUS
  <2> DEFINE a == IF x < h THEN x ELSE h
             b == IF x < e THEN e ELSE x + 1
  <2>1. a \in Int /\ b \in Int /\ b - a <= DenseCap /\ a <= x /\ x < b /\ a <= h /\ e <= b
    BY <1>3, <1>7, <1>9
  <2> HIDE DEF a, b
  <2>2. \A k \in ks : k \in Int /\ a <= k /\ k < b
    <3>1. \A k \in T : k \in Int /\ a <= k /\ k < b
      <4> HIDE DEF T
      <4> QED BY <1>7, <2>1
    <3> QED BY <1>9, <2>1, <3>1
  <2>3. KeysWithin(ks, a, b)
    BY <1>1, <2>2 DEF KeysWithin
  <2>4. Fits("dense", ks)
    BY <2>1, <2>3, WithinIs
  <2> QED BY <1>1, <2>4
<1> QED BY <1>2, <1>7, <1>8, <1>9, <1>10

(* The records near either bound, and the fuller distance of the two.      *)
Near(leaf, ks, cap, i) ==
  IF i = 1 THEN Cardinality(Low(ks, leaf.lower + cap))
  ELSE IF leaf.upper < cap THEN 0 ELSE Cardinality(High(ks, leaf.upper - cap))

NearCap(leaf, ks, dense, i) ==
  IF dense /\ Near(leaf, ks, SparseCap, i) * DenseCap < Near(leaf, ks, DenseCap, i) * SparseCap
  THEN DenseCap ELSE SparseCap

LEMMA Growing ==
  ASSUME NEW a \in Nat, NEW b \in Nat, NEW c \in Nat, a <= b
  PROVE  a * c <= b * c
<1>1. b - a \in Nat /\ b = a + (b - a)
  OBVIOUS
<1>2. (b - a) * c \in Nat /\ a * c \in Nat
  BY <1>1
<1>3. b * c = a * c + (b - a) * c
  BY <1>1
<1> QED BY <1>2, <1>3

LEMMA Cancelled ==
  ASSUME NEW a \in Nat, NEW b \in Nat, NEW c \in Nat \ {0}, a * c <= b * c
  PROVE  a <= b
<1> SUFFICES ASSUME b + 1 <= a PROVE FALSE
  OBVIOUS
<1>1. (b + 1) * c <= a * c
  BY Growing
<1>2. (b + 1) * c = b * c + c /\ b * c \in Nat /\ a * c \in Nat
  OBVIOUS
<1> QED BY <1>1, <1>2

(* The fuller half is full enough if either is. *)
LEMMA FullEnough ==
  ASSUME NEW n \in Nat, NEW m \in Nat, NEW c \in Nat \ {0}, NEW d \in Nat \ {0},
         NEW t \in Nat \ {0}, NEW u \in Nat \ {0}, 2 * t >= u,
         m * c <= n * d, n * u >= t * c \/ m * u >= t * d
  PROVE  c <= 2 * n /\ n > 0
<1>0. /\ n * u \in Nat /\ t * c \in Nat /\ m * u \in Nat /\ t * d \in Nat /\ n * d \in Nat
      /\ m * c \in Nat
      /\ (n * u) * d \in Nat /\ (t * c) * d \in Nat
  OBVIOUS
<1>1. t * c <= n * u
  <2> SUFFICES ASSUME t * d <= m * u PROVE t * c <= n * u
    BY <1>0
  <2>1. (t * d) * c <= (m * u) * c
    BY <1>0, Growing
  <2>2. (m * c) * u <= (n * d) * u
    BY <1>0, Growing
  <2>3. (t * d) * c = (t * c) * d /\ (m * u) * c = (m * c) * u /\ (n * d) * u = (n * u) * d
    OBVIOUS
  <2>4. (t * c) * d <= (n * u) * d
    <3>1. (m * c) * u \in Nat /\ (n * d) * u \in Nat
      BY <1>0
    <3> QED BY <1>0, <2>1, <2>2, <2>3, <3>1
  <2> QED BY <1>0, <2>4, Cancelled
<1>2. u * c <= (2 * t) * c
  <2>1. u \in Nat /\ 2 * t \in Nat /\ c \in Nat /\ u <= 2 * t
    OBVIOUS
  <2> QED BY <2>1, Growing
<1>3. (2 * t) * c = 2 * (t * c) /\ u * c = c * u /\ (2 * n) * u = 2 * (n * u)
  OBVIOUS
<1>4. c * u <= (2 * n) * u
  <2>1. c * u \in Nat
    OBVIOUS
  <2> QED BY <1>0, <1>1, <1>2, <1>3, <2>1
<1>5. c <= 2 * n
  <2>1. 2 * n \in Nat /\ c \in Nat
    OBVIOUS
  <2> QED BY <1>4, <2>1, Cancelled
<1> QED BY <1>5

(* What is left on the far side of a distance of SparseCap that is no less *)
(* full than one of DenseCap.                                              *)
LEMMA FarSide ==
  ASSUME NEW s \in Nat \ {0}, NEW d \in Nat \ {0}, d < 2 * s,
         NEW a \in Nat \ {0}, NEW b \in Nat, NEW g \in Nat, a <= s - g, b * s <= a * d
  PROVE  b - a + g + 1 <= s
<1> SUFFICES ASSUME s + a - g <= b PROVE FALSE
  OBVIOUS
<1>1. s + a - g \in Nat /\ s - g - a \in Nat
  OBVIOUS
<1>2. (s + a - g) * s <= b * s
  BY <1>1, Growing
<1>3. d * a <= (2 * s - 1) * a
  <2>1. d <= 2 * s - 1 /\ 2 * s - 1 \in Nat
    OBVIOUS
  <2> QED BY <2>1, Growing
<1>4. (s + a - g) * s = 2 * (a * s) + (s - g - a) * s /\ (2 * s - 1) * a = 2 * (a * s) - a
        /\ d * a = a * d
  OBVIOUS
<1>5. (s - g - a) * s \in Nat /\ a * s \in Nat /\ b * s \in Nat /\ a * d \in Nat
  BY <1>1
<1> QED BY <1>2, <1>3, <1>4, <1>5

(* TSplitter, at a distance from the lower bound. *)
LEMMA LowerSplit ==
  ASSUME SparseCap <= DenseCap, DenseCap < 2 * SparseCap,
         NEW leaf, NEW ks, NEW dense, Overfull(leaf, ks, dense), NEW c \in {SparseCap, DenseCap},
         ~dense => c = SparseCap, NEW a \in Nat, a = Cardinality(Low(ks, leaf.lower + c)), c <= 2 * a,
         NEW b \in Nat, b = Cardinality(Low(ks, leaf.lower + DenseCap)),
         leaf.type = "dense" /\ c = SparseCap => b * SparseCap <= a * DenseCap
  PROVE  SplitSound(leaf, ks, leaf.lower + c, dense)
<1> DEFINE s == leaf.lower + c
           low == Low(ks, s)
           high == High(ks, s)
           n == Cardinality(ks)
<1>1. /\ leaf.lower \in Int /\ leaf.upper \in Int /\ KeysWithin(ks, leaf.lower, leaf.upper)
      /\ IsFiniteSet(ks) /\ \A k \in ks : k \in Int /\ leaf.lower <= k /\ k < leaf.upper
      /\ leaf.type \in {"sparse", "dense"} /\ dense \in BOOLEAN
      /\ SparseCap \in Nat /\ DenseCap \in Nat /\ SparseCap > 0 /\ DenseCap > 1
      /\ SparseCap <= DenseCap /\ DenseCap < 2 * SparseCap
      /\ c \in Nat /\ c > 0 /\ c <= DenseCap
  BY CapacitiesAre DEF Overfull, KeysWithin
<1>2. /\ n \in Nat /\ n > SparseCap /\ (leaf.type = "dense" => n <= DenseCap + 1)
      /\ dense => ~Fits("dense", ks)
  BY OverfullIs
<1>3. s \in Int /\ s = leaf.lower + c
  BY <1>1
<1> HIDE DEF s
<1>4. /\ KeysWithin(low, leaf.lower, s) /\ KeysWithin(high, s, leaf.upper)
      /\ Cardinality(low) \in Nat /\ Cardinality(high) \in Nat
      /\ n = Cardinality(low) + Cardinality(high)
      /\ low # {} <=> Cardinality(low) > 0
      /\ high # {} <=> Cardinality(high) > 0
  BY <1>1, <1>3, PartsAre
<1>5. a = Cardinality(low) /\ a > 0
  BY <1>1 DEF s
<1> HIDE DEF n
<1>6. high # {}
  <2> SUFFICES ASSUME high = {} PROVE FALSE
    OBVIOUS
  <2>1. \A k \in ks : k < s
    BY <1>1, <1>3 DEF High
  <2>2. KeysWithin(ks, leaf.lower, s)
    BY <1>1, <2>1 DEF KeysWithin
  <2>3. leaf.lower <= s /\ s - leaf.lower = c
    BY <1>1, <1>3
  <2>4. Cardinality(ks) <= c /\ Fits("dense", ks)
    BY <1>1, <1>3, <2>2, <2>3, WithinIs
  <2> QED BY <1>1, <1>2, <2>4 DEF n
<1>7. Fits("dense", low)
  <2>1. s - leaf.lower <= DenseCap
    BY <1>1, <1>3
  <2> HIDE DEF low
  <2> QED BY <1>1, <1>3, <1>4, <2>1, WithinIs
<1>8. ASSUME leaf.type = "dense" PROVE Fits("dense", high) \/ Cardinality(high) <= SparseCap
  <2>1. PICK x \in ks, h \in Int, e \in Int :
           /\ h \in ks /\ e - 1 \in ks /\ e - h <= DenseCap /\ h < e
           /\ KeysWithin(ks \ {x}, h, e) /\ Fits("dense", ks \ {x}) /\ x \in Int
           /\ leaf.lower <= h /\ e <= leaf.upper /\ leaf.lower <= x /\ x < leaf.upper
           /\ x >= h + DenseCap \/ x < e - DenseCap
    BY <1>8, FarKey
  <2>2. \A k \in ks : k = x \/ (k \in Int /\ h <= k /\ k < e)
    BY <2>1 DEF KeysWithin
  <2>3. PICK y \in low : TRUE
    BY <1>4, <1>5
  <2>4. y \in ks /\ y \in Int /\ y < s
    BY <1>1 DEF Low
  <2>5. CASE x < e - DenseCap
    <3>1. x \notin high
      <4>1. x <= y
        BY <1>1, <2>1, <2>2, <2>4, <2>5
      <4>2. ~(x >= s)
        BY <1>3, <2>1, <2>4, <4>1
      <4> QED BY <4>2 DEF High
    <3>2. high \in SUBSET (ks \ {x})
      BY <3>1 DEF High
    <3>3. Ordered(ks \ {x}, h)
      BY <2>1 DEF Ordered, KeysWithin
    <3> QED BY <2>1, <3>2, <3>3, FitsFewer
  <2>6. CASE x >= h + DenseCap
    <3>1. h < s
      BY <1>1, <1>3, <2>1, <2>2, <2>4, <2>6
    <3>2. CASE c = DenseCap
      BY <1>1, <1>2, <1>4, <1>5, <1>8, <3>2
    <3>3. CASE c = SparseCap
      <4> DEFINE g == h - leaf.lower
                 t == leaf.lower + DenseCap
                 far == High(ks, t)
      <4>1. g \in Nat /\ g < SparseCap /\ t \in Int
        BY <1>1, <1>3, <2>1, <3>1, <3>3
      <4>2. a <= SparseCap - g
        <5>1. KeysWithin(low, h, s)
          <6>1. \A k \in low : k \in Int /\ h <= k /\ k < s
            BY <1>1, <1>3, <2>1, <2>2, <2>6 DEF Low
          <6> QED BY <1>4, <6>1 DEF KeysWithin
        <5>2. h <= s
          BY <1>3, <2>1, <3>1
        <5>3. Cardinality(low) <= s - h
          <6> HIDE DEF low
          <6> QED BY <1>3, <5>1, <5>2, WithinIs
        <5>4. s - h = SparseCap - g
          BY <1>1, <1>3, <2>1, <3>3
        <5> QED BY <1>5, <5>3, <5>4
      <4>3. b * SparseCap <= a * DenseCap
        BY <1>8, <3>3
      <4>4. b - a + g + 1 <= SparseCap
        <5>1. /\ SparseCap \in Nat \ {0} /\ DenseCap \in Nat \ {0} /\ a \in Nat \ {0}
          BY <1>1, <1>5
        <5> HIDE DEF g
        <5> QED BY <1>1, <4>1, <4>2, <4>3, <5>1, FarSide
      <4>5. n = b + Cardinality(far) /\ Cardinality(far) \in Nat
        <5> HIDE DEF t
        <5>1. n = Cardinality(Low(ks, t)) + Cardinality(High(ks, t)) /\ Cardinality(High(ks, t)) \in Nat
          BY <1>1, <4>1, PartsAre DEF n
        <5> QED BY <5>1 DEF t
      <4>6. Cardinality(far) <= g + 1
        <5> DEFINE rest == far \ {x}
        <5>1. IsFiniteSet(far)
          <6>1. far \in SUBSET ks
            BY DEF High
          <6> QED BY <1>1, <6>1, FS_Subset
        <5>2. IsFiniteSet(rest) /\ Cardinality(rest) >= Cardinality(far) - 1 /\ Cardinality(rest) \in Nat
          <6> HIDE DEF far
          <6>1. IsFiniteSet(rest) /\ Cardinality(rest) = IF x \in far THEN Cardinality(far) - 1
                ELSE Cardinality(far)
            BY <5>1, FS_RemoveElement
          <6>2. Cardinality(rest) \in Nat
            BY <6>1, FS_CardinalityType
          <6> QED BY <4>5, <6>1, <6>2
        <5>3. KeysWithin(rest, t, t + g)
          <6>1. ASSUME NEW k \in rest PROVE k \in Int /\ t <= k /\ k < t + g
            <7>1. k \in ks /\ k # x /\ k >= t /\ k \in Int
              BY <1>1 DEF High
            <7>2. k < e
              BY <2>2, <7>1
            <7> QED BY <1>1, <2>1, <4>1, <7>1, <7>2
          <6> HIDE DEF rest
          <6> QED BY <5>2, <6>1 DEF KeysWithin
        <5>4. t + g \in Int /\ t <= t + g /\ (t + g) - t = g
          BY <4>1
        <5>5. Cardinality(rest) <= g
          <6> HIDE DEF rest, t, g
          <6> QED BY <4>1, <5>3, <5>4, WithinIs
        <5> HIDE DEF rest, far, g
        <5> QED BY <4>1, <4>5, <5>2, <5>5
      <4>7. Cardinality(high) <= SparseCap
        <5> HIDE DEF g, far, high, low
        <5> QED BY <1>1, <1>4, <1>5, <4>1, <4>4, <4>5, <4>6
      <4> QED BY <4>7
    <3> QED BY <3>2, <3>3
  <2> QED BY <2>1, <2>5, <2>6
<1>9. low # {}
  BY <1>4, <1>5
<1>10. SplitSound(leaf, ks, s, dense)
  BY <1>3, <1>6, <1>7, <1>8, <1>9, SplitIsSound
<1> QED BY <1>10 DEF s

(* TSplitter, at a distance from the upper bound. *)
LEMMA UpperSplit ==
  ASSUME SparseCap <= DenseCap, DenseCap < 2 * SparseCap,
         NEW leaf, NEW ks, NEW dense, Overfull(leaf, ks, dense), NEW c \in {SparseCap, DenseCap},
         ~dense => c = SparseCap, NEW a \in Nat, a = Cardinality(High(ks, leaf.upper - c)), c <= 2 * a,
         NEW b \in Nat, b = Cardinality(High(ks, leaf.upper - DenseCap)),
         leaf.type = "dense" /\ c = SparseCap => b * SparseCap <= a * DenseCap
  PROVE  SplitSound(leaf, ks, leaf.upper - c, dense)
<1> DEFINE s == leaf.upper - c
           low == Low(ks, s)
           high == High(ks, s)
           n == Cardinality(ks)
<1>1. /\ leaf.lower \in Int /\ leaf.upper \in Int /\ KeysWithin(ks, leaf.lower, leaf.upper)
      /\ IsFiniteSet(ks) /\ \A k \in ks : k \in Int /\ leaf.lower <= k /\ k < leaf.upper
      /\ leaf.type \in {"sparse", "dense"} /\ dense \in BOOLEAN
      /\ SparseCap \in Nat /\ DenseCap \in Nat /\ SparseCap > 0 /\ DenseCap > 1
      /\ SparseCap <= DenseCap /\ DenseCap < 2 * SparseCap
      /\ c \in Nat /\ c > 0 /\ c <= DenseCap
  BY CapacitiesAre DEF Overfull, KeysWithin
<1>2. /\ n \in Nat /\ n > SparseCap /\ (leaf.type = "dense" => n <= DenseCap + 1)
      /\ dense => ~Fits("dense", ks)
  BY OverfullIs
<1>3. s \in Int /\ s = leaf.upper - c
  BY <1>1
<1> HIDE DEF s
<1>4. /\ KeysWithin(low, leaf.lower, s) /\ KeysWithin(high, s, leaf.upper)
      /\ Cardinality(low) \in Nat /\ Cardinality(high) \in Nat
      /\ n = Cardinality(low) + Cardinality(high)
      /\ low # {} <=> Cardinality(low) > 0
      /\ high # {} <=> Cardinality(high) > 0
  BY <1>1, <1>3, PartsAre
<1>5. a = Cardinality(high) /\ a > 0
  BY <1>1 DEF s
<1> HIDE DEF n
<1>6. low # {}
  <2> SUFFICES ASSUME low = {} PROVE FALSE
    OBVIOUS
  <2>1. \A k \in ks : s <= k
    BY <1>1, <1>3 DEF Low
  <2>2. KeysWithin(ks, s, leaf.upper)
    BY <1>1, <2>1 DEF KeysWithin
  <2>3. s <= leaf.upper /\ leaf.upper - s = c
    BY <1>1, <1>3
  <2>4. Cardinality(ks) <= c /\ Fits("dense", ks)
    BY <1>1, <1>3, <2>2, <2>3, WithinIs
  <2> QED BY <1>1, <1>2, <2>4 DEF n
<1>7. Fits("dense", high)
  <2>1. leaf.upper - s <= DenseCap
    BY <1>1, <1>3
  <2> HIDE DEF high
  <2> QED BY <1>1, <1>3, <1>4, <2>1, WithinIs
<1>8. ASSUME leaf.type = "dense" PROVE Fits("dense", low) \/ Cardinality(low) <= SparseCap
  <2>1. PICK x \in ks, h \in Int, e \in Int :
           /\ h \in ks /\ e - 1 \in ks /\ e - h <= DenseCap /\ h < e
           /\ KeysWithin(ks \ {x}, h, e) /\ Fits("dense", ks \ {x}) /\ x \in Int
           /\ leaf.lower <= h /\ e <= leaf.upper /\ leaf.lower <= x /\ x < leaf.upper
           /\ x >= h + DenseCap \/ x < e - DenseCap
    BY <1>8, FarKey
  <2>2. \A k \in ks : k = x \/ (k \in Int /\ h <= k /\ k < e)
    BY <2>1 DEF KeysWithin
  <2>3. PICK y \in high : TRUE
    BY <1>4, <1>5
  <2>4. y \in ks /\ y \in Int /\ s <= y
    BY <1>1, <1>3 DEF High
  <2>5. CASE x >= h + DenseCap
    <3>1. x \notin low
      <4>1. y <= x
        BY <1>1, <2>1, <2>2, <2>4, <2>5
      <4>2. ~(x < s)
        BY <1>3, <2>1, <2>4, <4>1
      <4> QED BY <4>2 DEF Low
    <3>2. low \in SUBSET (ks \ {x})
      BY <3>1 DEF Low
    <3>3. Ordered(ks \ {x}, h)
      BY <2>1 DEF Ordered, KeysWithin
    <3> QED BY <2>1, <3>2, <3>3, FitsFewer
  <2>6. CASE x < e - DenseCap
    <3>1. s < e
      BY <1>1, <1>3, <2>1, <2>2, <2>4, <2>6
    <3>2. CASE c = DenseCap
      BY <1>1, <1>2, <1>4, <1>5, <1>8, <3>2
    <3>3. CASE c = SparseCap
      <4> DEFINE g == leaf.upper - e
                 t == leaf.upper - DenseCap
                 far == Low(ks, t)
      <4>1. g \in Nat /\ g < SparseCap /\ t \in Int
        BY <1>1, <1>3, <2>1, <3>1, <3>3
      <4>2. a <= SparseCap - g
        <5>1. KeysWithin(high, s, e)
          <6>1. \A k \in high : k \in Int /\ s <= k /\ k < e
            BY <1>1, <1>3, <2>1, <2>2, <2>6 DEF High
          <6> QED BY <1>4, <6>1 DEF KeysWithin
        <5>2. s <= e
          BY <1>3, <2>1, <3>1
        <5>3. Cardinality(high) <= e - s
          <6> HIDE DEF high
          <6> QED BY <1>3, <5>1, <5>2, WithinIs
        <5>4. e - s = SparseCap - g
          BY <1>1, <1>3, <2>1, <3>3
        <5> QED BY <1>5, <5>3, <5>4
      <4>3. b * SparseCap <= a * DenseCap
        BY <1>8, <3>3
      <4>4. b - a + g + 1 <= SparseCap
        <5>1. /\ SparseCap \in Nat \ {0} /\ DenseCap \in Nat \ {0} /\ a \in Nat \ {0}
          BY <1>1, <1>5
        <5> HIDE DEF g
        <5> QED BY <1>1, <4>1, <4>2, <4>3, <5>1, FarSide
      <4>5. n = b + Cardinality(far) /\ Cardinality(far) \in Nat
        <5> HIDE DEF t
        <5>1. n = Cardinality(Low(ks, t)) + Cardinality(High(ks, t)) /\ Cardinality(Low(ks, t)) \in Nat
                /\ Cardinality(High(ks, t)) \in Nat
          BY <1>1, <4>1, PartsAre DEF n
        <5> QED BY <5>1 DEF t
      <4>6. Cardinality(far) <= g + 1
        <5> DEFINE rest == far \ {x}
        <5>1. IsFiniteSet(far)
          <6>1. far \in SUBSET ks
            BY DEF Low
          <6> QED BY <1>1, <6>1, FS_Subset
        <5>2. IsFiniteSet(rest) /\ Cardinality(rest) >= Cardinality(far) - 1 /\ Cardinality(rest) \in Nat
          <6> HIDE DEF far
          <6>1. IsFiniteSet(rest) /\ Cardinality(rest) = IF x \in far THEN Cardinality(far) - 1
                ELSE Cardinality(far)
            BY <5>1, FS_RemoveElement
          <6>2. Cardinality(rest) \in Nat
            BY <6>1, FS_CardinalityType
          <6> QED BY <4>5, <6>1, <6>2
        <5>3. KeysWithin(rest, t - g, t)
          <6>1. ASSUME NEW k \in rest PROVE k \in Int /\ t - g <= k /\ k < t
            <7>1. k \in ks /\ k # x /\ k < t /\ k \in Int
              BY <1>1 DEF Low
            <7>2. h <= k
              BY <2>2, <7>1
            <7> QED BY <1>1, <2>1, <4>1, <7>1, <7>2
          <6> HIDE DEF rest
          <6> QED BY <5>2, <6>1 DEF KeysWithin
        <5>4. t - g \in Int /\ t - g <= t /\ t - (t - g) = g
          BY <4>1
        <5>5. Cardinality(rest) <= g
          <6> HIDE DEF rest, t, g
          <6> QED BY <4>1, <5>3, <5>4, WithinIs
        <5> HIDE DEF rest, far, g
        <5> QED BY <4>1, <4>5, <5>2, <5>5
      <4>7. Cardinality(low) <= SparseCap
        <5> HIDE DEF g, far, high, low
        <5> QED BY <1>1, <1>4, <1>5, <4>1, <4>4, <4>5, <4>6
      <4> QED BY <4>7
    <3> QED BY <3>2, <3>3
  <2> QED BY <2>1, <2>5, <2>6
<1>9. high # {}
  BY <1>4, <1>5
<1>10. SplitSound(leaf, ks, s, dense)
  BY <1>3, <1>6, <1>7, <1>8, <1>9, SplitIsSound
<1> QED BY <1>10 DEF s

(* TSplitter. *)
ThresholdChoice(leaf, c1, c2, n1, n2, mid) ==
  CASE n1 * Threshold[2] < Threshold[1] * c1 /\ n2 * Threshold[2] < Threshold[1] * c2 -> mid
    [] ~(n1 * Threshold[2] < Threshold[1] * c1 /\ n2 * Threshold[2] < Threshold[1] * c2)
         /\ n1 * c2 > n2 * c1 -> leaf.lower + c1
    [] OTHER -> leaf.upper - c2

(* TSplitter. *)
LEMMA ThresholdSound ==
  ASSUME SparseCap <= DenseCap, DenseCap < 2 * SparseCap, 2 * Threshold[1] >= Threshold[2],
         NEW leaf, NEW ks, NEW dense, Overfull(leaf, ks, dense)
  PROVE  SplitSound(leaf, ks, ThresholdKey(leaf, ks, dense), dense)
<1> DEFINE c1 == NearCap(leaf, ks, dense, 1)
           c2 == NearCap(leaf, ks, dense, 2)
           n1 == Near(leaf, ks, c1, 1)
           n2 == Near(leaf, ks, c2, 2)
           Thin(n, c) == n * Threshold[2] < Threshold[1] * c
           s == ThresholdKey(leaf, ks, dense)
<1>1. s = ThresholdChoice(leaf, c1, c2, n1, n2, MiddleKey(ks))
  BY DEF ThresholdKey, ThresholdChoice, Near, NearCap, Low, High
<1>2. /\ leaf.lower \in Int /\ 0 <= leaf.lower /\ leaf.upper \in Int
      /\ KeysWithin(ks, leaf.lower, leaf.upper)
      /\ leaf.type \in {"sparse", "dense"} /\ dense \in BOOLEAN /\ (~dense => leaf.type = "sparse")
      /\ SparseCap \in Nat \ {0} /\ DenseCap \in Nat \ {0} /\ SparseCap <= DenseCap
      /\ \A k \in ks : k \in Int /\ leaf.lower <= k /\ k < leaf.upper
  BY CapacitiesAre DEF Overfull, KeysWithin
<1>3. ASSUME NEW c \in {SparseCap, DenseCap}
      PROVE  /\ Near(leaf, ks, c, 1) \in Nat
             /\ Near(leaf, ks, c, 1) = Cardinality(Low(ks, leaf.lower + c))
             /\ Near(leaf, ks, c, 2) \in Nat
             /\ Near(leaf, ks, c, 2) > 0 \/ c <= leaf.upper =>
                  Near(leaf, ks, c, 2) = Cardinality(High(ks, leaf.upper - c))
  <2>1. c \in Nat /\ leaf.lower + c \in Int /\ leaf.upper - c \in Int
    BY <1>2
  <2>2. Cardinality(Low(ks, leaf.lower + c)) \in Nat /\ Cardinality(High(ks, leaf.upper - c)) \in Nat
    BY <1>2, <2>1, PartsAre
  <2> QED BY <1>2, <2>1, <2>2 DEF Near
<1>4. /\ c1 \in {SparseCap, DenseCap} /\ (~dense => c1 = SparseCap)
      /\ c2 \in {SparseCap, DenseCap} /\ (~dense => c2 = SparseCap)
  BY DEF NearCap
<1>5. /\ dense /\ c1 = SparseCap =>
            Near(leaf, ks, DenseCap, 1) * SparseCap <= Near(leaf, ks, SparseCap, 1) * DenseCap
      /\ dense /\ c2 = SparseCap =>
            Near(leaf, ks, DenseCap, 2) * SparseCap <= Near(leaf, ks, SparseCap, 2) * DenseCap
  <2>1. ASSUME NEW i \in {1, 2}, dense, NearCap(leaf, ks, dense, i) = SparseCap
        PROVE  Near(leaf, ks, DenseCap, i) * SparseCap <= Near(leaf, ks, SparseCap, i) * DenseCap
    <3> DEFINE p == Near(leaf, ks, SparseCap, i)
               q == Near(leaf, ks, DenseCap, i)
    <3>1. p \in Nat /\ q \in Nat
      BY <1>3
    <3>2. CASE SparseCap = DenseCap
      <4>1. q = p
        BY <3>2
      <4> HIDE DEF p, q
      <4>2. q * SparseCap <= p * DenseCap
        BY <1>2, <3>1, <3>2, <4>1
      <4> QED BY <4>2 DEF p, q
    <3>3. CASE SparseCap # DenseCap
      <4>1. ~(p * DenseCap < q * SparseCap)
        BY <2>1, <3>3 DEF NearCap
      <4> HIDE DEF p, q
      <4>2. p * DenseCap \in Nat /\ q * SparseCap \in Nat
        BY <1>2, <3>1
      <4>3. q * SparseCap <= p * DenseCap
        BY <4>1, <4>2
      <4> QED BY <4>3 DEF p, q
    <3> QED BY <3>2, <3>3
  <2> QED BY <2>1
<1>6. leaf.type = "dense" => DenseCap <= leaf.upper
  <2> SUFFICES ASSUME leaf.type = "dense", leaf.upper < DenseCap PROVE FALSE
    BY <1>2
  <2>1. leaf.upper - leaf.lower <= DenseCap
    BY <1>2
  <2>2. Fits("dense", ks)
    BY <1>2, <2>1, WithinIs
  <2> QED BY <2>2 DEF Overfull
<1>7. /\ c1 \in Nat \ {0} /\ c2 \in Nat \ {0} /\ n1 \in Nat /\ n2 \in Nat
  BY <1>2, <1>3, <1>4
<1>8. n1 * Threshold[2] \in Nat /\ Threshold[1] * c1 \in Nat /\ n2 * Threshold[2] \in Nat
        /\ Threshold[1] * c2 \in Nat /\ n1 * c2 \in Nat /\ n2 * c1 \in Nat
  <2> HIDE DEF c1, c2, n1, n2
  <2> QED BY <1>7, ThresholdAssumption
<1>9. n1 = Near(leaf, ks, c1, 1) /\ n2 = Near(leaf, ks, c2, 2)
  OBVIOUS
<1> HIDE DEF c1, c2, n1, n2, s
<1>10. CASE Thin(n1, c1) /\ Thin(n2, c2)
  <2>1. s = MiddleKey(ks)
    BY <1>1, <1>10 DEF ThresholdChoice
  <2> QED BY <2>1, MiddleSound DEF s
<1>11. CASE ~(Thin(n1, c1) /\ Thin(n2, c2)) /\ n1 * c2 > n2 * c1
  <2>1. s = leaf.lower + c1
    BY <1>1, <1>11 DEF ThresholdChoice
  <2>2. c1 <= 2 * n1
    <3>1. /\ Threshold[1] \in Nat \ {0} /\ Threshold[2] \in Nat \ {0} /\ 2 * Threshold[1] >= Threshold[2]
      BY ThresholdAssumption
    <3>2. n2 * c1 <= n1 * c2 /\ (n1 * Threshold[2] >= Threshold[1] * c1 \/ n2 * Threshold[2] >= Threshold[1] * c2)
      BY <1>8, <1>11
    <3> QED BY <1>7, <3>1, <3>2, FullEnough
  <2> DEFINE b == Near(leaf, ks, DenseCap, 1)
  <2>3. b \in Nat /\ b = Cardinality(Low(ks, leaf.lower + DenseCap))
        /\ n1 = Cardinality(Low(ks, leaf.lower + c1))
    BY <1>3, <1>4, <1>9
  <2>4. leaf.type = "dense" /\ c1 = SparseCap => b * SparseCap <= n1 * DenseCap
    BY <1>2, <1>5, <1>9
  <2> HIDE DEF b
  <2>5. SplitSound(leaf, ks, leaf.lower + c1, dense)
    BY <1>4, <1>7, <2>2, <2>3, <2>4, LowerSplit
  <2> QED BY <2>1, <2>5 DEF s
<1>12. CASE ~(Thin(n1, c1) /\ Thin(n2, c2)) /\ ~(n1 * c2 > n2 * c1)
  <2>1. s = leaf.upper - c2
    BY <1>1, <1>12 DEF ThresholdChoice
  <2>2. c2 <= 2 * n2 /\ n2 > 0
    <3>1. /\ Threshold[1] \in Nat \ {0} /\ Threshold[2] \in Nat \ {0} /\ 2 * Threshold[1] >= Threshold[2]
      BY ThresholdAssumption
    <3>2. n1 * c2 <= n2 * c1 /\ (n2 * Threshold[2] >= Threshold[1] * c2 \/ n1 * Threshold[2] >= Threshold[1] * c1)
      BY <1>8, <1>12
    <3> QED BY <1>7, <3>1, <3>2, FullEnough
  <2> DEFINE b == Cardinality(High(ks, leaf.upper - DenseCap))
  <2>3. b \in Nat /\ n2 = Cardinality(High(ks, leaf.upper - c2))
    <3>1. leaf.upper - DenseCap \in Int
      BY <1>2
    <3> QED BY <1>2, <1>3, <1>4, <1>9, <2>2, <3>1, PartsAre
  <2>4. leaf.type = "dense" /\ c2 = SparseCap => b * SparseCap <= n2 * DenseCap
    <3>1. leaf.type = "dense" => b = Near(leaf, ks, DenseCap, 2)
      BY <1>3, <1>6
    <3> QED BY <1>2, <1>5, <1>9, <3>1
  <2> HIDE DEF b
  <2>5. b = Cardinality(High(ks, leaf.upper - DenseCap))
    BY DEF b
  <2>6. SplitSound(leaf, ks, leaf.upper - c2, dense)
    BY <1>4, <1>7, <2>2, <2>3, <2>4, <2>5, UpperSplit
  <2> QED BY <2>1, <2>6 DEF s
<1> QED BY <1>10, <1>11, <1>12
-----------------------------------------------------------------------------
(* BSplitter.  A boundary between two records divides the keys as they do. *)
LEMMA RankIs ==
  ASSUME NEW ks, NEW lo \in Int, Ordered(ks, lo), NEW s \in Int,
         NEW sp \in Int, 1 <= sp, sp < Cardinality(ks)
  PROVE  /\ KeyAt(ks, sp-1) \in ks /\ KeyAt(ks, sp) \in ks
         /\ KeyAt(ks, sp-1) \in Int /\ KeyAt(ks, sp) \in Int
         /\ KeyAt(ks, sp-1) < s /\ s <= KeyAt(ks, sp) =>
              /\ Low(ks, s) = FirstKeys(ks, sp) /\ High(ks, s) = ks \ FirstKeys(ks, sp)
              /\ Low(ks, s) # {} /\ High(ks, s) # {}
         /\ sp = Cardinality(Low(ks, s)) => KeyAt(ks, sp-1) < s /\ s <= KeyAt(ks, sp)
<1> DEFINE a == KeyAt(ks, sp-1)
           b == KeyAt(ks, sp)
<1>1. IsFiniteSet(ks) /\ \A k \in ks : k \in Int
  BY DEF Ordered
<1>2. /\ b \in ks /\ b \in Int /\ IsFiniteSet(Before(ks, b)) /\ Cardinality(Before(ks, b)) = sp
      /\ FirstKeys(ks, sp) = Before(ks, b)
  <2>1. 0 <= sp /\ sp # Cardinality(ks)
    OBVIOUS
  <2> QED BY <2>1, KeyAtIs DEF FirstKeys
<1>3. /\ a \in ks /\ a \in Int /\ Cardinality(Before(ks, a)) = sp - 1
      /\ FirstKeys(ks, sp) = FirstKeys(ks, sp-1) \cup {a}
      /\ \A k \in FirstKeys(ks, sp-1) : k \in ks /\ k < a
  <2>1. sp - 1 \in Int /\ 0 <= sp - 1 /\ sp - 1 < Cardinality(ks) /\ (sp - 1) + 1 = sp
    BY <1>1, FS_CardinalityType
  <2> QED BY <2>1, KeyAtIs, FirstKeysAre
<1> HIDE DEF a, b
<1>4. ASSUME a < s, s <= b
      PROVE  /\ Low(ks, s) = FirstKeys(ks, sp) /\ High(ks, s) = ks \ FirstKeys(ks, sp)
             /\ Low(ks, s) # {} /\ High(ks, s) # {}
  <2>1. ASSUME NEW k \in Low(ks, s) PROVE k \in FirstKeys(ks, sp)
    BY <1>1, <1>2, <1>4 DEF Low, Before
  <2>2. ASSUME NEW k \in FirstKeys(ks, sp) PROVE k \in Low(ks, s)
    <3>1. k \in ks /\ (k = a \/ k < a)
      BY <1>3
    <3> QED BY <1>1, <1>3, <1>4, <3>1 DEF Low
  <2>3. Low(ks, s) = FirstKeys(ks, sp)
    BY <2>1, <2>2
  <2>4. High(ks, s) = ks \ Low(ks, s)
    BY <1>1 DEF Low, High
  <2>5. a \in Low(ks, s) /\ b \in High(ks, s)
    BY <1>2, <1>3, <1>4 DEF Low, High
  <2> QED BY <2>3, <2>4, <2>5
<1>5. ASSUME sp = Cardinality(Low(ks, s)) PROVE a < s /\ s <= b
  <2>1. Low(ks, s) = Before(ks, s)
    BY DEF Low, Before
  <2>2. Before(ks, s) = Before(ks, b)
    BY <1>2, <1>5, <2>1, BelowTells
  <2>3. s <= b
    BY <1>2, <2>2 DEF Before
  <2>4. a < s
    <3>1. a \in Before(ks, b)
      BY <1>2, <1>3
    <3> QED BY <2>2, <3>1 DEF Before
  <2> QED BY <2>3, <2>4
<1> QED BY <1>2, <1>3, <1>4, <1>5 DEF a, b

LEMMA Quotient ==
  ASSUME NEW k \in Int, NEW n \in Nat \ {0}
  PROVE  /\ k \div n \in Int /\ (k \div n) * n \in Int /\ (k \div n + 1) * n \in Int
         /\ (k \div n) * n <= k /\ k < (k \div n + 1) * n
         /\ (k \div n + 1) * n = (k \div n) * n + n
OBVIOUS

LEMMA Products ==
  ASSUME NEW p \in Int, NEW q \in Int, NEW n \in Nat \ {0}
  PROVE  p * n < q * n <=> p < q
<1>1. p < q => p * n < q * n
  <2> SUFFICES ASSUME p < q PROVE p * n < q * n
    OBVIOUS
  <2>1. q - p - 1 \in Nat /\ q = p + 1 + (q - p - 1)
    OBVIOUS
  <2>2. (q - p - 1) * n \in Nat
    BY <2>1
  <2>3. q * n = p * n + n + (q - p - 1) * n /\ p * n \in Int
    BY <2>1
  <2> QED BY <2>2, <2>3
<1>2. q <= p => q * n <= p * n
  <2> SUFFICES ASSUME q <= p PROVE q * n <= p * n
    OBVIOUS
  <2>1. p - q \in Nat /\ p = q + (p - q)
    OBVIOUS
  <2>2. (p - q) * n \in Nat
    BY <2>1
  <2>3. p * n = q * n + (p - q) * n /\ q * n \in Int
    BY <2>1
  <2> QED BY <2>2, <2>3
<1>3. p * n \in Int /\ q * n \in Int
  OBVIOUS
<1> QED BY <1>1, <1>2, <1>3

(* Two numbers have different quotients exactly when a multiple lies       *)
(* between them.                                                           *)
LEMMA Crossed ==
  ASSUME NEW a \in Int, NEW b \in Int, NEW n \in Nat \ {0}
  PROVE  /\ \A q \in Int : a < q * n /\ q * n <= b => a \div n < b \div n
         /\ a \div n < b \div n =>
              /\ a < (b \div n) * n /\ (b \div n) * n <= b
              /\ a < (a \div n + 1) * n /\ (a \div n + 1) * n <= b
<1> DEFINE p == a \div n
           r == b \div n
<1>1. /\ p \in Int /\ r \in Int /\ p + 1 \in Int /\ r + 1 \in Int
      /\ p * n \in Int /\ r * n \in Int /\ (p + 1) * n \in Int /\ (r + 1) * n \in Int
      /\ p * n <= a /\ a < (p + 1) * n /\ r * n <= b /\ b < (r + 1) * n
  BY Quotient
<1> HIDE DEF p, r
<1>2. ASSUME NEW q \in Int, a < q * n, q * n <= b PROVE p < r
  <2>0. q * n \in Int
    OBVIOUS
  <2>1. p * n < q * n /\ q * n < (r + 1) * n
    BY <1>1, <1>2, <2>0
  <2>2. p < q /\ q < r + 1
    BY <1>1, <2>1, Products
  <2> QED BY <1>1, <2>2
<1>3. ASSUME p < r PROVE a < r * n /\ (p + 1) * n <= b
  <2>1. ~(r < p + 1)
    BY <1>1, <1>3
  <2>2. ~(r * n < (p + 1) * n)
    BY <1>1, <2>1, Products
  <2> QED BY <1>1, <2>2
<1> QED BY <1>1, <1>2, <1>3 DEF p, r

(* An overfull leaf has a boundary that divides it well: the last one      *)
(* before the key that is too far above the others, or the first one after *)
(* the key that is too far below them.                                     *)
LEMMA BoundaryExists ==
  ASSUME NEW leaf, NEW ks, NEW dense, Overfull(leaf, ks, dense), NEW n,
         n = IF dense THEN DenseCap ELSE SparseCap
  PROVE  \E q \in Int :
           /\ Low(ks, q * n) # {} /\ High(ks, q * n) # {}
           /\ leaf.type = "dense" =>
                Fits("dense", Low(ks, q * n)) /\ Fits("dense", High(ks, q * n))
<1>1. /\ leaf.lower \in Int /\ leaf.upper \in Int /\ KeysWithin(ks, leaf.lower, leaf.upper)
      /\ IsFiniteSet(ks) /\ \A k \in ks : k \in Int /\ leaf.lower <= k /\ k < leaf.upper
      /\ leaf.type \in {"sparse", "dense"} /\ dense \in BOOLEAN
      /\ SparseCap \in Nat \ {0} /\ DenseCap \in Nat \ {0} /\ n \in Nat \ {0}
  BY CapacitiesAre DEF Overfull, KeysWithin
<1>2. CASE leaf.type = "sparse"
  <2> DEFINE h == Min(ks)
             z == Max(ks)
  <2>1. Cardinality(ks) \in Nat /\ Cardinality(ks) > SparseCap /\ (dense => ~Fits("dense", ks))
    BY OverfullIs
  <2>2. ks # {} /\ Span(ks) \in Nat
          /\ Min(ks) \in ks /\ Max(ks) \in ks /\ \A k \in ks : Min(ks) <= k /\ k <= Max(ks)
    <3>1. ks # {} /\ 0 \in Nat
      BY <1>1, <2>1, FS_EmptySet
    <3> QED BY <1>1, <3>1, SpanIs
  <2>3. Span(ks) = z + 1 - h /\ Cardinality(ks) <= Span(ks)
    BY <1>1, <2>2, WithinIs DEF Span
  <2>4. h \in Int /\ z \in Int /\ h \in ks /\ z \in ks
    BY <1>1, <2>2
  <2>5. z - h >= n
    <3>1. CASE dense
      <4>1. ~(Span(ks) <= DenseCap)
        BY <2>1, <3>1 DEF Fits
      <4> HIDE DEF z, h
      <4> QED BY <1>1, <2>2, <2>3, <2>4, <3>1, <4>1
    <3>2. CASE ~dense
      <4> HIDE DEF z, h
      <4> QED BY <1>1, <2>1, <2>2, <2>3, <2>4, <3>2
    <3> QED BY <3>1, <3>2
  <2> HIDE DEF z, h
  <2> DEFINE q == z \div n
  <2>6. q \in Int /\ q * n \in Int /\ q * n <= z /\ z < q * n + n
    BY <1>1, <2>4, Quotient
  <2> HIDE DEF q
  <2>7. h < q * n
    BY <1>1, <2>4, <2>5, <2>6
  <2>8. h \in Low(ks, q * n) /\ z \in High(ks, q * n)
    BY <2>4, <2>6, <2>7 DEF Low, High
  <2> QED BY <1>2, <2>6, <2>8
<1>3. CASE leaf.type = "dense"
  <2>1. PICK x \in ks, h \in Int, e \in Int :
           /\ h \in ks /\ e - 1 \in ks /\ e - h <= DenseCap /\ h < e
           /\ KeysWithin(ks \ {x}, h, e) /\ Fits("dense", ks \ {x}) /\ x \in Int
           /\ leaf.lower <= h /\ e <= leaf.upper /\ leaf.lower <= x /\ x < leaf.upper
           /\ x >= h + DenseCap \/ x < e - DenseCap
    BY <1>3, FarKey
  <2>2. \A k \in ks : k = x \/ (k \in Int /\ h <= k /\ k < e)
    BY <2>1 DEF KeysWithin
  <2>3. n = DenseCap
    <3>1. ~dense => leaf.type = "sparse"
      BY DEF Overfull
    <3>2. dense
      BY <1>1, <1>3, <3>1
    <3> QED BY <3>2
  <2>4. Ordered(ks \ {x}, h)
    BY <2>1 DEF Ordered, KeysWithin
  <2>5. CASE x >= h + DenseCap
    <3> DEFINE q == x \div n
               s == q * n
    <3>1. q \in Int /\ s \in Int /\ s <= x /\ x < s + n
      BY <1>1, <2>1, Quotient
    <3> HIDE DEF q, s
    <3>2. h < s
      BY <1>1, <2>1, <2>3, <2>5, <3>1
    <3>3. h \in Low(ks, s) /\ x \in High(ks, s)
      BY <2>1, <3>1, <3>2 DEF Low, High
    <3>4. Fits("dense", Low(ks, s))
      <4>1. Low(ks, s) \in SUBSET (ks \ {x})
        BY <2>1, <3>1 DEF Low
      <4> QED BY <2>1, <2>4, <4>1, FitsFewer
    <3>5. Fits("dense", High(ks, s))
      <4>1. IsFiniteSet(High(ks, s))
        <5>1. High(ks, s) \in SUBSET ks
          BY DEF High
        <5> QED BY <1>1, <5>1, FS_Subset
      <4>2. \A k \in High(ks, s) : k \in Int /\ s <= k /\ k < s + n
        BY <1>1, <2>1, <2>2, <2>3, <2>5, <3>1 DEF High
      <4>3. KeysWithin(High(ks, s), s, s + n) /\ s + n \in Int /\ (s + n) - s <= DenseCap
        BY <1>1, <2>3, <3>1, <4>1, <4>2 DEF KeysWithin
      <4> QED BY <3>1, <4>3, WithinIs
    <3>6. \E j \in Int : /\ Low(ks, j * n) # {} /\ High(ks, j * n) # {}
                         /\ Fits("dense", Low(ks, j * n)) /\ Fits("dense", High(ks, j * n))
      BY <3>1, <3>3, <3>4, <3>5 DEF s
    <3> QED BY <3>6
  <2>6. CASE x < e - DenseCap
    <3> DEFINE q == x \div n + 1
               s == q * n
    <3>1. q \in Int /\ s \in Int /\ s - n <= x /\ x < s
      <4>1. /\ x \div n \in Int /\ (x \div n) * n \in Int /\ (x \div n + 1) * n \in Int
            /\ (x \div n) * n <= x /\ x < (x \div n + 1) * n
            /\ (x \div n + 1) * n = (x \div n) * n + n
        BY <1>1, <2>1, Quotient
      <4> HIDE DEF q
      <4>2. q \in Int /\ s = (x \div n) * n + n
        BY <4>1 DEF q
      <4> HIDE DEF s
      <4> QED BY <1>1, <4>1, <4>2 DEF q
    <3> HIDE DEF q, s
    <3>2. s <= e - 1
      BY <1>1, <2>1, <2>3, <2>6, <3>1
    <3>3. x \in Low(ks, s) /\ e - 1 \in High(ks, s)
      BY <2>1, <3>1, <3>2 DEF Low, High
    <3>4. Fits("dense", High(ks, s))
      <4>1. High(ks, s) \in SUBSET (ks \ {x})
        BY <2>1, <3>1 DEF High
      <4> QED BY <2>1, <2>4, <4>1, FitsFewer
    <3>5. Fits("dense", Low(ks, s))
      <4>1. IsFiniteSet(Low(ks, s))
        <5>1. Low(ks, s) \in SUBSET ks
          BY DEF Low
        <5> QED BY <1>1, <5>1, FS_Subset
      <4>2. \A k \in Low(ks, s) : k \in Int /\ s - n <= k /\ k < s
        BY <1>1, <2>1, <2>2, <2>3, <2>6, <3>1 DEF Low
      <4>3. KeysWithin(Low(ks, s), s - n, s) /\ s - n \in Int /\ s - (s - n) <= DenseCap
        BY <1>1, <2>3, <3>1, <4>1, <4>2 DEF KeysWithin
      <4> QED BY <3>1, <4>3, WithinIs
    <3>6. \E j \in Int : /\ Low(ks, j * n) # {} /\ High(ks, j * n) # {}
                         /\ Fits("dense", Low(ks, j * n)) /\ Fits("dense", High(ks, j * n))
      BY <3>1, <3>3, <3>4, <3>5 DEF s
    <3> QED BY <3>6
  <2> QED BY <2>1, <2>5, <2>6
<1> QED BY <1>1, <1>2, <1>3

(* Some record of an overfull leaf can be split before: the first one      *)
(* after the boundary that divides the leaf well.                          *)
LEMMA RecordExists ==
  ASSUME SparseCap <= DenseCap, NEW leaf, NEW ks, NEW dense, Overfull(leaf, ks, dense)
  PROVE  \E k \in ks \ {Min(ks)} : \A i \in 1..2 : SplitTypes(leaf, ks, k, dense)[i] # "none"
<1> DEFINE n == IF dense THEN DenseCap ELSE SparseCap
<1>1. /\ leaf.lower \in Int /\ leaf.upper \in Int /\ KeysWithin(ks, leaf.lower, leaf.upper)
      /\ \A k \in ks : k \in Int /\ leaf.lower <= k
      /\ n \in Nat
  <2>1. leaf.lower \in Int /\ leaf.upper \in Int /\ KeysWithin(ks, leaf.lower, leaf.upper)
    BY DEF Overfull
  <2> QED BY <2>1, CapacitiesAre DEF KeysWithin
<1>2. PICK q \in Int : /\ Low(ks, q * n) # {} /\ High(ks, q * n) # {}
                       /\ leaf.type = "dense" =>
                            Fits("dense", Low(ks, q * n)) /\ Fits("dense", High(ks, q * n))
  BY BoundaryExists
<1> DEFINE s == q * n
<1>3. s \in Int /\ Low(ks, s) # {} /\ High(ks, s) # {}
  BY <1>1, <1>2
<1> HIDE DEF n, s
<1>4. PICK k \in High(ks, s) : \A j \in High(ks, s) : k <= j
  <2>1. High(ks, s) \in SUBSET Int /\ \A j \in High(ks, s) : j >= leaf.lower
    BY <1>1 DEF High
  <2> QED BY <1>1, <1>3, <2>1, LeastOf
<1>5. k \in ks /\ k \in Int /\ s <= k
  BY <1>1, <1>4 DEF High
<1>6. Low(ks, k) = Low(ks, s) /\ High(ks, k) = High(ks, s)
  <2>1. ASSUME NEW j \in ks PROVE j < k <=> j < s
    <3>1. j \in Int
      BY <1>1
    <3>2. j >= s => k <= j
      BY <1>4 DEF High
    <3> QED BY <1>3, <1>5, <3>1, <3>2
  <2>2. ASSUME NEW j \in ks PROVE j >= k <=> j >= s
    BY <1>1, <1>3, <1>5, <2>1
  <2> QED BY <2>1, <2>2 DEF Low, High
<1>7. k # Min(ks)
  <2>1. ks # {} /\ ks \in SUBSET Int /\ \A j \in ks : j >= leaf.lower
    BY <1>1, <1>5
  <2>2. \A j \in ks : Min(ks) <= j
    BY <1>1, <2>1, SmallestOf
  <2>3. PICK j \in ks : j < k
    BY <1>3, <1>6 DEF Low
  <2> QED BY <1>1, <1>5, <2>2, <2>3
<1>8. SplitSound(leaf, ks, k, dense)
  <2>1. leaf.type = "dense" => Fits("dense", Low(ks, k)) /\ Fits("dense", High(ks, k))
    BY <1>2, <1>6 DEF s
  <2> QED BY <1>3, <1>5, <1>6, <2>1, SplitIsSound
<1>9. \A i \in 1..2 : SplitTypes(leaf, ks, k, dense)[i] # "none"
  <2>1. \A i \in 1..2 : i = 1 \/ i = 2
    OBVIOUS
  <2> QED BY <1>8, <2>1 DEF SplitSound
<1> QED BY <1>5, <1>7, <1>9

(* RSplitter and SSplitter. *)
LEMMA AnyRecordSound ==
  ASSUME SparseCap <= DenseCap, NEW leaf, NEW ks, NEW dense, Overfull(leaf, ks, dense),
         NEW s \in SplitKeys("RS", leaf, ks, dense)
  PROVE  SplitSound(leaf, ks, s, dense)
<1>1. /\ leaf.type \in {"sparse", "dense"} /\ leaf.lower \in Int /\ leaf.upper \in Int
      /\ KeysWithin(ks, leaf.lower, leaf.upper) /\ IsFiniteSet(ks) /\ dense \in BOOLEAN
      /\ \A k \in ks : k \in Int /\ leaf.lower <= k /\ k < leaf.upper
      /\ leaf.type = "dense" => dense
  BY DEF Overfull, KeysWithin
<1>2. /\ s \in ks \ {Min(ks)}
      /\ SplitTypes(leaf, ks, s, dense)[1] # "none" /\ SplitTypes(leaf, ks, s, dense)[2] # "none"
  <2>1. \E k \in ks \ {Min(ks)} : \A i \in 1..2 : SplitTypes(leaf, ks, k, dense)[i] # "none"
    BY RecordExists
  <2> QED BY <2>1 DEF SplitKeys
<1>3. s \in Int /\ s \in High(ks, s) /\ s \in ks
  BY <1>1, <1>2 DEF High
<1>4. Low(ks, s) # {}
  <2>1. ks # {} /\ ks \in SUBSET Int /\ \A k \in ks : k >= leaf.lower
    BY <1>1, <1>2
  <2>2. Min(ks) \in ks /\ Min(ks) <= s /\ Min(ks) # s
    BY <1>1, <1>2, <2>1, SmallestOf
  <2> DEFINE a == Min(ks)
  <2> HIDE DEF a
  <2>3. a \in Low(ks, s)
    <3>1. a \in ks /\ a \in Int /\ a <= s /\ a # s
      BY <1>1, <2>2 DEF a
    <3>2. a < s
      BY <1>3, <3>1
    <3> QED BY <3>1, <3>2 DEF Low
  <2> QED BY <2>3
<1> DEFINE low == Low(ks, s)
           high == High(ks, s)
           t1 == HalfType(leaf.type, 1, low, s - leaf.lower, dense)
           t2 == HalfType(leaf.type, 2, high, leaf.upper - s, dense)
<1>5. t1 # "none" /\ t2 # "none"
  BY <1>2 DEF SplitTypes, Low, High
<1>6. /\ KeysWithin(low, leaf.lower, s) /\ KeysWithin(high, s, leaf.upper)
  BY <1>1, <1>3, PartsAre
<1> HIDE DEF low, high
<1>7. /\ dense => (t1 \in {"sparse", "dense"} /\ Fits(t1, low))
      /\ dense => (t2 \in {"sparse", "dense"} /\ Fits(t2, high))
  BY <1>1, <1>3, <1>5, <1>6, HalfTypeIs
<1>8. ASSUME dense PROVE SplitSound(leaf, ks, s, dense)
  <2>1. SplitTypes(leaf, ks, s, dense)[1] = t1 /\ SplitTypes(leaf, ks, s, dense)[2] = t2
    BY DEF SplitTypes, Low, High, low, high
  <2> HIDE DEF t1, t2
  <2> QED BY <1>3, <1>4, <1>7, <1>8, <2>1 DEF SplitSound, low, high
<1>9. ASSUME ~dense PROVE SplitSound(leaf, ks, s, dense)
  BY <1>1, <1>3, <1>4, <1>9, SplitIsSound
<1> QED BY <1>1, <1>8, <1>9

(* A boundary before a record lies between it and the record before. *)
LEMMA BoundaryBetween ==
  ASSUME NEW ks, NEW lo \in Int, Ordered(ks, lo), NEW n \in Nat \ {0},
         NEW sp \in Int, 1 <= sp, sp < Cardinality(ks), NEW right \in BOOLEAN,
         KeyAt(ks, sp-1) \div n < KeyAt(ks, sp) \div n
  PROVE  /\ KeyAt(ks, sp-1) \in ks /\ KeyAt(ks, sp) \in ks
         /\ KeyAt(ks, sp-1) \in Int /\ KeyAt(ks, sp) \in Int
         /\ BoundaryBefore(ks, sp, n, right) \in Int
         /\ KeyAt(ks, sp-1) < BoundaryBefore(ks, sp, n, right)
         /\ BoundaryBefore(ks, sp, n, right) <= KeyAt(ks, sp)
<1>1. 0 \in Int
  OBVIOUS
<1>2. /\ KeyAt(ks, sp-1) \in ks /\ KeyAt(ks, sp) \in ks
      /\ KeyAt(ks, sp-1) \in Int /\ KeyAt(ks, sp) \in Int
  BY <1>1, RankIs
<1> DEFINE a == KeyAt(ks, sp-1)
           b == KeyAt(ks, sp)
<1>3. /\ (a \div n + 1) * n \in Int /\ (b \div n) * n \in Int
      /\ a < (b \div n) * n /\ (b \div n) * n <= b
      /\ a < (a \div n + 1) * n /\ (a \div n + 1) * n <= b
  BY <1>2, Crossed, Quotient
<1>4. BoundaryBefore(ks, sp, n, right) = IF right THEN (a \div n + 1) * n ELSE (b \div n) * n
  BY DEF BoundaryBefore
<1> HIDE DEF a, b
<1>5. CASE right
  BY <1>2, <1>3, <1>4, <1>5 DEF a, b
<1>6. CASE ~right
  BY <1>2, <1>3, <1>4, <1>6 DEF a, b
<1> QED BY <1>5, <1>6

(* The records that the search from the median meets at a distance of d.   *)
Crossings(leaf, ks, boundary, dense, d) ==
  {t \in [sp : {Cardinality(ks) \div 2 - d}, right : {FALSE}]
         \cup [sp : {((Cardinality(ks) + 1) \div 2) + d}, right : {TRUE}] :
     /\ t.sp \in 1..Cardinality(ks)-1
     /\ KeyAt(ks, t.sp - 1) \div boundary < KeyAt(ks, t.sp) \div boundary
     /\ \A i \in 1..2 : SplitTypes(leaf, ks, BoundaryBefore(ks, t.sp, boundary, t.right),
                                   dense)[i] # "none"}

Met(leaf, ks, boundary, dense) ==
  {e \in 0..Cardinality(ks) : Crossings(leaf, ks, boundary, dense, e) # {}}

Candidates(leaf, ks, boundary, dense) ==
  {BoundaryBefore(ks, t.sp, boundary, t.right) :
     t \in Crossings(leaf, ks, boundary, dense, Min(Met(leaf, ks, boundary, dense)))}

Distance(k, m) == IF k < m THEN m - k ELSE k - m

Closest(keys, m) ==
  CHOOSE k \in keys : \A j \in keys : Distance(k, m) < Distance(j, m)
                                      \/ (Distance(k, m) = Distance(j, m) /\ k <= j)

(* One of the candidates is the closest. *)
LEMMA ClosestIs ==
  ASSUME NEW lo \in Int, NEW keys \in SUBSET Int, keys # {}, \A k \in keys : k >= lo, NEW m \in Int
  PROVE  Closest(keys, m) \in keys
<1> DEFINE far == {Distance(k, m) : k \in keys}
<1>1. \A k \in keys : k \in Int /\ Distance(k, m) \in Int /\ Distance(k, m) >= 0
  BY DEF Distance
<1>2. far \in SUBSET Int /\ far # {} /\ \A f \in far : f >= 0
  BY <1>1
<1>3. PICK f \in far : \A g \in far : f <= g
  <2> HIDE DEF far
  <2>1. 0 \in Int
    OBVIOUS
  <2> QED BY <1>2, <2>1, LeastOf
<1> DEFINE near == {k \in keys : Distance(k, m) = f}
<1>4. near \in SUBSET Int /\ near # {} /\ \A k \in near : k >= lo
  BY <1>1
<1>5. PICK k \in near : \A j \in near : k <= j
  <2> HIDE DEF near
  <2> QED BY <1>4, LeastOf
<1>6. ASSUME NEW j \in keys
      PROVE  Distance(k, m) < Distance(j, m) \/ (Distance(k, m) = Distance(j, m) /\ k <= j)
  <2>1. Distance(k, m) = f /\ Distance(k, m) \in Int /\ Distance(j, m) \in Int /\ Distance(j, m) \in far
    BY <1>1, <1>5
  <2>2. Distance(k, m) <= Distance(j, m)
    BY <1>3, <2>1
  <2>3. Distance(j, m) = f => k <= j
    BY <1>5
  <2> QED BY <2>1, <2>2, <2>3
<1>7. k \in keys
  BY <1>5
<1> QED BY <1>6, <1>7 DEF Closest

(* A boundary that splitTypes accepts is a good one. *)
LEMMA AcceptedSound ==
  ASSUME SparseCap <= DenseCap, NEW leaf, NEW ks, NEW dense, Overfull(leaf, ks, dense), NEW s \in Int,
         Low(ks, s) # {}, High(ks, s) # {},
         SplitTypes(leaf, ks, s, dense)[1] # "none", SplitTypes(leaf, ks, s, dense)[2] # "none"
  PROVE  SplitSound(leaf, ks, s, dense)
<1>1. /\ leaf.type \in {"sparse", "dense"} /\ leaf.lower \in Int /\ leaf.upper \in Int
      /\ KeysWithin(ks, leaf.lower, leaf.upper) /\ dense \in BOOLEAN
      /\ leaf.type = "dense" => dense
  BY DEF Overfull
<1> DEFINE low == Low(ks, s)
           high == High(ks, s)
           t1 == HalfType(leaf.type, 1, low, s - leaf.lower, dense)
           t2 == HalfType(leaf.type, 2, high, leaf.upper - s, dense)
<1>2. SplitTypes(leaf, ks, s, dense)[1] = t1 /\ SplitTypes(leaf, ks, s, dense)[2] = t2
  BY DEF SplitTypes, Low, High
<1>3. KeysWithin(low, leaf.lower, s) /\ KeysWithin(high, s, leaf.upper)
  BY <1>1, PartsAre
<1> HIDE DEF low, high
<1>4. /\ dense => (t1 \in {"sparse", "dense"} /\ Fits(t1, low))
      /\ dense => (t2 \in {"sparse", "dense"} /\ Fits(t2, high))
  BY <1>1, <1>2, <1>3, HalfTypeIs
<1>5. ASSUME dense PROVE SplitSound(leaf, ks, s, dense)
  <2> HIDE DEF t1, t2
  <2> QED BY <1>2, <1>4, <1>5 DEF SplitSound, low, high
<1>6. ASSUME ~dense PROVE SplitSound(leaf, ks, s, dense)
  BY <1>1, <1>6, SplitIsSound
<1> QED BY <1>1, <1>5, <1>6

(* BSplitter: its search ends within the keys, at a cut that is sound. *)
LEMMA BoundarySound ==
  ASSUME HalvesFit({"A"}), NEW leaf, NEW ks, NEW dense, Overfull(leaf, ks, dense), NEW n,
         n = IF dense THEN DenseCap ELSE SparseCap
  PROVE  SplitSound(leaf, ks, BoundaryKey(leaf, ks, n, dense), dense)
<1> DEFINE N == Cardinality(ks)
           met == Met(leaf, ks, n, dense)
           keys == Candidates(leaf, ks, n, dense)
<1>0. SparseCap <= DenseCap
  BY DEF HalvesFit
<1>1. /\ leaf.lower \in Int /\ leaf.upper \in Int /\ KeysWithin(ks, leaf.lower, leaf.upper)
      /\ Ordered(ks, leaf.lower) /\ IsFiniteSet(ks)
      /\ \A k \in ks : k \in Int /\ leaf.lower <= k
      /\ n \in Nat \ {0} /\ N \in Nat /\ N >= 2
  <2>1. leaf.lower \in Int /\ leaf.upper \in Int /\ KeysWithin(ks, leaf.lower, leaf.upper)
    BY DEF Overfull
  <2>2. Ordered(ks, leaf.lower) /\ IsFiniteSet(ks) /\ \A k \in ks : k \in Int /\ leaf.lower <= k
    BY <2>1 DEF KeysWithin, Ordered
  <2>3. N \in Nat /\ N >= 2
    BY OverfullIs
  <2>4. n \in Nat \ {0}
    <3>1. n = DenseCap \/ n = SparseCap
      OBVIOUS
    <3> QED BY <3>1, CapacitiesAre
  <2> QED BY <2>1, <2>2, <2>3, <2>4
<1>2. ASSUME NEW sp \in 1..N-1, NEW right \in BOOLEAN,
             KeyAt(ks, sp-1) \div n < KeyAt(ks, sp) \div n
      PROVE  /\ BoundaryBefore(ks, sp, n, right) \in Int
             /\ KeyAt(ks, sp-1) < BoundaryBefore(ks, sp, n, right)
             /\ BoundaryBefore(ks, sp, n, right) <= KeyAt(ks, sp)
  <2>1. sp \in Int /\ 1 <= sp /\ sp < Cardinality(ks)
    BY <1>1
  <2> HIDE DEF N
  <2> QED BY <1>1, <1>2, <2>1, BoundaryBetween
<1>3. PICK q \in Int : /\ Low(ks, q * n) # {} /\ High(ks, q * n) # {}
                       /\ leaf.type = "dense" =>
                            Fits("dense", Low(ks, q * n)) /\ Fits("dense", High(ks, q * n))
  BY BoundaryExists
<1> DEFINE s == q * n
           sp == Cardinality(Low(ks, s))
<1>4. s \in Int /\ s = q * n
  BY <1>1
<1>5. sp \in Int /\ 1 <= sp /\ sp < N /\ sp \in 1..N-1
  <2> HIDE DEF s
  <2>1. /\ Cardinality(Low(ks, s)) \in Nat /\ Cardinality(High(ks, s)) \in Nat
        /\ N = Cardinality(Low(ks, s)) + Cardinality(High(ks, s))
        /\ Low(ks, s) # {} <=> Cardinality(Low(ks, s)) > 0
        /\ High(ks, s) # {} <=> Cardinality(High(ks, s)) > 0
    BY <1>1, <1>4, PartsAre
  <2>2. Low(ks, s) # {} /\ High(ks, s) # {}
    BY <1>3 DEF s
  <2> QED BY <1>1, <2>1, <2>2
<1> HIDE DEF s, sp
<1>6. /\ KeyAt(ks, sp-1) \in Int /\ KeyAt(ks, sp) \in Int /\ KeyAt(ks, sp-1) < s /\ s <= KeyAt(ks, sp)
      /\ Low(ks, s) = FirstKeys(ks, sp) /\ High(ks, s) = ks \ FirstKeys(ks, sp)
  BY <1>1, <1>4, <1>5, RankIs DEF sp
<1>7. KeyAt(ks, sp-1) \div n < KeyAt(ks, sp) \div n
  BY <1>1, <1>4, <1>6, Crossed
<1>8. ASSUME NEW right \in BOOLEAN
      PROVE  \A i \in 1..2 : SplitTypes(leaf, ks, BoundaryBefore(ks, sp, n, right), dense)[i] # "none"
  <2> DEFINE r == BoundaryBefore(ks, sp, n, right)
  <2>1. r \in Int /\ KeyAt(ks, sp-1) < r /\ r <= KeyAt(ks, sp)
    BY <1>2, <1>5, <1>7
  <2> HIDE DEF r
  <2>2. Low(ks, r) = Low(ks, s) /\ High(ks, r) = High(ks, s) /\ Low(ks, r) # {} /\ High(ks, r) # {}
    <3>1. /\ Low(ks, r) = FirstKeys(ks, sp) /\ High(ks, r) = ks \ FirstKeys(ks, sp)
          /\ Low(ks, r) # {} /\ High(ks, r) # {}
      BY <1>1, <1>5, <2>1, RankIs
    <3> QED BY <1>6, <3>1
  <2>3. leaf.type = "dense" => Fits("dense", Low(ks, r)) /\ Fits("dense", High(ks, r))
    BY <1>3, <2>2 DEF s
  <2>4. SplitSound(leaf, ks, r, dense)
    BY <1>0, <2>1, <2>2, <2>3, SplitIsSound
  <2>5. SplitTypes(leaf, ks, r, dense)[1] # "none" /\ SplitTypes(leaf, ks, r, dense)[2] # "none"
    BY <2>4 DEF SplitSound
  <2>6. \A i \in 1..2 : i = 1 \/ i = 2
    OBVIOUS
  <2> QED BY <2>5, <2>6 DEF r
<1>9. \E e \in 0..N : Crossings(leaf, ks, n, dense, e) # {}
  <2>1. CASE sp <= N \div 2
    <3> DEFINE e == N \div 2 - sp
               t == [sp |-> sp, right |-> FALSE]
    <3>1. e \in 0..N /\ N \div 2 - e = sp
      BY <1>1, <1>5, <2>1
    <3>2. t.sp = sp /\ t.right = FALSE /\ t \in [sp : {N \div 2 - e}, right : {FALSE}]
      BY <3>1
    <3> HIDE DEF t, e
    <3>3. t \in Crossings(leaf, ks, n, dense, e)
      BY <1>5, <1>7, <1>8, <3>2 DEF Crossings
    <3> QED BY <3>1, <3>3
  <2>2. CASE ~(sp <= N \div 2)
    <3> DEFINE e == sp - ((N + 1) \div 2)
               t == [sp |-> sp, right |-> TRUE]
    <3>1. e \in 0..N /\ ((N + 1) \div 2) + e = sp
      BY <1>1, <1>5, <2>2
    <3>2. t.sp = sp /\ t.right = TRUE /\ t \in [sp : {((N + 1) \div 2) + e}, right : {TRUE}]
      BY <3>1
    <3> HIDE DEF t, e
    <3>3. t \in Crossings(leaf, ks, n, dense, e)
      BY <1>5, <1>7, <1>8, <3>2 DEF Crossings
    <3> QED BY <3>1, <3>3
  <2> QED BY <2>1, <2>2
<1>10. Min(met) \in met
  <2>1. met # {} /\ met \in SUBSET Int /\ \A e \in met : e >= 0
    BY <1>9 DEF Met
  <2> HIDE DEF met
  <2>2. 0 \in Int
    OBVIOUS
  <2> QED BY <2>1, <2>2, SmallestOf
<1>11. keys # {}
  <2>1. Crossings(leaf, ks, n, dense, Min(met)) # {}
    BY <1>10 DEF Met
  <2> QED BY <2>1 DEF Candidates
<1>12. ASSUME NEW k \in keys
       PROVE  /\ k \in Int /\ k >= leaf.lower /\ Low(ks, k) # {} /\ High(ks, k) # {}
              /\ SplitTypes(leaf, ks, k, dense)[1] # "none" /\ SplitTypes(leaf, ks, k, dense)[2] # "none"
  <2> DEFINE d == Min(met)
  <2>1. PICK t \in Crossings(leaf, ks, n, dense, d) : k = BoundaryBefore(ks, t.sp, n, t.right)
    BY DEF Candidates
  <2> HIDE DEF d
  <2>2. /\ t.right \in BOOLEAN /\ t.sp \in 1..N-1
        /\ KeyAt(ks, t.sp - 1) \div n < KeyAt(ks, t.sp) \div n
        /\ \A i \in 1..2 : SplitTypes(leaf, ks, BoundaryBefore(ks, t.sp, n, t.right), dense)[i] # "none"
    BY DEF Crossings
  <2>3. k \in Int /\ KeyAt(ks, t.sp - 1) < k /\ k <= KeyAt(ks, t.sp)
    BY <1>2, <2>1, <2>2
  <2>4. /\ KeyAt(ks, t.sp - 1) \in ks /\ KeyAt(ks, t.sp - 1) \in Int
        /\ Low(ks, k) # {} /\ High(ks, k) # {}
    <3>1. t.sp \in Int /\ 1 <= t.sp /\ t.sp < Cardinality(ks)
      BY <1>1, <2>2
    <3> QED BY <1>1, <2>3, <3>1, RankIs
  <2>5. leaf.lower <= KeyAt(ks, t.sp - 1)
    BY <1>1, <2>4
  <2>6. 1 \in 1..2 /\ 2 \in 1..2
    OBVIOUS
  <2> QED BY <1>1, <2>1, <2>2, <2>3, <2>4, <2>5, <2>6
<1>13. MiddleKey(ks) \in Int
  <2>1. N \div 2 \in Int /\ 0 <= N \div 2 /\ N \div 2 < N
    BY <1>1
  <2> QED BY <1>1, <2>1, KeyAtIs DEF MiddleKey
<1>14. BoundaryKey(leaf, ks, n, dense) = Closest(keys, MiddleKey(ks))
  BY DEF BoundaryKey, Closest, Candidates, Met, Crossings, Distance
<1> HIDE DEF keys
<1>15. Closest(keys, MiddleKey(ks)) \in keys
  <2>1. keys \in SUBSET Int /\ \A k \in keys : k >= leaf.lower
    BY <1>12
  <2> QED BY <1>1, <1>11, <1>13, <2>1, ClosestIs
<1> DEFINE best == Closest(keys, MiddleKey(ks))
<1> HIDE DEF best
<1>16. SplitSound(leaf, ks, best, dense)
  BY <1>0, <1>12, <1>15, AcceptedSound DEF best
<1> QED BY <1>14, <1>16 DEF best

-----------------------------------------------------------------------------
(* The halves of each splitter fit if those of several do. *)
LEMMA OneSplitter ==
  ASSUME NEW splitters, HalvesFit(splitters), NEW which \in splitters
  PROVE  HalvesFit({which})
BY DEF HalvesFit

(* Types that are all set are the ones used. *)
LEMMA TypesSet ==
  ASSUME NEW t \in {"sparse", "dense"}, NEW u \in {"sparse", "dense"}
  PROVE  TypesUsed(<<t, u>>) = {<<t, u>>}
<1>1. <<t, u>> \in [1..2 -> {"sparse", "dense"}]
  OBVIOUS
<1>2. ASSUME NEW f \in [1..2 -> {"sparse", "dense"}], f[1] = t, f[2] = u PROVE f = <<t, u>>
  BY <1>1, <1>2
<1>3. \A i \in 1..2 : <<t, u>>[i] # "none"
  OBVIOUS
<1>4. ASSUME NEW f \in TypesUsed(<<t, u>>) PROVE f = <<t, u>>
  <2>1. f \in [1..2 -> {"sparse", "dense"}] /\ \A i \in 1..2 : f[i] = <<t, u>>[i]
    BY <1>3 DEF TypesUsed
  <2> QED BY <1>2, <2>1
<1>5. <<t, u>> \in TypesUsed(<<t, u>>)
  BY <1>1 DEF TypesUsed
<1> QED BY <1>4, <1>5

(* Every splitter splits an overfull leaf into two that fit. *)
LEMMA SplitKeysSound ==
  ASSUME NEW leaf, NEW ks, NEW dense, Overfull(leaf, ks, dense),
         NEW which \in {"M", "A", "T", "RS"}, HalvesFit({which}), NEW s \in SplitKeys(which, leaf, ks, dense)
  PROVE  SplitSound(leaf, ks, s, dense)
<1>0. /\ SparseCap <= DenseCap /\ (which \in {"M", "T"} => DenseCap < 2 * SparseCap)
      /\ which = "T" => 2 * Threshold[1] >= Threshold[2]
  BY DEF HalvesFit
<1>1. CASE which = "M"
  <2>1. s = MiddleKey(ks)
    BY <1>1 DEF SplitKeys
  <2> QED BY <1>0, <1>1, <2>1, MiddleSound
<1>2. CASE which = "T"
  <2>1. s = ThresholdKey(leaf, ks, dense)
    BY <1>2 DEF SplitKeys
  <2> QED BY <1>0, <1>2, <2>1, ThresholdSound
<1>3. CASE which = "A"
  <2> DEFINE n == IF dense THEN DenseCap ELSE SparseCap
  <2>1. s = BoundaryKey(leaf, ks, n, dense)
    BY <1>3 DEF SplitKeys
  <2>2. SplitSound(leaf, ks, BoundaryKey(leaf, ks, n, dense), dense)
    <3>1. n = IF dense THEN DenseCap ELSE SparseCap
      OBVIOUS
    <3> HIDE DEF n
    <3> QED BY <1>3, <3>1, BoundarySound
  <2> QED BY <2>1, <2>2
<1>4. CASE which = "RS"
  BY <1>0, <1>4, AnyRecordSound
<1> QED BY <1>1, <1>2, <1>3, <1>4

(* The splitters look at nothing of a leaf but its format and its bounds. *)
LEMMA SplitKeysOf ==
  ASSUME NEW b, NEW leaf, leaf.type = b.type, leaf.lower = b.lower, leaf.upper = b.upper,
         NEW ks, NEW dense, NEW which
  PROVE  /\ SplitKeys(which, leaf, ks, dense) = SplitKeys(which, b, ks, dense)
         /\ \A s : SplitTypes(leaf, ks, s, dense) = SplitTypes(b, ks, s, dense)
<1>1. ASSUME NEW s PROVE SplitTypes(leaf, ks, s, dense) = SplitTypes(b, ks, s, dense)
  BY DEF SplitTypes
<1>2. ThresholdKey(leaf, ks, dense) = ThresholdKey(b, ks, dense)
  <2>1. ASSUME NEW c, NEW i PROVE Near(leaf, ks, c, i) = Near(b, ks, c, i)
    BY DEF Near, Low, High
  <2>2. ASSUME NEW i PROVE NearCap(leaf, ks, dense, i) = NearCap(b, ks, dense, i)
    BY <2>1 DEF NearCap
  <2> DEFINE Choice(l) == ThresholdChoice(l, NearCap(l, ks, dense, 1), NearCap(l, ks, dense, 2),
                            Near(l, ks, NearCap(l, ks, dense, 1), 1),
                            Near(l, ks, NearCap(l, ks, dense, 2), 2), MiddleKey(ks))
  <2>3. ASSUME NEW l PROVE ThresholdKey(l, ks, dense) = Choice(l)
    BY DEF ThresholdKey, ThresholdChoice, Near, NearCap, Low, High
  <2>4. Choice(leaf) = Choice(b)
    BY <2>1, <2>2 DEF ThresholdChoice
  <2> HIDE DEF Choice
  <2> QED BY <2>3, <2>4
<1>3. ASSUME NEW n PROVE BoundaryKey(leaf, ks, n, dense) = BoundaryKey(b, ks, n, dense)
  <2>1. ASSUME NEW d PROVE Crossings(leaf, ks, n, dense, d) = Crossings(b, ks, n, dense, d)
    <3> DEFINE Accepts(l, t) ==
          \A i \in 1..2 : SplitTypes(l, ks, BoundaryBefore(ks, t.sp, n, t.right), dense)[i] # "none"
        T == [sp : {Cardinality(ks) \div 2 - d}, right : {FALSE}]
             \cup [sp : {((Cardinality(ks) + 1) \div 2) + d}, right : {TRUE}]
        Crosses(t) == /\ t.sp \in 1..Cardinality(ks)-1
                      /\ KeyAt(ks, t.sp - 1) \div n < KeyAt(ks, t.sp) \div n
    <3>1. ASSUME NEW t PROVE Accepts(leaf, t) <=> Accepts(b, t)
      BY <1>1
    <3>2. ASSUME NEW l PROVE Crossings(l, ks, n, dense, d) = {t \in T : Crosses(t) /\ Accepts(l, t)}
      BY DEF Crossings
    <3> HIDE DEF Accepts, T, Crosses
    <3> QED BY <3>1, <3>2
  <2>2. Met(leaf, ks, n, dense) = Met(b, ks, n, dense)
    BY <2>1 DEF Met
  <2>3. Candidates(leaf, ks, n, dense) = Candidates(b, ks, n, dense)
    BY <2>1, <2>2 DEF Candidates
  <2>4. ASSUME NEW l
        PROVE  BoundaryKey(l, ks, n, dense) = Closest(Candidates(l, ks, n, dense), MiddleKey(ks))
    BY DEF BoundaryKey, Closest, Candidates, Met, Crossings, Distance
  <2> QED BY <2>3, <2>4
<1>4. {k \in ks \ {Min(ks)} : \A i \in 1..2 : SplitTypes(leaf, ks, k, dense)[i] # "none"}
        = {k \in ks \ {Min(ks)} : \A i \in 1..2 : SplitTypes(b, ks, k, dense)[i] # "none"}
  BY <1>1
<1>5. SplitKeys(which, leaf, ks, dense) = SplitKeys(which, b, ks, dense)
  <2> DEFINE fitting(l) == {k \in ks \ {Min(ks)} : \A i \in 1..2 : SplitTypes(l, ks, k, dense)[i] # "none"}
  <2>1. fitting(leaf) = fitting(b)
    BY <1>4
  <2>2. ASSUME NEW l
        PROVE  SplitKeys(which, l, ks, dense) =
                 CASE which = "M" -> {MiddleKey(ks)}
                   [] which = "T" -> {ThresholdKey(l, ks, dense)}
                   [] which = "A" -> {BoundaryKey(l, ks, IF dense THEN DenseCap ELSE SparseCap, dense)}
                   [] which = "RS" -> IF fitting(l) = {} THEN {KeyAt(ks, 1)} ELSE fitting(l)
    BY DEF SplitKeys
  <2> HIDE DEF fitting
  <2> QED BY <1>2, <1>3, <2>1, <2>2
<1> QED BY <1>1, <1>5

(* What the two splitters choose, in the terms of their proofs. *)
ThresholdTerms(l, ks, dense) ==
  ThresholdChoice(l, NearCap(l, ks, dense, 1), NearCap(l, ks, dense, 2),
                  Near(l, ks, NearCap(l, ks, dense, 1), 1),
                  Near(l, ks, NearCap(l, ks, dense, 2), 2), MiddleKey(ks))

(* The splitters' choices, in those terms.                                 *)
LEMMA ChoicesAre ==
  ASSUME NEW l, NEW ks, NEW dense
  PROVE  /\ ThresholdKey(l, ks, dense) = ThresholdTerms(l, ks, dense)
         /\ \A n : BoundaryKey(l, ks, n, dense) = Closest(Candidates(l, ks, n, dense), MiddleKey(ks))
<1>1. ThresholdKey(l, ks, dense) = ThresholdTerms(l, ks, dense)
  BY DEF ThresholdTerms, ThresholdKey, ThresholdChoice, Near, NearCap, Low, High
<1>2. ASSUME NEW n PROVE BoundaryKey(l, ks, n, dense) = Closest(Candidates(l, ks, n, dense), MiddleKey(ks))
  BY DEF BoundaryKey, Closest, Candidates, Met, Crossings, Distance
<1> QED BY <1>1, <1>2

(* A leaf whose object has no upper bound is split like one whose upper    *)
(* bound is far away.                                                      *)
LEMMA FarBound ==
  ASSUME NEW b, b.upper = 0, NEW leaf, leaf.type = b.type, leaf.lower = b.lower,
         NEW ks, NEW dense, Overfull(leaf, ks, dense),
         \A k \in ks : 0 <= k /\ k + DenseCap < leaf.upper,
         NEW which \in {"M", "A", "T", "RS"}, HalvesFit({which})
  PROVE  /\ SplitKeys(which, b, ks, dense) = SplitKeys(which, leaf, ks, dense)
         /\ \A s \in SplitKeys(which, leaf, ks, dense) :
              SplitTypes(b, ks, s, dense) = SplitTypes(leaf, ks, s, dense)
<1>0. /\ leaf.lower \in Int /\ leaf.upper \in Int /\ Ordered(ks, leaf.lower) /\ IsFiniteSet(ks)
      /\ \A k \in ks : k \in Int /\ 0 <= k /\ k + DenseCap < leaf.upper
      /\ SparseCap \in Nat \ {0} /\ DenseCap \in Nat \ {0} /\ SparseCap <= DenseCap
      /\ KeysWithin(ks, leaf.lower, leaf.upper)
  BY CapacitiesAre DEF Overfull, KeysWithin, Ordered, HalvesFit
<1>1. ASSUME NEW s \in Int, 0 < s, NEW k \in ks, s <= k
      PROVE  SplitTypes(b, ks, s, dense) = SplitTypes(leaf, ks, s, dense)
  <2> DEFINE c == b.upper - s
             d == leaf.upper - s
  <2>1. c \notin 0..DenseCap /\ d \notin 0..DenseCap
    BY <1>0, <1>1
  <2> HIDE DEF c, d
  <2>2. ASSUME NEW part PROVE HalfType(b.type, 2, part, c, dense) = HalfType(b.type, 2, part, d, dense)
    BY <2>1 DEF HalfType
  <2>3. HalfType(b.type, 2, {j \in ks : j >= s}, c, dense) = HalfType(b.type, 2, {j \in ks : j >= s}, d, dense)
    BY <2>2
  <2> QED BY <2>3 DEF SplitTypes, c, d
<1>2. ThresholdKey(leaf, ks, dense) = ThresholdKey(b, ks, dense)
  <2> DEFINE Choice(l) == ThresholdTerms(l, ks, dense)
  <2>1. ASSUME NEW l PROVE ThresholdKey(l, ks, dense) = Choice(l)
    BY ChoicesAre
  <2>2. ASSUME NEW c PROVE Near(leaf, ks, c, 1) = Near(b, ks, c, 1)
    BY DEF Near, Low
  <2>3. ASSUME NEW c \in {SparseCap, DenseCap} PROVE Near(leaf, ks, c, 2) = 0 /\ Near(b, ks, c, 2) = 0
    <3>1. High(ks, leaf.upper - c) = {}
      BY <1>0 DEF High
    <3>2. Cardinality(High(ks, leaf.upper - c)) = 0
      BY <3>1, FS_EmptySet
    <3> QED BY <1>0, <3>2 DEF Near
  <2>4. NearCap(leaf, ks, dense, 1) = NearCap(b, ks, dense, 1)
        /\ NearCap(leaf, ks, dense, 2) = NearCap(b, ks, dense, 2)
    BY <2>2, <2>3 DEF NearCap
  <2> DEFINE c1 == NearCap(b, ks, dense, 1)
             c2 == NearCap(b, ks, dense, 2)
             n1 == Near(b, ks, c1, 1)
  <2>5. c1 \in {SparseCap, DenseCap} /\ c2 \in {SparseCap, DenseCap}
    BY DEF NearCap
  <2>6. Near(leaf, ks, c2, 2) = 0 /\ Near(b, ks, c2, 2) = 0 /\ Near(leaf, ks, c1, 1) = n1
    BY <2>2, <2>3, <2>5
  <2>7. n1 \in Nat
    <3>1. leaf.lower + c1 \in Int
      BY <1>0, <2>5
    <3>2. Cardinality(Low(ks, leaf.lower + c1)) \in Nat
      BY <1>0, <3>1, PartsAre
    <3> QED BY <3>2, <2>6 DEF Near
  <2>8. Choice(leaf) = ThresholdChoice(leaf, c1, c2, n1, 0, MiddleKey(ks))
    BY <2>4, <2>6 DEF ThresholdTerms
  <2>9. Choice(b) = ThresholdChoice(b, c1, c2, n1, 0, MiddleKey(ks))
    BY <2>6 DEF ThresholdTerms
  <2> HIDE DEF c1, c2, n1, Choice
  <2>10. c1 \in Nat /\ c1 > 0 /\ c2 \in Nat /\ c2 > 0 /\ Threshold[1] \in Nat \ {0} /\ Threshold[2] \in Nat \ {0}
    BY <1>0, <2>5, ThresholdAssumption
  <2>11. 0 * Threshold[2] = 0 /\ 0 * c1 = 0 /\ Threshold[1] * c1 > 0 /\ Threshold[1] * c2 > 0
         /\ (n1 > 0 => n1 * c2 > 0)
    BY <2>7, <2>10
  <2>12. CASE n1 = 0
    BY <2>11, <2>12, <2>8, <2>9, <2>1 DEF ThresholdChoice
  <2>13. CASE n1 > 0
    <3>1. n1 * c2 > 0 * c1
      BY <2>11, <2>13
    <3> QED BY <3>1, <2>8, <2>9, <2>1, <1>0 DEF ThresholdChoice
  <2> QED BY <2>7, <2>12, <2>13
<1>3. ASSUME NEW n \in Nat \ {0} PROVE BoundaryKey(leaf, ks, n, dense) = BoundaryKey(b, ks, n, dense)
  <2>1. ASSUME NEW d PROVE Crossings(leaf, ks, n, dense, d) = Crossings(b, ks, n, dense, d)
    <3> DEFINE Accepts(l, t) ==
          \A i \in 1..2 : SplitTypes(l, ks, BoundaryBefore(ks, t.sp, n, t.right), dense)[i] # "none"
        T == [sp : {Cardinality(ks) \div 2 - d}, right : {FALSE}]
             \cup [sp : {((Cardinality(ks) + 1) \div 2) + d}, right : {TRUE}]
        Crosses(t) == /\ t.sp \in 1..Cardinality(ks)-1
                      /\ KeyAt(ks, t.sp - 1) \div n < KeyAt(ks, t.sp) \div n
    <3>1. ASSUME NEW t \in T, Crosses(t) PROVE Accepts(leaf, t) <=> Accepts(b, t)
      <4> DEFINE sp == t.sp
                 right == t.right
                 s == BoundaryBefore(ks, sp, n, right)
      <4>1. right \in BOOLEAN
        OBVIOUS
      <4>2. sp \in Int /\ 1 <= sp /\ sp < Cardinality(ks)
            /\ KeyAt(ks, sp - 1) \div n < KeyAt(ks, sp) \div n
        <5>1. Cardinality(ks) \in Nat
          BY <1>0, FS_CardinalityType
        <5> HIDE DEF T
        <5> QED BY <3>1, <5>1
      <4> HIDE DEF sp, right
      <4>3. /\ KeyAt(ks, sp-1) \in ks /\ KeyAt(ks, sp) \in ks
            /\ KeyAt(ks, sp-1) \in Int /\ KeyAt(ks, sp) \in Int
            /\ s \in Int /\ KeyAt(ks, sp-1) < s /\ s <= KeyAt(ks, sp)
        BY <1>0, <4>1, <4>2, BoundaryBetween
      <4> HIDE DEF s
      <4>4. 0 < s
        BY <1>0, <4>3
      <4>5. SplitTypes(b, ks, s, dense) = SplitTypes(leaf, ks, s, dense)
        BY <1>1, <4>3, <4>4
      <4> QED BY <4>5 DEF s, sp, right
    <3>2. ASSUME NEW l PROVE Crossings(l, ks, n, dense, d) = {t \in T : Crosses(t) /\ Accepts(l, t)}
      BY DEF Crossings
    <3> HIDE DEF Accepts, T, Crosses
    <3> QED BY <3>1, <3>2
  <2>2. Met(leaf, ks, n, dense) = Met(b, ks, n, dense)
    BY <2>1 DEF Met
  <2>3. Candidates(leaf, ks, n, dense) = Candidates(b, ks, n, dense)
    BY <2>1, <2>2 DEF Candidates
  <2>4. ASSUME NEW l
        PROVE  BoundaryKey(l, ks, n, dense) = Closest(Candidates(l, ks, n, dense), MiddleKey(ks))
    BY ChoicesAre
  <2> QED BY <2>3, <2>4
<1>4. {k \in ks \ {Min(ks)} : \A i \in 1..2 : SplitTypes(leaf, ks, k, dense)[i] # "none"}
        = {k \in ks \ {Min(ks)} : \A i \in 1..2 : SplitTypes(b, ks, k, dense)[i] # "none"}
  <2>1. ASSUME NEW k \in ks \ {Min(ks)} PROVE SplitTypes(leaf, ks, k, dense) = SplitTypes(b, ks, k, dense)
    <3>1. ks # {} /\ ks \in SUBSET Int /\ 0 \in Int /\ \A j \in ks : j >= 0
      BY <1>0
    <3>2. Min(ks) \in ks /\ \A j \in ks : Min(ks) <= j
      BY <3>1, SmallestOf
    <3>3. k \in Int /\ 0 < k /\ k <= k
      BY <1>0, <3>2
    <3> QED BY <1>1, <3>3
  <2> QED BY <2>1
<1>5. SplitKeys(which, leaf, ks, dense) = SplitKeys(which, b, ks, dense)
  <2>1. (IF dense THEN DenseCap ELSE SparseCap) \in Nat \ {0}
    BY <1>0
  <2>2. BoundaryKey(leaf, ks, IF dense THEN DenseCap ELSE SparseCap, dense)
          = BoundaryKey(b, ks, IF dense THEN DenseCap ELSE SparseCap, dense)
    BY <1>3, <2>1
  <2> DEFINE fitting(l) == {k \in ks \ {Min(ks)} : \A i \in 1..2 : SplitTypes(l, ks, k, dense)[i] # "none"}
  <2>3. fitting(leaf) = fitting(b)
    BY <1>4
  <2>4. ASSUME NEW l
        PROVE  SplitKeys(which, l, ks, dense) =
                 CASE which = "M" -> {MiddleKey(ks)}
                   [] which = "T" -> {ThresholdKey(l, ks, dense)}
                   [] which = "A" -> {BoundaryKey(l, ks, IF dense THEN DenseCap ELSE SparseCap, dense)}
                   [] which = "RS" -> IF fitting(l) = {} THEN {KeyAt(ks, 1)} ELSE fitting(l)
    BY DEF SplitKeys
  <2> HIDE DEF fitting
  <2> QED BY <1>2, <2>2, <2>3, <2>4
<1>6. ASSUME NEW s \in SplitKeys(which, leaf, ks, dense)
      PROVE  SplitTypes(b, ks, s, dense) = SplitTypes(leaf, ks, s, dense)
  <2>1. SplitSound(leaf, ks, s, dense)
    BY SplitKeysSound
  <2>2. s \in Int /\ \E j \in ks : j < s
    BY <2>1 DEF SplitSound, Low
  <2>3. \E k \in ks : s <= k
    BY <2>1, <2>2, <1>0 DEF SplitSound, High
  <2> QED BY <1>0, <1>1, <2>2, <2>3
<1> QED BY <1>5, <1>6

(* A leaf that overflows, whatever bounds its object has.                  *)
Overflows(b, lo, hi, ks, dense) ==
  /\ b.type \in {"sparse", "dense"} /\ b.lower \in Nat /\ b.lower <= lo /\ b.upper \in {0, hi}
  /\ lo \in Nat /\ hi \in Nat /\ KeysWithin(ks, lo, hi)
  /\ ~Fits(b.type, ks) /\ \E x \in ks : Fits(b.type, ks \ {x})
  /\ dense \in BOOLEAN
  /\ dense => ~Fits(Other(b.type), ks)
  /\ ~dense => b.type = "sparse"

(* Where it is split, both halves have entries and fit.                    *)
LEMMA OverflowSplits ==
  ASSUME NEW b, NEW lo, NEW hi, NEW ks, NEW dense, Overflows(b, lo, hi, ks, dense),
         NEW which \in {"M", "A", "T", "RS"}, HalvesFit({which}), NEW s \in SplitKeys(which, b, ks, dense)
  PROVE  SplitSound(b, ks, s, dense)
<1>1. /\ b.lower \in Int /\ 0 <= b.lower /\ lo \in Int /\ hi \in Int /\ 0 <= lo /\ 0 <= hi
      /\ \A k \in ks : k \in Int /\ lo <= k /\ k < hi
      /\ IsFiniteSet(ks) /\ b.lower <= lo /\ DenseCap \in Nat
  BY CapacitiesAre DEF Overflows, KeysWithin
<1>2. CASE b.upper = hi
  <2>1. KeysWithin(ks, b.lower, b.upper)
    BY <1>1, <1>2 DEF KeysWithin
  <2>2. Overfull(b, ks, dense)
    BY <1>1, <1>2, <2>1 DEF Overfull, Overflows
  <2> QED BY <2>2, SplitKeysSound
<1>3. CASE b.upper = 0
  <2> DEFINE leaf == [type |-> b.type, lower |-> b.lower, upper |-> hi + DenseCap]
  <2>1. leaf.type = b.type /\ leaf.lower = b.lower /\ leaf.upper = hi + DenseCap
    OBVIOUS
  <2> HIDE DEF leaf
  <2>2. /\ KeysWithin(ks, leaf.lower, leaf.upper)
        /\ \A k \in ks : 0 <= k /\ k + DenseCap < leaf.upper
    BY <1>1, <2>1 DEF KeysWithin
  <2>3. leaf.upper \in Int
    BY <1>1, <2>1
  <2>4. Overfull(leaf, ks, dense)
    BY <1>1, <2>1, <2>2, <2>3 DEF Overfull, Overflows
  <2>5. /\ SplitKeys(which, b, ks, dense) = SplitKeys(which, leaf, ks, dense)
        /\ \A r \in SplitKeys(which, leaf, ks, dense) :
             SplitTypes(b, ks, r, dense) = SplitTypes(leaf, ks, r, dense)
    BY <1>3, <2>1, <2>2, <2>4, FarBound
  <2>6. SplitSound(leaf, ks, s, dense)
    BY <2>4, <2>5, SplitKeysSound
  <2> QED BY <2>5, <2>6 DEF SplitSound
<1> QED BY <1>2, <1>3 DEF Overflows

-----------------------------------------------------------------------------
(* The entries a batchGet finds, one cell each. *)
EntryRecords(m) == {[key |-> k, datum |-> m[k]] : k \in DOMAIN m}

Lists(answer, m) ==
  /\ answer \in Seq(EntryRecords(m)) /\ {answer[i] : i \in DOMAIN answer} = EntryRecords(m)
  /\ \A i, j \in DOMAIN answer : i < j => answer[i].key < answer[j].key

(* The iterator of a dense leaf. *)
LEMMA DenseLists ==
  ASSUME NEW m, NEW lo \in Int, Ordered(DOMAIN m, lo)
  PROVE  Lists([i \in 1..Cardinality(DOMAIN m) |->
                  LET k == KeyAt(DOMAIN m, i - 1) IN [key |-> k, datum |-> m[k]]], m)
<1> DEFINE ks == DOMAIN m
           n == Cardinality(ks)
           answer == [i \in 1..n |-> [key |-> KeyAt(ks, i-1), datum |-> m[KeyAt(ks, i-1)]]]
<1>1. n \in Nat
  BY FS_CardinalityType DEF Ordered
<1>2. ASSUME NEW i \in 1..n PROVE KeyAt(ks, i-1) \in ks
  <2>1. i-1 \in Int /\ 0 <= i-1 /\ i-1 < n
    BY <1>1
  <2> QED BY <2>1, KeyAtIs
<1>3. /\ \A k \in ks : \E i \in 1..n : KeyAt(ks, i-1) = k
      /\ \A i, j \in 1..n : i < j => KeyAt(ks, i-1) < KeyAt(ks, j-1)
  BY KeyAtOrders
<1> HIDE DEF ks, n
<1>4. DOMAIN answer = 1..n
  OBVIOUS
<1>5. ASSUME NEW i \in 1..n
      PROVE  /\ answer[i] \in EntryRecords(m) /\ answer[i].key = KeyAt(ks, i-1)
             /\ answer[i] = [key |-> KeyAt(ks, i-1), datum |-> m[KeyAt(ks, i-1)]]
  BY <1>2 DEF EntryRecords, ks
<1>6. answer \in Seq(EntryRecords(m))
  <2>1. answer \in [1..n -> EntryRecords(m)]
    BY <1>5
  <2> HIDE DEF answer
  <2> QED BY <1>1, <2>1
<1> HIDE DEF answer
<1>7. ASSUME NEW e \in EntryRecords(m) PROVE \E i \in 1..n : answer[i] = e
  <2>1. PICK k \in ks : e = [key |-> k, datum |-> m[k]]
    BY DEF EntryRecords, ks
  <2>2. PICK i \in 1..n : KeyAt(ks, i-1) = k
    BY <1>3
  <2> QED BY <1>5, <2>1, <2>2
<1>8. Lists(answer, m)
  <2>1. {answer[i] : i \in DOMAIN answer} = EntryRecords(m)
    BY <1>4, <1>5, <1>7
  <2>2. \A i, j \in DOMAIN answer : i < j => answer[i].key < answer[j].key
    BY <1>3, <1>4, <1>5
  <2> QED BY <1>6, <2>1, <2>2 DEF Lists
<1> QED BY <1>8 DEF answer, ks, n

-----------------------------------------------------------------------------
(* Several sequences joined one after the other.                           *)
Joint(parts) ==
  CHOOSE f : f = [i \in 1..Len(parts) |-> IF i = 1 THEN parts[i] ELSE f[i - 1] \o parts[i]]
JoinsUp(parts, f) ==
  f[1] = parts[1] /\ \A i \in 2..Len(parts) : f[i] = f[i - 1] \o parts[i]

(* The recursive function of FlattenSeq is defined.                        *)
LEMMA JointExists ==
  ASSUME NEW parts, Len(parts) \in Nat, Len(parts) >= 1, NEW f, f = Joint(parts)
  PROVE  JoinsUp(parts, f)
<1> DEFINE n == Len(parts)
           Step(c, i) == IF i = 1 THEN parts[i] ELSE c \o parts[i]
           IsJoint(h, k) == h = [i \in 1..k |-> Step(h[i - 1], i)]
           S == {k \in 1..n : \E h : IsJoint(h, k)}
<1>1. n \in Nat /\ n >= 1 /\ 1 \in 1..n
  OBVIOUS
<1>2. 1 \in S
  <2> DEFINE h == [i \in 1..1 |-> parts[i]]
  <2>1. h = [i \in 1..1 |-> IF i = 1 THEN parts[i] ELSE h[i - 1] \o parts[i]]
    <3>1. \A i \in 1..1 : i = 1
      OBVIOUS
    <3> QED BY <3>1
  <2>2. IsJoint(h, 1)
    BY <2>1
  <2> HIDE DEF IsJoint
  <2> QED BY <1>1, <2>2
<1>3. ASSUME NEW k \in 1+1..n, k - 1 \in S PROVE k \in S
  <2>1. PICK h : IsJoint(h, k - 1)
    BY <1>3
  <2> HIDE DEF Step
  <2> DEFINE g == [i \in 1..k |-> IF i = k THEN Step(h[k - 1], k) ELSE h[i]]
  <2>2. \A i \in 1..k-1 : h[i] = Step(h[i - 1], i)
    BY <2>1
  <2>3. \A c, d : Step(c, 1) = Step(d, 1)
    BY DEF Step
  <2>4. ASSUME NEW i \in 1..k PROVE g[i] = Step(g[i - 1], i)
    <3>1. i # 1 => i - 1 \in 1..k /\ i - 1 # k
      OBVIOUS
    <3>2. i # 1 => g[i - 1] = h[i - 1]
      BY <3>1
    <3>3. g[i] = IF i = k THEN Step(h[k - 1], k) ELSE h[i]
      OBVIOUS
    <3> HIDE DEF g
    <3>4. i # k => i \in 1..k-1
      OBVIOUS
    <3>5. k # 1
      OBVIOUS
    <3> QED BY <2>2, <2>3, <3>2, <3>3, <3>4, <3>5
  <2>5. g = [i \in 1..k |-> g[i]]
    OBVIOUS
  <2>6. IsJoint(g, k)
    <3> HIDE DEF g
    <3> QED BY <2>4, <2>5
  <2>7. k \in 1..n
    OBVIOUS
  <2> HIDE DEF IsJoint
  <2> QED BY <2>6, <2>7
<1>4. n \in S
  <2> DEFINE lo == 1
  <2>1. lo \in Int /\ n \in Int /\ n \in lo..n
    BY <1>1
  <2>2. \A k \in lo+1..n : k - 1 \in S => k \in S
    BY <1>3
  <2>4. lo \in S
    BY <1>2
  <2> HIDE DEF S, lo, n
  <2>3. \A k \in lo..n : k \in S
    BY SMTT(30), <2>1, <2>2, <2>4, UpTo
  <2> QED BY <2>1, <2>3
<1>5. IsJoint(f, n)
  <2>1. PICK h : IsJoint(h, n)
    BY <1>4
  <2> QED BY Zenon, <2>1 DEF Joint
<1>6. \A i \in 1..n : f[i] = Step(f[i - 1], i)
  <2> HIDE DEF Step
  <2> QED BY <1>5
<1>7. f[1] = parts[1]
  BY <1>1, <1>6
<1>8. ASSUME NEW i \in 2..n PROVE f[i] = f[i - 1] \o parts[i]
  <2>1. i \in 1..n /\ i # 1
    OBVIOUS
  <2>2. f[i] = Step(f[i - 1], i)
    BY <1>6, <2>1
  <2> QED BY <2>1, <2>2
<1> QED BY <1>7, <1>8 DEF JoinsUp

(* Numbers that wrap once, up or down.                                     *)
LEMMA ModIs ==
  ASSUME NEW m \in Nat, m > 0, NEW r \in 0..m-1
  PROVE  r % m = r /\ (r + m) % m = r /\ (r - m) % m = r
  OBVIOUS

(* What a count changes by, whether it wraps or not.                       *)
LEMMA CountChange ==
  ASSUME NEW m \in Nat, m > 2, NEW x \in 0..m-1, NEW d \in {-1, 0, 1}
  PROVE  (((x + d) % m) - x) % m = d % m
<1>1. CASE x + d \in 0..m-1
  <2>1. (x + d) % m = x + d
    BY <1>1, ModIs
  <2> QED BY <2>1
<1>2. CASE x + d = m
  <2>1. (0 + m) % m = 0 /\ 1 % m = 1 /\ (1 - m) % m = 1
    <3>1. 0 \in 0..m-1 /\ 1 \in 0..m-1 /\ m > 0
      OBVIOUS
    <3> QED BY <3>1, ModIs
  <2>2. (x + d) % m = 0 /\ d = 1 /\ 0 - x = 1 - m
    BY <1>2, <2>1
  <2> QED BY <2>1, <2>2
<1>3. CASE x + d = -1
  <2>1. x = 0 /\ d = -1 /\ m - 1 \in 0..m-1 /\ m > 0
    BY <1>3
  <2>2. (m - 1) % m = m - 1 /\ ((m - 1) - m) % m = m - 1
    BY <2>1, ModIs
  <2>3. (m - 1) - m = -1 /\ x + d = -1 /\ (m - 1) - x = m - 1
    BY <2>1
  <2>4. (x + d) % m = m - 1 /\ d % m = m - 1
    BY <2>1, <2>2, <2>3
  <2> QED BY <2>2, <2>3, <2>4
<1> QED BY <1>1, <1>2, <1>3

=============================================================================
