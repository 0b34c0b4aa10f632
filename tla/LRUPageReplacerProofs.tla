----------------------- MODULE LRUPageReplacerProofs -----------------------
(***************************************************************************)
(* The links of the replacer stay mutually inverse under every sequence of *)
(* its operations, for every set of records and every word size; the list  *)
(* they make is the queue of LRUQueue.  For that a sequence represents     *)
(* the list when it names the listed records once each and every link      *)
(* leads from one to the next; each operation of the list is the           *)
(* operation of the queue on the sequence; and a walk along the links      *)
(* yields the sequence, in whichever direction.                            *)
(***************************************************************************)
EXTENDS LRUPageReplacer, OperatorProofs

Inv == TypeOK /\ LinksInverse

LEMMA InitInv == Init => Inv
BY EmptyListLemma DEF Init, Inv, TypeOK, LinksInverse, Called, Operation

LEMMA NextInv == Inv /\ [Next]_vars => Inv'
<1> SUFFICES ASSUME Inv, [Next]_vars PROVE Inv'
  OBVIOUS
<1>1. lru \in List /\ WellLinked(lru) /\ call \in [op : Operation, record : Slot \cup {NULL, RC_OutOfSpace}]
  BY DEF Inv, TypeOK, LinksInverse
<1> SUFFICES lru' \in List /\ WellLinked(lru') /\ call' \in [op : Operation, record : Slot \cup {NULL, RC_OutOfSpace}]
  BY DEF Inv, TypeOK, LinksInverse
<1>2. CASE SelectToReplace
  <2>1. CASE IsEmpty(lru)
    BY <1>1, <1>2, <2>1 DEF SelectToReplace, Called, Operation
  <2>2. CASE ~IsEmpty(lru)
    <3>1. Victim(lru) \in Listed(lru)
      BY <1>1, <2>2, VictimLemma
    <3>2. lru' = RemoveSlot(lru, Victim(lru)) /\ call' = Called("selectToReplace", Victim(lru))
      BY <1>2, <2>2 DEF SelectToReplace
    <3>3. call' \in [op : Operation, record : Slot \cup {NULL, RC_OutOfSpace}]
      BY <3>1, <3>2 DEF Listed, Called, Operation
    <3> QED BY <1>1, <3>1, <3>2, <3>3, RemoveLemma
  <2> QED BY <2>1, <2>2
<1>3. ASSUME NEW s \in Slot, AddRecord(s)
      PROVE  lru' \in List /\ WellLinked(lru') /\ call' = Called("add", s)
  BY <1>1, <1>3, AddLemma DEF AddRecord
<1>4. ASSUME NEW s \in Slot, AddBackRecord(s)
      PROVE  lru' \in List /\ WellLinked(lru') /\ call' = Called("addback", s)
  BY <1>1, <1>4, AddBackLemma DEF AddBackRecord
<1>5. ASSUME NEW s \in Slot, RemoveRecord(s)
      PROVE  lru' \in List /\ WellLinked(lru') /\ call' = Called("remove", s)
  BY <1>1, <1>5, RemoveLemma DEF RemoveRecord
<1>6. CASE UNCHANGED vars
  BY <1>1, <1>6 DEF vars
<1> QED BY <1>2, <1>3, <1>4, <1>5, <1>6 DEF Next, Called, Operation

LEMMA SpecInv == Spec => []Inv
BY InitInv, NextInv, PTL DEF Spec

(* The replacer is always a list of records with a word for its counter,   *)
(* and every call names a record or an answer (LRUPageReplacer.cpp:18-50).            *)
THEOREM TypeCorrect == Spec => []TypeOK
<1>1. Inv => TypeOK
  BY DEF Inv
<1> QED BY <1>1, SpecInv, PTL

(* Every link is undone by the opposite one whatever order the operations  *)
(* come in (LRUPageReplacer.cpp:18-50).                                    *)
THEOREM LinksStayInverse == Spec => []LinksInverse
<1>1. Inv => LinksInverse
  BY DEF Inv
<1> QED BY <1>1, SpecInv, PTL

-----------------------------------------------------------------------------
(* The nodes of a list whose records are q: the sentinel at both ends. *)
Ext(q, i) == IF i \in 1..Len(q) THEN q[i] ELSE HEAD

Injective(q) == \A i, j \in 1..Len(q) : q[i] = q[j] => i = j

(* q names the records of l from the least to the most recently used. *)
Represents(q, l) ==
  /\ q \in Seq(Slot)
  /\ Injective(q)
  /\ Listed(l) = {q[i] : i \in 1..Len(q)}
  /\ \A i \in 0..Len(q) : /\ l.next[Ext(q, i)] = Ext(q, i+1)
                          /\ l.prev[Ext(q, i+1)] = Ext(q, i)

(* The nodes of a represented list are in their places. *)
LEMMA Places ==
  ASSUME NEW q \in Seq(Slot)
  PROVE  /\ Len(q) \in Nat
         /\ \A i \in 1..Len(q) : Ext(q, i) = q[i] /\ q[i] \in Slot
         /\ Ext(q, 0) = HEAD /\ Ext(q, Len(q)+1) = HEAD
         /\ \A i \in Int : Ext(q, i) \in Node
<1>1. Len(q) \in Nat /\ \A i \in 1..Len(q) : q[i] \in Slot
  OBVIOUS
<1> QED BY <1>1 DEF Ext, Node

-----------------------------------------------------------------------------
(* The constructor's list has no records. *)
LEMMA EmptyRepresents == Represents(<<>>, EmptyList)
<1>1. Listed(EmptyList) = {}
  BY EmptyListLemma
<1>2. EmptyList.next[HEAD] = HEAD /\ EmptyList.prev[HEAD] = HEAD
  BY DEF EmptyList, Node
<1>3. <<>> \in Seq(Slot) /\ Len(<<>>) = 0 /\ \A i \in Int : Ext(<<>>, i) = HEAD
  BY DEF Ext
<1>4. {<<>>[i] : i \in 1..Len(<<>>)} = {}
  BY <1>3
<1> QED BY <1>1, <1>2, <1>3, <1>4 DEF Represents, Injective

(* add appends. *)
LEMMA AddRepresents ==
  ASSUME NEW l \in List, WellLinked(l), NEW s \in Slot, s \notin Listed(l),
         NEW q, Represents(q, l)
  PROVE  Represents(Append(q, s), Add(l, s))
<1> DEFINE r == Append(q, s)
           m == Add(l, s)
           n == Len(q)
<1>1. /\ q \in Seq(Slot) /\ Injective(q) /\ Listed(l) = {q[i] : i \in 1..n}
      /\ \A i \in 0..n : l.next[Ext(q, i)] = Ext(q, i+1) /\ l.prev[Ext(q, i+1)] = Ext(q, i)
  BY DEF Represents
<1>2. /\ n \in Nat /\ r \in Seq(Slot) /\ Len(r) = n+1 /\ r[n+1] = s
      /\ \A i \in 1..n : r[i] = q[i] /\ q[i] \in Slot /\ q[i] # s
  BY <1>1
<1>3. Ext(r, n+1) = s /\ Ext(r, n+2) = HEAD /\ \A i \in 0..n : Ext(r, i) = Ext(q, i)
  BY <1>2 DEF Ext
<1>4. /\ Ext(q, 0) = HEAD /\ Ext(q, n+1) = HEAD
      /\ \A i \in 0..n : Ext(q, i) \in Node /\ Ext(q, i) # s
      /\ \A i \in 1..n : Ext(q, i) # HEAD
  BY <1>1, <1>2, Places, SlotAssumption
<1>5. l.prev[HEAD] = Ext(q, n)
  BY <1>1, <1>2, <1>4
<1>6. \A x \in Node :
         /\ m.next[x] = IF x = s THEN HEAD ELSE IF x = Ext(q, n) THEN s ELSE l.next[x]
         /\ m.prev[x] = IF x = HEAD THEN s ELSE IF x = s THEN Ext(q, n) ELSE l.prev[x]
  BY <1>2, <1>4, <1>5, SlotAssumption DEF Add, List, Node
<1> HIDE DEF m, r
<1>7. Listed(m) = Listed(l) \cup {s}
  BY AddLemma DEF m
<1>8. Listed(m) = {r[i] : i \in 1..Len(r)}
  <2>1. 1..Len(r) = (1..n) \cup {n+1}
    BY <1>2
  <2> QED BY <1>1, <1>2, <1>7, <2>1
<1>9. Injective(r)
  BY <1>1, <1>2 DEF Injective
<1>10. s \in Node /\ HEAD \in Node /\ s # HEAD
  BY SlotAssumption DEF Node
<1>11. ASSUME NEW i \in 0..Len(r)
       PROVE  m.next[Ext(r, i)] = Ext(r, i+1) /\ m.prev[Ext(r, i+1)] = Ext(r, i)
  <2>1. CASE i = n+1
    BY <1>2, <1>3, <1>6, <1>10, <2>1
  <2>2. CASE i = n
    BY <1>2, <1>3, <1>4, <1>6, <1>10, <2>2
  <2>3. CASE i \in 0..n-1
    <3>1. i \in 0..n /\ i+1 \in 1..n /\ i \in Int /\ i+1 \in 0..n
      BY <1>2, <2>3
    <3>2. Ext(r, i) = Ext(q, i) /\ Ext(r, i+1) = Ext(q, i+1) /\ Ext(q, i+1) # HEAD
      BY <1>3, <1>4, <3>1
    <3>3. Ext(q, i) # Ext(q, n)
      BY SMTT(30), <1>1, <1>2, <1>4, <2>3, <3>1, Places DEF Injective
    <3> QED BY <1>1, <1>4, <1>6, <3>1, <3>2, <3>3
  <2> QED BY <1>2, <2>1, <2>2, <2>3
<1> QED BY <1>2, <1>8, <1>9, <1>11 DEF Represents, r, m

(* addback puts in front. *)
LEMMA AddBackRepresents ==
  ASSUME NEW l \in List, WellLinked(l), NEW s \in Slot, s \notin Listed(l),
         NEW q, Represents(q, l)
  PROVE  Represents(<<s>> \o q, AddBack(l, s))
<1> DEFINE r == <<s>> \o q
           m == AddBack(l, s)
           n == Len(q)
<1>1. /\ q \in Seq(Slot) /\ Injective(q) /\ Listed(l) = {q[i] : i \in 1..n}
      /\ \A i \in 0..n : l.next[Ext(q, i)] = Ext(q, i+1) /\ l.prev[Ext(q, i+1)] = Ext(q, i)
  BY DEF Represents
<1>2. /\ n \in Nat /\ r \in Seq(Slot) /\ Len(r) = n+1 /\ r[1] = s
      /\ \A i \in 1..n : r[i+1] = q[i] /\ q[i] \in Slot /\ q[i] # s
  BY <1>1
<1>3. Ext(r, 0) = HEAD /\ Ext(r, 1) = s /\ \A i \in 1..n+1 : Ext(r, i+1) = Ext(q, i)
  BY <1>2 DEF Ext
<1>4. /\ Ext(q, 0) = HEAD /\ Ext(q, n+1) = HEAD
      /\ \A i \in 1..n+1 : Ext(q, i) \in Node /\ Ext(q, i) # s
      /\ \A i \in 1..n : Ext(q, i) # HEAD
  BY SMTT(30), <1>1, <1>2, Places, SlotAssumption
<1>5. l.next[HEAD] = Ext(q, 1)
  BY <1>1, <1>2, <1>4
<1>6. \A x \in Node :
         /\ m.next[x] = IF x = HEAD THEN s ELSE IF x = s THEN Ext(q, 1) ELSE l.next[x]
         /\ m.prev[x] = IF x = s THEN HEAD ELSE IF x = Ext(q, 1) THEN s ELSE l.prev[x]
  BY <1>2, <1>4, <1>5, SlotAssumption DEF AddBack, List, Node
<1> HIDE DEF m, r
<1>7. Listed(m) = Listed(l) \cup {s}
  BY AddBackLemma DEF m
<1>8. Listed(m) = {r[i] : i \in 1..Len(r)}
  <2>1. ASSUME NEW i \in 1..Len(r) PROVE i = 1 \/ (i-1 \in 1..n /\ r[i] = q[i-1])
    <3>1. i = 1 \/ (i-1 \in 1..n /\ (i-1)+1 = i)
      BY <1>2
    <3> QED BY <1>2, <3>1
  <2>2. ASSUME NEW i \in 1..n PROVE i+1 \in 1..Len(r)
    BY <1>2
  <2>3. 1 \in 1..Len(r)
    BY <1>2
  <2>4. ASSUME NEW x \in Listed(m) PROVE \E i \in 1..Len(r) : x = r[i]
    <3>1. CASE x = s
      BY <1>2, <2>3, <3>1
    <3>2. CASE x \in Listed(l)
      <4>1. PICK i \in 1..n : x = q[i]
        BY <1>1, <3>2
      <4> QED BY <1>2, <2>2, <4>1
    <3> QED BY <1>7, <3>1, <3>2
  <2>5. ASSUME NEW i \in 1..Len(r) PROVE r[i] \in Listed(m)
    BY <1>1, <1>2, <1>7, <2>1
  <2> QED BY <2>4, <2>5
<1>9. Injective(r)
  <2> SUFFICES ASSUME NEW i \in 1..Len(r), NEW j \in 1..Len(r), r[i] = r[j] PROVE i = j
    BY DEF Injective
  <2>1. \A k \in 1..Len(r) : k = 1 \/ (k-1 \in 1..n /\ r[k] = q[k-1])
    <3> TAKE k \in 1..Len(r)
    <3>1. k = 1 \/ (k-1 \in 1..n /\ (k-1)+1 = k)
      BY <1>2
    <3> QED BY <1>2, <3>1
  <2>2. i = 1 <=> j = 1
    BY <1>2, <2>1
  <2>3. CASE i = 1
    BY <2>2, <2>3
  <2>4. CASE i # 1
    <3>1. i-1 \in 1..n /\ j-1 \in 1..n /\ q[i-1] = q[j-1] /\ i \in Int /\ j \in Int
      BY <2>1, <2>2, <2>4
    <3>2. i-1 = j-1
      BY <1>1, <3>1 DEF Injective
    <3> QED BY <3>1, <3>2
  <2> QED BY <2>3, <2>4
<1>10. s \in Node /\ HEAD \in Node /\ s # HEAD
  BY SlotAssumption DEF Node
<1>11. ASSUME NEW i \in 0..Len(r)
       PROVE  m.next[Ext(r, i)] = Ext(r, i+1) /\ m.prev[Ext(r, i+1)] = Ext(r, i)
  <2>1. CASE i = 0
    BY <1>3, <1>6, <1>10, <2>1
  <2>2. CASE i = 1
    <3>1. Ext(r, 2) = Ext(q, 1) /\ Ext(q, 1) \in Node /\ Ext(q, 1) # s
      BY <1>2, <1>3, <1>4
    <3> QED BY <1>3, <1>6, <1>10, <2>2, <3>1
  <2>3. CASE i \in 2..n+1
    <3>1. i-1 \in 1..n /\ i \in 1..n+1 /\ (i-1)+1 = i /\ i-1 \in 0..n /\ i-1 \in 1..n+1
      BY <1>2, <2>3
    <3>2. Ext(r, i) = Ext(q, i-1) /\ Ext(r, i+1) = Ext(q, i) /\ Ext(q, i-1) # HEAD
      BY <1>3, <1>4, <3>1
    <3>3. Ext(q, i) # Ext(q, 1)
      <4>1. CASE i = n+1
        BY <1>2, <1>4, <2>3, <4>1
      <4>2. CASE i \in 2..n
        BY <1>1, <1>2, <4>2, Places DEF Injective
      <4> QED BY <1>2, <2>3, <4>1, <4>2
    <3>4. l.next[Ext(q, i-1)] = Ext(q, i) /\ l.prev[Ext(q, i)] = Ext(q, i-1)
      BY <1>1, <3>1
    <3> QED BY <1>4, <1>6, <3>1, <3>2, <3>3, <3>4
  <2> QED BY <1>2, <2>1, <2>2, <2>3
<1> QED BY <1>2, <1>8, <1>9, <1>11 DEF Represents, r, m

(* Whichever record is removed, the others keep their order. *)
LEMMA RemoveRepresents ==
  ASSUME NEW l \in List, WellLinked(l), NEW q, Represents(q, l), NEW k \in 1..Len(q)
  PROVE  Represents(SubSeq(q, 1, k-1) \o SubSeq(q, k+1, Len(q)), RemoveSlot(l, q[k]))
<1> DEFINE r == SubSeq(q, 1, k-1) \o SubSeq(q, k+1, Len(q))
           s == q[k]
           m == RemoveSlot(l, s)
           n == Len(q)
<1>1. /\ q \in Seq(Slot) /\ Injective(q) /\ Listed(l) = {q[i] : i \in 1..n}
      /\ \A i \in 0..n : l.next[Ext(q, i)] = Ext(q, i+1) /\ l.prev[Ext(q, i+1)] = Ext(q, i)
  BY DEF Represents
<1>2. /\ n \in Nat /\ r \in Seq(Slot) /\ Len(r) = n-1 /\ k \in Int /\ s \in Slot
      /\ \A i \in 1..n-1 : r[i] = IF i < k THEN q[i] ELSE q[i+1]
  <2>1. n \in Nat /\ k \in Int /\ s \in Slot
    BY <1>1
  <2>2. /\ SubSeq(q, 1, k-1) \in Seq(Slot) /\ Len(SubSeq(q, 1, k-1)) = k-1
        /\ \A i \in 1..k-1 : SubSeq(q, 1, k-1)[i] = q[i]
    BY <1>1, <2>1
  <2>3. /\ SubSeq(q, k+1, n) \in Seq(Slot) /\ Len(SubSeq(q, k+1, n)) = n-k
        /\ \A i \in 1..n-k : SubSeq(q, k+1, n)[i] = q[k+i]
    BY <1>1, <2>1
  <2> DEFINE u == SubSeq(q, 1, k-1)
             w == SubSeq(q, k+1, n)
  <2>4. r = u \o w
    OBVIOUS
  <2> HIDE DEF u, w, n, r
  <2>5. r \in Seq(Slot) /\ Len(r) = n-1
    BY <2>1, <2>2, <2>3, <2>4 DEF u, w
  <2>8. u \in Seq(Slot) /\ Len(u) = k-1 /\ w \in Seq(Slot) /\ Len(w) = n-k
    BY <2>2, <2>3 DEF u, w
  <2>6. \A i \in 1..n-1 : r[i] = IF i < k THEN u[i] ELSE w[i-(k-1)]
    <3>1. \A i \in 1..Len(u)+Len(w) : (u \o w)[i] = IF i <= Len(u) THEN u[i] ELSE w[i-Len(u)]
      BY <2>8
    <3>2. n \in Nat /\ k \in Int /\ Len(u)+Len(w) = n-1 /\ Len(u) = k-1
      BY <2>1, <2>8
    <3> TAKE i \in 1..n-1
    <3>3. i \in 1..Len(u)+Len(w) /\ (i <= Len(u) <=> i < k)
      BY <3>2
    <3> QED BY <2>4, <3>1, <3>2, <3>3
  <2>7. ASSUME NEW i \in 1..n-1 PROVE r[i] = IF i < k THEN q[i] ELSE q[i+1]
    <3>1. CASE i < k
      <4>1. i \in 1..k-1
        BY <2>1, <3>1
      <4> QED BY <2>2, <2>6, <3>1, <4>1 DEF u
    <3>2. CASE ~ (i < k)
      <4>1. i-(k-1) \in 1..n-k /\ k + (i-(k-1)) = i+1
        BY <2>1, <3>2
      <4> QED BY <2>3, <2>6, <3>2, <4>1 DEF w
    <3> QED BY <3>1, <3>2
  <2> QED BY <2>1, <2>5, <2>7
<1> HIDE DEF r
<1>3. \A i \in 0..n : Ext(r, i) = IF i < k THEN Ext(q, i) ELSE Ext(q, i+1)
  BY <1>2 DEF Ext
<1>4. /\ Ext(q, 0) = HEAD /\ Ext(q, n+1) = HEAD /\ Ext(q, k) = s
      /\ \A i \in 0..n+1 : Ext(q, i) \in Node
      /\ \A i \in 1..n : Ext(q, i) = q[i] /\ Ext(q, i) # HEAD
  BY <1>1, <1>2, Places, SlotAssumption
<1>5. \A i \in 1..n : \A j \in 0..n+1 : Ext(q, i) = Ext(q, j) => i = j
  <2> SUFFICES ASSUME NEW i \in 1..n, NEW j \in 0..n+1, Ext(q, i) = Ext(q, j) PROVE i = j
    OBVIOUS
  <2>1. Ext(q, i) # HEAD /\ j # 0 /\ j # n+1
    BY <1>4
  <2> HIDE DEF n
  <2>2. n \in Nat /\ j \in 0..n+1
    BY <1>2
  <2>3. j \in 1..n
    BY <2>1, <2>2
  <2>4. q[i] = q[j]
    BY <1>4, <2>3
  <2> QED BY <1>1, <2>3, <2>4 DEF Injective, n
<1>6. s \in Listed(l)
  BY <1>1
<1>7. /\ k-1 \in 0..n /\ k \in 0..n /\ (k-1)+1 = k
      /\ l.prev[s] = Ext(q, k-1) /\ l.next[s] = Ext(q, k+1)
  BY <1>1, <1>2, <1>4
<1>8. \A x \in Node :
         /\ m.next[x] = IF x = s THEN NULL ELSE IF x = Ext(q, k-1) THEN Ext(q, k+1) ELSE l.next[x]
         /\ m.prev[x] = IF x = s THEN NULL ELSE IF x = Ext(q, k+1) THEN Ext(q, k-1) ELSE l.prev[x]
  BY <1>2, <1>4, <1>7 DEF RemoveSlot, List
<1> HIDE DEF m
<1>9. Listed(m) = Listed(l) \ {s}
  BY <1>6, RemoveLemma DEF m
<1> HIDE DEF s
<1>10. Listed(m) = {r[i] : i \in 1..Len(r)}
  <2>1. ASSUME NEW x \in Listed(m) PROVE \E i \in 1..Len(r) : x = r[i]
    <3>1. PICK j \in 1..n : x = q[j]
      BY <1>1, <1>9
    <3>2. j # k
      BY <1>9, <3>1 DEF s
    <3>3. CASE j < k
      <4>1. j \in 1..n-1
        BY <1>2, <3>3
      <4> QED BY <1>2, <3>1, <3>3, <4>1
    <3>4. CASE j > k
      <4>1. j-1 \in 1..n-1 /\ ~ (j-1 < k) /\ (j-1)+1 = j
        BY <1>2, <3>4
      <4> QED BY <1>2, <3>1, <4>1
    <3>5. j \in Int
      OBVIOUS
    <3> QED BY <1>2, <3>2, <3>3, <3>4, <3>5
  <2>2. ASSUME NEW i \in 1..Len(r) PROVE r[i] \in Listed(m)
    <3>1. \E j \in 1..n : r[i] = q[j] /\ j # k
      <4>1. i \in 1..n /\ i+1 \in 1..n /\ (i < k => i # k) /\ (~(i < k) => i+1 # k)
        BY <1>2
      <4> QED BY <1>2, <4>1
    <3>2. PICK j \in 1..n : r[i] = q[j] /\ j # k
      BY <3>1
    <3>3. q[j] # s
      BY <1>1, <3>2 DEF Injective, s
    <3> QED BY <1>1, <1>9, <3>2, <3>3
  <2> QED BY <2>1, <2>2
<1>11. Injective(r)
  <2> SUFFICES ASSUME NEW i \in 1..Len(r), NEW j \in 1..Len(r), r[i] = r[j] PROVE i = j
    BY DEF Injective
  <2> DEFINE at(h) == IF h < k THEN h ELSE h+1
  <2>1. at(i) \in 1..n /\ at(j) \in 1..n /\ i \in Int /\ j \in Int
    BY <1>2
  <2>2. q[at(i)] = q[at(j)]
    BY <1>2
  <2>3. at(i) = at(j)
    <3> HIDE DEF at
    <3> QED BY <1>1, <2>1, <2>2 DEF Injective
  <2> QED BY <1>2, <2>1, <2>3
<1>12. ASSUME NEW i \in 0..Len(r)
       PROVE  m.next[Ext(r, i)] = Ext(r, i+1) /\ m.prev[Ext(r, i+1)] = Ext(r, i)
  <2>1. i \in 0..n /\ i+1 \in 0..n /\ i \in Int /\ i+1 \in 0..n+1 /\ i+2 \in 0..n+1 /\ k-1 \in 0..n+1 /\ k+1 \in 0..n+1
    BY <1>2
  <2>2. CASE i < k-1
    <3>1. Ext(r, i) = Ext(q, i) /\ Ext(r, i+1) = Ext(q, i+1)
      BY <1>2, <1>3, <2>1, <2>2
    <3>2. Ext(q, i) # s /\ Ext(q, i+1) # s
      BY <1>2, <1>4, <1>5, <2>1, <2>2
    <3>3. Ext(q, i) # Ext(q, k-1)
      BY <1>2, <1>5, <2>1, <2>2
    <3>4. Ext(q, i+1) # Ext(q, k+1)
      BY <1>2, <1>5, <2>1, <2>2
    <3> QED BY <1>1, <1>4, <1>8, <2>1, <3>1, <3>2, <3>3, <3>4
  <2>3. CASE i = k-1
    <3>1. Ext(r, i) = Ext(q, k-1) /\ Ext(r, i+1) = Ext(q, k+1)
      BY <1>2, <1>3, <2>1, <2>3
    <3>2. Ext(q, k-1) # s /\ Ext(q, k+1) # s
      BY SMTT(30), <1>2, <1>4, <1>5, <2>1
    <3> QED BY <1>4, <1>8, <2>1, <3>1, <3>2
  <2>4. CASE i >= k
    <3>1. Ext(r, i) = Ext(q, i+1) /\ Ext(r, i+1) = Ext(q, i+2)
      BY <1>2, <1>3, <2>1, <2>4
    <3>2. Ext(q, i+1) # s /\ Ext(q, i+2) # s
      BY <1>2, <1>4, <1>5, <2>1, <2>4
    <3>3. Ext(q, i+1) # Ext(q, k-1)
      BY <1>2, <1>5, <2>1, <2>4
    <3>4. Ext(q, i+2) # Ext(q, k+1)
      BY <1>2, <1>5, <2>1, <2>4
    <3>5. l.next[Ext(q, i+1)] = Ext(q, i+2) /\ l.prev[Ext(q, i+2)] = Ext(q, i+1)
      BY <1>1, <2>1
    <3> QED BY <1>4, <1>8, <2>1, <3>1, <3>2, <3>3, <3>4, <3>5
  <2> QED BY <1>2, <2>1, <2>2, <2>3, <2>4
<1> QED BY <1>2, <1>10, <1>11, <1>12 DEF Represents, r, s, m

-----------------------------------------------------------------------------
(* A walk along links that lead through q from the sentinel back to it,    *)
(* with time enough, meets the records of q and nothing else.              *)
LEMMA WalkMeets ==
  ASSUME NEW q \in Seq(Slot), NEW f, NEW n \in Nat, Len(q) <= n,
         \A i \in 0..Len(q) : f[Ext(q, i)] = Ext(q, i+1)
  PROVE  Walk(f, n) = q
<1> DEFINE L == Len(q)
           last(k) == IF k <= L THEN k ELSE L
           h == [k \in 0..n |-> [at |-> Ext(q, last(k)+1), seen |-> SubSeq(q, 1, last(k))]]
           step(k, g) == IF k = 0 THEN [at |-> f[HEAD], seen |-> <<>>]
                         ELSE IF g[k-1].at \in {HEAD, NULL} THEN g[k-1]
                         ELSE [at |-> f[g[k-1].at], seen |-> Append(g[k-1].seen, g[k-1].at)]
           walk == CHOOSE g : g = [k \in 0..n |-> step(k, g)]
<1>1. L \in Nat /\ Ext(q, 0) = HEAD /\ Ext(q, L+1) = HEAD /\ \A i \in 1..L : Ext(q, i) = q[i] /\ q[i] \in Slot
  BY Places
<1>2. \A k \in 0..n : h[k] = [at |-> Ext(q, last(k)+1), seen |-> SubSeq(q, 1, last(k))]
  OBVIOUS
<1>3. \A k \in 0..n : last(k) \in 0..L
  BY <1>1
<1>4. ASSUME NEW k \in 0..n, NEW g, k # 0 => g[k-1] = h[k-1]
      PROVE  step(k, g) = h[k]
  <2>1. CASE k = 0
    <3>1. SubSeq(q, 1, 0) = <<>> /\ last(0) = 0 /\ 0 \in 0..L
      BY <1>1
    <3>2. h[0] = [at |-> Ext(q, 1), seen |-> <<>>]
      BY <1>2, <2>1, <3>1
    <3>3. f[HEAD] = Ext(q, 1)
      BY <1>1, <3>1
    <3> HIDE DEF h
    <3> QED BY <2>1, <3>2, <3>3
  <2>2. CASE k # 0
    <3>1. k-1 \in 0..n /\ k \in Nat /\ (k-1)+1 = k
      BY <2>2
    <3>2. g[k-1].at = Ext(q, last(k-1)+1) /\ g[k-1].seen = SubSeq(q, 1, last(k-1))
      <4>1. g[k-1] = [at |-> Ext(q, last(k-1)+1), seen |-> SubSeq(q, 1, last(k-1))]
        BY <1>2, <1>4, <2>2, <3>1
      <4> QED BY <4>1
    <3>3. CASE k <= L
      <4>1. last(k-1) = k-1 /\ last(k) = k /\ k \in 1..L
        BY <1>1, <3>1, <3>3
      <4>2. g[k-1].at = q[k] /\ q[k] \in Slot /\ g[k-1].seen = SubSeq(q, 1, k-1)
        BY <1>1, <3>1, <3>2, <4>1
      <4>3. Append(SubSeq(q, 1, k-1), q[k]) = SubSeq(q, 1, k)
        BY <4>1
      <4>4. f[q[k]] = Ext(q, k+1)
        BY <1>1, <4>1
      <4>5. h[k] = [at |-> Ext(q, k+1), seen |-> SubSeq(q, 1, k)]
        BY <1>2, <4>1
      <4>6. q[k] \notin {HEAD, NULL}
        BY <4>2, SlotAssumption
      <4> HIDE DEF h, last
      <4> QED BY <2>2, <4>2, <4>3, <4>4, <4>5, <4>6
    <3>4. CASE ~ (k <= L)
      <4>1. last(k-1) = L /\ last(k) = L
        BY <1>1, <3>1, <3>4
      <4>2. g[k-1].at = HEAD
        BY <1>1, <3>2, <4>1
      <4>3. g[k-1] = h[k-1] /\ h[k-1] = h[k]
        BY <1>2, <1>4, <2>2, <3>1, <4>1
      <4> HIDE DEF h, last
      <4> QED BY <2>2, <4>2, <4>3
    <3> QED BY <3>3, <3>4
  <2> QED BY <2>1, <2>2
<1> HIDE DEF step, h
<1>5. h = [k \in 0..n |-> step(k, h)]
  <2>1. \A k \in 0..n : step(k, h) = h[k]
    BY <1>4
  <2>2. h = [k \in 0..n |-> h[k]]
    BY DEF h
  <2> QED BY <2>1, <2>2
<1>6. walk = [k \in 0..n |-> step(k, walk)]
  <2>1. \E g : g = [k \in 0..n |-> step(k, g)]
    BY <1>5
  <2> QED BY <2>1
<1> HIDE DEF walk
<1>7. \A k \in 0..n : walk[k] = h[k]
  <2> DEFINE S == {k \in 0..n : walk[k] = h[k]}
  <2>1. \A k \in 0..n : walk[k] = step(k, walk)
    BY <1>6
  <2>2. 0 \in S
    BY <1>4, <2>1
  <2>3. \A k \in 1..n : k-1 \in S => k \in S
    BY <1>4, <2>1
  <2>4. \A k \in 0..n : k \in S
    <3> HIDE DEF S
    <3> QED BY SMTT(30), <2>2, <2>3, UpTo
  <2> QED BY <2>4
<1>8. h[n].seen = q
  <2>1. last(n) = L /\ SubSeq(q, 1, L) = q
    BY <1>1
  <2>2. h[n] = [at |-> Ext(q, last(n)+1), seen |-> SubSeq(q, 1, last(n))]
    BY <1>2
  <2> HIDE DEF h, last
  <2> QED BY <2>1, <2>2
<1>9. Walk(f, n) = walk[n].seen
  BY DEF Walk, walk, step
<1> QED BY <1>7, <1>8, <1>9

(* As many records wait as the sequence names. *)
LEMMA ListedCount ==
  ASSUME NEW l, NEW q, Represents(q, l)
  PROVE  /\ Cardinality(Listed(l)) = Len(q)
         /\ Cardinality(Slot) \in Nat
         /\ Len(q) <= Cardinality(Slot) + 1
<1> DEFINE n == Len(q)
           g == [i \in 1..n |-> q[i]]
<1>1. q \in Seq(Slot) /\ Injective(q) /\ Listed(l) = {q[i] : i \in 1..n} /\ n \in Nat
  BY DEF Represents
<1>2. g \in Bijection(1..n, Listed(l))
  BY <1>1 DEF Injective, Bijection, Injection, Surjection, IsInjective
<1>3. IsFiniteSet(1..n) /\ Cardinality(1..n) = n
  BY <1>1, FS_Interval
<1>4. ExistsBijection(1..n, Listed(l))
  BY <1>2 DEF ExistsBijection
<1>5. Cardinality(Listed(l)) = n
  BY <1>3, <1>4, FS_Bijection
<1>6. Listed(l) \in SUBSET Slot
  BY DEF Listed
<1>7. Cardinality(Listed(l)) <= Cardinality(Slot) /\ Cardinality(Slot) \in Nat
  BY <1>6, SlotFinite, FS_Subset, FS_CardinalityType
<1>8. n <= Cardinality(Slot) + 1
  <2> HIDE DEF n
  <2> QED BY <1>1, <1>5, <1>7
<1> QED BY <1>5, <1>7, <1>8

(* The walk forward of a represented list is the sequence. *)
LEMMA OrderIs ==
  ASSUME NEW l, NEW q, Represents(q, l)
  PROVE  Order(l) = q
<1>1. q \in Seq(Slot) /\ \A i \in 0..Len(q) : l.next[Ext(q, i)] = Ext(q, i+1)
  BY DEF Represents
<1>2. Cardinality(Slot) + 1 \in Nat /\ Len(q) <= Cardinality(Slot) + 1
  BY ListedCount
<1> QED BY <1>1, <1>2, WalkMeets DEF Order

(* The walk backward is the sequence read from its end. *)
LEMMA BackwardIs ==
  ASSUME NEW l, NEW q, Represents(q, l)
  PROVE  /\ Len(Walk(l.prev, Cardinality(Slot) + 1)) = Len(q)
         /\ \A i \in 1..Len(q) : Walk(l.prev, Cardinality(Slot) + 1)[Len(q) + 1 - i] = q[i]
<1> DEFINE n == Len(q)
           r == [i \in 1..n |-> q[n+1-i]]
<1>1. q \in Seq(Slot) /\ n \in Nat /\ \A i \in 0..n : l.prev[Ext(q, i+1)] = Ext(q, i)
  BY DEF Represents
<1>2. r \in Seq(Slot) /\ Len(r) = n /\ \A i \in 1..n : r[i] = q[n+1-i]
  BY <1>1
<1> HIDE DEF r, n
<1>3. \A i \in 0..n+1 : Ext(r, i) = Ext(q, n+1-i)
  <2> TAKE i \in 0..n+1
  <2>1. CASE i \in 1..n
    <3>1. n+1-i \in 1..n
      BY <1>1, <2>1
    <3> QED BY <1>2, <2>1, <3>1 DEF Ext, n
  <2>2. CASE i \notin 1..n
    <3>1. n+1-i \notin 1..n
      BY <1>1, <2>2
    <3> QED BY <1>2, <2>2, <3>1 DEF Ext, n
  <2> QED BY <2>1, <2>2
<1>4. ASSUME NEW i \in 0..Len(r) PROVE l.prev[Ext(r, i)] = Ext(r, i+1)
  <2>1. i \in 0..n+1 /\ i+1 \in 0..n+1 /\ n-i \in 0..n /\ n+1-i = (n-i)+1 /\ n+1-(i+1) = n-i
    BY <1>1, <1>2
  <2>2. Ext(r, i) = Ext(q, (n-i)+1) /\ Ext(r, i+1) = Ext(q, n-i)
    BY <1>3, <2>1
  <2> QED BY <1>1, <2>1, <2>2
<1>5. Cardinality(Slot) + 1 \in Nat /\ Len(r) <= Cardinality(Slot) + 1
  BY <1>2, ListedCount DEF n
<1>6. Walk(l.prev, Cardinality(Slot) + 1) = r
  BY <1>2, <1>4, <1>5, WalkMeets
<1>7. ASSUME NEW i \in 1..n PROVE r[n+1-i] = q[i]
  <2>1. n+1-i \in 1..n /\ n+1-(n+1-i) = i
    BY <1>1
  <2> QED BY <1>2, <2>1
<1> QED BY <1>2, <1>6, <1>7 DEF n


-----------------------------------------------------------------------------
(* With the links, the walk forward is a sequence that represents them. *)
QInv == Inv /\ Represents(Order(lru), lru)

LEMMA RepresentedIsOrdered ==
  ASSUME NEW l, NEW q, Represents(q, l)
  PROVE  Represents(Order(l), l) /\ Order(l) = q
BY OrderIs

LEMMA QueueInit == Init => QInv /\ Abstract!Init
<1> SUFFICES ASSUME Init PROVE QInv /\ Abstract!Init
  OBVIOUS
<1>1. Inv /\ lru = EmptyList /\ call = Called("new", NULL)
  BY InitInv DEF Init
<1>2. Represents(Order(lru), lru) /\ Order(lru) = <<>>
  BY <1>1, EmptyRepresents, RepresentedIsOrdered
<1> QED BY <1>1, <1>2 DEF QInv, Abstract!Init, Abstract!Called, Called

(* Who waits in the queue is who is listed. *)
LEMMA WaitingListed ==
  ASSUME NEW q, Represents(q, lru), Order(lru) = q
  PROVE  Abstract!Waiting = Listed(lru)
<1>1. q \in Seq(Slot) /\ Listed(lru) = {q[i] : i \in 1..Len(q)}
  BY DEF Represents
<1>2. DOMAIN q = 1..Len(q)
  BY <1>1
<1> QED BY <1>1, <1>2 DEF Abstract!Waiting

(* Each operation of the list is the queue's. *)
LEMMA QueueNext ==
  QInv /\ [Next]_vars => Represents(Order(lru), lru)' /\ [Abstract!Next]_<<Order(lru), call>>
<1> SUFFICES ASSUME QInv, [Next]_vars
             PROVE  /\ Represents(Order(lru'), lru')
                    /\ Abstract!Next \/ (Order(lru') = Order(lru) /\ call' = call)
  OBVIOUS
<1> DEFINE q == Order(lru)
<1>1. lru \in List /\ WellLinked(lru) /\ Represents(q, lru)
  BY DEF QInv, Inv, TypeOK, LinksInverse
<1>2. q \in Seq(Slot) /\ Len(q) \in Nat /\ DOMAIN q = 1..Len(q)
  BY <1>1 DEF Represents
<1>3. Abstract!Waiting = Listed(lru)
  BY <1>1, WaitingListed
<1>4. ASSUME NEW r, Represents(r, lru')
      PROVE  Represents(Order(lru'), lru') /\ Order(lru') = r
  BY <1>4, RepresentedIsOrdered
<1>5. lru.next[HEAD] = Ext(q, 1) /\ \A s \in Listed(lru) : \E i \in 1..Len(q) : q[i] = s
  <2>1. 0 \in 0..Len(q) /\ Ext(q, 0) = HEAD /\ 0+1 = 1
    BY <1>2, Places
  <2> QED BY <1>1, <2>1 DEF Represents
<1> HIDE DEF q
<1>6. CASE SelectToReplace
  <2>1. CASE IsEmpty(lru)
    <3>1. q = <<>>
      <4>1. Ext(q, 1) = HEAD
        BY <1>5, <2>1 DEF IsEmpty
      <4>2. 1 \notin 1..Len(q)
        BY <1>2, <4>1, Places, SlotAssumption
      <4>3. Len(q) = 0
        BY <1>2, <4>2
      <4> QED BY <1>2, <4>3
    <3>2. lru' = lru /\ call' = Called("selectToReplace", RC_OutOfSpace)
      BY <1>6, <2>1 DEF SelectToReplace
    <3>3. Order(lru') = Order(lru) /\ Represents(Order(lru'), lru')
      BY <1>1, <3>2 DEF q
    <3>4. Abstract!Refuse
      BY <3>1, <3>2, <3>3 DEF Abstract!Refuse, Abstract!Called, Called, q
    <3> QED BY <3>3, <3>4 DEF Abstract!Next
  <2>2. CASE ~IsEmpty(lru)
    <3>1. Ext(q, 1) # HEAD
      BY <1>5, <2>2 DEF IsEmpty
    <3>2. 1 \in 1..Len(q) /\ Ext(q, 1) = q[1]
      BY <3>1 DEF Ext
    <3>3. lru' = RemoveSlot(lru, q[1]) /\ call' = Called("selectToReplace", q[1])
      BY <1>5, <1>6, <2>2, <3>2 DEF SelectToReplace, Victim
    <3>4. Represents(SubSeq(q, 1, 1-1) \o SubSeq(q, 1+1, Len(q)), lru')
      BY <1>1, <3>2, <3>3, RemoveRepresents
    <3>5. SubSeq(q, 1, 1-1) \o SubSeq(q, 1+1, Len(q)) = Tail(q)
      BY <1>2, <3>2
    <3>6. Represents(Order(lru'), lru') /\ Order(lru') = Tail(q)
      BY <1>4, <3>4, <3>5
    <3>7. q # <<>> /\ Head(q) = q[1]
      BY <1>2, <3>2
    <3>8. Abstract!Dequeue
      BY <3>3, <3>6, <3>7 DEF Abstract!Dequeue, Abstract!Called, Called, q
    <3> QED BY <3>6, <3>8 DEF Abstract!Next
  <2> QED BY <2>1, <2>2
<1>7. ASSUME NEW s \in Slot, AddRecord(s)
      PROVE  Represents(Order(lru'), lru') /\ Abstract!Enqueue(s)
  <2>1. s \notin Listed(lru) /\ lru' = Add(lru, s) /\ call' = Called("add", s)
    BY <1>7 DEF AddRecord
  <2>2. Represents(Append(q, s), lru')
    BY <1>1, <2>1, AddRepresents
  <2>3. Represents(Order(lru'), lru') /\ Order(lru') = Append(q, s)
    BY <1>4, <2>2
  <2> QED BY <1>3, <2>1, <2>3 DEF Abstract!Enqueue, Abstract!Called, Called, q
<1>8. ASSUME NEW s \in Slot, AddBackRecord(s)
      PROVE  Represents(Order(lru'), lru') /\ Abstract!GiveBack(s)
  <2>1. s \notin Listed(lru) /\ lru' = AddBack(lru, s) /\ call' = Called("addback", s)
    BY <1>8 DEF AddBackRecord
  <2>2. Represents(<<s>> \o q, lru')
    BY <1>1, <2>1, AddBackRepresents
  <2>3. Represents(Order(lru'), lru') /\ Order(lru') = <<s>> \o q
    BY <1>4, <2>2
  <2> QED BY <1>3, <2>1, <2>3 DEF Abstract!GiveBack, Abstract!Called, Called, q
<1>9. ASSUME NEW s \in Slot, RemoveRecord(s)
      PROVE  Represents(Order(lru'), lru') /\ Abstract!Leave(s)
  <2>1. s \in Listed(lru) /\ lru' = RemoveSlot(lru, s) /\ call' = Called("remove", s)
    BY <1>9 DEF RemoveRecord
  <2>2. PICK i \in 1..Len(q) : q[i] = s
    BY <1>5, <2>1
  <2>3. Represents(SubSeq(q, 1, i-1) \o SubSeq(q, i+1, Len(q)), lru')
    BY <1>1, <2>1, <2>2, RemoveRepresents
  <2>4. Represents(Order(lru'), lru') /\ Order(lru') = Abstract!RemoveAt(q, i)
    BY <1>4, <2>3 DEF Abstract!RemoveAt
  <2> QED BY <1>2, <2>1, <2>2, <2>4 DEF Abstract!Leave, Abstract!Called, Called, q
<1>10. CASE UNCHANGED vars
  <2>1. lru' = lru /\ call' = call
    BY <1>10 DEF vars
  <2> QED BY <1>1, <2>1 DEF q
<1> QED BY <1>6, <1>7, <1>8, <1>9, <1>10 DEF Next, Abstract!Next

LEMMA SpecQInv == Spec => []QInv
<1>1. Init => QInv
  BY QueueInit
<1>2. QInv /\ [Next]_vars => QInv'
  BY NextInv, QueueNext DEF QInv
<1> QED BY <1>1, <1>2, PTL DEF Spec

(* Forward and backward walks meet the same records, each once and none    *)
(* but the listed ones, all of them, whatever order the operations come in *)
(* (LRUPageReplacer.cpp:18-50).                                            *)
THEOREM WalksAlwaysAgree == Spec => []WalksAgree
<1>1. QInv => WalksAgree
  <2> SUFFICES ASSUME QInv PROVE WalksAgree
    OBVIOUS
  <2> DEFINE q == Order(lru)
  <2>1. Represents(q, lru)
    BY DEF QInv
  <2>2. Len(q) = Cardinality(Listed(lru))
    BY <2>1, ListedCount
  <2>3. /\ Len(Walk(lru.prev, Cardinality(Slot) + 1)) = Len(q)
        /\ \A i \in 1..Len(q) : Walk(lru.prev, Cardinality(Slot) + 1)[Len(q) + 1 - i] = q[i]
    BY <2>1, BackwardIs
  <2>4. Injective(q) /\ Listed(lru) = {q[i] : i \in 1..Len(q)}
    BY <2>1 DEF Represents
  <2> QED BY Zenon, <2>2, <2>3, <2>4 DEF WalksAgree, Injective
<1> QED BY <1>1, SpecQInv, PTL

(* The pointer list is the queue: the same calls are possible and the same *)
(* victims come out (LRUPageReplacer.cpp:17-50).                           *)
THEOREM ListImplementsQueue == Spec => ImplementsQueue
<1>1. Init => Abstract!Init
  BY QueueInit
<1>2. QInv /\ [Next]_vars => [Abstract!Next]_<<Order(lru), call>>
  BY QueueNext
<1> QED BY <1>1, <1>2, SpecQInv, PTL DEF Spec, ImplementsQueue, Abstract!Spec
=============================================================================
