------------------------ MODULE BufferManagerProofs ------------------------
(***************************************************************************)
(* The buffer keeps its promises for every number of slots and pages and   *)
(* every content, as long as no caller disposes a page that is already on  *)
(* the list.                                                               *)
(*                                                                         *)
(* The first part has the buffer's own invariant, Inv, and what follows    *)
(* from it about slots, hash table and list.  The second shows that the    *)
(* buffer implements the pool of frames (PagePoolSpec) and the page layer  *)
(* the store (PageStore): a step of the pool keeps PoolSafe, changes what  *)
(* a reader sees in the one way the store allows, and writes nothing to    *)
(* the disk but what was seen; and each action of BufferManager is a step  *)
(* of the pool.                                                            *)
(***************************************************************************)
EXTENDS BufferManagerHistory, OperatorProofs

(* A page of the pool is allocated, or lies past the bitmap where only an  *)
(* overwriting caller can have put it.                                     *)
Held(p) == p \in file.header \/ (p = NumBits /\ p \in OverwritePIDs)

SlotGood(s) ==
  /\ pinCount[s] > 0 => s \notin Listed(lru) /\ pid[s] \in PID
  /\ pinCount[s] = 0 /\ s \notin Listed(lru) => pid[s] = NumBits
  /\ pid[s] \in PID => Held(pid[s])
  /\ dirty[s] => pid[s] \in PID
  /\ pid[s] \in PID /\ object[s] # NULL => object[s] = pid[s]

StorageInv == FileGood(file) /\ DiskGood(disk)
ListInv == lru \in List /\ WellLinked(lru)
SlotTypes ==
  /\ pid \in [Slot -> PID \cup {INVALID_PID}]
  /\ dirty \in [Slot -> BOOLEAN]
  /\ pinCount \in [Slot -> Nat]
  /\ image \in [Slot -> Image]
  /\ object \in [Slot -> PID \cup {INVALID_PID, NULL}]
  /\ pageHash \in [PID -> Slot \cup {NULL}]
PhaseInv ==
  /\ phase \in Phase
  /\ todo \in SUBSET PID
  /\ \A p \in todo : Cached(p)
  /\ phase # "flushing" => todo = {}
  /\ phase = "header" => disk.size >= NumHeaderPages + file.numContentPages
  /\ phase = "down" => \A s \in Slot : pid[s] = INVALID_PID
ResultInv == result \in [op : Call, rc : Code]

Inv ==
  /\ StorageInv
  /\ ListInv
  /\ SlotTypes
  /\ HashMatchesSlots
  /\ \A s \in Slot : SlotGood(s)
  /\ PhaseInv
  /\ ResultInv

LEMMA InvalidPID == INVALID_PID \notin PID /\ NumBits \in PID /\ Page \subseteq PID
BY NumBitsAssumption DEF INVALID_PID, PID, Page

(* The constructor's list: every slot, in the order of the array. *)
LEMMA FreshListLemma ==
  FreshList \in List /\ WellLinked(FreshList) /\ Listed(FreshList) = Slot
<1> USE NumSlotsAssumption
<1> DEFINE l == FreshList
<1>1. l.count \in 0..CountMod-1
  BY CountWraps DEF FreshList
<1>2. /\ HEAD \notin 1..NumSlots /\ NULL \notin 1..NumSlots /\ HEAD # NULL
      /\ Slot = 1..NumSlots /\ Node = 1..NumSlots \cup {HEAD} /\ NumSlots \in Nat /\ NumSlots >= 1
  BY SlotAssumption DEF Node
<1>3. /\ l.next[HEAD] = 1
      /\ l.next[NumSlots] = HEAD
      /\ \A x \in 1..NumSlots : x # NumSlots => l.next[x] = x + 1
      /\ l.prev[HEAD] = NumSlots
      /\ l.prev[1] = HEAD
      /\ \A x \in 1..NumSlots : x # 1 => l.prev[x] = x - 1
  BY <1>2 DEF FreshList
<1>4. l = [next |-> l.next, prev |-> l.prev, count |-> l.count]
      /\ DOMAIN l.next = Node /\ DOMAIN l.prev = Node
      /\ l.next = [x \in Node |-> l.next[x]] /\ l.prev = [x \in Node |-> l.prev[x]]
  BY DEF FreshList
<1> HIDE DEF l
<1>5. \A x \in Node : l.next[x] \in Node /\ l.prev[x] \in Node
  <2> TAKE x \in Node
  <2>1. CASE x = HEAD
    BY <1>2, <1>3, <2>1
  <2>2. CASE x \in 1..NumSlots /\ x # NumSlots
    <3>1. l.next[x] \in 1..NumSlots
      BY <1>2, <1>3, <2>2
    <3>2. l.prev[x] \in Node
      BY <1>2, <1>3, <2>2
    <3> QED BY <1>2, <3>1, <3>2
  <2>3. CASE x = NumSlots
    BY <1>2, <1>3, <2>3
  <2> QED BY <1>2, <2>1, <2>2, <2>3
<1>6. \A x \in Node : l.prev[l.next[x]] = x /\ l.next[l.prev[x]] = x
  <2> TAKE x \in Node
  <2>1. CASE x = HEAD
    BY <1>2, <1>3, <2>1
  <2>2. ASSUME x \in 1..NumSlots
        PROVE  l.prev[l.next[x]] = x
    <3>1. CASE x = NumSlots
      BY <1>3, <3>1
    <3>2. CASE x # NumSlots
      BY <1>2, <1>3, <2>2, <3>2
    <3> QED BY <3>1, <3>2
  <2>3. ASSUME x \in 1..NumSlots
        PROVE  l.next[l.prev[x]] = x
    <3>1. CASE x = 1
      BY <1>3, <3>1
    <3>2. CASE x # 1
      BY <1>2, <1>3, <2>3, <3>2
    <3> QED BY <3>1, <3>2
  <2> QED BY <1>2, <2>1, <2>2, <2>3
<1>7. l.next \in [Node -> Node \cup {NULL}] /\ l.prev \in [Node -> Node \cup {NULL}]
  BY <1>4, <1>5
<1>8. l \in List
  BY <1>1, <1>4, <1>7 DEF List
<1>9. Listed(l) = Slot
  BY <1>2, <1>5 DEF Listed
<1>10. WellLinked(l)
  <2>1. Listed(l) \cup {HEAD} = Node /\ HEAD \in Node /\ NULL \notin Node
    BY <1>2, <1>9
  <2>2. l.next[HEAD] # NULL
    BY <1>5, <2>1
  <2> QED BY <1>5, <1>6, <2>1, <2>2 DEF WellLinked
<1> QED BY <1>8, <1>9, <1>10 DEF l

-----------------------------------------------------------------------------
(* A process that has gone leaves what the next one's constructors set up. *)
LEMMA MemoryGoneLemma ==
  ASSUME Inv, MemoryGone, DiskGood(disk'), result' \in [op : Call, rc : Code]
  PROVE  Inv'
<1>1. /\ file' = Created
      /\ lru' = FreshList
      /\ pid' = [s \in Slot |-> INVALID_PID]
      /\ dirty' = [s \in Slot |-> FALSE]
      /\ pinCount' = [s \in Slot |-> 0]
      /\ image' = [s \in Slot |-> ZeroImage]
      /\ object' = [s \in Slot |-> NULL]
      /\ pageHash' = [p \in PID |-> NULL]
      /\ todo' = {}
      /\ phase' = "down"
  BY DEF MemoryGone
<1>2. StorageInv'
  BY <1>1, CreatedLemma DEF StorageInv, FileGood, DiskGood, InFile
<1>3. ListInv' /\ Listed(lru') = Slot
  BY <1>1, FreshListLemma DEF ListInv
<1>4. SlotTypes'
  BY <1>1, ImageAssumption DEF SlotTypes
<1>5. HashMatchesSlots'
  BY <1>1, InvalidPID DEF HashMatchesSlots, Cached
<1>6. ASSUME NEW s \in Slot PROVE SlotGood(s)'
  <2>1. pid'[s] = INVALID_PID /\ pinCount'[s] = 0 /\ ~dirty'[s] /\ s \in Listed(lru')
    BY <1>1, <1>3
  <2> QED BY <2>1, InvalidPID DEF SlotGood, Listed
<1>7. PhaseInv'
  BY <1>1 DEF PhaseInv, Phase
<1> QED BY <1>2, <1>3, <1>4, <1>5, <1>6, <1>7 DEF Inv, ResultInv

LEMMA InitInv == Init => Inv
<1> SUFFICES ASSUME Init PROVE Inv
  OBVIOUS
<1> USE NumHeaderPagesAssumption, NumBitsAssumption, WordModAssumption, ImageAssumption
<1>1. /\ file = Created
      /\ disk = [size |-> 0, header |-> {}, page |-> [p \in Page |-> ZeroImage]]
      /\ lru = FreshList
      /\ pid = [s \in Slot |-> INVALID_PID]
      /\ dirty = [s \in Slot |-> FALSE]
      /\ pinCount = [s \in Slot |-> 0]
      /\ image \in [Slot -> Image]
      /\ object = [s \in Slot |-> NULL]
      /\ pageHash = [p \in PID |-> NULL]
      /\ phase = "ready"
      /\ todo = {}
      /\ result = Returned("start", OK)
  BY DEF Init, FreshBuffer
<1>2. StorageInv
  BY <1>1, CreatedLemma DEF StorageInv, DiskGood, DiskFile
<1>3. ListInv /\ Listed(lru) = Slot
  BY <1>1, FreshListLemma DEF ListInv
<1>4. SlotTypes
  BY <1>1 DEF SlotTypes
<1>5. HashMatchesSlots
  BY <1>1, InvalidPID DEF HashMatchesSlots, Cached
<1>6. ASSUME NEW s \in Slot PROVE SlotGood(s)
  <2>1. pid[s] = INVALID_PID /\ pinCount[s] = 0 /\ ~dirty[s] /\ s \in Listed(lru)
    BY <1>1, <1>3
  <2> QED BY <2>1, InvalidPID DEF SlotGood
<1>7. PhaseInv
  BY <1>1 DEF PhaseInv, Phase
<1>8. ResultInv
  BY <1>1 DEF ResultInv, Returned, Call, Code
<1> QED BY <1>2, <1>3, <1>4, <1>5, <1>6, <1>7, <1>8 DEF Inv

(* The facts every step starts from. *)
LEMMA InvFacts ==
  ASSUME Inv
  PROVE  /\ FileGood(file) /\ DiskGood(disk)
         /\ lru \in List /\ WellLinked(lru)
         /\ SlotTypes /\ PhaseInv
         /\ HashMatchesSlots
         /\ \A p \in PID : Cached(p) => pageHash[p] \in Slot /\ pid[pageHash[p]] = p
         /\ \A s \in Slot : pid[s] \in PID => Cached(pid[s]) /\ pageHash[pid[s]] = s
         /\ \A s \in Slot : SlotGood(s)
<1>1. \A s \in Slot : pid[s] \in PID => pageHash[pid[s]] = s
  BY DEF Inv, HashMatchesSlots
<1>2. \A p \in PID : Cached(p) => pageHash[p] \in Slot /\ pid[pageHash[p]] = p
  BY DEF Inv, HashMatchesSlots, SlotTypes, Cached
<1> QED BY <1>1, <1>2, SlotAssumption DEF Inv, StorageInv, ListInv, Cached

(* Evicting the victim leaves a sound file. *)
LEMMA EvictLemma ==
  ASSUME Inv, Evicting
  PROVE  /\ Victim(lru) \in Listed(lru) /\ Victim(lru) \in Slot
         /\ DiskGood(DiskAfterEvicting(Victim(lru)))
         /\ pinCount[Victim(lru)] = 0
<1> DEFINE v == Victim(lru)
<1>1. v \in Listed(lru) /\ v \in Slot
  BY InvFacts, VictimLemma DEF Evicting, Listed
<1>2. pinCount[v] = 0
  BY <1>1, InvFacts DEF SlotGood, SlotTypes
<1>3. DiskGood(DiskAfterEvicting(v))
  <2>1. CASE dirty[v]
    <3>1. pid[v] \in PID /\ AccessStatus(file, pid[v]) = OK
      BY <1>1, <2>1, InvFacts DEF SlotGood, Evicting, WritableVictim
    <3>2. pid[v] \in Page /\ image[v] \in Image
      BY <1>1, <3>1, InvFacts, AccessLemma DEF FileGood, FileObject, SlotTypes
    <3> QED BY <2>1, <3>2, InvFacts, WriteLemma DEF DiskAfterEvicting
  <2>2. CASE ~dirty[v]
    BY <2>2, InvFacts DEF DiskAfterEvicting
  <2> QED BY <2>1, <2>2
<1> QED BY <1>1, <1>2, <1>3

-----------------------------------------------------------------------------
(* A miss that succeeds: the victim's slot now caches p, which no other    *)
(* slot did.                                                               *)
LEMMA LoadLemma ==
  ASSUME Inv, phase = "ready", Evicting,
         NEW op \in Call, NEW p \in PID, NEW d \in BOOLEAN,
         NEW img \in Image, NEW rc \in Code,
         ~Cached(p), FileGood(file'), file.header \subseteq file'.header, Held(p)',
         Load(op, p, d, img, rc)
  PROVE  Inv'
<1> DEFINE v == Victim(lru)
<1>1. /\ lru' = RemoveSlot(lru, v)
      /\ disk' = DiskAfterEvicting(v)
      /\ pid' = [pid EXCEPT ![v] = p]
      /\ dirty' = [dirty EXCEPT ![v] = d]
      /\ pinCount' = [pinCount EXCEPT ![v] = 1]
      /\ image' = [image EXCEPT ![v] = img]
      /\ object' = [object EXCEPT ![v] = NULL]
      /\ pageHash' = [HashWithout(v) EXCEPT ![p] = v]
      /\ result' = [op |-> op, rc |-> rc]
      /\ phase' = phase /\ todo' = todo
  BY DEF Load, ObjectsWithout, Returned
<1>2. v \in Listed(lru) /\ v \in Slot /\ DiskGood(disk')
  BY <1>1, EvictLemma
<1>3. lru' \in List /\ WellLinked(lru') /\ Listed(lru') = Listed(lru) \ {v}
  BY <1>1, <1>2, InvFacts, RemoveLemma
<1> HIDE DEF v
<1>4. SlotTypes
  BY InvFacts
<1>5. \A s \in Slot :
         /\ pid'[s] = IF s = v THEN p ELSE pid[s]
         /\ dirty'[s] = IF s = v THEN d ELSE dirty[s]
         /\ pinCount'[s] = IF s = v THEN 1 ELSE pinCount[s]
         /\ object'[s] = IF s = v THEN NULL ELSE object[s]
  BY <1>1, <1>2, <1>4 DEF SlotTypes
<1>6. \A q \in PID :
         pageHash'[q] = IF q = p THEN v ELSE IF q = pid[v] THEN NULL ELSE pageHash[q]
  BY <1>1, <1>4 DEF SlotTypes, HashWithout
<1>7. SlotTypes'
  <2>1. pageHash' \in [PID -> Slot \cup {NULL}]
    BY <1>1, <1>2, <1>4 DEF SlotTypes, HashWithout
  <2> QED BY <1>1, <1>2, <1>4, <2>1 DEF SlotTypes
<1>8. HashMatchesSlots'
  <2>1. ASSUME NEW q \in PID, pageHash'[q] # NULL PROVE pid'[pageHash'[q]] = q
    <3>1. CASE q = p
      BY <1>2, <1>5, <1>6, <3>1
    <3>2. CASE q # p
      <4>1. q # pid[v] /\ pageHash'[q] = pageHash[q] /\ Cached(q)
        BY <1>6, <2>1, <3>2 DEF Cached
      <4>2. pageHash[q] \in Slot /\ pid[pageHash[q]] = q
        BY <4>1, InvFacts
      <4> QED BY <1>5, <4>1, <4>2
    <3> QED BY <3>1, <3>2
  <2>2. ASSUME NEW s \in Slot, pid'[s] \in PID PROVE pageHash'[pid'[s]] = s
    <3>1. CASE s = v
      BY <1>2, <1>5, <1>6, <3>1
    <3>2. CASE s # v
      <4>1. pid'[s] = pid[s] /\ pid[s] \in PID
        BY <1>5, <2>2, <3>2
      <4>2. Cached(pid[s]) /\ pageHash[pid[s]] = s
        BY <4>1, InvFacts
      <4>3. pid[s] # p /\ pid[s] # pid[v]
        BY <1>2, <3>2, <4>1, <4>2, InvFacts
      <4> QED BY <1>6, <4>1, <4>2, <4>3
    <3> QED BY <3>1, <3>2
  <2> QED BY <2>1, <2>2 DEF HashMatchesSlots, Cached
<1>9. ASSUME NEW s \in Slot PROVE SlotGood(s)'
  <2>1. SlotGood(s)
    BY InvFacts
  <2>2. CASE s = v
    BY <1>3, <1>5, <2>2 DEF SlotGood
  <2>3. CASE s # v
    <3>1. s \in Listed(lru') <=> s \in Listed(lru)
      BY <1>3, <2>3
    <3>2. \A q : Held(q) => Held(q)'
      BY DEF Held
    <3> QED BY <1>5, <2>1, <2>3, <3>1, <3>2 DEF SlotGood
  <2> QED BY <2>2, <2>3
<1>10. PhaseInv'
  BY <1>1, InvFacts DEF PhaseInv
<1>11. ResultInv'
  BY <1>1 DEF ResultInv
<1> QED BY <1>2, <1>3, <1>7, <1>8, <1>9, <1>10, <1>11 DEF Inv, StorageInv, ListInv

(* A miss whose page cannot be had: the emptied slot is back on the list.  *)
LEMMA RecycleLemma ==
  ASSUME Inv, phase = "ready", Evicting, UNCHANGED file,
         NEW op \in Call, NEW rc \in Code, NEW newList,
         \/ newList = AddBack(RemoveSlot(lru, Victim(lru)), Victim(lru))
         \/ newList = Add(RemoveSlot(lru, Victim(lru)), Victim(lru)),
         Recycle(op, newList, rc)
  PROVE  Inv'
<1> DEFINE v == Victim(lru)
           l == RemoveSlot(lru, v)
<1>1. /\ lru' = newList
      /\ disk' = DiskAfterEvicting(v)
      /\ pid' = [pid EXCEPT ![v] = INVALID_PID]
      /\ dirty' = [dirty EXCEPT ![v] = FALSE]
      /\ pinCount' = [pinCount EXCEPT ![v] = 0]
      /\ image' = image
      /\ object' = [object EXCEPT ![v] = NULL]
      /\ pageHash' = HashWithout(v)
      /\ result' = [op |-> op, rc |-> rc]
      /\ phase' = phase /\ todo' = todo
  BY DEF Recycle, ObjectsWithout, Returned
<1>2. v \in Listed(lru) /\ v \in Slot /\ DiskGood(disk')
  BY <1>1, EvictLemma
<1>3. lru' \in List /\ WellLinked(lru') /\ Listed(lru') = Listed(lru)
  <2>1. l \in List /\ WellLinked(l) /\ Listed(l) = Listed(lru) \ {v}
    BY <1>2, InvFacts, RemoveLemma
  <2>2. lru' = AddBack(l, v) \/ lru' = Add(l, v)
    BY <1>1
  <2> HIDE DEF l, v
  <2>3. v \notin Listed(l) /\ Listed(l) \cup {v} = Listed(lru)
    BY <1>2, <2>1
  <2>4. /\ AddBack(l, v) \in List /\ Add(l, v) \in List
        /\ WellLinked(AddBack(l, v)) /\ WellLinked(Add(l, v))
        /\ Listed(AddBack(l, v)) = Listed(l) \cup {v}
        /\ Listed(Add(l, v)) = Listed(l) \cup {v}
    <3>1. v \in Slot
      BY <1>2
    <3> QED BY <2>1, <2>3, <3>1, AddLemma, AddBackLemma
  <2> QED BY <2>2, <2>3, <2>4
<1> HIDE DEF v
<1>4. SlotTypes
  BY InvFacts
<1>5. \A s \in Slot :
         /\ pid'[s] = IF s = v THEN INVALID_PID ELSE pid[s]
         /\ dirty'[s] = IF s = v THEN FALSE ELSE dirty[s]
         /\ pinCount'[s] = IF s = v THEN 0 ELSE pinCount[s]
         /\ object'[s] = IF s = v THEN NULL ELSE object[s]
  BY <1>1, <1>2, <1>4 DEF SlotTypes
<1>6. \A q \in PID : pageHash'[q] = IF q = pid[v] THEN NULL ELSE pageHash[q]
  BY <1>1, <1>4 DEF SlotTypes, HashWithout
<1>7. SlotTypes'
  <2>1. pageHash' \in [PID -> Slot \cup {NULL}]
    BY <1>1, <1>2, <1>4 DEF SlotTypes, HashWithout
  <2> QED BY <1>1, <1>2, <1>4, <2>1 DEF SlotTypes
<1>8. HashMatchesSlots'
  <2>1. ASSUME NEW q \in PID, pageHash'[q] # NULL PROVE pid'[pageHash'[q]] = q
    <3>1. q # pid[v] /\ pageHash'[q] = pageHash[q] /\ Cached(q)
      BY <1>6, <2>1 DEF Cached
    <3>2. pageHash[q] \in Slot /\ pid[pageHash[q]] = q
      BY <3>1, InvFacts
    <3> QED BY <1>5, <3>1, <3>2
  <2>2. ASSUME NEW s \in Slot, pid'[s] \in PID PROVE pageHash'[pid'[s]] = s
    <3>1. s # v
      BY <1>5, <2>2, InvalidPID
    <3>2. pid'[s] = pid[s] /\ pid[s] \in PID
      BY <1>5, <2>2, <3>1
    <3>3. Cached(pid[s]) /\ pageHash[pid[s]] = s
      BY <3>2, InvFacts
    <3>4. pid[s] # pid[v]
      BY <1>2, <3>1, <3>2, <3>3, InvFacts
    <3> QED BY <1>6, <3>2, <3>3, <3>4
  <2> QED BY <2>1, <2>2 DEF HashMatchesSlots, Cached
<1>9. ASSUME NEW s \in Slot PROVE SlotGood(s)'
  <2>1. SlotGood(s)
    BY InvFacts
  <2>2. CASE s = v
    <3>1. /\ pid'[s] = INVALID_PID /\ pinCount'[s] = 0 /\ ~dirty'[s]
          /\ s \in Listed(lru')
      BY <1>2, <1>3, <1>5, <2>2
    <3> QED BY <3>1, InvalidPID DEF SlotGood
  <2>3. CASE s # v
    BY <1>3, <1>5, <2>1, <2>3 DEF SlotGood, Held
  <2> QED BY <2>2, <2>3
<1>10. PhaseInv'
  BY <1>1, InvFacts DEF PhaseInv
<1>11. ResultInv'
  BY <1>1 DEF ResultInv
<1>12. FileGood(file')
  BY InvFacts
<1> QED BY <1>2, <1>3, <1>7, <1>8, <1>9, <1>10, <1>11, <1>12 DEF Inv, StorageInv, ListInv

-----------------------------------------------------------------------------
(* Every status the file returns is a return code of the pool.             *)
LEMMA StatusIsCode ==
  ASSUME NEW f, NEW p
  PROVE  AccessStatus(f, p) \in Code /\ AllocatePIDStatus(f, p) \in Code
BY DEF AccessStatus, AllocatePIDStatus, Code, Failing

(* A call that leaves the pool alone. *)
LEMMA PoolUnchanged ==
  ASSUME Inv, phase = "ready", UNCHANGED <<disk, bufferVars, phase, todo>>,
         FileGood(file'), file.header \subseteq file'.header,
         result' \in [op : Call, rc : Code]
  PROVE  Inv'
<1>1. /\ disk' = disk /\ lru' = lru /\ pid' = pid /\ dirty' = dirty
      /\ pinCount' = pinCount /\ image' = image /\ object' = object
      /\ pageHash' = pageHash /\ phase' = phase /\ todo' = todo
  BY DEF bufferVars, slotVars
<1>2. ASSUME NEW s \in Slot PROVE SlotGood(s)'
  <2>1. SlotGood(s)
    BY InvFacts
  <2> QED BY <1>1, <2>1 DEF SlotGood, Held
<1>3. SlotTypes' /\ HashMatchesSlots' /\ ListInv' /\ DiskGood(disk')
  BY <1>1, InvFacts DEF SlotTypes, HashMatchesSlots, Cached, ListInv
<1>4. PhaseInv'
  BY <1>1, InvFacts DEF PhaseInv, Cached
<1> QED BY <1>2, <1>3, <1>4 DEF Inv, StorageInv, ResultInv

(* A refused eviction: only a page past the bitmap can be refused. *)
LEMMA VictimStuckLemma ==
  ASSUME Inv, phase = "ready", NEW op \in Call, VictimStuck(op),
         FileGood(file'), file.header \subseteq file'.header
  PROVE  Inv'
<1> DEFINE v == Victim(lru)
<1>1. /\ lru' = RemoveSlot(lru, v)
      /\ disk' = disk /\ pid' = pid /\ dirty' = dirty
      /\ pinCount' = pinCount /\ image' = image /\ object' = object
      /\ pageHash' = pageHash /\ phase' = phase /\ todo' = todo
      /\ result' = [op |-> op, rc |-> AccessStatus(file, pid[v])]
      /\ ~IsEmpty(lru) /\ dirty[v] /\ AccessStatus(file, pid[v]) # OK
  BY DEF VictimStuck, slotVars, Returned, WritableVictim
<1>2. v \in Listed(lru) /\ v \in Slot
  BY <1>1, InvFacts, VictimLemma DEF Listed
<1>3. lru' \in List /\ WellLinked(lru') /\ Listed(lru') = Listed(lru) \ {v}
  BY <1>1, <1>2, InvFacts, RemoveLemma
<1>4. pid[v] = NumBits
  <2>1. pid[v] \in PID /\ Held(pid[v])
    BY <1>1, <1>2, InvFacts DEF SlotGood
  <2>2. pid[v] \notin file.header
    BY <1>1, <2>1, InvFacts, AccessLemma
  <2> QED BY <2>1, <2>2 DEF Held
<1> HIDE DEF v
<1>5. ASSUME NEW s \in Slot PROVE SlotGood(s)'
  <2>1. SlotGood(s)
    BY InvFacts
  <2>2. s \in Listed(lru') <=> s \in Listed(lru) /\ s # v
    BY <1>3
  <2>3. pinCount[s] > 0 => s \notin Listed(lru)
    BY <2>1 DEF SlotGood
  <2> QED BY <1>1, <1>4, <2>1, <2>2, <2>3 DEF SlotGood, Held
<1>6. SlotTypes' /\ HashMatchesSlots' /\ DiskGood(disk')
  BY <1>1, InvFacts DEF SlotTypes, HashMatchesSlots, Cached
<1>7. PhaseInv'
  BY <1>1, InvFacts DEF PhaseInv, Cached
<1>8. ResultInv'
  BY <1>1, StatusIsCode DEF ResultInv
<1> QED BY <1>3, <1>5, <1>6, <1>7, <1>8 DEF Inv, StorageInv, ListInv

(* A hit pins the slot, which leaves the list if it was on it. *)
LEMMA HitLemma ==
  ASSUME Inv, phase = "ready", NEW op \in Call, NEW p \in PID, HitPage(op, p)
  PROVE  Inv'
<1> DEFINE h == pageHash[p]
<1>1. /\ lru' = ListAfterHit(h)
      /\ pinCount' = [pinCount EXCEPT ![h] = @ + 1]
      /\ file' = file /\ disk' = disk /\ pid' = pid /\ dirty' = dirty
      /\ image' = image /\ object' = object
      /\ pageHash' = pageHash /\ phase' = phase /\ todo' = todo
      /\ result' = [op |-> op, rc |-> Hit]
      /\ Cached(p)
      /\ pinCount[h] = 0 => CanUnlink(lru, h)
  BY DEF HitPage, storage, Returned, Pin
<1>2. h \in Slot /\ pid[h] = p
  BY <1>1, InvFacts
<1> HIDE DEF h
<1>3. SlotTypes
  BY InvFacts
<1>4. /\ lru' \in List /\ WellLinked(lru')
      /\ Listed(lru') = Listed(lru) \ {h}
  <2>1. CASE pinCount[h] = 0
    <3>1. h \in Listed(lru)
      BY <1>1, <1>2, <2>1 DEF CanUnlink, Listed
    <3> QED BY <1>1, <2>1, <3>1, InvFacts, RemoveLemma DEF ListAfterHit
  <2>2. CASE pinCount[h] # 0
    <3>1. h \notin Listed(lru)
      BY <1>2, <1>3, <2>2, InvFacts DEF SlotGood, SlotTypes
    <3> QED BY <1>1, <2>2, <3>1, InvFacts DEF ListAfterHit
  <2> QED BY <2>1, <2>2
<1>5. \A s \in Slot : pinCount'[s] = IF s = h THEN pinCount[h] + 1 ELSE pinCount[s]
  BY <1>1, <1>2, <1>3 DEF SlotTypes
<1>6. pinCount[h] \in Nat
  BY <1>2, <1>3 DEF SlotTypes
<1>7. ASSUME NEW s \in Slot PROVE SlotGood(s)'
  <2>1. SlotGood(s)
    BY InvFacts
  <2>2. CASE s = h
    <3>1. pinCount'[s] > 0 /\ pid[s] \in PID /\ s \notin Listed(lru')
      BY <1>2, <1>4, <1>5, <1>6, <2>2
    <3> QED BY <1>1, <1>5, <1>6, <2>1, <2>2, <3>1 DEF SlotGood, Held
  <2>3. CASE s # h
    BY <1>1, <1>4, <1>5, <2>1, <2>3 DEF SlotGood, Held
  <2> QED BY <2>2, <2>3
<1>8. SlotTypes'
  BY <1>1, <1>2, <1>3, <1>6 DEF SlotTypes
<1>9. HashMatchesSlots' /\ DiskGood(disk') /\ FileGood(file')
  BY <1>1, InvFacts DEF HashMatchesSlots, Cached
<1>10. PhaseInv'
  BY <1>1, InvFacts DEF PhaseInv, Cached
<1>11. ResultInv'
  BY <1>1 DEF ResultInv, Code
<1> QED BY <1>4, <1>7, <1>8, <1>9, <1>10, <1>11 DEF Inv, StorageInv, ListInv

-----------------------------------------------------------------------------
(* What a holder does to its page, and a flush to any page, without moving *)
(* a slot: no slot changes its page or its pinned state.                   *)
LEMMA InPlaceLemma ==
  ASSUME Inv, UNCHANGED <<file, lru, pid, pageHash>>, DiskGood(disk'),
         SlotTypes', PhaseInv', ResultInv',
         \A s \in Slot : /\ pinCount'[s] > 0 <=> pinCount[s] > 0
                         /\ dirty'[s] => pid[s] \in PID
                         /\ object'[s] \in {object[s], NULL, pid[s]}
  PROVE  Inv'
<1>1. ASSUME NEW s \in Slot PROVE SlotGood(s)'
  <2>1. SlotGood(s) /\ pinCount[s] \in Nat /\ pinCount'[s] \in Nat
    BY InvFacts DEF SlotTypes
  <2>2. /\ pinCount'[s] > 0 <=> pinCount[s] > 0
        /\ dirty'[s] => pid[s] \in PID
        /\ object'[s] = object[s] \/ object'[s] = NULL \/ object'[s] = pid[s]
    OBVIOUS
  <2>3. pinCount'[s] = 0 <=> pinCount[s] = 0
    BY <2>1, <2>2
  <2>4. lru' = lru /\ pid' = pid /\ file' = file
    OBVIOUS
  <2>5. pinCount'[s] > 0 => s \notin Listed(lru') /\ pid'[s] \in PID
    BY <2>1, <2>2, <2>4 DEF SlotGood
  <2>6. pinCount'[s] = 0 /\ s \notin Listed(lru') => pid'[s] = NumBits
    BY <2>1, <2>3, <2>4 DEF SlotGood
  <2>7. pid'[s] \in PID => Held(pid[s])'
    BY <2>1, <2>4 DEF SlotGood, Held
  <2>8. pid'[s] \in PID /\ object'[s] # NULL => object'[s] = pid'[s]
    BY <2>1, <2>2, <2>4 DEF SlotGood
  <2> QED BY <2>2, <2>4, <2>5, <2>6, <2>7, <2>8 DEF SlotGood
<1>2. StorageInv' /\ ListInv' /\ HashMatchesSlots'
  BY InvFacts DEF StorageInv, ListInv, HashMatchesSlots, Cached
<1> QED BY <1>1, <1>2 DEF Inv

LEMMA PinStep ==
  ASSUME Inv, NEW s \in Slot, CallPinPage(s)
  PROVE  Inv'
<1>1. SlotTypes /\ PhaseInv /\ DiskGood(disk)
  BY InvFacts
<1>2. /\ UNCHANGED <<file, disk, lru, pid, dirty, image, object, pageHash, phase, todo>>
      /\ pinCount' = [pinCount EXCEPT ![s] = @ + 1]
      /\ pinCount[s] > 0 /\ pinCount[s] \in Nat
      /\ result' = [op |-> "pinPage", rc |-> OK]
  BY <1>1 DEF CallPinPage, Holding, Pin, Returned, storage, SlotTypes
<1>3. SlotTypes' /\ PhaseInv' /\ ResultInv' /\ DiskGood(disk')
  BY <1>1, <1>2 DEF SlotTypes, PhaseInv, Cached, ResultInv, Call, Code
<1>4. ASSUME NEW t \in Slot
      PROVE  /\ pinCount'[t] > 0 <=> pinCount[t] > 0
             /\ dirty'[t] => pid[t] \in PID
             /\ object'[t] = object[t]
  <2>1. pinCount'[t] = IF t = s THEN pinCount[s] + 1 ELSE pinCount[t]
    BY <1>1, <1>2 DEF SlotTypes
  <2>2. SlotGood(t)
    BY InvFacts
  <2> QED BY <1>2, <2>1, <2>2 DEF SlotGood
<1> QED BY <1>2, <1>3, <1>4, InPlaceLemma

LEMMA WriteStep ==
  ASSUME Inv, NEW s \in Slot, NEW img \in Image, WriteHeld(s, img)
  PROVE  Inv'
<1>1. SlotTypes /\ PhaseInv /\ DiskGood(disk)
  BY InvFacts
<1>2. /\ UNCHANGED <<file, disk, lru, pid, pinCount, object, pageHash, phase, todo>>
      /\ image' = [image EXCEPT ![s] = img]
      /\ dirty' = [dirty EXCEPT ![s] = TRUE]
      /\ pinCount[s] > 0
      /\ result' = [op |-> "write", rc |-> OK]
  BY DEF WriteHeld, Holding, Returned, storage
<1>3. SlotTypes' /\ PhaseInv' /\ ResultInv' /\ DiskGood(disk')
  BY <1>1, <1>2 DEF SlotTypes, PhaseInv, Cached, ResultInv, Call, Code
<1>4. ASSUME NEW t \in Slot
      PROVE  /\ pinCount'[t] > 0 <=> pinCount[t] > 0
             /\ dirty'[t] => pid[t] \in PID
             /\ object'[t] = object[t]
  <2>1. dirty'[t] = IF t = s THEN TRUE ELSE dirty[t]
    BY <1>1, <1>2 DEF SlotTypes
  <2>2. SlotGood(t)
    BY InvFacts
  <2> QED BY <1>2, <2>1, <2>2 DEF SlotGood
<1> QED BY <1>2, <1>3, <1>4, InPlaceLemma

LEMMA ObjectStep ==
  ASSUME Inv, NEW s \in Slot, CallGetBlockObject(s) \/ CallFreeBlockObject(s)
  PROVE  Inv'
<1>1. SlotTypes /\ PhaseInv /\ DiskGood(disk)
  BY InvFacts
<1>2. /\ UNCHANGED <<file, disk, lru, pid, dirty, pinCount, image, pageHash, phase, todo>>
      /\ \/ object' = [object EXCEPT ![s] = IF @ = NULL THEN pid[s] ELSE @]
         \/ object' = [object EXCEPT ![s] = NULL]
      /\ result' \in [op : Call, rc : Code]
  BY DEF CallGetBlockObject, CallFreeBlockObject, Returned, storage, Call, Code
<1>3. pid[s] \in PID \cup {INVALID_PID} /\ object[s] \in PID \cup {INVALID_PID, NULL}
  BY <1>1 DEF SlotTypes
<1>4. object' \in [Slot -> PID \cup {INVALID_PID, NULL}]
  BY <1>1, <1>2, <1>3 DEF SlotTypes
<1>5. SlotTypes' /\ PhaseInv' /\ ResultInv' /\ DiskGood(disk')
  BY <1>1, <1>2, <1>4 DEF SlotTypes, PhaseInv, Cached, ResultInv
<1>6. ASSUME NEW t \in Slot
      PROVE  /\ pinCount'[t] > 0 <=> pinCount[t] > 0
             /\ dirty'[t] => pid[t] \in PID
             /\ object'[t] \in {object[t], NULL, pid[t]}
  <2>1. object'[t] \in {object[t], NULL, pid[t]}
    BY <1>1, <1>2 DEF SlotTypes
  <2>2. SlotGood(t)
    BY InvFacts
  <2> QED BY <1>2, <2>1, <2>2 DEF SlotGood
<1> QED BY <1>2, <1>5, <1>6, InPlaceLemma

(* A page written while the file allows it is a page of the bitmap. *)
LEMMA FlushedDisk ==
  ASSUME Inv, NEW s \in Slot, pid[s] \in PID, AccessStatus(file, pid[s]) = OK
  PROVE  /\ DiskGood(Write(disk, pid[s], image[s]))
         /\ Write(disk, pid[s], image[s]).size >= disk.size
<1>1. pid[s] \in Page /\ image[s] \in Image
  BY InvFacts, AccessLemma DEF FileGood, FileObject, SlotTypes
<1> QED BY <1>1, InvFacts, WriteLemma

LEMMA FlushPageStep ==
  ASSUME Inv, NEW s \in Slot, CallFlushPage(s)
  PROVE  Inv'
<1> DEFINE rc == IF dirty[s] THEN AccessStatus(file, pid[s]) ELSE OK
<1>1. SlotTypes /\ PhaseInv /\ DiskGood(disk)
  BY InvFacts
<1>2. /\ UNCHANGED <<file, lru, pid, pinCount, image, object, pageHash, phase, todo>>
      /\ disk' = IF dirty[s] /\ rc = OK THEN Write(disk, pid[s], image[s]) ELSE disk
      /\ dirty' = IF rc = OK THEN [dirty EXCEPT ![s] = FALSE] ELSE dirty
      /\ phase = "ready"
      /\ result' = [op |-> "flushPage", rc |-> rc]
  BY DEF CallFlushPage, Holding, Returned
<1>3. rc \in Code
  BY StatusIsCode DEF Code
<1>4. DiskGood(disk')
  <2>1. CASE dirty[s] /\ rc = OK
    <3>1. pid[s] \in PID /\ AccessStatus(file, pid[s]) = OK
      BY <2>1, InvFacts DEF SlotGood
    <3> QED BY <1>2, <2>1, <3>1, FlushedDisk
  <2>2. CASE ~(dirty[s] /\ rc = OK)
    BY <1>1, <1>2, <2>2
  <2> QED BY <2>1, <2>2
<1> HIDE DEF rc
<1>5. SlotTypes' /\ PhaseInv' /\ ResultInv'
  <2>1. dirty' \in [Slot -> BOOLEAN]
    BY <1>1, <1>2 DEF SlotTypes
  <2> QED BY <1>1, <1>2, <1>3, <2>1 DEF SlotTypes, PhaseInv, Cached, ResultInv, Call
<1>6. ASSUME NEW t \in Slot
      PROVE  /\ pinCount'[t] > 0 <=> pinCount[t] > 0
             /\ dirty'[t] => pid[t] \in PID
             /\ object'[t] = object[t]
  <2>1. dirty'[t] => dirty[t]
    BY <1>1, <1>2 DEF SlotTypes
  <2>2. SlotGood(t)
    BY InvFacts
  <2> QED BY <1>2, <2>1, <2>2 DEF SlotGood
<1> QED BY <1>2, <1>4, <1>5, <1>6, InPlaceLemma

(* An unpin that drops the last pin puts the slot on the list. *)
LEMMA UnpinStep ==
  ASSUME Inv, NEW s \in Slot, CallUnpinPage(s)
  PROVE  Inv'
<1>1. SlotTypes /\ PhaseInv /\ SlotGood(s)
  BY InvFacts
<1>2. /\ UNCHANGED <<file, disk, pid, dirty, image, object, pageHash, phase, todo>>
      /\ pinCount' = [pinCount EXCEPT ![s] = @ - 1]
      /\ lru' = IF pinCount[s] = 1 THEN Add(lru, s) ELSE lru
      /\ pinCount[s] > 0 /\ pinCount[s] \in Nat
      /\ result' = [op |-> "unpinPage", rc |-> OK]
  BY <1>1 DEF CallUnpinPage, Holding, ListAfterUnpin, Returned, storage, SlotTypes
<1>3. s \notin Listed(lru)
  BY <1>1, <1>2 DEF SlotGood
<1>4. /\ lru' \in List /\ WellLinked(lru')
      /\ Listed(lru') = Listed(lru) \cup (IF pinCount[s] = 1 THEN {s} ELSE {})
  BY <1>2, <1>3, InvFacts, AddLemma
<1>5. pinCount[s] - 1 \in Nat /\ (pinCount[s] - 1 > 0 <=> pinCount[s] # 1)
  BY <1>2
<1>6. \A t \in Slot : pinCount'[t] = IF t = s THEN pinCount[s] - 1 ELSE pinCount[t]
  BY <1>1, <1>2 DEF SlotTypes
<1>7. SlotTypes' /\ PhaseInv' /\ ResultInv' /\ HashMatchesSlots'
  BY <1>1, <1>2, <1>5, InvFacts
     DEF SlotTypes, PhaseInv, Cached, ResultInv, Call, Code, HashMatchesSlots
<1>8. ASSUME NEW t \in Slot PROVE SlotGood(t)'
  <2>1. SlotGood(t)
    BY InvFacts
  <2>2. CASE t = s
    <3>1. pinCount'[t] > 0 => pinCount[s] # 1
      BY <1>5, <1>6, <2>2
    <3>2. pinCount'[t] = 0 => pinCount[s] = 1
      BY <1>2, <1>6, <2>2
    <3>3. pinCount'[t] > 0 => t \notin Listed(lru')
      BY <1>3, <1>4, <2>2, <3>1
    <3>4. pinCount'[t] = 0 => t \in Listed(lru')
      BY <1>4, <2>2, <3>2
    <3>5. pid[t] \in PID
      BY <1>1, <1>2, <2>2 DEF SlotGood
    <3> QED BY <1>2, <2>1, <3>3, <3>4, <3>5 DEF SlotGood, Held
  <2>3. CASE t # s
    <3>1. pinCount'[t] = pinCount[t] /\ (t \in Listed(lru') <=> t \in Listed(lru))
      BY <1>4, <1>6, <2>3
    <3> QED BY <1>2, <2>1, <3>1 DEF SlotGood, Held
  <2> QED BY <2>2, <2>3
<1>9. StorageInv'
  BY <1>2, InvFacts DEF StorageInv
<1> QED BY <1>4, <1>7, <1>8, <1>9 DEF Inv, ListInv

(* Resetting the links of a record off the list changes nothing. *)
LEMMA ResetLemma ==
  ASSUME NEW l \in List, WellLinked(l), NEW s \in Slot, s \notin Listed(l)
  PROVE  Reset(l, s) = l
<1>1. s \in Node /\ s # HEAD
  BY SlotAssumption DEF Node
<1>2. l.next[s] = NULL /\ l.prev[s] = NULL
  BY <1>1 DEF WellLinked, Listed
<1>3. [l.next EXCEPT ![s] = NULL] = l.next /\ [l.prev EXCEPT ![s] = NULL] = l.prev
  BY <1>1, <1>2 DEF List
<1>4. Reset(l, s) = [next |-> [l.next EXCEPT ![s] = NULL],
                     prev |-> [l.prev EXCEPT ![s] = NULL],
                     count |-> l.count]
  BY DEF Reset
<1> QED BY <1>3, <1>4 DEF List

(* A pinned page that is disposed leaves its slot empty and listed. *)
LEMMA DisposeStep ==
  ASSUME Inv, 0 \notin DisposePins, NEW s \in Slot, CallDisposePage(s)
  PROVE  Inv'
<1>1. SlotTypes /\ PhaseInv /\ SlotGood(s) /\ pid[s] \in PID /\ phase = "ready"
      /\ FileGood(file)
  BY InvFacts DEF CallDisposePage
<1>2. CASE AccessStatus(file, pid[s]) # OK
  <2>1. result' = [op |-> "disposePage", rc |-> AccessStatus(file, pid[s])]
        /\ UNCHANGED <<storage, bufferVars, phase, todo>>
    BY <1>2 DEF CallDisposePage, Returned
  <2>2. result' \in [op : Call, rc : Code]
    BY <2>1, StatusIsCode DEF Call
  <2> QED BY <1>1, <2>1, <2>2, PoolUnchanged DEF storage
<1>3. CASE AccessStatus(file, pid[s]) = OK
  <2>1. /\ file' = Dispose(file, pid[s])
        /\ pageHash' = HashWithout(s)
        /\ pid' = [pid EXCEPT ![s] = INVALID_PID]
        /\ dirty' = [dirty EXCEPT ![s] = FALSE]
        /\ pinCount' = [pinCount EXCEPT ![s] = 0]
        /\ lru' = Add(Reset(lru, s), s)
        /\ result' = [op |-> "disposePage", rc |-> OK]
        /\ UNCHANGED <<disk, image, object, phase, todo>>
    BY <1>3 DEF CallDisposePage, Returned
  <2>2. s \notin Listed(lru)
    BY <1>1 DEF CallDisposePage, SlotGood, SlotTypes
  <2>3. lru' \in List /\ WellLinked(lru') /\ Listed(lru') = Listed(lru) \cup {s}
    BY <2>1, <2>2, InvFacts, ResetLemma, AddLemma
  <2>4. FileGood(file') /\ file'.header = file.header \ {pid[s]}
    BY <1>1, <2>1, DisposeLemma
  <2>5. \A t \in Slot :
           /\ pid'[t] = IF t = s THEN INVALID_PID ELSE pid[t]
           /\ dirty'[t] = IF t = s THEN FALSE ELSE dirty[t]
           /\ pinCount'[t] = IF t = s THEN 0 ELSE pinCount[t]
    BY <1>1, <2>1 DEF SlotTypes
  <2>6. \A q \in PID : pageHash'[q] = IF q = pid[s] THEN NULL ELSE pageHash[q]
    BY <1>1, <2>1 DEF SlotTypes, HashWithout
  <2>7. \A t \in Slot : t # s /\ pid[t] \in PID => pid[t] # pid[s]
    BY <1>1, InvFacts
  <2>8. SlotTypes'
    <3>1. pageHash' \in [PID -> Slot \cup {NULL}]
      BY <1>1, <2>1 DEF SlotTypes, HashWithout
    <3> QED BY <1>1, <2>1, <3>1 DEF SlotTypes
  <2>9. HashMatchesSlots'
    <3>1. ASSUME NEW q \in PID, pageHash'[q] # NULL PROVE pid'[pageHash'[q]] = q
      <4>1. q # pid[s] /\ pageHash'[q] = pageHash[q] /\ Cached(q)
        BY <2>6, <3>1 DEF Cached
      <4>2. pageHash[q] \in Slot /\ pid[pageHash[q]] = q
        BY <4>1, InvFacts
      <4> QED BY <2>5, <4>1, <4>2
    <3>2. ASSUME NEW t \in Slot, pid'[t] \in PID PROVE pageHash'[pid'[t]] = t
      <4>1. t # s
        BY <2>5, <3>2, InvalidPID
      <4>2. pid'[t] = pid[t] /\ pid[t] \in PID
        BY <2>5, <3>2, <4>1
      <4>3. pageHash[pid[t]] = t
        BY <4>2, InvFacts
      <4> QED BY <2>6, <2>7, <4>1, <4>2, <4>3
    <3> QED BY <3>1, <3>2 DEF HashMatchesSlots, Cached
  <2>10. ASSUME NEW t \in Slot PROVE SlotGood(t)'
    <3>1. SlotGood(t)
      BY InvFacts
    <3>2. CASE t = s
      <4>1. /\ pid'[t] = INVALID_PID /\ pinCount'[t] = 0 /\ ~dirty'[t]
            /\ t \in Listed(lru')
        BY <2>3, <2>5, <3>2
      <4> QED BY <4>1, InvalidPID DEF SlotGood
    <3>3. CASE t # s
      <4>1. pid[t] \in PID => Held(pid[t])'
        BY <2>4, <2>5, <2>7, <3>1, <3>3 DEF SlotGood, Held
      <4>2. t \in Listed(lru') <=> t \in Listed(lru)
        BY <2>3, <3>3
      <4> QED BY <2>1, <2>5, <3>1, <3>3, <4>1, <4>2 DEF SlotGood
    <3> QED BY <3>2, <3>3
  <2>11. PhaseInv' /\ ResultInv'
    BY <1>1, <2>1 DEF PhaseInv, ResultInv, Call, Code
  <2>12. DiskGood(disk')
    BY <2>1, InvFacts
  <2> QED BY <2>3, <2>4, <2>8, <2>9, <2>10, <2>11, <2>12 DEF Inv, StorageInv, ListInv
<1> QED BY <1>2, <1>3

-----------------------------------------------------------------------------
LEMMA BeginFlushStep ==
  ASSUME Inv, NEW op \in {"flushAllPages", "close"}, BeginFlushAll(op)
  PROVE  Inv'
<1>1. SlotTypes /\ PhaseInv /\ DiskGood(disk)
  BY InvFacts
<1>2. /\ UNCHANGED <<file, disk, lru, pid, dirty, pinCount, image, object, pageHash>>
      /\ phase' = "flushing"
      /\ todo' = {p \in PID : Cached(p)}
      /\ result' = [op |-> op, rc |-> OK]
  BY DEF BeginFlushAll, storage, bufferVars, slotVars, ToFlush, Returned
<1>3. SlotTypes' /\ ResultInv' /\ DiskGood(disk')
  BY <1>1, <1>2 DEF SlotTypes, ResultInv, Call, Code
<1>4. PhaseInv'
  BY <1>2 DEF PhaseInv, Phase, Cached
<1>5. ASSUME NEW t \in Slot
      PROVE  /\ pinCount'[t] > 0 <=> pinCount[t] > 0
             /\ dirty'[t] => pid[t] \in PID
             /\ object'[t] = object[t]
  <2>1. SlotGood(t)
    BY InvFacts
  <2> QED BY <1>2, <2>1 DEF SlotGood
<1> QED BY <1>2, <1>3, <1>4, <1>5, InPlaceLemma

LEMMA FlushOneStep ==
  ASSUME Inv, NEW p \in PID, FlushOne(p)
  PROVE  Inv'
<1> DEFINE s == pageHash[p]
           rc == AccessStatus(file, pid[s])
<1>1. SlotTypes /\ PhaseInv /\ DiskGood(disk)
  BY InvFacts
<1>2. /\ UNCHANGED <<file, lru, pid, pinCount, image, object, pageHash, phase>>
      /\ todo' = todo \ {p}
      /\ disk' = IF dirty[s] /\ rc = OK THEN Write(disk, pid[s], image[s]) ELSE disk
      /\ dirty' = [dirty EXCEPT ![s] = FALSE]
      /\ phase = "flushing" /\ p \in todo
      /\ result' = IF dirty[s] THEN [op |-> result.op, rc |-> rc] ELSE result
  BY DEF FlushOne, Returned
<1>3. s \in Slot /\ pid[s] = p /\ pid[s] \in PID
  BY <1>1, <1>2, InvFacts DEF PhaseInv
<1>4. rc \in Code
  BY StatusIsCode
<1>5. DiskGood(disk')
  <2>1. CASE dirty[s] /\ rc = OK
    BY <1>2, <1>3, <2>1, FlushedDisk
  <2>2. CASE ~(dirty[s] /\ rc = OK)
    BY <1>1, <1>2, <2>2
  <2> QED BY <2>1, <2>2
<1> HIDE DEF rc, s
<1>6. SlotTypes' /\ PhaseInv'
  <2>1. dirty' \in [Slot -> BOOLEAN]
    BY <1>1, <1>2 DEF SlotTypes
  <2> QED BY <1>1, <1>2, <2>1 DEF SlotTypes, PhaseInv, Cached
<1>7. ResultInv'
  BY <1>2, <1>4 DEF Inv, ResultInv
<1>8. ASSUME NEW t \in Slot
      PROVE  /\ pinCount'[t] > 0 <=> pinCount[t] > 0
             /\ dirty'[t] => pid[t] \in PID
             /\ object'[t] = object[t]
  <2>1. dirty'[t] => dirty[t]
    BY <1>1, <1>2 DEF SlotTypes
  <2>2. SlotGood(t)
    BY InvFacts
  <2> QED BY <1>2, <2>1, <2>2 DEF SlotGood
<1> QED BY <1>2, <1>5, <1>6, <1>7, <1>8, InPlaceLemma

LEMMA FlushExtendStep ==
  ASSUME Inv, FlushExtend
  PROVE  Inv'
<1>1. SlotTypes /\ PhaseInv /\ DiskGood(disk) /\ FileGood(file)
  BY InvFacts
<1>2. /\ UNCHANGED <<file, lru, pid, dirty, pinCount, image, object, pageHash, todo, result>>
      /\ disk' = ExtendFile(file, disk)
      /\ phase' = "header" /\ todo = {}
  BY DEF FlushExtend, bufferVars, slotVars
<1>3. DiskGood(disk') /\ disk'.size >= NumHeaderPages + file.numContentPages
  BY <1>1, <1>2, ExtendLemma
<1>4. SlotTypes' /\ ResultInv'
  BY <1>1, <1>2 DEF SlotTypes, Inv, ResultInv
<1>5. PhaseInv'
  BY <1>2, <1>3 DEF PhaseInv, Phase
<1>6. ASSUME NEW t \in Slot
      PROVE  /\ pinCount'[t] > 0 <=> pinCount[t] > 0
             /\ dirty'[t] => pid[t] \in PID
             /\ object'[t] = object[t]
  <2>1. SlotGood(t)
    BY InvFacts
  <2> QED BY <1>2, <2>1 DEF SlotGood
<1> QED BY <1>2, <1>3, <1>4, <1>5, <1>6, InPlaceLemma

LEMMA FlushHeaderStep ==
  ASSUME Inv, FlushHeader
  PROVE  Inv'
<1>1. SlotTypes /\ PhaseInv /\ DiskGood(disk) /\ FileGood(file)
  BY InvFacts
<1>2. phase = "header" /\ disk' = WriteHeader(file, disk) /\ result' = result
  BY DEF FlushHeader
<1>3. DiskGood(disk')
  BY <1>1, <1>2, WriteHeaderLemma DEF PhaseInv
<1>4. ResultInv' /\ result' \in [op : Call, rc : Code]
  BY <1>2 DEF Inv, ResultInv
<1>5. CASE result.op = "close"
  <2>1. MemoryGone
    BY <1>5 DEF FlushHeader
  <2> QED BY <1>3, <1>4, <2>1, MemoryGoneLemma
<1>6. CASE result.op # "close"
  <2>1. /\ phase' = "ready" /\ todo' = todo
        /\ UNCHANGED <<file, lru, pid, dirty, pinCount, image, object, pageHash>>
    BY <1>6 DEF FlushHeader, bufferVars, slotVars
  <2>2. SlotTypes'
    BY <1>1, <2>1 DEF SlotTypes
  <2>3. PhaseInv'
    BY <1>1, <1>2, <2>1 DEF PhaseInv, Phase
  <2>4. ASSUME NEW t \in Slot
        PROVE  /\ pinCount'[t] > 0 <=> pinCount[t] > 0
               /\ dirty'[t] => pid[t] \in PID
               /\ object'[t] = object[t]
    <3>1. SlotGood(t)
      BY InvFacts
    <3> QED BY <2>1, <3>1 DEF SlotGood
  <2> QED BY <1>3, <1>4, <2>1, <2>2, <2>3, <2>4, InPlaceLemma
<1> QED BY <1>5, <1>6

(* A new process finds a file its constructor can read. *)
LEMMA RestartStep ==
  ASSUME Inv, Restart
  PROVE  Inv'
<1>1. SlotTypes /\ PhaseInv /\ DiskGood(disk) /\ HashMatchesSlots
  BY InvFacts
<1>2. /\ file' \in Opened(disk) \/ file' = Created
      /\ image' \in [Slot -> Image]
      /\ phase = "down" /\ phase' = "ready"
      /\ result' = [op |-> "start", rc |-> OK]
      /\ UNCHANGED <<disk, lru, pid, dirty, pinCount, object, pageHash, todo>>
  BY DEF Restart, Returned
<1>3. FileGood(file')
  BY <1>1, <1>2, OpenedLemma, CreatedLemma
<1>4. SlotTypes' /\ ResultInv' /\ PhaseInv' /\ HashMatchesSlots'
  BY <1>1, <1>2
     DEF SlotTypes, ResultInv, Call, Code, PhaseInv, Phase, Cached, HashMatchesSlots
<1>5. ASSUME NEW s \in Slot PROVE SlotGood(s)'
  <2>1. SlotGood(s) /\ pid[s] = INVALID_PID
    BY <1>1, <1>2, InvFacts DEF PhaseInv
  <2> QED BY <1>2, <2>1, InvalidPID DEF SlotGood
<1> QED BY <1>1, <1>2, <1>3, <1>4, <1>5, InvFacts DEF Inv, StorageInv, ListInv

-----------------------------------------------------------------------------
(* What a miss needs to know of the page it loads. *)
LEMMA NotCached ==
  ASSUME Inv, NEW p \in Page, p \notin file.header
  PROVE  ~Cached(p)
<1> SUFFICES ASSUME Cached(p) PROVE FALSE
  OBVIOUS
<1>1. p \in PID /\ p # NumBits
  BY NumBitsAssumption DEF Page, PID
<1>2. pageHash[p] \in Slot /\ pid[pageHash[p]] = p
  BY <1>1, InvFacts
<1>3. Held(p)
  BY <1>1, <1>2, InvFacts DEF SlotGood
<1> QED BY <1>1, <1>3 DEF Held

LEMMA ReadImage ==
  ASSUME Inv, Evicting, NEW p \in PID, AccessStatus(file, p) = OK
  PROVE  /\ Read(DiskAfterEvicting(Victim(lru)), p, image[Victim(lru)]) \in Image
         /\ p \in file.header
<1>1. p \in file.header /\ file.header \subseteq Page
  BY InvFacts, AccessLemma DEF FileGood, FileObject
<1>2. image[Victim(lru)] \in Image
  BY InvFacts, EvictLemma DEF SlotTypes
<1>3. DiskAfterEvicting(Victim(lru)).page \in [Page -> Image]
  BY EvictLemma DEF DiskGood, DiskFile
<1> QED BY <1>1, <1>2, <1>3 DEF Read

LEMMA NoVictimStep ==
  ASSUME Inv, phase = "ready", NEW op \in Call, NoVictim(op),
         FileGood(file'), file.header \subseteq file'.header
  PROVE  Inv'
<1>1. result' = [op |-> op, rc |-> OutOfSpace]
      /\ UNCHANGED <<disk, bufferVars, phase, todo>>
  BY DEF NoVictim, Returned
<1>2. result' \in [op : Call, rc : Code]
  BY <1>1 DEF Code, Failing
<1> QED BY <1>1, <1>2, PoolUnchanged

LEMMA AllocatePageStep ==
  ASSUME Inv, CallAllocatePage
  PROVE  Inv'
<1> DEFINE op == "allocatePage"
<1>1. phase = "ready" /\ FileGood(file) /\ op \in Call /\ OutOfSpace \in Code
      /\ Alloc \in Code
  BY InvFacts DEF CallAllocatePage, Call, Code, Failing
<1>2. CASE AllocatePageStatus(file) # OK
  <2>1. result' = [op |-> op, rc |-> OutOfSpace]
        /\ UNCHANGED <<file, disk, bufferVars, phase, todo>>
    BY <1>2 DEF CallAllocatePage, storage, Returned
  <2>2. result' \in [op : Call, rc : Code]
    BY <1>1, <2>1
  <2> QED BY <1>1, <2>1, <2>2, PoolUnchanged
<1>3. CASE AllocatePageStatus(file) = OK
  <2>1. FileGood(AllocatePage(file)) /\ AllocatePagePID(file) \in Page \ file.header
        /\ AllocatePage(file).header = file.header \cup {AllocatePagePID(file)}
    BY <1>1, <1>3, AllocatePageLemma
  <2> PICK p \in Page : p = AllocatePagePID(file)
    BY <2>1
  <2>2. /\ file' = AllocatePage(file)
        /\ \/ NoVictim(op)
           \/ VictimStuck(op)
           \/ Evicting /\ Load(op, p, TRUE, image[Victim(lru)], Alloc)
    BY <1>3 DEF CallAllocatePage
  <2>3. /\ FileGood(file') /\ file.header \subseteq file'.header
        /\ p \in PID /\ ~Cached(p) /\ Held(p)'
    <3>1. ~Cached(p) /\ p \in PID
      BY <2>1, NotCached, InvalidPID
    <3> QED BY <2>1, <2>2, <3>1 DEF Held
  <2> HIDE DEF op
  <2>4. CASE NoVictim(op)
    BY <1>1, <2>3, <2>4, NoVictimStep
  <2>5. CASE VictimStuck(op)
    BY <1>1, <2>3, <2>5, VictimStuckLemma
  <2>6. CASE Evicting /\ Load(op, p, TRUE, image[Victim(lru)], Alloc)
    <3>1. image[Victim(lru)] \in Image
      BY <2>6, InvFacts, EvictLemma DEF SlotTypes
    <3> QED BY <1>1, <2>3, <2>6, <3>1, LoadLemma
  <2> QED BY <2>2, <2>4, <2>5, <2>6
<1> QED BY <1>2, <1>3

LEMMA AllocatePageWithPIDStep ==
  ASSUME Inv, NEW p \in OverwritePIDs, CallAllocatePageWithPID(p)
  PROVE  Inv'
<1> DEFINE op == "allocatePageWithPID"
           rc == AllocatePIDStatus(file, p)
           ret == IF rc = OK THEN Alloc ELSE AllocOverwrite
<1>1. /\ phase = "ready" /\ FileGood(file) /\ op \in Call /\ ret \in Code
      /\ p \in PID
  BY InvFacts, OverwritePIDsAssumption DEF CallAllocatePageWithPID, Call, Code
<1>2. \/ HitPage(op, p)
      \/ ~Cached(p) /\ NoVictim(op) /\ UNCHANGED file
      \/ ~Cached(p) /\ VictimStuck(op) /\ UNCHANGED file
      \/ /\ ~Cached(p) /\ Evicting
         /\ file' = IF rc = OK THEN AllocatePID(file, p) ELSE file
         /\ Load(op, p, TRUE, image[Victim(lru)], ret)
  BY DEF CallAllocatePageWithPID
<1> HIDE DEF op, ret
<1>3. CASE HitPage(op, p)
  BY <1>1, <1>3, HitLemma
<1>4. CASE ~Cached(p) /\ NoVictim(op) /\ UNCHANGED file
  BY <1>1, <1>4, NoVictimStep
<1>5. CASE ~Cached(p) /\ VictimStuck(op) /\ UNCHANGED file
  BY <1>1, <1>5, VictimStuckLemma
<1>6. CASE /\ ~Cached(p) /\ Evicting
           /\ file' = IF rc = OK THEN AllocatePID(file, p) ELSE file
           /\ Load(op, p, TRUE, image[Victim(lru)], ret)
  <2>1. image[Victim(lru)] \in Image
    BY <1>6, InvFacts, EvictLemma DEF SlotTypes
  <2>2. FileGood(file') /\ file.header \subseteq file'.header /\ Held(p)'
    <3>1. CASE rc = OK
      <4>1. FileGood(file') /\ file'.header = file.header \cup {p}
        BY <1>1, <1>6, <3>1, AllocatePIDLemma
      <4> QED BY <4>1 DEF Held
    <3>2. CASE rc # OK
      <4>1. p \in file.header \/ p >= NumBits
        BY <1>1, <3>2 DEF AllocatePIDStatus, IsAllocated
      <4>2. p \in file.header \/ p = NumBits
        BY <1>1, <4>1, NumBitsAssumption DEF PID
      <4> QED BY <1>1, <1>6, <3>2, <4>2 DEF Held
    <3> QED BY <3>1, <3>2
  <2> QED BY <1>1, <1>6, <2>1, <2>2, LoadLemma
<1> QED BY <1>2, <1>3, <1>4, <1>5, <1>6

LEMMA ReadPageStep ==
  ASSUME Inv, NEW p \in PID, CallReadPage(p)
  PROVE  Inv'
<1> DEFINE op == "readPage"
           rc == AccessStatus(file, p)
           v == Victim(lru)
           img == Read(DiskAfterEvicting(v), p, image[v])
           back == AddBack(RemoveSlot(lru, v), v)
<1>1. phase = "ready" /\ FileGood(file) /\ op \in Call /\ rc \in Code /\ ReadIn \in Code
  BY InvFacts, StatusIsCode DEF CallReadPage, Call, Code
<1>2. \/ HitPage(op, p)
      \/ ~Cached(p) /\ NoVictim(op) /\ UNCHANGED file
      \/ ~Cached(p) /\ VictimStuck(op) /\ UNCHANGED file
      \/ /\ ~Cached(p) /\ Evicting /\ UNCHANGED file
         /\ rc = OK /\ Load(op, p, FALSE, img, ReadIn)
      \/ Evicting /\ UNCHANGED file /\ Recycle(op, back, rc)
  BY DEF CallReadPage
<1> HIDE DEF op, img
<1>3. CASE HitPage(op, p)
  BY <1>1, <1>3, HitLemma
<1>4. CASE ~Cached(p) /\ NoVictim(op) /\ UNCHANGED file
  BY <1>1, <1>4, NoVictimStep
<1>5. CASE ~Cached(p) /\ VictimStuck(op) /\ UNCHANGED file
  BY <1>1, <1>5, VictimStuckLemma
<1>6. CASE /\ ~Cached(p) /\ Evicting /\ UNCHANGED file
           /\ rc = OK /\ Load(op, p, FALSE, img, ReadIn)
  <2>1. img \in Image /\ Held(p)'
    BY <1>6, ReadImage DEF img, Held
  <2> QED BY <1>1, <1>6, <2>1, LoadLemma
<1>7. CASE Evicting /\ UNCHANGED file /\ Recycle(op, back, rc)
  BY <1>1, <1>7, RecycleLemma
<1> QED BY <1>2, <1>3, <1>4, <1>5, <1>6, <1>7

LEMMA ReadOrAllocateStep ==
  ASSUME Inv, NEW p \in PID, CallReadOrAllocatePage(p)
  PROVE  Inv'
<1> DEFINE op == "readOrAllocatePage"
           rc == AllocatePIDStatus(file, p)
           v == Victim(lru)
           img == Read(DiskAfterEvicting(v), p, image[v])
           back == Add(RemoveSlot(lru, v), v)
<1>1. phase = "ready" /\ FileGood(file) /\ op \in Call /\ rc \in Code
      /\ ReadIn \in Code /\ Alloc \in Code
  BY InvFacts, StatusIsCode DEF CallReadOrAllocatePage, Call, Code
<1>2. \/ HitPage(op, p)
      \/ ~Cached(p) /\ NoVictim(op) /\ UNCHANGED file
      \/ ~Cached(p) /\ VictimStuck(op) /\ UNCHANGED file
      \/ /\ ~Cached(p) /\ Evicting /\ UNCHANGED file
         /\ AccessStatus(file, p) = OK /\ Load(op, p, FALSE, img, ReadIn)
      \/ /\ ~Cached(p) /\ Evicting /\ rc = OK
         /\ Load(op, p, TRUE, image[v], Alloc) /\ file' = AllocatePID(file, p)
      \/ Evicting /\ UNCHANGED file /\ Recycle(op, back, rc)
  BY DEF CallReadOrAllocatePage
<1> HIDE DEF op, img
<1>3. CASE HitPage(op, p)
  BY <1>1, <1>3, HitLemma
<1>4. CASE ~Cached(p) /\ NoVictim(op) /\ UNCHANGED file
  BY <1>1, <1>4, NoVictimStep
<1>5. CASE ~Cached(p) /\ VictimStuck(op) /\ UNCHANGED file
  BY <1>1, <1>5, VictimStuckLemma
<1>6. CASE /\ ~Cached(p) /\ Evicting /\ UNCHANGED file
           /\ AccessStatus(file, p) = OK /\ Load(op, p, FALSE, img, ReadIn)
  <2>1. img \in Image /\ Held(p)'
    BY <1>6, ReadImage DEF img, Held
  <2> QED BY <1>1, <1>6, <2>1, LoadLemma
<1>7. CASE /\ ~Cached(p) /\ Evicting /\ rc = OK
           /\ Load(op, p, TRUE, image[v], Alloc) /\ file' = AllocatePID(file, p)
  <2>1. image[v] \in Image
    BY <1>7, InvFacts, EvictLemma DEF SlotTypes
  <2>2. FileGood(file') /\ file'.header = file.header \cup {p}
    BY <1>1, <1>7, AllocatePIDLemma
  <2>3. file.header \subseteq file'.header /\ Held(p)'
    BY <2>2 DEF Held
  <2> QED BY <1>1, <1>7, <2>1, <2>2, <2>3, LoadLemma
<1>8. CASE Evicting /\ UNCHANGED file /\ Recycle(op, back, rc)
  BY <1>1, <1>8, RecycleLemma
<1> QED BY <1>2, <1>3, <1>4, <1>5, <1>6, <1>7, <1>8

-----------------------------------------------------------------------------
(* The end of a process, by a crash or by a null link. *)
LEMMA EndStep ==
  ASSUME Inv, MemoryGone, UNCHANGED disk,
         result' = Returned("crash", OK) \/ result' = Returned("fault", OK)
  PROVE  Inv'
<1>1. DiskGood(disk')
  BY InvFacts
<1>2. result' \in [op : Call, rc : Code]
  BY DEF Returned, Call, Code
<1> QED BY <1>1, <1>2, MemoryGoneLemma

LEMMA StutterStep ==
  ASSUME Inv, UNCHANGED vars
  PROVE  Inv'
BY DEF vars, storage, bufferVars, slotVars, Inv, StorageInv, ListInv, SlotTypes,
       HashMatchesSlots, Cached, SlotGood, Held, PhaseInv, ResultInv

(* Every step keeps the invariant, as long as no caller disposes a page it *)
(* does not hold.                                                          *)
LEMMA NextInv ==
  ASSUME Inv, 0 \notin DisposePins, [Next]_vars
  PROVE  Inv'
<1>1. CASE CallAllocatePage
  BY <1>1, AllocatePageStep
<1>2. ASSUME NEW p \in OverwritePIDs, CallAllocatePageWithPID(p) PROVE Inv'
  BY <1>2, AllocatePageWithPIDStep
<1>3. ASSUME NEW p \in PID, CallReadPage(p) \/ CallReadOrAllocatePage(p) PROVE Inv'
  BY <1>3, ReadPageStep, ReadOrAllocateStep
<1>4. ASSUME NEW p \in PID, HitUnlinkedPage(p) PROVE Inv'
  BY <1>4, EndStep DEF HitUnlinkedPage
<1>5. ASSUME NEW s \in Slot,
             \/ CallDisposePage(s) \/ CallPinPage(s) \/ CallUnpinPage(s)
             \/ CallGetBlockObject(s) \/ CallFreeBlockObject(s) \/ CallFlushPage(s)
             \/ \E img \in Image : WriteHeld(s, img)
      PROVE  Inv'
  BY <1>5, DisposeStep, PinStep, UnpinStep, ObjectStep, FlushPageStep, WriteStep
<1>6. ASSUME NEW op \in {"flushAllPages", "close"}, BeginFlushAll(op) PROVE Inv'
  BY <1>6, BeginFlushStep
<1>7. ASSUME NEW p \in PID, FlushOne(p) PROVE Inv'
  BY <1>7, FlushOneStep
<1>8. CASE FlushExtend \/ FlushHeader \/ Restart
  BY <1>8, FlushExtendStep, FlushHeaderStep, RestartStep
<1>9. CASE Crash
  BY <1>9, EndStep DEF Crash
<1>10. CASE UNCHANGED vars
  BY <1>10, StutterStep
<1> QED BY <1>1, <1>2, <1>3, <1>4, <1>5, <1>6, <1>7, <1>8, <1>9, <1>10 DEF Next

-----------------------------------------------------------------------------
LEMMA SpecInv == 0 \notin DisposePins => (Spec => []Inv)
<1> SUFFICES ASSUME 0 \notin DisposePins PROVE Spec => []Inv
  OBVIOUS
<1>1. Init => Inv
  BY InitInv
<1>2. Inv /\ [Next]_vars => Inv'
  BY NextInv
<1> QED BY <1>1, <1>2, PTL DEF Spec

(* Every variable keeps its type whatever the callers do, as long as none  *)
(* disposes a page it does not hold.                                       *)
THEOREM TypeCorrect == 0 \notin DisposePins => (Spec => []TypeOK)
<1> SUFFICES ASSUME 0 \notin DisposePins PROVE Spec => []TypeOK
  OBVIOUS
<1>1. Inv => TypeOK
  BY DEF Inv, TypeOK, StorageInv, FileGood, DiskGood, ListInv, SlotTypes, PhaseInv,
         ResultInv
<1> QED BY <1>1, SpecInv, PTL

(* The hash table and the records agree for every number of slots and      *)
(* pages: no page is ever in the pool twice (BufferManager.cpp:103-292).   *)
THEOREM HashAlwaysMatches == 0 \notin DisposePins => (Spec => []HashMatchesSlots)
<1> SUFFICES ASSUME 0 \notin DisposePins PROVE Spec => []HashMatchesSlots
  OBVIOUS
<1>1. Inv => HashMatchesSlots
  BY DEF Inv
<1> QED BY <1>1, SpecInv, PTL

(* Only a refused eviction loses a slot (BufferManager.cpp:400-403).       *)
THEOREM OnlyRefusalsLoseSlots ==
  0 \notin DisposePins => (Spec => []LostSlotsAreUnwritable)
<1> SUFFICES ASSUME 0 \notin DisposePins PROVE Spec => []LostSlotsAreUnwritable
  OBVIOUS
<1>1. ASSUME Inv PROVE LostSlotsAreUnwritable
  <2>1. ASSUME NEW s \in Slot, pinCount[s] = 0, s \notin Listed(lru)
        PROVE  pid[s] \in PID /\ AccessStatus(file, pid[s]) # OK
    <3>1. pid[s] = NumBits
      BY <1>1, <2>1, InvFacts DEF SlotGood
    <3>2. NumBits \notin file.header
      BY <1>1, InvFacts, NumBitsAssumption DEF FileGood, FileObject, Page
    <3> QED BY <1>1, <3>1, <3>2, InvFacts, InvalidPID, AccessLemma
  <2> QED BY <1>1, <2>1, InvFacts DEF LostSlotsAreUnwritable
<1> QED BY <1>1, SpecInv, PTL

(* A pinned page's block object was built for it (BufferManager.cpp:84-99).*)
THEOREM ObjectsStayFresh == 0 \notin DisposePins => (Spec => []BlockObjectFresh)
<1> SUFFICES ASSUME 0 \notin DisposePins PROVE Spec => []BlockObjectFresh
  OBVIOUS
<1>1. ASSUME Inv PROVE BlockObjectFresh
  BY <1>1, InvFacts DEF BlockObjectFresh, SlotGood
<1> QED BY <1>1, SpecInv, PTL

(* While no caller reaches past the bitmap, every eviction can write its   *)
(* victim (BufferManager.cpp:396-403) ...                                  *)
THEOREM CachedStaysAllocated ==
  0 \notin DisposePins /\ OverwritePIDs \subseteq Page => (Spec => []CachedIsAllocated)
<1> SUFFICES ASSUME 0 \notin DisposePins, OverwritePIDs \subseteq Page
             PROVE  Spec => []CachedIsAllocated
  OBVIOUS
<1>1. ASSUME Inv PROVE CachedIsAllocated
  <2>1. ASSUME NEW s \in Slot, pid[s] \in PID PROVE AccessStatus(file, pid[s]) = OK
    <3>1. Held(pid[s]) /\ FileGood(file)
      BY <1>1, <2>1, InvFacts DEF SlotGood
    <3>2. NumBits \notin OverwritePIDs
      BY NumBitsAssumption DEF Page
    <3>3. pid[s] \in file.header
      BY <3>1, <3>2 DEF Held
    <3> QED BY <2>1, <3>1, <3>3, AccessLemma
  <2> QED BY <2>1 DEF CachedIsAllocated
<1> QED BY <1>1, SpecInv, PTL

(* ... and the list holds exactly the unpinned slots: no pinned page is a  *)
(* victim, no unpinned slot is lost (BufferManager.cpp:318-330, 386-416).  *)
THEOREM UnpinnedStayListed ==
  0 \notin DisposePins /\ OverwritePIDs \subseteq Page => (Spec => []UnpinnedAreListed)
<1> SUFFICES ASSUME 0 \notin DisposePins, OverwritePIDs \subseteq Page
             PROVE  Spec => []UnpinnedAreListed
  OBVIOUS
<1>1. ASSUME Inv PROVE UnpinnedAreListed
  <2>1. ASSUME NEW s \in Slot PROVE s \in Listed(lru) <=> pinCount[s] = 0
    <3>1. SlotGood(s) /\ pinCount[s] \in Nat
      BY <1>1, InvFacts DEF SlotTypes
    <3>2. pinCount[s] # 0 => s \notin Listed(lru)
      BY <3>1 DEF SlotGood
    <3>3. ASSUME pinCount[s] = 0, s \notin Listed(lru) PROVE FALSE
      <4>1. pid[s] = NumBits /\ pid[s] \in PID
        BY <3>1, <3>3, InvalidPID DEF SlotGood
      <4>2. NumBits \in file.header \/ NumBits \in OverwritePIDs
        BY <3>1, <4>1 DEF SlotGood, Held
      <4>3. NumBits \notin Page /\ file.header \subseteq Page
        BY <1>1, InvFacts, NumBitsAssumption DEF Page, FileGood, FileObject
      <4> QED BY <4>2, <4>3
    <3> QED BY <3>2, <3>3
  <2>2. Listed(lru) = {s \in Slot : pinCount[s] = 0}
    BY <2>1 DEF Listed
  <2> QED BY <1>1, <2>2, InvFacts DEF UnpinnedAreListed
<1> QED BY <1>1, SpecInv, PTL

-----------------------------------------------------------------------------
(* A step that leaves every record's page and image alone. *)
LEMMA PagesUntouched ==
  ASSUME UNCHANGED <<pid, image>>
  PROVE  HeldPagesStay
BY DEF HeldPagesStay

(* A miss touches the victim's slot only, and that one is not pinned. *)
LEMMA MissKeepsHeld ==
  ASSUME Inv, Evicting, NEW p, NEW img, NEW s \in Slot, pinCount[s] > 0,
         \/ pid' = [pid EXCEPT ![Victim(lru)] = p] /\ image' = image
         \/ pid' = [pid EXCEPT ![Victim(lru)] = p]
            /\ image' = [image EXCEPT ![Victim(lru)] = img]
  PROVE  pid'[s] = pid[s] /\ image'[s] = image[s]
<1>1. s # Victim(lru)
  BY EvictLemma
<1> QED BY <1>1, InvFacts DEF SlotTypes

LEMMA CallKeepsHeld ==
  ASSUME Inv, NEW op, NEW p, NEW d, NEW rc,
         \/ HitPage(op, p)
         \/ NoVictim(op)
         \/ VictimStuck(op)
         \/ Evicting /\ \E img : Load(op, p, d, img, rc)
         \/ Evicting /\ \E l : Recycle(op, l, rc)
  PROVE  HeldPagesStay
<1>1. CASE HitPage(op, p) \/ NoVictim(op) \/ VictimStuck(op)
  BY <1>1, PagesUntouched DEF HitPage, NoVictim, VictimStuck, bufferVars, slotVars
<1>2. ASSUME Evicting, NEW img, Load(op, p, d, img, rc) PROVE HeldPagesStay
  <2>1. pid' = [pid EXCEPT ![Victim(lru)] = p]
        /\ image' = [image EXCEPT ![Victim(lru)] = img]
    BY <1>2 DEF Load
  <2> QED BY <1>2, <2>1, MissKeepsHeld DEF HeldPagesStay
<1>3. ASSUME Evicting, NEW l, Recycle(op, l, rc) PROVE HeldPagesStay
  <2>1. pid' = [pid EXCEPT ![Victim(lru)] = INVALID_PID] /\ image' = image
    BY <1>3 DEF Recycle
  <2> QED BY <1>3, <2>1, MissKeepsHeld DEF HeldPagesStay
<1> QED BY <1>1, <1>2, <1>3

LEMMA StepKeepsHeld ==
  ASSUME Inv, Next
  PROVE  HeldPagesStay
<1>1. CASE CallAllocatePage
  <2>1. CASE AllocatePageStatus(file) # OK
    BY <1>1, <2>1, PagesUntouched DEF CallAllocatePage, bufferVars, slotVars
  <2>2. CASE AllocatePageStatus(file) = OK
    <3> DEFINE p == AllocatePagePID(file)
    <3>1. \/ NoVictim("allocatePage")
          \/ VictimStuck("allocatePage")
          \/ Evicting /\ Load("allocatePage", p, TRUE, image[Victim(lru)], Alloc)
      BY <1>1, <2>2 DEF CallAllocatePage
    <3> HIDE DEF p
    <3> QED BY <3>1, CallKeepsHeld
  <2> QED BY <2>1, <2>2
<1>2. ASSUME NEW p \in OverwritePIDs, CallAllocatePageWithPID(p) PROVE HeldPagesStay
  <2> DEFINE op == "allocatePageWithPID"
             rc == IF AllocatePIDStatus(file, p) = OK THEN Alloc ELSE AllocOverwrite
  <2>1. \/ HitPage(op, p) \/ NoVictim(op) \/ VictimStuck(op)
        \/ Evicting /\ Load(op, p, TRUE, image[Victim(lru)], rc)
    BY <1>2 DEF CallAllocatePageWithPID
  <2> HIDE DEF op, rc
  <2> QED BY <2>1, CallKeepsHeld
<1>3. ASSUME NEW p \in PID, CallReadPage(p) PROVE HeldPagesStay
  <2> DEFINE op == "readPage"
             img == Read(DiskAfterEvicting(Victim(lru)), p, image[Victim(lru)])
             back == AddBack(RemoveSlot(lru, Victim(lru)), Victim(lru))
  <2>1. \/ HitPage(op, p) \/ NoVictim(op) \/ VictimStuck(op)
        \/ Evicting /\ Load(op, p, FALSE, img, ReadIn)
        \/ Evicting /\ Recycle(op, back, AccessStatus(file, p))
    BY <1>3 DEF CallReadPage
  <2> HIDE DEF op, img, back
  <2> QED BY <2>1, CallKeepsHeld
<1>4. ASSUME NEW p \in PID, CallReadOrAllocatePage(p) PROVE HeldPagesStay
  <2> DEFINE op == "readOrAllocatePage"
             img == Read(DiskAfterEvicting(Victim(lru)), p, image[Victim(lru)])
             back == Add(RemoveSlot(lru, Victim(lru)), Victim(lru))
  <2>1. \/ HitPage(op, p) \/ NoVictim(op) \/ VictimStuck(op)
        \/ Evicting /\ Load(op, p, FALSE, img, ReadIn)
        \/ Evicting /\ Load(op, p, TRUE, image[Victim(lru)], Alloc)
        \/ Evicting /\ Recycle(op, back, AllocatePIDStatus(file, p))
    BY <1>4 DEF CallReadOrAllocatePage
  <2> HIDE DEF op, img, back
  <2> QED BY <2>1, CallKeepsHeld
<1>5. ASSUME NEW p \in PID, HitUnlinkedPage(p) PROVE HeldPagesStay
  BY <1>5 DEF HitUnlinkedPage, MemoryGone, HeldPagesStay
<1>6. ASSUME NEW s \in Slot, CallDisposePage(s) PROVE HeldPagesStay
  BY <1>6 DEF CallDisposePage, HeldPagesStay, Returned
<1>7. ASSUME NEW s \in Slot,
             \/ CallPinPage(s) \/ CallUnpinPage(s) \/ CallGetBlockObject(s)
             \/ CallFreeBlockObject(s) \/ CallFlushPage(s)
      PROVE  HeldPagesStay
  BY <1>7, PagesUntouched
     DEF CallPinPage, CallUnpinPage, CallGetBlockObject, CallFreeBlockObject, CallFlushPage
<1>8. ASSUME NEW s \in Slot, NEW img \in Image, WriteHeld(s, img) PROVE HeldPagesStay
  BY <1>8 DEF WriteHeld, HeldPagesStay, Returned
<1>9. ASSUME NEW op, BeginFlushAll(op) PROVE HeldPagesStay
  BY <1>9, PagesUntouched DEF BeginFlushAll, bufferVars, slotVars
<1>10. ASSUME NEW p \in PID, FlushOne(p) PROVE HeldPagesStay
  BY <1>10, PagesUntouched DEF FlushOne
<1>11. CASE FlushExtend
  BY <1>11, PagesUntouched DEF FlushExtend, bufferVars, slotVars
<1>12. CASE FlushHeader
  BY <1>12 DEF FlushHeader, HeldPagesStay, MemoryGone, bufferVars, slotVars
<1>13. CASE Crash
  BY <1>13 DEF Crash, MemoryGone, HeldPagesStay
<1>14. CASE Restart
  <2>1. ASSUME NEW s \in Slot PROVE ~(pinCount[s] > 0)
    <3>1. SlotGood(s) /\ pid[s] = INVALID_PID
      BY <1>14, InvFacts DEF PhaseInv, Restart
    <3> QED BY <3>1, InvalidPID DEF SlotGood
  <2> QED BY <2>1 DEF HeldPagesStay
<1> QED BY <1>1, <1>2, <1>3, <1>4, <1>5, <1>6, <1>7, <1>8, <1>9, <1>10, <1>11, <1>12,
           <1>13, <1>14 DEF Next

(* While somebody holds a page, no other call moves it or changes it, for  *)
(* every number of slots, pages and pins (BufferManager.cpp:303-304).      *)
THEOREM HeldPagesAreSafe == 0 \notin DisposePins => (Spec => PinnedPagesStay)
<1> SUFFICES ASSUME 0 \notin DisposePins PROVE Spec => PinnedPagesStay
  OBVIOUS
<1>1. Inv /\ [Next]_vars => [HeldPagesStay]_vars
  BY StepKeepsHeld
<1> QED BY <1>1, SpecInv, PTL DEF Spec, PinnedPagesStay

-----------------------------------------------------------------------------
(* The values of a frame.                                                  *)
FrameSet == [image : Image, dirty : BOOLEAN]

(* The types of what the pool's specification is mapped to.                *)
PoolTypes ==
  /\ Bits \in SUBSET Page
  /\ leaked \in SUBSET Bits
  /\ Frames \in [Page -> FrameSet \cup {NULL}]
  /\ disk.page \in [Page -> Image]
  /\ disk.header \in SUBSET Page

(* The pool's invariant: a cached page is allocated, and a clean frame     *)
(* that is not leaked is the page on disk.                                 *)
PoolSafe ==
  /\ PoolTypes
  /\ \A p \in Page : Frames[p] # NULL => p \in Bits
  /\ \A p \in Page : p \notin leaked /\ Frames[p] # NULL /\ ~Frames[p].dirty
                       => disk.page[p] = Frames[p].image

(* What a reader sees at page p, in terms of the pool.                     *)
Seen(p) == IF p \notin Bits THEN NoPage
           ELSE IF p \in leaked THEN Unknown
           ELSE IF Frames[p] # NULL THEN Frames[p].image
           ELSE disk.page[p]
ViewIs == Views = [p \in Page |-> Seen(p)]

(* What a crash would leave of page p.                                     *)
OnDisk(p) == IF p \in disk.header THEN disk.page[p] ELSE NoPage

(* What a page may be seen to hold.                                       *)
Content == Image \cup {NoPage, Unknown}

(* recent holds what is seen now, and what a crash would bring back.       *)
RecentSafe ==
  /\ recent \in [Page -> SUBSET Content]
  /\ \A p \in Page : Views[p] \in recent[p]
  /\ \A p \in Page : Unknown \in recent[p] \/ OnDisk(p) \in recent[p]

(* What RecentNext does in a step, and at the end of a flush.              *)
Grows == recent' = [p \in Page |-> recent[p] \cup {Views[p]'}]
Forgets == recent' = [p \in Page |-> {Views[p]'}]

AllContent == \A p \in Page : Seen(p) \in Content

(* What is seen at a page is a content.                                    *)
LEMMA SeenIsContent == PoolTypes => AllContent
BY DEF PoolTypes, Seen, Content, FrameSet, AllContent

(* ... in the next state as well.                                          *)
LEMMA SeenIsContentNext == PoolTypes' => AllContent'
BY SeenIsContent, PTL

(* The fields of a new frame, which is not NULL.                           *)
LEMMA NewFrame ==
  ASSUME NEW img \in Image, NEW d \in BOOLEAN
  PROVE  /\ Pool!Frame(img, d) \in FrameSet
         /\ Pool!Frame(img, d) # NULL
         /\ Pool!Frame(img, d).image = img
         /\ Pool!Frame(img, d).dirty = d
BY FrameAssumption DEF FrameSet, Pool!Frame

(* The same for a frame that is born dirty.                                *)
LEMMA BornDirty ==
  ASSUME NEW img \in Image
  PROVE  /\ Pool!Frame(img, TRUE) # NULL
         /\ Pool!Frame(img, TRUE).image = img
         /\ Pool!Frame(img, TRUE).dirty
BY NewFrame

(* Setting one field of a frame gives a new frame.                         *)
LEMMA SetFields ==
  ASSUME NEW x \in FrameSet, NEW img \in Image, NEW d \in BOOLEAN
  PROVE  /\ [x EXCEPT !.image = img] = Pool!Frame(img, x.dirty)
         /\ [x EXCEPT !.dirty = d] = Pool!Frame(x.image, d)
         /\ x.image \in Image /\ x.dirty \in BOOLEAN
BY DEF FrameSet, Pool!Frame

(* Writing to an image and marking it is a new dirty frame. *)
LEMMA MarkedIs ==
  ASSUME Frames \in [Page -> FrameSet \cup {NULL}], NEW p \in Page, Frames[p] # NULL,
         NEW img \in Image
  PROVE  Pool!Marked(Pool!Scribbled(Frames, p, img), p) = [Frames EXCEPT ![p] = Pool!Frame(img, TRUE)]
<1> DEFINE x == [Frames[p] EXCEPT !.image = img]
<1>1. x = Pool!Frame(img, Frames[p].dirty) /\ Frames[p].dirty \in BOOLEAN
  BY SetFields
<1>2. x \in FrameSet /\ x.image = img
  BY <1>1, NewFrame
<1> HIDE DEF x
<1>3. [x EXCEPT !.dirty = TRUE] = Pool!Frame(img, TRUE)
  BY <1>2, SetFields
<1>4. Pool!Scribbled(Frames, p, img) = [Frames EXCEPT ![p] = x]
  BY DEF Pool!Scribbled, x
<1>5. Pool!Marked(Pool!Scribbled(Frames, p, img), p) = [[Frames EXCEPT ![p] = x] EXCEPT ![p].dirty = TRUE]
  BY <1>4 DEF Pool!Marked
<1>6. Pool!Marked(Pool!Scribbled(Frames, p, img), p) = [Frames EXCEPT ![p] = [x EXCEPT !.dirty = TRUE]]
  BY <1>5
<1> QED BY <1>3, <1>6

(* Of an allocated page, Unknown is seen when it is leaked and only then.  *)
LEMMA SeenPage ==
  ASSUME PoolTypes, NEW p \in Bits
  PROVE  Seen(p) # NoPage /\ (p \in leaked <=> Seen(p) = Unknown)
<1>1. disk.page[p] \in Image /\ (Frames[p] # NULL => Frames[p].image \in Image)
  BY DEF PoolTypes, FrameSet
<1>2. Unknown # NoPage
  BY DEF Unknown, NoPage
<1> QED BY <1>1, <1>2, ContentAssumption DEF Seen

(* What an eviction leaves: at most one frame is gone, the disk holds what *)
(* a dirty one had, and whatever page is not leaked reads as before.       *)
LEMMA RoomLemma ==
  ASSUME PoolSafe, NEW r \in Pool!Room
  PROVE  /\ r.frames \in [Page -> FrameSet \cup {NULL}]
         /\ r.disk \in [Page -> Image]
         /\ \A p \in Page : r.frames[p] = NULL \/ r.frames[p] = Frames[p]
         /\ \A p \in Page : r.frames[p] # NULL => r.disk[p] = disk.page[p]
         /\ \A p \in Page : r.frames[p] = NULL /\ Frames[p] # NULL /\ p \notin leaked
                              => r.disk[p] = Frames[p].image
         /\ \A p \in Page : r.disk[p] # disk.page[p]
                              => Frames[p] # NULL /\ r.disk[p] = Frames[p].image
         /\ \A p \in Page : Frames[p] = NULL => r.frames[p] = NULL
         /\ \A p \in Page \ leaked :
              (IF r.frames[p] # NULL THEN r.frames[p].image ELSE r.disk[p])
                 = IF Frames[p] # NULL THEN Frames[p].image ELSE disk.page[p]
<1> USE FrameAssumption
<1>1. /\ r.frames \in [Page -> FrameSet \cup {NULL}]
      /\ r.disk \in [Page -> Image]
      /\ \A p \in Page : r.frames[p] = NULL \/ r.frames[p] = Frames[p]
      /\ \A p \in Page : r.frames[p] # NULL => r.disk[p] = disk.page[p]
      /\ \A p \in Page : r.frames[p] = NULL /\ Frames[p] # NULL /\ p \notin leaked
                              => r.disk[p] = Frames[p].image
      /\ \A p \in Page : r.disk[p] # disk.page[p]
                              => Frames[p] # NULL /\ r.disk[p] = Frames[p].image
      /\ \A p \in Page : Frames[p] = NULL => r.frames[p] = NULL
  BY DEF Pool!Room, PoolSafe, PoolTypes, Pool!Evicted, Pool!DiskWith, Pool!Dirty,
         Pool!InPool, FrameSet
<1> QED BY <1>1

(* The pool's steps keep PoolSafe, one lemma each, and say what a reader   *)
(* sees afterwards.  A read changes nothing that is seen.                  *)
LEMMA ReadKeeps ==
  ASSUME PoolSafe, PoolTypes', Pool!Read
  PROVE  PoolSafe' /\ CallKind' = "quiet" /\ \A p \in Page : Seen(p)' = Seen(p)
<1> USE FrameAssumption
<1>1. PICK r \in Pool!Room :
       /\ disk'.page = r.disk
       /\ \/ Frames' = r.frames
          \/ \E p \in Bits \ leaked : Frames' = Pool!Fetched(r.frames, r.disk, p)
          \/ \E p \in Bits \cap leaked, img \in Image :
               ~Pool!InPool(Frames, p) /\ Frames' = [r.frames EXCEPT ![p] = Pool!Frame(img, FALSE)]
  BY DEF Pool!Read
<1>2. UNCHANGED <<Bits, leaked>> /\ CallKind' = "quiet" /\ disk'.header = disk.header
  BY DEF Pool!Read
<1> QED
  BY SMTT(30), <1>1, <1>2, RoomLemma
     DEF PoolSafe, PoolTypes, Pool!Fetched, Pool!InPool, Pool!Frame, FrameSet, Seen

(* An allocation gives one page that had no content some content.          *)
LEMMA AllocateKeeps ==
  ASSUME PoolSafe, PoolTypes', Pool!Allocate
  PROVE  /\ PoolSafe' /\ CallKind' = "alloc"
         /\ \E p \in Page, c \in Image :
              Seen(p) = NoPage /\ \A q \in Page : Seen(q)' = IF q = p THEN c ELSE Seen(q)
<1> USE FrameAssumption
<1>1. PICK r \in Pool!Room, p \in Page \ Bits, img \in Image :
       /\ disk'.page = r.disk
       /\ Frames' = Pool!Installed(r.frames, p, img)
       /\ Bits' = Bits \cup {p}
       /\ leaked' = leaked \ {p}
  BY DEF Pool!Allocate
<1>2. CallKind' = "alloc" /\ disk'.header = disk.header
  BY DEF Pool!Allocate
<1>3. \A q \in Page : Frames'[q] = IF q = p THEN Pool!Frame(img, TRUE) ELSE r.frames[q]
  BY <1>1, RoomLemma DEF Pool!Installed
<1>4. PoolSafe'
  <2>1. ASSUME NEW q \in Page, Frames'[q] # NULL PROVE q \in Bits'
    BY <1>1, <1>2, <1>3, <2>1, RoomLemma DEF PoolSafe
  <2>2. ASSUME NEW q \in Page, q \notin leaked', Frames'[q] # NULL, ~Frames'[q].dirty
        PROVE  disk'.page[q] = Frames'[q].image
    <3>1. q # p /\ Frames'[q] = r.frames[q] /\ q \notin leaked
      BY <1>1, <1>3, <2>2, BornDirty
    <3>2. r.frames[q] = Frames[q] /\ r.disk[q] = disk.page[q]
      BY <2>2, <3>1, RoomLemma
    <3> QED BY <1>1, <2>2, <3>1, <3>2 DEF PoolSafe
  <2> QED BY <2>1, <2>2 DEF PoolSafe
<1>5. Seen(p) = NoPage
  BY DEF Seen
<1>6. ASSUME NEW q \in Page PROVE Seen(q)' = IF q = p THEN img ELSE Seen(q)
  <2>1. CASE q = p
    <3>1. Frames'[p] # NULL /\ Frames'[p].image = img
      BY <1>3, BornDirty
    <3> QED BY <1>1, <2>1, <3>1 DEF Seen
  <2>2. CASE q # p
    <3>1. Frames'[q] = r.frames[q] /\ (q \in Bits' <=> q \in Bits) /\ (q \in leaked' <=> q \in leaked)
      BY <1>1, <1>3, <2>2
    <3> QED BY <1>1, <2>2, <3>1, RoomLemma DEF Seen
  <2> QED BY <2>1, <2>2
<1> QED BY <1>2, <1>4, <1>5, <1>6

(* An overwriting allocation gives one allocated page some content.        *)
LEMMA OverwriteKeeps ==
  ASSUME PoolSafe, PoolTypes', Pool!Overwrite
  PROVE  /\ PoolSafe' /\ CallKind' = "overwrite"
         /\ \E p \in Page, c \in Image :
              Seen(p) # NoPage /\ \A q \in Page : Seen(q)' = IF q = p THEN c ELSE Seen(q)
<1> USE FrameAssumption, ContentAssumption
<1>1. PICK r \in Pool!Room, p \in Bits, img \in Image :
       /\ disk'.page = r.disk
       /\ Frames' = Pool!Installed(r.frames, p, img)
       /\ leaked' = leaked \ {p}
  BY DEF Pool!Overwrite
<1>2. CallKind' = "overwrite" /\ disk'.header = disk.header /\ Bits' = Bits /\ p \in Page
  BY DEF Pool!Overwrite, PoolSafe, PoolTypes
<1>3. \A q \in Page : Frames'[q] = IF q = p THEN Pool!Frame(img, TRUE) ELSE r.frames[q]
  BY <1>1, <1>2, RoomLemma DEF Pool!Installed
<1>4. PoolSafe'
  <2>1. ASSUME NEW q \in Page, Frames'[q] # NULL PROVE q \in Bits'
    BY <1>1, <1>2, <1>3, <2>1, RoomLemma DEF PoolSafe
  <2>2. ASSUME NEW q \in Page, q \notin leaked', Frames'[q] # NULL, ~Frames'[q].dirty
        PROVE  disk'.page[q] = Frames'[q].image
    <3>1. q # p /\ Frames'[q] = r.frames[q] /\ q \notin leaked
      BY <1>1, <1>3, <2>2, BornDirty
    <3>2. r.frames[q] = Frames[q] /\ r.disk[q] = disk.page[q]
      BY <2>2, <3>1, RoomLemma
    <3> QED BY <1>1, <2>2, <3>1, <3>2 DEF PoolSafe
  <2> QED BY <2>1, <2>2 DEF PoolSafe
<1>5. ASSUME NEW q \in Page PROVE Seen(q)' = IF q = p THEN img ELSE Seen(q)
  <2>1. CASE q = p
    <3>1. Frames'[p] # NULL /\ Frames'[p].image = img
      BY <1>2, <1>3, NewFrame
    <3> QED BY <1>1, <1>2, <2>1, <3>1 DEF Seen
  <2>2. CASE q # p
    <3>1. Frames'[q] = r.frames[q] /\ (q \in leaked' <=> q \in leaked)
      BY <1>1, <1>3, <2>2
    <3> QED BY <1>1, <1>2, <2>2, <3>1, RoomLemma DEF Seen
  <2> QED BY <2>1, <2>2
<1>6. Seen(p) # NoPage
  BY <1>2, SeenPage DEF PoolSafe
<1> QED BY <1>1, <1>2, <1>4, <1>5, <1>6

(* A failing allocation may leave one page with an unknown content.        *)
LEMMA LeakKeeps ==
  ASSUME PoolSafe, PoolTypes', Pool!Leak
  PROVE  /\ PoolSafe' /\ CallKind' = "leak"
         /\ \/ \A q \in Page : Seen(q)' = Seen(q)
            \/ \E p \in Page :
                 /\ Seen(p) = NoPage
                 /\ \A q \in Page : Seen(q)' = IF q = p THEN Unknown ELSE Seen(q)
<1>1. CallKind' = "leak" /\ Frames' = Frames /\ disk'.page = disk.page /\ disk'.header = disk.header
  BY DEF Pool!Leak
<1>2. PoolSafe'
  BY <1>1 DEF PoolSafe, PoolTypes, Pool!Leak
<1>3. CASE UNCHANGED <<Bits, leaked>>
  BY <1>1, <1>2, <1>3 DEF Seen
<1>4. CASE \E p \in Page \ Bits : Bits' = Bits \cup {p} /\ leaked' = leaked \cup {p}
  <2> PICK p \in Page \ Bits : Bits' = Bits \cup {p} /\ leaked' = leaked \cup {p}
    BY <1>4
  <2>1. Seen(p) = NoPage /\ \A q \in Page : Seen(q)' = IF q = p THEN Unknown ELSE Seen(q)
    BY <1>1 DEF Seen
  <2> QED BY <1>1, <1>2, <2>1
<1> QED BY <1>3, <1>4 DEF Pool!Leak

(* A holder's write changes the page written, if its content is known.     *)
LEMMA ChangeKeeps ==
  ASSUME PoolSafe, PoolTypes', Pool!Change
  PROVE  /\ PoolSafe' /\ CallKind' = "put"
         /\ \E p \in Page, c \in Image :
              /\ Seen(p) # NoPage
              /\ \A q \in Page : Seen(q)' = IF q = p /\ Seen(p) # Unknown THEN c ELSE Seen(q)
<1> USE FrameAssumption, ContentAssumption
<1>1. PICK p \in Page, img \in Image :
       /\ Pool!InPool(Frames, p)
       /\ Frames' = Pool!Marked(Pool!Scribbled(Frames, p, img), p)
  BY DEF Pool!Change
<1>2. /\ CallKind' = "put" /\ disk'.header = disk.header /\ disk'.page = disk.page
      /\ Bits' = Bits /\ leaked' = leaked
  BY DEF Pool!Change
<1>3. /\ Frames[p] # NULL /\ p \in Bits /\ Frames[p] \in FrameSet
      /\ \A q \in Page : Frames'[q] = IF q = p THEN Pool!Frame(img, TRUE) ELSE Frames[q]
  <2>1. Frames[p] # NULL /\ p \in Bits /\ Frames[p] \in FrameSet
    BY <1>1 DEF PoolSafe, PoolTypes, Pool!InPool
  <2>2. Frames \in [Page -> FrameSet \cup {NULL}]
    BY DEF PoolSafe, PoolTypes
  <2>3. Frames' = [Frames EXCEPT ![p] = Pool!Frame(img, TRUE)]
    BY <1>1, <2>1, <2>2, MarkedIs
  <2> QED BY <2>1, <2>2, <2>3
<1>4. PoolSafe'
  BY <1>1, <1>2, <1>3, BornDirty DEF PoolSafe, PoolTypes
<1>5. Seen(p) # NoPage
  BY <1>3, SeenPage DEF PoolSafe
<1>6. ASSUME NEW q \in Page
      PROVE  Seen(q)' = IF q = p /\ Seen(p) # Unknown THEN img ELSE Seen(q)
  <2>1. CASE q = p
    <3>1. p \in leaked <=> Seen(p) = Unknown
      BY <1>3, SeenPage DEF PoolSafe
    <3>2. Frames'[p] # NULL /\ Frames'[p].image = img
      BY <1>3, BornDirty
    <3> QED BY <1>2, <1>3, <2>1, <3>1, <3>2 DEF Seen
  <2>2. CASE q # p
    BY <1>2, <1>3, <2>2 DEF Seen
  <2> QED BY <2>1, <2>2
<1> QED BY <1>1, <1>2, <1>4, <1>5, <1>6

(* A disposed page has no content.                                         *)
LEMMA DisposeKeeps ==
  ASSUME PoolSafe, PoolTypes', Pool!Dispose
  PROVE  /\ PoolSafe' /\ CallKind' = "drop"
         /\ \E p \in Page :
              Seen(p) # NoPage /\ \A q \in Page : Seen(q)' = IF q = p THEN NoPage ELSE Seen(q)
<1> USE FrameAssumption, ContentAssumption
<1>1. PICK p \in Bits :
       /\ Bits' = Bits \ {p}
       /\ Frames' = Pool!Evicted(Frames, p)
       /\ leaked' = leaked \ {p}
  BY DEF Pool!Dispose
<1>2. CallKind' = "drop" /\ disk'.header = disk.header /\ disk'.page = disk.page /\ p \in Page
  BY DEF Pool!Dispose, PoolSafe, PoolTypes
<1>3. \A q \in Page : Frames'[q] = IF q = p THEN NULL ELSE Frames[q]
  BY <1>1 DEF PoolSafe, PoolTypes, Pool!Evicted
<1>4. PoolSafe'
  BY <1>1, <1>2, <1>3 DEF PoolSafe, PoolTypes
<1>5. Seen(p) # NoPage
  BY <1>2, SeenPage DEF PoolSafe
<1>6. \A q \in Page : Seen(q)' = IF q = p THEN NoPage ELSE Seen(q)
  BY <1>1, <1>2, <1>3 DEF PoolSafe, PoolTypes, FrameSet, Seen
<1> QED BY <1>1, <1>2, <1>4, <1>5, <1>6

(* Writing back, growing the file and saving the bitmap are not seen.      *)
LEMMA QuietKeeps ==
  ASSUME PoolSafe, PoolTypes', Pool!WriteBack \/ Pool!Fill \/ Pool!SaveBits
  PROVE  PoolSafe' /\ CallKind' = "quiet" /\ \A p \in Page : Seen(p)' = Seen(p)
<1> USE FrameAssumption
<1>1. CASE Pool!WriteBack
  BY <1>1 DEF Pool!WriteBack, Pool!Dirty, Pool!InPool, Pool!DiskWith, Pool!Cleaned,
       PoolSafe, PoolTypes, FrameSet, Seen
<1>2. CASE Pool!Fill
  BY <1>2 DEF Pool!Fill, PoolSafe, PoolTypes, FrameSet, Seen
<1>3. CASE Pool!SaveBits
  BY <1>3 DEF Pool!SaveBits, Pool!NoFrames, Pool!Dirty, Pool!InPool, PoolSafe, PoolTypes, FrameSet, Seen
<1> QED BY <1>1, <1>2, <1>3

(* After a crash a page is as the disk and its bitmap have it.             *)
LEMMA CrashKeeps ==
  ASSUME PoolSafe, PoolTypes', Pool!Crash
  PROVE  /\ PoolSafe' /\ CallKind' = "crash"
         /\ \A p \in Page : Seen(p)' = IF p \in leaked /\ p \in disk.header THEN Unknown ELSE OnDisk(p)
<1> USE FrameAssumption
<1>1. /\ CallKind' = "crash" /\ disk'.page = disk.page /\ disk'.header = disk.header
      /\ Bits' = disk.header /\ leaked' = leaked \cap disk.header
      /\ Frames' = [p \in Page |-> NULL]
  BY DEF Pool!Crash, Pool!NoFrames
<1> QED BY <1>1 DEF PoolSafe, Seen, OnDisk

(* What a step writes to the disk is what a reader would have seen. *)
LEMMA WritesWhatIsSeen ==
  ASSUME PoolSafe, PoolTypes', Pool!Next
  PROVE  \A p \in Page : OnDisk(p)' = OnDisk(p) \/ p \in leaked \/ OnDisk(p)' = Seen(p)
<1> USE FrameAssumption
<1>1. CASE Pool!Read \/ Pool!Allocate \/ Pool!Overwrite
  <2>1. PICK r \in Pool!Room : disk'.page = r.disk
    BY <1>1 DEF Pool!Read, Pool!Allocate, Pool!Overwrite
  <2>2. disk'.header = disk.header
    BY <1>1 DEF Pool!Read, Pool!Allocate, Pool!Overwrite
  <2> QED BY <2>1, <2>2, RoomLemma DEF OnDisk, Seen, PoolSafe
<1>2. CASE Pool!Leak \/ Pool!Change \/ Pool!Dispose \/ Pool!Crash
  BY <1>2 DEF Pool!Leak, Pool!Change, Pool!Dispose, Pool!Crash, OnDisk
<1>3. CASE Pool!WriteBack
  BY <1>3 DEF Pool!WriteBack, Pool!Dirty, Pool!InPool, Pool!DiskWith, PoolSafe, PoolTypes,
       FrameSet, OnDisk, Seen
<1>4. CASE Pool!Fill
  BY <1>4 DEF Pool!Fill, PoolSafe, PoolTypes, OnDisk
<1>5. CASE Pool!SaveBits
  BY <1>5 DEF Pool!SaveBits, Pool!Dirty, Pool!InPool, PoolSafe, PoolTypes, FrameSet, OnDisk, Seen
<1> QED BY <1>1, <1>2, <1>3, <1>4, <1>5 DEF Pool!Next

(* When the bitmap is saved the disk holds what is seen.                   *)
LEMMA SavesWhatIsSeen ==
  ASSUME PoolSafe, Pool!SaveBits
  PROVE  \A p \in Page : p \in leaked \/ OnDisk(p)' = Seen(p)
BY DEF Pool!SaveBits, Pool!Dirty, Pool!InPool, PoolSafe, PoolTypes, FrameSet, OnDisk, Seen

(* So what the disk holds of a page was seen since the last flush.         *)
LEMMA RecentKeeps ==
  ASSUME PoolSafe, PoolSafe', ViewIs, ViewIs', RecentSafe,
         \/ Pool!Next /\ Grows
         \/ Pool!SaveBits /\ Forgets /\ Views' = Views
  PROVE  RecentSafe'
<1>1. \A p \in Page : Views[p] = Seen(p) /\ Views[p]' = Seen(p)'
  BY DEF ViewIs
<1>2. \A p \in Page : Views[p]' \in Content
  BY <1>1, SeenIsContentNext DEF PoolSafe, AllContent
<1>3. recent' \in [Page -> SUBSET Content] /\ \A p \in Page : Views[p]' \in recent'[p]
  BY <1>2 DEF Grows, Forgets, RecentSafe
<1>4. \A p \in Page : p \in leaked => Views[p] = Unknown
  BY <1>1 DEF PoolSafe, PoolTypes, Seen
<1>5. CASE Pool!Next /\ Grows
  <2>1. \A p \in Page : recent[p] \subseteq recent'[p]
    BY <1>5 DEF Grows
  <2>2. \A p \in Page : OnDisk(p)' = OnDisk(p) \/ p \in leaked \/ OnDisk(p)' = Views[p]
    BY <1>1, <1>5, WritesWhatIsSeen DEF PoolSafe
  <2> QED BY <1>3, <1>4, <2>1, <2>2 DEF RecentSafe
<1>6. CASE Pool!SaveBits /\ Forgets /\ Views' = Views
  <2>1. \A p \in Page : p \in leaked \/ OnDisk(p)' = Views[p]
    BY <1>1, <1>6, SavesWhatIsSeen
  <2> QED BY <1>3, <1>4, <1>6, <2>1 DEF RecentSafe, Forgets
<1> QED BY <1>5, <1>6

(* The store's constants are the history module's.                         *)
LEMMA StoreConstants ==
  Store!NoPage = NoPage /\ Store!Unknown = Unknown /\ Store!Content = Content /\ NoPage # Unknown
BY DEF Store!NoPage, NoPage, Store!Unknown, Unknown, Store!Content, Content

(* A step of the pool is a step of the page store.                         *)
LEMMA PoolStepIsStoreStep ==
  ASSUME PoolSafe, PoolTypes', ViewIs, ViewIs', RecentSafe, Pool!Next, Grows
  PROVE  Store!Next
<1> USE StoreConstants
<1>1. /\ \A p \in Page : Views[p] = Seen(p) /\ Views'[p] = Seen(p)'
      /\ Views = [p \in Page |-> Views[p]] /\ Views' = [p \in Page |-> Views'[p]]
  BY DEF ViewIs
<1>2. Store!Remember
  BY DEF Store!Remember, Grows
<1>3. ASSUME NEW p \in Page, NEW c, \A q \in Page : Seen(q)' = IF q = p THEN c ELSE Seen(q)
      PROVE  Views' = [Views EXCEPT ![p] = c]
  BY <1>1, <1>3
<1>4. ASSUME \A p \in Page : Seen(p)' = Seen(p) PROVE Views' = Views
  BY <1>1, <1>4
<1>5. ASSUME \A p \in Page : Seen(p)' = Seen(p), CallKind' = "quiet" PROVE Store!Quiet
  <2>1. Views' = Views
    BY <1>4, <1>5
  <2>2. recent' = recent
    BY <2>1 DEF Grows, RecentSafe
  <2> QED BY <1>5, <2>1, <2>2 DEF Store!Quiet
<1>6. CASE Pool!Read
  BY <1>5, <1>6, ReadKeeps DEF Store!Next
<1>7. CASE Pool!WriteBack \/ Pool!Fill \/ Pool!SaveBits
  BY <1>5, <1>7, QuietKeeps DEF Store!Next
<1>8. CASE Pool!Allocate
  <2>1. PICK p \in Page, c \in Image :
          Seen(p) = NoPage /\ \A q \in Page : Seen(q)' = IF q = p THEN c ELSE Seen(q)
    BY <1>8, AllocateKeeps
  <2>2. Views[p] = Store!NoPage /\ Views' = [Views EXCEPT ![p] = c] /\ CallKind' = "alloc"
    BY <1>1, <1>3, <1>8, <2>1, AllocateKeeps
  <2> QED BY <1>2, <2>2 DEF Store!Alloc, Store!Next
<1>9. CASE Pool!Overwrite
  <2>1. PICK p \in Page, c \in Image :
          Seen(p) # NoPage /\ \A q \in Page : Seen(q)' = IF q = p THEN c ELSE Seen(q)
    BY <1>9, OverwriteKeeps
  <2>2. Views[p] # Store!NoPage /\ Views' = [Views EXCEPT ![p] = c] /\ CallKind' = "overwrite"
    BY <1>1, <1>3, <1>9, <2>1, OverwriteKeeps
  <2> QED BY <1>2, <2>2 DEF Store!Overwrite, Store!Next
<1>10. CASE Pool!Leak
  <2>1. CallKind' = "leak"
    BY <1>10, LeakKeeps
  <2>2. CASE \A q \in Page : Seen(q)' = Seen(q)
    BY <1>2, <1>4, <2>1, <2>2 DEF Store!Leak, Store!Next
  <2>3. CASE \E p \in Page : /\ Seen(p) = NoPage
                            /\ \A q \in Page : Seen(q)' = IF q = p THEN Unknown ELSE Seen(q)
    <3>1. PICK p \in Page : /\ Seen(p) = NoPage
                            /\ \A q \in Page : Seen(q)' = IF q = p THEN Unknown ELSE Seen(q)
      BY <2>3
    <3>2. Views[p] = Store!NoPage /\ Views' = [Views EXCEPT ![p] = Store!Unknown]
      BY <1>1, <1>3, <3>1
    <3> QED BY <1>2, <2>1, <3>2 DEF Store!Leak, Store!Next
  <2> QED BY <1>10, <2>2, <2>3, LeakKeeps
<1>11. CASE Pool!Change
  <2>1. PICK p \in Page, c \in Image :
          /\ Seen(p) # NoPage
          /\ \A q \in Page : Seen(q)' = IF q = p /\ Seen(p) # Unknown THEN c ELSE Seen(q)
    BY <1>11, ChangeKeeps
  <2>2. Views[p] # Store!NoPage /\ CallKind' = "put"
    BY <1>1, <1>11, <2>1, ChangeKeeps
  <2>3. Views' = IF Views[p] = Store!Unknown THEN Views ELSE [Views EXCEPT ![p] = c]
    <3>1. CASE Seen(p) = Unknown
      <4>1. Views' = Views
        BY <1>4, <2>1, <3>1
      <4> QED BY <1>1, <3>1, <4>1
    <3>2. CASE Seen(p) # Unknown
      <4>1. Views' = [Views EXCEPT ![p] = c]
        BY <1>3, <2>1, <3>2
      <4> QED BY <1>1, <3>2, <4>1
    <3> QED BY <3>1, <3>2
  <2> QED BY <1>2, <2>2, <2>3 DEF Store!Put, Store!Next
<1>12. CASE Pool!Dispose
  <2>1. PICK p \in Page :
          Seen(p) # NoPage /\ \A q \in Page : Seen(q)' = IF q = p THEN NoPage ELSE Seen(q)
    BY <1>12, DisposeKeeps
  <2>2. Views[p] # Store!NoPage /\ Views' = [Views EXCEPT ![p] = Store!NoPage] /\ CallKind' = "drop"
    BY <1>1, <1>3, <1>12, <2>1, DisposeKeeps
  <2> QED BY <1>2, <2>2 DEF Store!Drop, Store!Next
<1>13. CASE Pool!Crash
  <2>1. CallKind' = "crash"
    BY <1>13, CrashKeeps
  <2>2. Views' \in [Page -> Content]
    BY <1>1, SeenIsContentNext DEF AllContent
  <2>3. ASSUME NEW p \in Page PROVE Views'[p] \in Store!Survivors(p)
    <3>1. Views'[p] = IF p \in leaked /\ p \in disk.header THEN Unknown ELSE OnDisk(p)
      BY <1>1, <1>13, CrashKeeps
    <3>2. CASE Unknown \in recent[p]
      BY <2>2, <3>2 DEF Store!Survivors
    <3>3. CASE Unknown \notin recent[p]
      <4>1. p \notin leaked
        BY <1>1, <3>3 DEF RecentSafe, PoolSafe, PoolTypes, Seen
      <4> QED BY <3>1, <3>3, <4>1 DEF RecentSafe, Store!Survivors
    <3> QED BY <3>2, <3>3
  <2> QED BY <1>2, <2>1, <2>2, <2>3 DEF Store!Crash, Store!Next
<1> QED BY <1>6, <1>7, <1>8, <1>9, <1>10, <1>11, <1>12, <1>13 DEF Pool!Next

(* Saving the bitmap completes a flush of the store.                       *)
LEMMA SaveIsFlushed ==
  ASSUME PoolSafe, PoolTypes', ViewIs, ViewIs', Pool!SaveBits, Forgets
  PROVE  Store!Flushed /\ Views' = Views
<1>1. CallKind' = "quiet" /\ \A p \in Page : Seen(p)' = Seen(p)
  BY QuietKeeps
<1>2. Views' = Views
  BY <1>1 DEF ViewIs
<1> QED BY <1>1, <1>2 DEF Store!Flushed, Forgets

-----------------------------------------------------------------------------
(* Callers dispose only what they hold and overwrite no page past the      *)
(* bitmap.                                                                 *)
GoodCallers == 0 \notin DisposePins /\ OverwritePIDs \subseteq Page
Sound == GoodCallers /\ Inv

(* How frames, slots and hash table hang together.                         *)
FrameFacts ==
  /\ \A p \in Page : Frames[p] = IF Cached(p) THEN FrameOf(p) ELSE NULL
  /\ \A p \in Page : Cached(p) =>
       /\ pageHash[p] \in Slot /\ pid[pageHash[p]] = p
       /\ FrameOf(p) = Pool!Frame(image[pageHash[p]], dirty[pageHash[p]])
       /\ FrameOf(p) \in FrameSet /\ FrameOf(p) # NULL
       /\ FrameOf(p).image = image[pageHash[p]]
       /\ FrameOf(p).dirty = dirty[pageHash[p]]
  /\ \A s \in Slot : pid[s] \in PID =>
       /\ pid[s] \in Page /\ pid[s] \in file.header /\ AccessStatus(file, pid[s]) = OK
       /\ Cached(pid[s]) /\ pageHash[pid[s]] = s
  /\ phase = "down" => \A p \in Page : ~Cached(p)

(* They follow from the pool's own invariant.                              *)
LEMMA FrameFactsLemma == Sound => FrameFacts
<1> SUFFICES ASSUME Sound PROVE FrameFacts
  OBVIOUS
<1>1. /\ Inv /\ OverwritePIDs \subseteq Page /\ NumBits \notin Page /\ Page \subseteq PID
  BY NumBitsAssumption, InvalidPID DEF Sound, GoodCallers, Page
<1>2. SlotTypes /\ PhaseInv /\ FileGood(file)
  BY <1>1, InvFacts
<1>3. \A p \in Page : Frames[p] = IF Cached(p) THEN FrameOf(p) ELSE NULL
  BY DEF Frames
<1>4. ASSUME NEW p \in Page, Cached(p)
      PROVE  /\ pageHash[p] \in Slot /\ pid[pageHash[p]] = p
             /\ FrameOf(p) = Pool!Frame(image[pageHash[p]], dirty[pageHash[p]])
             /\ FrameOf(p) \in FrameSet /\ FrameOf(p) # NULL
             /\ FrameOf(p).image = image[pageHash[p]]
             /\ FrameOf(p).dirty = dirty[pageHash[p]]
  <2>1. pageHash[p] \in Slot /\ pid[pageHash[p]] = p
    BY <1>1, <1>4, InvFacts
  <2>2. image[pageHash[p]] \in Image /\ dirty[pageHash[p]] \in BOOLEAN
    BY <1>2, <2>1 DEF SlotTypes
  <2>3. FrameOf(p) = Pool!Frame(image[pageHash[p]], dirty[pageHash[p]])
    BY DEF FrameOf, Pool!Frame
  <2> QED BY <2>1, <2>2, <2>3, NewFrame
<1>5. ASSUME NEW s \in Slot, pid[s] \in PID
      PROVE  /\ pid[s] \in Page /\ pid[s] \in file.header /\ AccessStatus(file, pid[s]) = OK
             /\ Cached(pid[s]) /\ pageHash[pid[s]] = s
  <2>1. Held(pid[s]) /\ Cached(pid[s]) /\ pageHash[pid[s]] = s
    BY <1>1, <1>5, InvFacts DEF SlotGood
  <2>2. pid[s] \in file.header
    BY <1>1, <2>1 DEF Held
  <2>3. pid[s] \in Page /\ AccessStatus(file, pid[s]) = OK
    BY <1>2, <1>5, <2>2, AccessLemma DEF FileGood, FileObject
  <2> QED BY <2>1, <2>2, <2>3
<1>6. ASSUME phase = "down", NEW p \in Page PROVE ~Cached(p)
  <2>1. \A s \in Slot : pid[s] = INVALID_PID
    BY <1>2, <1>6 DEF PhaseInv
  <2> QED BY <1>1, <1>4, <2>1, InvalidPID
<1> QED BY <1>3, <1>4, <1>5, <1>6 DEF FrameFacts

(* ... in the next state as well.                                          *)
LEMMA FrameFactsNext == Sound' => FrameFacts'
BY FrameFactsLemma, PTL

(* Frames depend on the hash table, the images and the dirty bits only.    *)
LEMMA SameFrames ==
  ASSUME UNCHANGED <<pageHash, image, dirty>>
  PROVE  Frames' = Frames
BY DEF Frames, Cached, FrameOf

(* The pool and the disk once the victim has gone. *)
LEMMA EvictRoom ==
  ASSUME Sound, PoolSafe, Evicting
  PROVE  \E r \in Pool!Room :
           /\ r.disk = DiskAfterEvicting(Victim(lru)).page
           /\ \A q \in Page : r.frames[q] = IF q = pid[Victim(lru)] THEN NULL ELSE Frames[q]
<1> DEFINE v == Victim(lru)
           q == pid[v]
           d == DiskAfterEvicting(v)
<1>1. v \in Slot /\ Inv /\ FrameFacts /\ SlotTypes
  BY EvictLemma, FrameFactsLemma, InvFacts DEF Sound
<1>2. d = IF dirty[v] THEN Write(disk, q, image[v]) ELSE disk
  BY DEF DiskAfterEvicting
<1>3. dirty[v] => q \in PID
  BY <1>1, InvFacts DEF SlotGood
<1> HIDE DEF v, d
<1>4. Frames \in [Page -> FrameSet \cup {NULL}]
  BY DEF PoolSafe, PoolTypes
<1>5. CASE q \in PID
  <2>1. /\ q \in Page /\ Cached(q) /\ pageHash[q] = v
        /\ Frames[q] # NULL /\ Frames[q].image = image[v] /\ Frames[q].dirty = dirty[v]
    BY <1>1, <1>5 DEF FrameFacts
  <2> DEFINE r == [frames |-> Pool!Evicted(Frames, q), disk |-> Pool!DiskWith(Frames, disk.page, q)]
  <2>2. r \in Pool!Room
    BY <2>1 DEF Pool!Room, Pool!InPool
  <2>3. r.disk = d.page
    BY <1>2, <2>1 DEF Pool!DiskWith, Pool!Dirty, Pool!InPool, Write
  <2>4. \A x \in Page : r.frames[x] = IF x = q THEN NULL ELSE Frames[x]
    BY <1>4 DEF Pool!Evicted
  <2> HIDE DEF r
  <2> QED BY <2>2, <2>3, <2>4 DEF v, d
<1>6. CASE q \notin PID
  <2> DEFINE r == [frames |-> Frames, disk |-> disk.page]
  <2>1. r \in Pool!Room
    BY DEF Pool!Room
  <2>2. r.disk = d.page
    BY <1>2, <1>3, <1>6
  <2>3. \A x \in Page : r.frames[x] = IF x = q THEN NULL ELSE Frames[x]
    BY <1>6, InvalidPID
  <2> HIDE DEF r
  <2> QED BY <2>1, <2>2, <2>3 DEF v, d
<1> QED BY <1>5, <1>6

(* What the disk owes the pool: an allocated page that the file does not   *)
(* reach is leaked or dirty; a flush has left to visit what is dirty; when *)
(* the bitmap is written nothing is.                                       *)
FileSafe ==
  /\ \A q \in Bits : q \in leaked \/ InFile(disk, q) \/ Pool!Dirty(Frames, q)
  /\ phase = "flushing" => \A q \in Page : Pool!Dirty(Frames, q) => q \in todo
  /\ phase \in {"header", "down"} => \A q \in Page : ~Pool!Dirty(Frames, q)
  /\ phase \in {"flushing", "header"} => /\ result.op \in {"flushAllPages", "close"}
                                         /\ result.rc \notin {Alloc, AllocOverwrite}

(* A write to the file adds its page and takes none away.                  *)
LEMMA WriteGrows ==
  ASSUME DiskGood(disk), NEW p \in Page, NEW img
  PROVE  /\ InFile(Write(disk, p, img), p)
         /\ \A q \in Page : InFile(disk, q) => InFile(Write(disk, p, img), q)
         /\ Write(disk, p, img).header = disk.header
         /\ Write(disk, p, img).page = [disk.page EXCEPT ![p] = img]
<1>1. disk.size \in Nat /\ NumHeaderPages \in Nat /\ Page \subseteq Nat
  BY NumHeaderPagesAssumption DEF DiskGood, DiskFile, Page
<1> QED BY <1>1 DEF Write, InFile, Larger

(* An eviction takes no page from the file and adds a dirty victim.        *)
LEMMA EvictGrows ==
  ASSUME Sound, Evicting
  PROVE  /\ DiskAfterEvicting(Victim(lru)).header = disk.header
         /\ \A q \in Page : InFile(disk, q) => InFile(DiskAfterEvicting(Victim(lru)), q)
         /\ \A q \in Page : q = pid[Victim(lru)] /\ dirty[Victim(lru)]
                              => InFile(DiskAfterEvicting(Victim(lru)), q)
<1> DEFINE v == Victim(lru)
<1>1. v \in Slot /\ Inv /\ FrameFacts /\ DiskGood(disk) /\ SlotGood(v)
  BY EvictLemma, FrameFactsLemma, InvFacts DEF Sound
<1> HIDE DEF v
<1>2. CASE dirty[v]
  <2>1. pid[v] \in Page
    BY <1>1, <1>2 DEF SlotGood, FrameFacts
  <2> QED BY <1>1, <1>2, <2>1, WriteGrows DEF DiskAfterEvicting, v
<1>3. CASE ~dirty[v]
  BY <1>3 DEF DiskAfterEvicting, v
<1> QED BY <1>2, <1>3

(* What a miss that ends with p in the pool does to frames and disk. *)
LEMMA LoadIs ==
  ASSUME Sound, PoolSafe, FileSafe, Evicting, NEW op, NEW p \in Page, NEW d \in BOOLEAN,
         NEW img \in Image, NEW rc, ~Cached(p), Load(op, p, d, img, rc)
  PROVE  \E r \in Pool!Room :
           /\ disk'.page = r.disk /\ disk'.header = disk.header
           /\ Frames' = [r.frames EXCEPT ![p] = Pool!Frame(img, d)]
           /\ ~Pool!InPool(r.frames, p) /\ ~Pool!InPool(Frames, p)
           /\ \A q \in Page : InFile(disk, q) => InFile(disk', q)
           /\ \A q \in Page : Pool!Dirty(Frames, q) => InFile(disk', q) \/ Pool!Dirty(Frames, q)'
<1> DEFINE v == Victim(lru)
<1>1. v \in Slot /\ Inv /\ FrameFacts /\ SlotTypes
  BY EvictLemma, FrameFactsLemma, InvFacts DEF Sound
<1>2. /\ disk' = DiskAfterEvicting(v)
      /\ dirty' = [dirty EXCEPT ![v] = d]
      /\ image' = [image EXCEPT ![v] = img]
      /\ pageHash' = [HashWithout(v) EXCEPT ![p] = v]
  BY DEF Load
<1>3. PICK r \in Pool!Room :
           /\ r.disk = DiskAfterEvicting(v).page
           /\ \A q \in Page : r.frames[q] = IF q = pid[v] THEN NULL ELSE Frames[q]
  BY EvictRoom
<1>4. /\ \A q \in Page : InFile(disk, q) => InFile(disk', q)
      /\ \A q \in Page : q = pid[v] /\ dirty[v] => InFile(disk', q)
      /\ disk'.header = disk.header
  BY <1>2, EvictGrows
<1> HIDE DEF v
<1>5. \A s \in Slot : /\ dirty'[s] = IF s = v THEN d ELSE dirty[s]
                      /\ image'[s] = IF s = v THEN img ELSE image[s]
  BY <1>1, <1>2 DEF SlotTypes
<1>6. \A q \in Page :
         pageHash'[q] = IF q = p THEN v ELSE IF q = pid[v] THEN NULL ELSE pageHash[q]
  BY <1>1, <1>2, InvalidPID DEF SlotTypes, HashWithout
<1>7. ASSUME NEW q \in Page
      PROVE  Frames'[q] = IF q = p THEN Pool!Frame(img, d) ELSE r.frames[q]
  <2>1. Frames'[q] = IF pageHash'[q] # NULL
                     THEN [image |-> image'[pageHash'[q]], dirty |-> dirty'[pageHash'[q]]]
                     ELSE NULL
    BY DEF Frames, FrameOf, Cached
  <2>2. CASE q = p
    <3>1. pageHash'[q] = v /\ v # NULL
      BY <1>1, <1>6, <2>2, SlotAssumption
    <3> QED BY <1>1, <1>5, <2>1, <2>2, <3>1 DEF Pool!Frame
  <2>3. CASE q # p /\ q = pid[v]
    BY <1>3, <1>6, <2>1, <2>3
  <2>4. CASE q # p /\ q # pid[v] /\ pageHash[q] = NULL
    BY <1>1, <1>3, <1>6, <2>1, <2>4 DEF FrameFacts, Cached
  <2>5. CASE q # p /\ q # pid[v] /\ pageHash[q] # NULL
    <3>1. pageHash[q] \in Slot /\ pageHash[q] # v
      BY <1>1, <2>5 DEF FrameFacts, Cached
    <3>2. Frames[q] = [image |-> image[pageHash[q]], dirty |-> dirty[pageHash[q]]]
      BY <2>5 DEF Frames, FrameOf, Cached
    <3> QED BY <1>3, <1>5, <1>6, <2>1, <2>5, <3>1, <3>2
  <2> QED BY <2>2, <2>3, <2>4, <2>5
<1>8. r.frames \in [Page -> FrameSet \cup {NULL}]
  BY RoomLemma
<1>9. Frames' = [r.frames EXCEPT ![p] = Pool!Frame(img, d)]
  <2>1. Frames' = [q \in Page |-> Frames'[q]]
    BY DEF Frames
  <2> QED BY <1>7, <1>8, <2>1
<1>10. Frames[p] = NULL /\ r.frames[p] = NULL
  BY <1>1, <1>3 DEF FrameFacts
<1>11. ASSUME NEW q \in Page, Pool!Dirty(Frames, q)
       PROVE  InFile(disk', q) \/ Pool!Dirty(Frames, q)'
  <2>1. Frames[q] # NULL /\ Frames[q].dirty /\ q # p
    BY <1>10, <1>11 DEF Pool!Dirty, Pool!InPool
  <2>2. CASE q = pid[v]
    <3>1. dirty[v]
      BY <1>1, <2>1, <2>2, InvalidPID DEF FrameFacts
    <3> QED BY <1>4, <2>2, <3>1
  <2>3. CASE q # pid[v]
    <3>1. Frames'[q] = Frames[q]
      BY <1>3, <1>7, <2>1, <2>3
    <3> QED BY <2>1, <3>1 DEF Pool!Dirty, Pool!InPool
  <2> QED BY <2>2, <2>3
<1> QED BY <1>2, <1>3, <1>4, <1>9, <1>10, <1>11 DEF Pool!InPool, v

(* A miss that ends with the emptied slot back on the list. *)
LEMMA RecycleIs ==
  ASSUME Sound, PoolSafe, FileSafe, Evicting, NEW op, NEW newList, NEW rc,
         Recycle(op, newList, rc)
  PROVE  \E r \in Pool!Room :
           /\ disk'.page = r.disk /\ disk'.header = disk.header
           /\ Frames' = r.frames
           /\ \A q \in Page : InFile(disk, q) => InFile(disk', q)
           /\ \A q \in Page : Pool!Dirty(Frames, q) => InFile(disk', q) \/ Pool!Dirty(Frames, q)'
<1> DEFINE v == Victim(lru)
<1>1. v \in Slot /\ Inv /\ FrameFacts /\ SlotTypes
  BY EvictLemma, FrameFactsLemma, InvFacts DEF Sound
<1>2. /\ disk' = DiskAfterEvicting(v)
      /\ dirty' = [dirty EXCEPT ![v] = FALSE]
      /\ image' = image
      /\ pageHash' = HashWithout(v)
  BY DEF Recycle
<1>3. PICK r \in Pool!Room :
           /\ r.disk = DiskAfterEvicting(v).page
           /\ \A q \in Page : r.frames[q] = IF q = pid[v] THEN NULL ELSE Frames[q]
  BY EvictRoom
<1>4. /\ \A q \in Page : InFile(disk, q) => InFile(disk', q)
      /\ \A q \in Page : q = pid[v] /\ dirty[v] => InFile(disk', q)
      /\ disk'.header = disk.header
  BY <1>2, EvictGrows
<1> HIDE DEF v
<1>5. \A s \in Slot : s # v => dirty'[s] = dirty[s]
  BY <1>1, <1>2 DEF SlotTypes
<1>6. \A q \in Page : pageHash'[q] = IF q = pid[v] THEN NULL ELSE pageHash[q]
  BY <1>1, <1>2, InvalidPID DEF SlotTypes, HashWithout
<1>7. ASSUME NEW q \in Page
      PROVE  Frames'[q] = r.frames[q]
  <2>1. Frames'[q] = IF pageHash'[q] # NULL
                     THEN [image |-> image'[pageHash'[q]], dirty |-> dirty'[pageHash'[q]]]
                     ELSE NULL
    BY DEF Frames, FrameOf, Cached
  <2>2. CASE q = pid[v]
    BY <1>3, <1>6, <2>1, <2>2
  <2>3. CASE q # pid[v] /\ pageHash[q] = NULL
    BY <1>1, <1>3, <1>6, <2>1, <2>3 DEF FrameFacts, Cached
  <2>4. CASE q # pid[v] /\ pageHash[q] # NULL
    <3>1. pageHash[q] \in Slot /\ pageHash[q] # v
      BY <1>1, <2>4 DEF FrameFacts, Cached
    <3>2. Frames[q] = [image |-> image[pageHash[q]], dirty |-> dirty[pageHash[q]]]
      BY <2>4 DEF Frames, FrameOf, Cached
    <3> QED BY ZenonT(40), <1>2, <1>3, <1>5, <1>6, <2>1, <2>4, <3>1, <3>2
  <2> QED BY <2>2, <2>3, <2>4
<1>8. r.frames \in [Page -> FrameSet \cup {NULL}]
  BY RoomLemma
<1>9. Frames' = r.frames
  <2>1. Frames' = [q \in Page |-> Frames'[q]]
    BY DEF Frames
  <2> QED BY <1>7, <1>8, <2>1
<1>10. ASSUME NEW q \in Page, Pool!Dirty(Frames, q)
       PROVE  InFile(disk', q) \/ Pool!Dirty(Frames, q)'
  <2>1. Frames[q] # NULL /\ Frames[q].dirty
    BY <1>10 DEF Pool!Dirty, Pool!InPool
  <2>2. CASE q = pid[v]
    <3>1. dirty[v]
      BY <1>1, <2>1, <2>2, InvalidPID DEF FrameFacts
    <3> QED BY <1>4, <2>2, <3>1
  <2>3. CASE q # pid[v]
    <3>1. Frames'[q] = Frames[q]
      BY <1>3, <1>7, <2>1, <2>3
    <3> QED BY <2>1, <3>1 DEF Pool!Dirty, Pool!InPool
  <2> QED BY <2>2, <2>3
<1> QED BY <1>2, <1>3, <1>4, <1>9, <1>10 DEF v

-----------------------------------------------------------------------------
(* The types of the mapped variables follow from the pool's own. *)
(* A leaked page is allocated.                                             *)
LeakedBits == leaked \in SUBSET Bits

LEMMA PoolTypesLemma == Sound /\ LeakedBits => PoolTypes
<1> SUFFICES ASSUME Sound, LeakedBits PROVE PoolTypes
  OBVIOUS
<1>1. FrameFacts /\ DiskGood(disk) /\ FileGood(file)
  BY FrameFactsLemma, InvFacts DEF Sound
<1>2. Frames \in [Page -> FrameSet \cup {NULL}]
  <2>1. Frames = [p \in Page |-> Frames[p]]
    BY DEF Frames
  <2>2. \A p \in Page : Frames[p] \in FrameSet \cup {NULL}
    BY <1>1 DEF FrameFacts
  <2> QED BY <2>1, <2>2
<1>3. Bits \in SUBSET Page /\ disk.page \in [Page -> Image] /\ disk.header \in SUBSET Page
  BY <1>1 DEF DiskGood, DiskFile, FileGood, FileObject, Bits
<1> QED BY <1>2, <1>3 DEF PoolTypes, LeakedBits

(* ... in the next state as well.                                          *)
LEMMA PoolTypesNext == Sound' /\ LeakedBits' => PoolTypes'
BY PoolTypesLemma, PTL

(* What a step has to show: it is a step of the pool, it lets the leaked   *)
(* pages be among the allocated, and the file has what is not dirty.       *)
GoodStep ==
  /\ Pool!Next
  /\ LeakedBits'
  /\ FileSafe'

(* Outside a failing allocation and an overwriting one, leaked pages lose  *)
(* those whose bit is gone.                                                *)
LEMMA LeakedKept ==
  ASSUME leaked' = LeakedNext,
         \/ result'.op # "allocatePage" /\ result'.rc # AllocOverwrite
         \/ result'.rc = Alloc
  PROVE  leaked' = leaked \cap Bits'
BY DEF LeakedNext, Alloc, AllocOverwrite

(* Frames, disk and bits as they were: the pool may have read a page. *)
LEMMA PoolIdle ==
  ASSUME PoolSafe, FileSafe, Bits' = Bits, leaked' = leaked, Frames' = Frames, CallKind' = "quiet",
         disk'.page = disk.page, disk'.header = disk.header,
         \A q \in Page : InFile(disk, q) => InFile(disk', q)
  PROVE  /\ Pool!Next /\ LeakedBits'
         /\ \A q \in Bits' : q \in leaked' \/ InFile(disk', q) \/ Pool!Dirty(Frames, q)'
         /\ \A q \in Page : Pool!Dirty(Frames, q)' <=> Pool!Dirty(Frames, q)
<1>1. Pool!Read
  <2>1. [frames |-> Frames, disk |-> disk.page] \in Pool!Room
    BY DEF Pool!Room
  <2> QED BY <2>1 DEF Pool!Read
<1>2. \A q \in Page : Pool!Dirty(Frames, q)' <=> Pool!Dirty(Frames, q)
  BY DEF Pool!Dirty, Pool!InPool
<1> QED BY <1>1, <1>2 DEF Pool!Next, PoolSafe, PoolTypes, LeakedBits, FileSafe

(* A call that leaves frames, file and disk alone. *)
LEMMA IdleStep ==
  ASSUME PoolSafe, FileSafe, phase = "ready", phase' = "ready",
         UNCHANGED disk, Frames' = Frames, file' = file,
         leaked' = LeakedNext, result'.op # "allocatePage", result'.rc # AllocOverwrite,
         CallKind' = "quiet"
  PROVE  GoodStep
<1>1. Bits' = Bits
  BY DEF Bits
<1>2. leaked' = leaked
  BY <1>1, LeakedKept DEF PoolSafe, PoolTypes
<1> QED BY <1>1, <1>2, PoolIdle DEF GoodStep, FileSafe

(* A miss whose page is born dirty, and one whose page is born clean. *)
LEMMA LoadDirtyIs ==
  ASSUME Sound, PoolSafe, FileSafe, Evicting, NEW op, NEW p \in Page,
         NEW img \in Image, NEW rc, ~Cached(p), Load(op, p, TRUE, img, rc)
  PROVE  \E r \in Pool!Room :
           /\ disk'.page = r.disk /\ disk'.header = disk.header
           /\ Frames' = Pool!Installed(r.frames, p, img)
           /\ ~Pool!InPool(r.frames, p)
           /\ Pool!Dirty(Frames, p)'
           /\ \A q \in Page : InFile(disk, q) => InFile(disk', q)
           /\ \A q \in Page : Pool!Dirty(Frames, q) => InFile(disk', q) \/ Pool!Dirty(Frames, q)'
<1>1. PICK r \in Pool!Room :
           /\ disk'.page = r.disk /\ disk'.header = disk.header
           /\ Frames' = [r.frames EXCEPT ![p] = Pool!Frame(img, TRUE)]
           /\ ~Pool!InPool(r.frames, p) /\ ~Pool!InPool(Frames, p)
           /\ \A q \in Page : InFile(disk, q) => InFile(disk', q)
           /\ \A q \in Page : Pool!Dirty(Frames, q) => InFile(disk', q) \/ Pool!Dirty(Frames, q)'
  BY LoadIs, Zenon
<1>2. Pool!Dirty(Frames, p)'
  <2>1. Frames'[p] = Pool!Frame(img, TRUE)
    BY <1>1, RoomLemma
  <2> QED BY <2>1, BornDirty DEF Pool!Dirty, Pool!InPool
<1> QED BY <1>1, <1>2 DEF Pool!Installed

LEMMA LoadCleanIs ==
  ASSUME Sound, PoolSafe, FileSafe, Evicting, NEW op, NEW p \in Page,
         NEW img \in Image, NEW rc, ~Cached(p), Load(op, p, FALSE, img, rc)
  PROVE  \E r \in Pool!Room :
           /\ disk'.page = r.disk /\ disk'.header = disk.header
           /\ Frames' = [r.frames EXCEPT ![p] = Pool!Frame(img, FALSE)]
           /\ ~Pool!InPool(r.frames, p) /\ ~Pool!InPool(Frames, p)
           /\ \A q \in Page : InFile(disk, q) => InFile(disk', q)
           /\ \A q \in Page : Pool!Dirty(Frames, q) => InFile(disk', q) \/ Pool!Dirty(Frames, q)'
BY LoadIs, Zenon

(* An allocated page enters the pool. *)
LEMMA AllocStep ==
  ASSUME Sound, PoolSafe, FileSafe, Evicting, phase = "ready",
         NEW op \in {"allocatePage", "allocatePageWithPID", "readOrAllocatePage"}, NEW p \in Page,
         p \notin file.header, file'.header = file.header \cup {p},
         Load(op, p, TRUE, image[Victim(lru)], Alloc), leaked' = LeakedNext
  PROVE  GoodStep
<1> DEFINE img == image[Victim(lru)]
<1>1. ~Cached(p) /\ img \in Image
  BY NotCached, EvictLemma, InvFacts DEF Sound, SlotTypes
<1>2. phase' = "ready" /\ result' = [op |-> op, rc |-> Alloc]
  BY DEF Load, Returned
<1> HIDE DEF img
<1>3. PICK r \in Pool!Room :
           /\ disk'.page = r.disk /\ disk'.header = disk.header
           /\ Frames' = Pool!Installed(r.frames, p, img)
           /\ Pool!Dirty(Frames, p)'
           /\ \A q \in Page : InFile(disk, q) => InFile(disk', q)
           /\ \A q \in Page : Pool!Dirty(Frames, q) => InFile(disk', q) \/ Pool!Dirty(Frames, q)'
  <2>1. Load(op, p, TRUE, img, Alloc)
    BY DEF img
  <2> QED BY <1>1, <2>1, LoadDirtyIs
<1>4. Bits = file.header /\ Bits' = Bits \cup {p}
  BY <1>2 DEF Bits
<1>5. leaked' = leaked /\ leaked \subseteq Bits
  BY <1>2, <1>4, LeakedKept DEF PoolSafe, PoolTypes
<1>6. CallKind' = "alloc"
  BY <1>2 DEF CallKind, Alloc, AllocOverwrite, OK
<1>7. Pool!Allocate
  <2>1. p \in Page \ Bits /\ leaked' = leaked \ {p}
    BY <1>4, <1>5
  <2> QED BY <1>1, <1>3, <1>4, <1>6, <2>1 DEF Pool!Allocate
<1>8. FileSafe'
  BY <1>2, <1>3, <1>4, <1>5 DEF FileSafe, PoolSafe, PoolTypes
<1> QED BY <1>4, <1>5, <1>7, <1>8 DEF GoodStep, Pool!Next, LeakedBits

(* A cached page is allocated, so the file never refuses a victim, and a   *)
(* page that is hit without a pin is on the list.                          *)
LEMMA NeverStuck ==
  ASSUME Sound, NEW op, NEW p \in PID
  PROVE  ~VictimStuck(op) /\ ~HitUnlinkedPage(p)
<1>1. Inv /\ FrameFacts
  BY FrameFactsLemma DEF Sound
<1>2. ~VictimStuck(op)
  <2> SUFFICES ASSUME VictimStuck(op) PROVE FALSE
    OBVIOUS
  <2> DEFINE v == Victim(lru)
  <2>1. ~IsEmpty(lru) /\ dirty[v] /\ AccessStatus(file, pid[v]) # OK
    BY DEF VictimStuck, WritableVictim
  <2>2. v \in Slot
    BY <1>1, <2>1, InvFacts, VictimLemma DEF Listed
  <2> QED BY <1>1, <2>1, <2>2, InvFacts DEF SlotGood, FrameFacts
<1>3. ~HitUnlinkedPage(p)
  <2> SUFFICES ASSUME HitUnlinkedPage(p) PROVE FALSE
    OBVIOUS
  <2> DEFINE s == pageHash[p]
  <2>1. s \in Slot /\ pid[s] = p /\ pinCount[s] = 0 /\ ~CanUnlink(lru, s)
    BY <1>1, InvFacts DEF HitUnlinkedPage
  <2>2. s \in Listed(lru)
    <3>1. p # NumBits
      BY <1>1, <2>1, NumBitsAssumption DEF FrameFacts, Page
    <3> QED BY <1>1, <2>1, <3>1, InvFacts DEF SlotGood
  <2> QED BY <1>1, <2>1, <2>2, InvFacts DEF CanUnlink, Listed, WellLinked, List
<1> QED BY <1>2, <1>3

(* A page that exists is given out again. *)
LEMMA OverwriteStep ==
  ASSUME Sound, PoolSafe, FileSafe, Evicting, phase = "ready", NEW p \in Page,
         p \in file.header, file' = file, ~Cached(p), leaked' = LeakedNext,
         Load("allocatePageWithPID", p, TRUE, image[Victim(lru)], AllocOverwrite)
  PROVE  GoodStep
<1> DEFINE img == image[Victim(lru)]
<1>1. img \in Image /\ Victim(lru) \in Slot /\ SlotTypes
  BY EvictLemma, InvFacts DEF Sound, SlotTypes
<1>2. /\ phase' = "ready" /\ result' = [op |-> "allocatePageWithPID", rc |-> AllocOverwrite]
      /\ pageHash' = [HashWithout(Victim(lru)) EXCEPT ![p] = Victim(lru)]
  BY DEF Load, Returned
<1> HIDE DEF img
<1>3. PICK r \in Pool!Room :
           /\ disk'.page = r.disk /\ disk'.header = disk.header
           /\ Frames' = Pool!Installed(r.frames, p, img)
           /\ ~Pool!InPool(r.frames, p)
           /\ Pool!Dirty(Frames, p)'
           /\ \A q \in Page : InFile(disk, q) => InFile(disk', q)
           /\ \A q \in Page : Pool!Dirty(Frames, q) => InFile(disk', q) \/ Pool!Dirty(Frames, q)'
  <2>1. Load("allocatePageWithPID", p, TRUE, img, AllocOverwrite)
    BY DEF img
  <2> QED BY <1>1, <2>1, LoadDirtyIs
<1>4. Bits = file.header /\ Bits' = Bits
  BY <1>2 DEF Bits
<1>5. leaked' = leaked \ {p} /\ leaked \subseteq Bits
  <2>1. leaked \subseteq Bits /\ Bits \subseteq Page
    BY DEF PoolSafe, PoolTypes
  <2>2. leaked' = {q \in leaked : Cached(q) \/ pageHash'[q] = NULL}
    BY <1>2, <1>4, <2>1 DEF LeakedNext
  <2>3. ASSUME NEW q \in Page, ~Cached(q) PROVE pageHash'[q] = NULL <=> q # p
    BY <1>1, <1>2, <2>3, InvalidPID, SlotAssumption DEF HashWithout, Cached
  <2> QED BY <2>1, <2>2, <2>3
<1>6. CallKind' = "overwrite"
  BY <1>2 DEF CallKind, Alloc, AllocOverwrite, OK
<1>7. Pool!Overwrite
  BY <1>1, <1>3, <1>4, <1>5, <1>6 DEF Pool!Overwrite
<1>8. FileSafe'
  BY <1>2, <1>3, <1>4, <1>5 DEF FileSafe, PoolSafe, PoolTypes
<1> QED BY <1>4, <1>5, <1>7, <1>8 DEF GoodStep, Pool!Next, LeakedBits

(* A call that may have evicted a page and read another. *)
LEMMA ReadStep ==
  ASSUME PoolSafe, FileSafe, phase = "ready", phase' = "ready", file' = file,
         leaked' = LeakedNext, result'.op # "allocatePage", result'.rc # AllocOverwrite,
         CallKind' = "quiet", NEW r \in Pool!Room,
         disk'.page = r.disk, disk'.header = disk.header,
         \/ Frames' = r.frames
         \/ \E p \in Bits \ leaked : Frames' = Pool!Fetched(r.frames, r.disk, p)
         \/ \E p \in Bits \cap leaked, img \in Image :
              ~Pool!InPool(Frames, p) /\ Frames' = [r.frames EXCEPT ![p] = Pool!Frame(img, FALSE)],
         \A q \in Page : InFile(disk, q) => InFile(disk', q),
         \A q \in Page : Pool!Dirty(Frames, q) => InFile(disk', q) \/ Pool!Dirty(Frames, q)'
  PROVE  GoodStep
<1>1. Bits' = Bits
  BY DEF Bits
<1>2. leaked' = leaked
  BY <1>1, LeakedKept DEF PoolSafe, PoolTypes
<1>3. Pool!Read
  BY <1>1, <1>2 DEF Pool!Read
<1>4. FileSafe'
  BY <1>1, <1>2 DEF FileSafe, PoolSafe, PoolTypes
<1> QED BY <1>1, <1>2, <1>3, <1>4 DEF GoodStep, Pool!Next, LeakedBits, PoolSafe, PoolTypes

(* A page that is not dirty in the pool is read from the file. *)
LEMMA FetchStep ==
  ASSUME Sound, PoolSafe, FileSafe, Evicting, phase = "ready",
         NEW op \in {"readPage", "readOrAllocatePage"}, NEW p \in PID,
         AccessStatus(file, p) = OK, file' = file, ~Cached(p), leaked' = LeakedNext,
         Load(op, p, FALSE, Read(DiskAfterEvicting(Victim(lru)), p, image[Victim(lru)]), ReadIn)
  PROVE  GoodStep
<1> DEFINE img == Read(DiskAfterEvicting(Victim(lru)), p, image[Victim(lru)])
<1>1. img \in Image /\ p \in file.header /\ file.header \subseteq Page
  BY ReadImage, InvFacts DEF Sound, FileGood, FileObject
<1>2. /\ phase' = "ready" /\ result' = [op |-> op, rc |-> ReadIn]
      /\ disk' = DiskAfterEvicting(Victim(lru))
  BY DEF Load, Returned
<1>3. InFile(disk', p) => img = disk'.page[p]
  BY <1>2 DEF Read
<1>4. Load(op, p, FALSE, img, ReadIn)
  OBVIOUS
<1> HIDE DEF img
<1>5. PICK r \in Pool!Room :
           /\ disk'.page = r.disk /\ disk'.header = disk.header
           /\ Frames' = [r.frames EXCEPT ![p] = Pool!Frame(img, FALSE)]
           /\ ~Pool!InPool(r.frames, p) /\ ~Pool!InPool(Frames, p)
           /\ \A q \in Page : InFile(disk, q) => InFile(disk', q)
           /\ \A q \in Page : Pool!Dirty(Frames, q) => InFile(disk', q) \/ Pool!Dirty(Frames, q)'
  BY <1>1, <1>4, LoadCleanIs
<1>6. Bits = file.header
  BY DEF Bits
<1>7. CallKind' = "quiet"
  BY <1>2 DEF CallKind, Alloc, AllocOverwrite, ReadIn
<1>8. p \notin leaked => Frames' = Pool!Fetched(r.frames, r.disk, p)
  <2> SUFFICES ASSUME p \notin leaked PROVE Frames' = Pool!Fetched(r.frames, r.disk, p)
    OBVIOUS
  <2>1. InFile(disk', p)
    BY <1>1, <1>5, <1>6 DEF FileSafe, Pool!Dirty
  <2> QED BY <1>3, <1>5, <2>1 DEF Pool!Fetched
<1>9. result'.op # "allocatePage" /\ result'.rc # AllocOverwrite
  BY <1>2 DEF AllocOverwrite, ReadIn
<1>10. \/ \E q \in Bits \ leaked : Frames' = Pool!Fetched(r.frames, r.disk, q)
       \/ \E q \in Bits \cap leaked, i \in Image :
            ~Pool!InPool(Frames, q) /\ Frames' = [r.frames EXCEPT ![q] = Pool!Frame(i, FALSE)]
  BY <1>1, <1>5, <1>6, <1>8
<1> QED BY <1>2, <1>5, <1>7, <1>9, <1>10, ReadStep

(* A load that the file refused has only evicted. *)
LEMMA RecycleStep ==
  ASSUME Sound, PoolSafe, FileSafe, Evicting, phase = "ready",
         NEW op \in {"readPage", "readOrAllocatePage"}, NEW newList,
         NEW rc \in Failing, file' = file, leaked' = LeakedNext, Recycle(op, newList, rc)
  PROVE  GoodStep
<1>1. phase' = "ready" /\ result' = [op |-> op, rc |-> rc]
  BY DEF Recycle, Returned
<1>2. PICK r \in Pool!Room :
           /\ disk'.page = r.disk /\ disk'.header = disk.header
           /\ Frames' = r.frames
           /\ \A q \in Page : InFile(disk, q) => InFile(disk', q)
           /\ \A q \in Page : Pool!Dirty(Frames, q) => InFile(disk', q) \/ Pool!Dirty(Frames, q)'
  BY RecycleIs
<1>3. CallKind' = "quiet" /\ result'.op # "allocatePage" /\ result'.rc # AllocOverwrite
  BY <1>1 DEF CallKind, Alloc, AllocOverwrite, Failing, OutOfSpace, NotAllocated,
              AlreadyAllocated, OutOfRange
<1> QED BY <1>1, <1>2, <1>3, ReadStep

(* An allocation that fails. *)
LEMMA LeakStep ==
  ASSUME Sound, PoolSafe, FileSafe, phase = "ready", phase' = "ready", disk' = disk,
         Frames' = Frames, result' = [op |-> "allocatePage", rc |-> OutOfSpace],
         leaked' = LeakedNext,
         \/ file' = file
         \/ \E p \in Page \ file.header : file'.header = file.header \cup {p}
  PROVE  GoodStep
<1>1. Bits = file.header /\ Bits' = file'.header /\ leaked \subseteq Bits /\ Bits \subseteq Page
  BY DEF Bits, PoolSafe, PoolTypes
<1>2. CallKind' = "leak"
  BY DEF CallKind, Alloc, AllocOverwrite, OutOfSpace, OK
<1>3. /\ OutOfSpace # Alloc
      /\ result'.op = "allocatePage" /\ result'.rc = OutOfSpace
  BY DEF OutOfSpace, Alloc
<1>4. \/ Bits' = Bits /\ leaked' = leaked
      \/ \E p \in Page \ Bits : Bits' = Bits \cup {p} /\ leaked' = leaked \cup {p}
  <2>1. CASE file' = file
    <3>1. leaked' = leaked \cap Bits'
      BY <1>3, <2>1 DEF LeakedNext, AllocOverwrite, OutOfSpace
    <3> QED BY <1>1, <2>1, <3>1
  <2>2. CASE \E p \in Page \ file.header : file'.header = file.header \cup {p}
    <3>1. PICK p \in Page \ file.header : file'.header = file.header \cup {p}
      BY <2>2
    <3>2. file' # file
      BY <3>1
    <3>3. leaked' = (leaked \cap Bits') \cup (file'.header \ file.header)
      BY <1>3, <3>2 DEF LeakedNext, AllocOverwrite, OutOfSpace
    <3> QED BY <1>1, <3>1, <3>3
  <2> QED BY <2>1, <2>2
<1>5. Pool!Leak
  BY <1>2, <1>4 DEF Pool!Leak
<1>6. LeakedBits'
  BY <1>1, <1>4 DEF LeakedBits
<1>7. FileSafe'
  BY <1>1, <1>4 DEF FileSafe, Pool!Dirty, Pool!InPool
<1> QED BY <1>5, <1>6, <1>7 DEF GoodStep, Pool!Next

(* A hit, and a miss without a free slot, leave frames and disk alone.     *)
LEMMA HitStep ==
  ASSUME PoolSafe, FileSafe, phase = "ready", NEW p,
         NEW op \in {"allocatePageWithPID", "readPage", "readOrAllocatePage"},
         HitPage(op, p), leaked' = LeakedNext
  PROVE  GoodStep
<1>1. /\ UNCHANGED <<file, disk, image, dirty, pageHash, phase>>
      /\ result' = [op |-> op, rc |-> Hit]
  BY DEF HitPage, storage, Returned
<1>2. Frames' = Frames
  BY <1>1, SameFrames
<1>3. CallKind' = "quiet" /\ result'.op # "allocatePage" /\ result'.rc # AllocOverwrite
  BY <1>1 DEF CallKind, Alloc, AllocOverwrite, Hit
<1> QED BY <1>1, <1>2, <1>3, IdleStep

LEMMA NoVictimIdles ==
  ASSUME PoolSafe, FileSafe, phase = "ready",
         NEW op \in {"allocatePageWithPID", "readPage", "readOrAllocatePage"},
         NoVictim(op), file' = file, leaked' = LeakedNext
  PROVE  GoodStep
<1>1. /\ UNCHANGED <<disk, image, dirty, pageHash, phase>>
      /\ result' = [op |-> op, rc |-> OutOfSpace]
  BY DEF NoVictim, bufferVars, slotVars, Returned
<1>2. Frames' = Frames
  BY <1>1, SameFrames
<1>3. CallKind' = "quiet" /\ result'.op # "allocatePage" /\ result'.rc # AllocOverwrite
  BY <1>1 DEF CallKind, Alloc, AllocOverwrite, OutOfSpace
<1> QED BY <1>1, <1>2, <1>3, IdleStep

(* So do pins, unpins and block objects.                                   *)
LEMMA HandleStep ==
  ASSUME PoolSafe, FileSafe, NEW s,
         \/ CallPinPage(s) \/ CallUnpinPage(s)
         \/ CallGetBlockObject(s) \/ CallFreeBlockObject(s),
         leaked' = LeakedNext
  PROVE  GoodStep
<1>1. /\ UNCHANGED <<file, disk, image, dirty, pageHash, phase>>
      /\ phase = "ready"
      /\ result'.op \in {"pinPage", "unpinPage", "getBlockObject", "freeBlockObject"}
      /\ result'.rc = OK
  BY DEF CallPinPage, CallUnpinPage, CallGetBlockObject, CallFreeBlockObject, Holding,
         storage, Returned
<1>2. Frames' = Frames
  BY <1>1, SameFrames
<1>3. CallKind' = "quiet" /\ result'.op # "allocatePage" /\ result'.rc # AllocOverwrite
  BY <1>1 DEF CallKind, Alloc, AllocOverwrite, OK
<1> QED BY <1>1, <1>2, <1>3, IdleStep

(* What happens to the frame of one slot's page happens to no other. *)
LEMMA OneFrame ==
  ASSUME Sound, NEW s \in Slot, pid[s] \in PID, pageHash' = pageHash,
         \A t \in Slot : t # s => image'[t] = image[t] /\ dirty'[t] = dirty[t]
  PROVE  /\ pid[s] \in Page /\ Frames[pid[s]] # NULL
         /\ Frames[pid[s]].image = image[s] /\ Frames[pid[s]].dirty = dirty[s]
         /\ \A q \in Page : Frames'[q] = IF q = pid[s] THEN Pool!Frame(image'[s], dirty'[s])
                                         ELSE Frames[q]
<1> DEFINE p == pid[s]
<1>1. Inv /\ FrameFacts /\ SlotTypes
  BY FrameFactsLemma, InvFacts DEF Sound
<1>2. p \in Page /\ Cached(p) /\ pageHash[p] = s
  BY <1>1 DEF FrameFacts
<1>3. Frames[p] # NULL /\ Frames[p].image = image[s] /\ Frames[p].dirty = dirty[s]
  BY <1>1, <1>2 DEF FrameFacts
<1>4. ASSUME NEW q \in Page
      PROVE  Frames'[q] = IF q = p THEN Pool!Frame(image'[s], dirty'[s]) ELSE Frames[q]
  <2>1. Frames'[q] = IF pageHash[q] # NULL
                     THEN [image |-> image'[pageHash[q]], dirty |-> dirty'[pageHash[q]]]
                     ELSE NULL
    BY DEF Frames, FrameOf, Cached
  <2>2. Frames[q] = IF pageHash[q] # NULL
                    THEN [image |-> image[pageHash[q]], dirty |-> dirty[pageHash[q]]]
                    ELSE NULL
    BY DEF Frames, FrameOf, Cached
  <2>3. CASE q = p
    BY <1>1, <1>2, <2>1, <2>3 DEF Cached, SlotTypes, Pool!Frame
  <2>4. CASE q # p /\ pageHash[q] # NULL
    <3>1. pageHash[q] \in Slot /\ pageHash[q] # s
      BY <1>1, <2>4 DEF FrameFacts, Cached
    <3> QED BY <1>1, <2>1, <2>2, <2>4, <3>1
  <2>5. CASE pageHash[q] = NULL
    BY <1>2, <2>1, <2>2, <2>5 DEF Cached
  <2> QED BY <2>3, <2>4, <2>5
<1> QED BY <1>2, <1>3, <1>4

(* The next frames as a function, to be compared page by page.             *)
LEMMA FramesIsFunction == Frames' = [q \in Page |-> Frames'[q]]
BY DEF Frames

(* A holder's write is the pool's Change.                                  *)
LEMMA WriteHeldStep ==
  ASSUME Sound, PoolSafe, FileSafe, NEW s \in Slot, NEW img \in Image, WriteHeld(s, img),
         leaked' = LeakedNext
  PROVE  GoodStep
<1> DEFINE p == pid[s]
<1>1. /\ UNCHANGED <<file, disk, pageHash, phase>> /\ phase = "ready"
      /\ image' = [image EXCEPT ![s] = img] /\ dirty' = [dirty EXCEPT ![s] = TRUE]
      /\ result' = [op |-> "write", rc |-> OK]
      /\ pinCount[s] > 0
  BY DEF WriteHeld, Holding, storage, Returned
<1>2. pid[s] \in PID /\ SlotTypes
  BY <1>1, InvFacts DEF Sound, SlotGood
<1>3. /\ \A t \in Slot : t # s => image'[t] = image[t] /\ dirty'[t] = dirty[t]
      /\ image'[s] = img /\ dirty'[s] /\ dirty'[s] \in BOOLEAN
  BY <1>1, <1>2 DEF SlotTypes
<1>4. p \in Page /\ Frames[p] # NULL
      /\ \A q \in Page : Frames'[q] = IF q = p THEN Pool!Frame(img, dirty'[s]) ELSE Frames[q]
  BY <1>1, <1>2, <1>3, OneFrame
<1> HIDE DEF p
<1>5. Frames \in [Page -> FrameSet \cup {NULL}]
  BY DEF PoolSafe, PoolTypes
<1>6. Frames' = Pool!Marked(Pool!Scribbled(Frames, p, img), p)
  <2>1. Frames' = [Frames EXCEPT ![p] = Pool!Frame(img, dirty'[s])]
    BY <1>4, <1>5, FramesIsFunction
  <2>2. dirty'[s] = TRUE
    BY <1>3
  <2> QED BY <1>4, <1>5, <2>1, <2>2, MarkedIs
<1>7. Bits' = Bits /\ CallKind' = "put"
  BY <1>1 DEF Bits, CallKind, Alloc, AllocOverwrite, OK
<1>8. leaked' = leaked
  BY <1>1, <1>7, LeakedKept DEF AllocOverwrite, OK, PoolSafe, PoolTypes
<1>9. Pool!Change
  BY <1>1, <1>4, <1>6, <1>7, <1>8 DEF Pool!Change, Pool!InPool
<1>10. \A q \in Page : Pool!Dirty(Frames, q) => Pool!Dirty(Frames, q)'
  <2>1. Frames'[p] # NULL /\ Frames'[p].dirty
    BY <1>3, <1>4, NewFrame
  <2> QED BY <1>4, <2>1 DEF Pool!Dirty, Pool!InPool
<1>11. FileSafe'
  BY <1>1, <1>7, <1>8, <1>10 DEF FileSafe, PoolSafe, PoolTypes, InFile
<1> QED BY <1>7, <1>8, <1>9, <1>11 DEF GoodStep, Pool!Next, LeakedBits, PoolSafe, PoolTypes

(* A disposal is the pool's Dispose.                                       *)
LEMMA DisposePageStep ==
  ASSUME Sound, PoolSafe, FileSafe, NEW s \in Slot, CallDisposePage(s), leaked' = LeakedNext
  PROVE  GoodStep
<1> DEFINE p == pid[s]
<1>1. /\ Inv /\ FrameFacts /\ SlotTypes /\ FileGood(file) /\ phase = "ready" /\ p \in PID
      /\ AccessStatus(file, p) = OK
  BY FrameFactsLemma, InvFacts DEF Sound, CallDisposePage, FrameFacts
<1>2. /\ file' = Dispose(file, p) /\ pageHash' = HashWithout(s)
      /\ dirty' = [dirty EXCEPT ![s] = FALSE]
      /\ result' = [op |-> "disposePage", rc |-> OK]
      /\ disk' = disk /\ image' = image /\ phase' = phase
  BY <1>1 DEF CallDisposePage, Returned
<1>3. p \in Page /\ p \in file.header /\ Bits = file.header /\ Bits' = Bits \ {p}
  BY <1>1, <1>2, DisposeLemma DEF FrameFacts, Bits
<1>4. ASSUME NEW q \in Page PROVE Frames'[q] = IF q = p THEN NULL ELSE Frames[q]
  <2>1. Frames'[q] = IF pageHash'[q] # NULL
                     THEN [image |-> image'[pageHash'[q]], dirty |-> dirty'[pageHash'[q]]]
                     ELSE NULL
    BY DEF Frames, FrameOf, Cached
  <2>2. pageHash'[q] = IF q = p THEN NULL ELSE pageHash[q]
    BY <1>2, InvalidPID DEF HashWithout
  <2>3. CASE q = p \/ pageHash[q] = NULL
    BY <2>1, <2>2, <2>3 DEF Frames, Cached
  <2>4. CASE q # p /\ pageHash[q] # NULL
    <3>1. pageHash[q] \in Slot /\ pageHash[q] # s
      BY <1>1, <2>4 DEF FrameFacts, Cached
    <3>2. Frames[q] = [image |-> image[pageHash[q]], dirty |-> dirty[pageHash[q]]]
      BY <2>4 DEF Frames, FrameOf, Cached
    <3>3. dirty'[pageHash[q]] = dirty[pageHash[q]]
      BY <1>1, <1>2, <3>1 DEF SlotTypes
    <3> QED BY <1>2, <2>1, <2>2, <2>4, <3>2, <3>3
  <2> QED BY <2>3, <2>4
<1> HIDE DEF p
<1>5. Frames' = Pool!Evicted(Frames, p)
  <2>1. Frames \in [Page -> FrameSet \cup {NULL}]
    BY DEF PoolSafe, PoolTypes
  <2> QED BY <1>4, <2>1, FramesIsFunction DEF Pool!Evicted
<1>6. CallKind' = "drop"
  BY <1>2 DEF CallKind, Alloc, AllocOverwrite, OK
<1>7. leaked' = leaked \ {p}
  <2>1. leaked' = leaked \cap Bits'
    BY <1>2, LeakedKept DEF AllocOverwrite, OK
  <2> QED BY <1>3, <2>1 DEF PoolSafe, PoolTypes
<1>8. Pool!Dispose
  BY <1>2, <1>3, <1>5, <1>6, <1>7 DEF Pool!Dispose
<1>9. FileSafe'
  BY <1>1, <1>2, <1>3, <1>4, <1>7
     DEF FileSafe, PoolSafe, PoolTypes, InFile, Pool!Dirty, Pool!InPool
<1> QED BY <1>3, <1>7, <1>8, <1>9 DEF GoodStep, Pool!Next, LeakedBits, PoolSafe, PoolTypes

(* A dirty page is written to the file and is clean. *)
LEMMA CleanIs ==
  ASSUME Sound, PoolSafe, NEW s \in Slot, pid[s] \in PID, dirty[s], pageHash' = pageHash,
         image' = image, dirty' = [dirty EXCEPT ![s] = FALSE],
         disk' = Write(disk, pid[s], image[s]), Bits' = Bits, leaked' = leaked,
         CallKind' = "quiet"
  PROVE  /\ Pool!WriteBack
         /\ \A q \in Page : InFile(disk, q) => InFile(disk', q)
         /\ \A q \in Page : Pool!Dirty(Frames, q)' => Pool!Dirty(Frames, q) /\ q # pid[s]
         /\ \A q \in Page : Pool!Dirty(Frames, q) => InFile(disk', q) \/ Pool!Dirty(Frames, q)'
<1> DEFINE p == pid[s]
<1>1. SlotTypes /\ DiskGood(disk)
  BY InvFacts DEF Sound
<1>2. /\ \A t \in Slot : t # s => image'[t] = image[t] /\ dirty'[t] = dirty[t]
      /\ image'[s] = image[s] /\ ~dirty'[s] /\ dirty'[s] \in BOOLEAN /\ image[s] \in Image
  BY <1>1 DEF SlotTypes
<1>3. /\ p \in Page /\ Frames[p] # NULL
      /\ Frames[p].image = image[s] /\ Frames[p].dirty
      /\ \A q \in Page : Frames'[q] = IF q = p THEN Pool!Frame(image[s], dirty'[s]) ELSE Frames[q]
  BY <1>2, OneFrame
<1>4. /\ InFile(disk', p) /\ \A q \in Page : InFile(disk, q) => InFile(disk', q)
      /\ disk'.header = disk.header /\ disk'.page = [disk.page EXCEPT ![p] = image[s]]
  BY <1>1, <1>3, WriteGrows
<1> HIDE DEF p
<1>5. Frames \in [Page -> FrameSet \cup {NULL}]
  BY DEF PoolSafe, PoolTypes
<1>6. Frames' = Pool!Cleaned(Frames, p)
  <2>1. Frames' = [Frames EXCEPT ![p] = Pool!Frame(Frames[p].image, dirty'[s])]
    BY <1>3, <1>5, FramesIsFunction
  <2>2. Frames[p] \in FrameSet /\ dirty'[s] = FALSE
    BY <1>2, <1>3, <1>5
  <2>3. [Frames[p] EXCEPT !.dirty = FALSE] = Pool!Frame(Frames[p].image, FALSE)
    BY <1>2, <1>3, <2>2, SetFields
  <2> QED BY <1>3, <1>5, <2>1, <2>2, <2>3 DEF Pool!Cleaned
<1>7. disk'.page = Pool!DiskWith(Frames, disk.page, p) /\ Pool!Dirty(Frames, p)
  BY <1>3, <1>4 DEF Pool!DiskWith, Pool!Dirty, Pool!InPool
<1>8. Pool!WriteBack
  BY <1>3, <1>4, <1>6, <1>7 DEF Pool!WriteBack
<1>9. ASSUME NEW q \in Page
      PROVE  /\ Pool!Dirty(Frames, q)' => Pool!Dirty(Frames, q) /\ q # p
             /\ Pool!Dirty(Frames, q) => InFile(disk', q) \/ Pool!Dirty(Frames, q)'
  <2>1. CASE q = p
    <3>1. ~Frames'[p].dirty
      <4>1. Frames'[p] = Pool!Frame(image[s], dirty'[s])
        BY <1>3
      <4>2. Pool!Frame(image[s], dirty'[s]).dirty = dirty'[s]
        BY <1>2, NewFrame
      <4> QED BY <1>2, <4>1, <4>2
    <3> QED BY <1>4, <2>1, <3>1 DEF Pool!Dirty, Pool!InPool
  <2>2. CASE q # p
    BY <1>3, <2>2 DEF Pool!Dirty, Pool!InPool
  <2> QED BY <2>1, <2>2
<1> QED BY <1>4, <1>8, <1>9 DEF p

(* flushPage writes a dirty page back, and does nothing for a clean one.   *)
LEMMA FlushPageIs ==
  ASSUME Sound, PoolSafe, FileSafe, NEW s \in Slot, CallFlushPage(s), leaked' = LeakedNext
  PROVE  GoodStep
<1>1. /\ Inv /\ FrameFacts /\ SlotTypes /\ phase = "ready" /\ pinCount[s] > 0
  BY FrameFactsLemma, InvFacts DEF Sound, CallFlushPage, Holding
<1>2. pid[s] \in PID /\ AccessStatus(file, pid[s]) = OK
  BY <1>1, InvFacts DEF SlotGood, FrameFacts
<1>3. /\ disk' = IF dirty[s] THEN Write(disk, pid[s], image[s]) ELSE disk
      /\ dirty' = [dirty EXCEPT ![s] = FALSE]
      /\ result' = [op |-> "flushPage", rc |-> OK]
      /\ UNCHANGED <<file, pageHash, image, phase>>
  BY <1>2 DEF CallFlushPage, Returned
<1>4. Bits' = Bits /\ CallKind' = "quiet"
  BY <1>1, <1>3 DEF Bits, CallKind, Alloc, AllocOverwrite, OK
<1>5. leaked' = leaked
  BY <1>3, <1>4, LeakedKept DEF AllocOverwrite, OK, PoolSafe, PoolTypes
<1>6. CASE dirty[s]
  <2>1. /\ Pool!WriteBack
        /\ \A q \in Page : InFile(disk, q) => InFile(disk', q)
        /\ \A q \in Page : Pool!Dirty(Frames, q) => InFile(disk', q) \/ Pool!Dirty(Frames, q)'
    BY <1>2, <1>3, <1>4, <1>5, <1>6, CleanIs
  <2>2. FileSafe'
    BY <1>1, <1>3, <1>4, <1>5, <2>1 DEF FileSafe, PoolSafe, PoolTypes
  <2> QED BY <1>4, <1>5, <2>1, <2>2 DEF GoodStep, Pool!Next, LeakedBits, PoolSafe, PoolTypes
<1>7. CASE ~dirty[s]
  <2>1. dirty' = dirty /\ disk' = disk
    BY <1>1, <1>3, <1>7 DEF SlotTypes
  <2>2. Frames' = Frames
    BY <1>3, <2>1, SameFrames
  <2> QED BY <1>1, <1>3, <1>4, <2>1, <2>2, IdleStep DEF AllocOverwrite, OK
<1> QED BY <1>6, <1>7

(* While flushAllPages runs, what it has not visited may be dirty. *)
LEMMA FlushOneIs ==
  ASSUME Sound, PoolSafe, FileSafe, NEW p \in PID, FlushOne(p), leaked' = LeakedNext
  PROVE  GoodStep
<1> DEFINE s == pageHash[p]
<1>1. /\ Inv /\ FrameFacts /\ SlotTypes /\ phase = "flushing" /\ p \in todo
      /\ s \in Slot /\ pid[s] = p /\ AccessStatus(file, pid[s]) = OK
  BY FrameFactsLemma, InvFacts DEF Sound, FlushOne, FrameFacts, PhaseInv
<1>2. /\ disk' = IF dirty[s] THEN Write(disk, p, image[s]) ELSE disk
      /\ dirty' = [dirty EXCEPT ![s] = FALSE]
      /\ result' = IF dirty[s] THEN [op |-> result.op, rc |-> OK] ELSE result
      /\ todo' = todo \ {p}
      /\ UNCHANGED <<file, pageHash, image, phase>>
  BY <1>1 DEF FlushOne, Returned
<1> HIDE DEF s
<1>3. result'.op \in {"flushAllPages", "close"} /\ result'.rc \notin {Alloc, AllocOverwrite}
  BY <1>1, <1>2 DEF FileSafe, OK, Alloc, AllocOverwrite
<1>4. Bits' = Bits /\ CallKind' = "quiet"
  BY <1>1, <1>2, <1>3 DEF Bits, CallKind, OK
<1>5. leaked' = leaked
  BY <1>3, <1>4, LeakedKept DEF PoolSafe, PoolTypes
<1>6. CASE dirty[s]
  <2>1. /\ Pool!WriteBack
        /\ \A q \in Page : InFile(disk, q) => InFile(disk', q)
        /\ \A q \in Page : Pool!Dirty(Frames, q)' => Pool!Dirty(Frames, q) /\ q # p
        /\ \A q \in Page : Pool!Dirty(Frames, q) => InFile(disk', q) \/ Pool!Dirty(Frames, q)'
    BY <1>1, <1>2, <1>4, <1>5, <1>6, CleanIs
  <2>2. FileSafe'
    BY <1>1, <1>2, <1>3, <1>4, <1>5, <2>1 DEF FileSafe, PoolSafe, PoolTypes
  <2> QED BY <1>4, <1>5, <2>1, <2>2 DEF GoodStep, Pool!Next, LeakedBits, PoolSafe, PoolTypes
<1>7. CASE ~dirty[s]
  <2>1. dirty' = dirty /\ disk' = disk
    BY <1>1, <1>2, <1>7 DEF SlotTypes
  <2>2. Frames' = Frames
    BY <1>2, <2>1, SameFrames
  <2>3. /\ Pool!Next /\ LeakedBits'
        /\ \A q \in Bits' : q \in leaked' \/ InFile(disk', q) \/ Pool!Dirty(Frames, q)'
        /\ \A q \in Page : Pool!Dirty(Frames, q)' <=> Pool!Dirty(Frames, q)
    BY <1>4, <1>5, <2>1, <2>2, PoolIdle
  <2>4. p \in Page => ~Pool!Dirty(Frames, p)
    BY <1>1, <1>7, InvalidPID DEF FrameFacts, Pool!Dirty, Pool!InPool
  <2>5. FileSafe'
    BY <1>1, <1>2, <1>3, <2>3, <2>4 DEF FileSafe
  <2> QED BY <2>3, <2>5 DEF GoodStep
<1> QED BY <1>6, <1>7

(* A flush starts with every cached page to visit, the dirty ones          *)
(* included.                                                               *)
LEMMA BeginFlushIs ==
  ASSUME Sound, PoolSafe, FileSafe, NEW op \in {"flushAllPages", "close"}, BeginFlushAll(op),
         leaked' = LeakedNext
  PROVE  GoodStep
<1>1. /\ UNCHANGED <<file, disk, pageHash, image, dirty>>
      /\ phase = "ready" /\ phase' = "flushing" /\ todo' = {p \in PID : Cached(p)}
      /\ result' = [op |-> op, rc |-> OK] /\ FrameFacts
  BY FrameFactsLemma DEF BeginFlushAll, storage, bufferVars, slotVars, ToFlush, Returned
<1>2. Frames' = Frames
  BY <1>1, SameFrames
<1>3. Bits' = Bits /\ CallKind' = "quiet"
  BY <1>1 DEF Bits, CallKind, Alloc, AllocOverwrite, OK
<1>4. leaked' = leaked
  BY <1>1, <1>3, LeakedKept DEF AllocOverwrite, OK, PoolSafe, PoolTypes
<1>5. /\ Pool!Next /\ LeakedBits'
      /\ \A q \in Bits' : q \in leaked' \/ InFile(disk', q) \/ Pool!Dirty(Frames, q)'
      /\ \A q \in Page : Pool!Dirty(Frames, q)' <=> Pool!Dirty(Frames, q)
  BY <1>1, <1>2, <1>3, <1>4, PoolIdle
<1>6. \A q \in Page : Pool!Dirty(Frames, q) => q \in todo'
  BY <1>1, InvalidPID DEF FrameFacts, Pool!Dirty, Pool!InPool
<1>7. FileSafe'
  BY <1>1, <1>5, <1>6 DEF FileSafe, OK, Alloc, AllocOverwrite
<1> QED BY <1>5, <1>7 DEF GoodStep

(* The filler at the end of the file hits no page anybody reads. *)
LEMMA FlushExtendIs ==
  ASSUME Sound, PoolSafe, FileSafe, FlushExtend, leaked' = LeakedNext
  PROVE  GoodStep
<1> DEFINE p == file.numContentPages - 1
<1>1. /\ UNCHANGED <<file, pageHash, image, dirty, result>>
      /\ phase = "flushing" /\ todo = {} /\ phase' = "header"
      /\ disk' = ExtendFile(file, disk)
      /\ DiskGood(disk) /\ FileGood(file)
  BY InvFacts DEF Sound, FlushExtend, bufferVars, slotVars
<1>2. Frames' = Frames
  BY <1>1, SameFrames
<1>3. /\ result'.op \in {"flushAllPages", "close"} /\ result'.rc \notin {Alloc, AllocOverwrite}
      /\ \A q \in Page : ~Pool!Dirty(Frames, q)
  BY <1>1 DEF FileSafe
<1>4. Bits' = Bits /\ CallKind' = "quiet"
  BY <1>1, <1>3 DEF Bits, CallKind
<1>5. leaked' = leaked
  BY <1>3, <1>4, LeakedKept DEF PoolSafe, PoolTypes
<1>6. /\ \A q \in Page : InFile(disk, q) => InFile(disk', q)
      /\ disk.page \in [Page -> Image] /\ disk'.page \in [Page -> Image]
      /\ disk'.header = disk.header
      /\ \A q \in Page : disk'.page[q] = IF /\ NumHeaderPages + file.numContentPages > disk.size
                                            /\ q = p
                                         THEN HeaderImage ELSE disk.page[q]
  <2>1. \A q \in Page : InFile(disk, q) => InFile(disk', q)
    BY <1>1, ExtendLemma
  <2>2. DiskGood(disk')
    BY <1>1, ExtendLemma
  <2>3. file.numContentPages \in Int /\ NumHeaderPages \in Int /\ Page \subseteq Int
    BY <1>1, NumHeaderPagesAssumption DEF FileGood, FileObject, Page
  <2>4. \A q \in Page : NumHeaderPages + q = (NumHeaderPages + file.numContentPages) - 1 <=> q = p
    BY <2>3
  <2>5. CASE NumHeaderPages + file.numContentPages > disk.size
    <3>1. \A q \in Page : disk'.page[q] = IF NumHeaderPages + q = (NumHeaderPages + file.numContentPages) - 1
                                          THEN HeaderImage ELSE disk.page[q]
      BY <1>1, <2>5 DEF ExtendFile
    <3>2. disk'.header = disk.header
      BY <1>1, <2>5 DEF ExtendFile
    <3> QED BY <1>1, <2>1, <2>2, <2>4, <2>5, <3>1, <3>2 DEF DiskGood, DiskFile
  <2>6. CASE ~(NumHeaderPages + file.numContentPages > disk.size)
    BY <1>1, <2>1, <2>6 DEF ExtendFile, DiskGood, DiskFile
  <2> QED BY <2>5, <2>6
<1>7. CASE /\ NumHeaderPages + file.numContentPages > disk.size /\ p \in Page
  <2>1. disk'.header = disk.header /\ disk'.page = [disk.page EXCEPT ![p] = HeaderImage]
    <3>1. \A q \in Page : disk'.page[q] = IF q = p THEN HeaderImage ELSE disk.page[q]
      BY <1>6, <1>7
    <3> HIDE DEF p
    <3> QED BY <1>6, <3>1
  <2>2. ~InFile(disk, p)
    BY <1>1, <1>7, NumHeaderPagesAssumption
       DEF InFile, FileGood, FileObject, DiskGood, DiskFile
  <2>3. p \notin disk.header /\ (p \in Bits => p \in leaked)
    BY <1>1, <1>3, <1>7, <2>2 DEF DiskGood, FileSafe
  <2> HIDE DEF p
  <2>4. Pool!Fill
    BY <1>2, <1>4, <1>5, <1>7, <2>1, <2>3, ImageAssumption DEF Pool!Fill
  <2>5. FileSafe'
    BY <1>1, <1>2, <1>3, <1>4, <1>5, <1>6
       DEF FileSafe, Pool!Dirty, Pool!InPool, PoolSafe, PoolTypes
  <2> QED BY <1>4, <1>5, <2>4, <2>5 DEF GoodStep, Pool!Next, LeakedBits, PoolSafe, PoolTypes
<1>8. CASE ~(NumHeaderPages + file.numContentPages > disk.size /\ p \in Page)
  <2>1. disk'.header = disk.header /\ disk'.page = disk.page
    <3>1. \A q \in Page : disk'.page[q] = disk.page[q]
      BY <1>6, <1>8
    <3> HIDE DEF p
    <3> QED BY <1>6, <3>1
  <2>2. /\ Pool!Next /\ LeakedBits'
        /\ \A q \in Bits' : q \in leaked' \/ InFile(disk', q) \/ Pool!Dirty(Frames, q)'
        /\ \A q \in Page : Pool!Dirty(Frames, q)' <=> Pool!Dirty(Frames, q)
    BY <1>2, <1>4, <1>5, <1>6, <2>1, PoolIdle
  <2>3. FileSafe'
    BY <1>1, <1>3, <2>2 DEF FileSafe
  <2> QED BY <2>2, <2>3 DEF GoodStep
<1> QED BY <1>7, <1>8

(* A process that has ended leaves no frame.                               *)
LEMMA HashGone ==
  ASSUME pageHash' = [p \in PID |-> NULL]
  PROVE  Frames' = Pool!NoFrames
<1>1. \A p \in Page : pageHash'[p] = NULL
  BY InvalidPID
<1> QED BY <1>1 DEF Frames, Cached, Pool!NoFrames

(* The bitmap on disk is the one in memory; a closing process ends here. *)
LEMMA FlushHeaderIs ==
  ASSUME Sound, PoolSafe, FileSafe, FlushHeader, leaked' = LeakedNext
  PROVE  GoodStep /\ Pool!SaveBits /\ result'.op # "crash"
<1>1. /\ phase = "header" /\ result' = result /\ DiskGood(disk)
      /\ disk' = WriteHeader(file, disk)
      /\ \/ MemoryGone
         \/ phase' = "ready" /\ UNCHANGED <<file, pageHash, image, dirty>>
  BY InvFacts DEF Sound, FlushHeader, bufferVars, slotVars
<1>2. /\ result'.op \in {"flushAllPages", "close"} /\ result'.rc \notin {Alloc, AllocOverwrite}
      /\ \A q \in Page : ~Pool!Dirty(Frames, q)
  BY <1>1 DEF FileSafe
<1>3. /\ disk'.header = file.header /\ disk'.page = disk.page
      /\ \A q \in Page : InFile(disk, q) => InFile(disk', q)
  BY <1>1, NumHeaderPagesAssumption DEF WriteHeader, InFile, Larger, DiskGood, DiskFile, Page
<1>4. Frames' \in {Frames, Pool!NoFrames}
  BY <1>1, HashGone, SameFrames DEF MemoryGone
<1>5. Bits = file.header /\ Bits' = Bits
  BY <1>1, <1>3 DEF Bits, MemoryGone
<1>6. CallKind' = "quiet"
  BY <1>2 DEF CallKind
<1>7. leaked' = leaked
  BY <1>2, <1>5, LeakedKept DEF PoolSafe, PoolTypes
<1>8. Pool!SaveBits
  BY <1>2, <1>3, <1>4, <1>5, <1>6, <1>7 DEF Pool!SaveBits
<1>9. \A q \in Page : ~Pool!Dirty(Frames, q)'
  BY <1>2, <1>4 DEF Pool!Dirty, Pool!InPool, Pool!NoFrames
<1>10. FileSafe'
  <2>1. phase' \in {"ready", "down"}
    BY <1>1 DEF MemoryGone
  <2> QED BY <1>2, <1>3, <1>5, <1>7, <1>9, <2>1 DEF FileSafe, PoolSafe, PoolTypes
<1> QED BY <1>2, <1>5, <1>7, <1>8, <1>10
        DEF GoodStep, Pool!Next, LeakedBits, PoolSafe, PoolTypes

(* A crash is the pool's Crash.                                            *)
LEMMA CrashIs ==
  ASSUME Sound, PoolSafe, FileSafe, Crash, leaked' = LeakedNext
  PROVE  GoodStep
<1>1. /\ MemoryGone /\ disk' = disk /\ DiskGood(disk)
      /\ result' = [op |-> "crash", rc |-> OK]
  BY InvFacts DEF Sound, Crash, Returned
<1>2. Frames' = Pool!NoFrames /\ Bits' = disk.header /\ phase' = "down"
  BY <1>1, HashGone DEF MemoryGone, Bits
<1>3. CallKind' = "crash"
  BY <1>1 DEF CallKind, Alloc, AllocOverwrite, OK
<1>4. leaked' = leaked \cap disk.header
  BY <1>1, <1>2, LeakedKept DEF AllocOverwrite, OK
<1>5. Pool!Crash
  BY <1>1, <1>2, <1>3, <1>4 DEF Pool!Crash
<1>6. FileSafe'
  BY <1>1, <1>2 DEF FileSafe, DiskGood, Pool!Dirty, Pool!InPool, Pool!NoFrames
<1> QED BY <1>2, <1>4, <1>5, <1>6 DEF GoodStep, Pool!Next, LeakedBits

(* The next process finds the bitmap that is on the disk. *)
LEMMA RestartIs ==
  ASSUME Sound, PoolSafe, FileSafe, Restart, leaked' = LeakedNext
  PROVE  GoodStep
<1>1. /\ phase = "down" /\ phase' = "ready" /\ disk' = disk /\ DiskGood(disk)
      /\ file' \in IF disk.size >= NumHeaderPages THEN Opened(disk) ELSE {Created}
      /\ pageHash' = pageHash /\ result' = [op |-> "start", rc |-> OK]
      /\ FrameFacts
  BY InvFacts, FrameFactsLemma DEF Sound, Restart, Returned
<1>2. Bits = disk.header /\ Bits' = file'.header
  BY <1>1 DEF Bits
<1>3. file'.header = disk.header
  <2>1. CASE disk.size >= NumHeaderPages
    BY <1>1, <2>1 DEF Opened
  <2>2. CASE ~(disk.size >= NumHeaderPages)
    <3>1. file'.header = {}
      BY <1>1, <2>2 DEF Created
    <3>2. ASSUME NEW q \in disk.header PROVE FALSE
      BY <1>1, <2>2, NumHeaderPagesAssumption DEF DiskGood, DiskFile, InFile, Page
    <3> QED BY <3>1, <3>2
  <2> QED BY <2>1, <2>2
<1>4. Frames' = Frames
  BY <1>1 DEF FrameFacts, Frames, Cached
<1>5. CallKind' = "quiet"
  BY <1>1 DEF CallKind, Alloc, AllocOverwrite, OK
<1>6. leaked' = leaked
  BY <1>1, <1>2, <1>3, LeakedKept DEF AllocOverwrite, OK, PoolSafe, PoolTypes
<1>7. /\ Pool!Next /\ LeakedBits'
      /\ \A q \in Bits' : q \in leaked' \/ InFile(disk', q) \/ Pool!Dirty(Frames, q)'
      /\ \A q \in Page : Pool!Dirty(Frames, q)' <=> Pool!Dirty(Frames, q)
  BY <1>1, <1>2, <1>3, <1>4, <1>5, <1>6, PoolIdle
<1>8. FileSafe'
  BY <1>1, <1>7 DEF FileSafe
<1> QED BY <1>7, <1>8 DEF GoodStep

(* The calls that may miss, case by case.                                  *)
LEMMA AllocatePageIs ==
  ASSUME Sound, PoolSafe, FileSafe, CallAllocatePage, leaked' = LeakedNext
  PROVE  GoodStep
<1> DEFINE op == "allocatePage"
           p == AllocatePagePID(file)
<1>1. phase = "ready" /\ FileGood(file)
  BY InvFacts DEF Sound, CallAllocatePage
<1>2. CASE AllocatePageStatus(file) # OK
  <2>1. /\ UNCHANGED <<file, disk, pageHash, image, dirty, phase>>
        /\ result' = [op |-> op, rc |-> OutOfSpace]
    BY <1>2 DEF CallAllocatePage, storage, bufferVars, slotVars, Returned
  <2>2. Frames' = Frames
    BY <2>1, SameFrames
  <2> QED BY <1>1, <2>1, <2>2, LeakStep
<1>3. CASE AllocatePageStatus(file) = OK
  <2>1. /\ p \in Page \ file.header
        /\ file' = AllocatePage(file) /\ file'.header = file.header \cup {p}
    BY <1>1, <1>3, AllocatePageLemma DEF CallAllocatePage
  <2>2. \/ NoVictim(op)
        \/ VictimStuck(op)
        \/ Evicting /\ Load(op, p, TRUE, image[Victim(lru)], Alloc)
    BY <1>3 DEF CallAllocatePage
  <2> HIDE DEF p
  <2>3. CASE NoVictim(op)
    <3>1. /\ UNCHANGED <<disk, pageHash, image, dirty, phase>>
          /\ result' = [op |-> op, rc |-> OutOfSpace]
      BY <2>3 DEF NoVictim, bufferVars, slotVars, Returned
    <3>2. Frames' = Frames
      BY <3>1, SameFrames
    <3> QED BY <1>1, <2>1, <3>1, <3>2, LeakStep
  <2>4. CASE VictimStuck(op)
    BY <2>4, NeverStuck, InvalidPID
  <2>5. CASE Evicting /\ Load(op, p, TRUE, image[Victim(lru)], Alloc)
    BY <1>1, <2>1, <2>5, AllocStep
  <2> QED BY <2>2, <2>3, <2>4, <2>5
<1> QED BY <1>2, <1>3

LEMMA AllocatePageWithPIDIs ==
  ASSUME Sound, PoolSafe, FileSafe, NEW p \in OverwritePIDs, CallAllocatePageWithPID(p),
         leaked' = LeakedNext
  PROVE  GoodStep
<1> DEFINE op == "allocatePageWithPID"
           rc == AllocatePIDStatus(file, p)
<1>1. phase = "ready" /\ FileGood(file) /\ p \in Page /\ p \in PID
  BY InvFacts, InvalidPID DEF Sound, GoodCallers, CallAllocatePageWithPID
<1>2. \/ HitPage(op, p)
      \/ NoVictim(op) /\ file' = file
      \/ VictimStuck(op)
      \/ /\ ~Cached(p) /\ Evicting /\ rc = OK /\ file' = AllocatePID(file, p)
         /\ Load(op, p, TRUE, image[Victim(lru)], Alloc)
      \/ /\ ~Cached(p) /\ Evicting /\ rc # OK /\ file' = file
         /\ Load(op, p, TRUE, image[Victim(lru)], AllocOverwrite)
  BY DEF CallAllocatePageWithPID
<1>3. CASE HitPage(op, p)
  BY <1>1, <1>3, HitStep
<1>4. CASE NoVictim(op) /\ file' = file
  BY <1>1, <1>4, NoVictimIdles
<1>5. CASE VictimStuck(op)
  BY <1>1, <1>5, NeverStuck
<1>6. CASE /\ ~Cached(p) /\ Evicting /\ rc = OK /\ file' = AllocatePID(file, p)
           /\ Load(op, p, TRUE, image[Victim(lru)], Alloc)
  <2>1. p \notin file.header /\ file'.header = file.header \cup {p}
    BY <1>1, <1>6, AllocatePIDLemma
  <2> QED BY <1>1, <1>6, <2>1, AllocStep
<1>7. CASE /\ ~Cached(p) /\ Evicting /\ rc # OK /\ file' = file
           /\ Load(op, p, TRUE, image[Victim(lru)], AllocOverwrite)
  <2>1. p \in file.header
    BY <1>1, <1>7, NumBitsAssumption DEF AllocatePIDStatus, IsAllocated, Page
  <2> QED BY <1>1, <1>7, <2>1, OverwriteStep
<1> QED BY <1>2, <1>3, <1>4, <1>5, <1>6, <1>7

(* What the file answers when it refuses.                                  *)
LEMMA StatusIsFailing ==
  ASSUME NEW f, NEW p
  PROVE  /\ AccessStatus(f, p) # OK => AccessStatus(f, p) \in Failing
         /\ AllocatePIDStatus(f, p) # OK => AllocatePIDStatus(f, p) \in Failing
BY DEF AccessStatus, AllocatePIDStatus, Failing

LEMMA ReadPageIs ==
  ASSUME Sound, PoolSafe, FileSafe, NEW p \in PID, CallReadPage(p), leaked' = LeakedNext
  PROVE  GoodStep
<1> DEFINE op == "readPage"
           rc == AccessStatus(file, p)
           v == Victim(lru)
           back == AddBack(RemoveSlot(lru, v), v)
<1>1. phase = "ready"
  BY DEF CallReadPage
<1>2. \/ HitPage(op, p)
      \/ NoVictim(op) /\ file' = file
      \/ VictimStuck(op)
      \/ /\ ~Cached(p) /\ Evicting /\ file' = file /\ rc = OK
         /\ Load(op, p, FALSE, Read(DiskAfterEvicting(v), p, image[v]), ReadIn)
      \/ Evicting /\ file' = file /\ rc # OK /\ Recycle(op, back, rc)
  BY DEF CallReadPage
<1>3. CASE HitPage(op, p)
  BY <1>1, <1>3, HitStep
<1>4. CASE NoVictim(op) /\ file' = file
  BY <1>1, <1>4, NoVictimIdles
<1>5. CASE VictimStuck(op)
  BY <1>5, NeverStuck
<1>6. CASE /\ ~Cached(p) /\ Evicting /\ file' = file /\ rc = OK
           /\ Load(op, p, FALSE, Read(DiskAfterEvicting(v), p, image[v]), ReadIn)
  BY <1>1, <1>6, FetchStep
<1> HIDE DEF back
<1>7. CASE Evicting /\ file' = file /\ rc # OK /\ Recycle(op, back, rc)
  <2>1. rc \in Failing
    BY <1>7, StatusIsFailing
  <2> HIDE DEF rc
  <2> QED BY <1>1, <1>7, <2>1, RecycleStep
<1> QED BY <1>2, <1>3, <1>4, <1>5, <1>6, <1>7

LEMMA ReadOrAllocatePageIs ==
  ASSUME Sound, PoolSafe, FileSafe, NEW p \in PID, CallReadOrAllocatePage(p),
         leaked' = LeakedNext
  PROVE  GoodStep
<1> DEFINE op == "readOrAllocatePage"
           rc == AllocatePIDStatus(file, p)
           v == Victim(lru)
           back == Add(RemoveSlot(lru, v), v)
<1>1. phase = "ready" /\ FileGood(file)
  BY InvFacts DEF Sound, CallReadOrAllocatePage
<1>2. \/ HitPage(op, p)
      \/ NoVictim(op) /\ file' = file
      \/ VictimStuck(op)
      \/ /\ ~Cached(p) /\ Evicting /\ file' = file /\ AccessStatus(file, p) = OK
         /\ Load(op, p, FALSE, Read(DiskAfterEvicting(v), p, image[v]), ReadIn)
      \/ /\ Evicting /\ rc = OK /\ file' = AllocatePID(file, p)
         /\ Load(op, p, TRUE, image[v], Alloc)
      \/ Evicting /\ file' = file /\ rc # OK /\ Recycle(op, back, rc)
  BY DEF CallReadOrAllocatePage
<1>3. CASE HitPage(op, p)
  BY <1>1, <1>3, HitStep
<1>4. CASE NoVictim(op) /\ file' = file
  BY <1>1, <1>4, NoVictimIdles
<1>5. CASE VictimStuck(op)
  BY <1>5, NeverStuck
<1>6. CASE /\ ~Cached(p) /\ Evicting /\ file' = file /\ AccessStatus(file, p) = OK
           /\ Load(op, p, FALSE, Read(DiskAfterEvicting(v), p, image[v]), ReadIn)
  BY <1>1, <1>6, FetchStep
<1>7. CASE /\ Evicting /\ rc = OK /\ file' = AllocatePID(file, p)
           /\ Load(op, p, TRUE, image[v], Alloc)
  <2>1. p \in Page /\ p \notin file.header /\ file'.header = file.header \cup {p}
    BY <1>1, <1>7, AllocatePIDLemma
  <2> QED BY <1>1, <1>7, <2>1, AllocStep
<1> HIDE DEF back
<1>8. CASE Evicting /\ file' = file /\ rc # OK /\ Recycle(op, back, rc)
  <2>1. rc \in Failing
    BY <1>8, StatusIsFailing
  <2> HIDE DEF rc
  <2> QED BY <1>1, <1>8, <2>1, RecycleStep
<1> QED BY <1>2, <1>3, <1>4, <1>5, <1>6, <1>7, <1>8

-----------------------------------------------------------------------------
(* Every step of the buffer is a step of the pool. *)
LEMMA StepIsGood ==
  ASSUME Sound, PoolSafe, FileSafe, Next, leaked' = LeakedNext
  PROVE  GoodStep
<1>1. CASE CallAllocatePage
  BY <1>1, AllocatePageIs
<1>2. ASSUME NEW p \in OverwritePIDs, CallAllocatePageWithPID(p) PROVE GoodStep
  BY <1>2, AllocatePageWithPIDIs
<1>3. ASSUME NEW p \in PID, CallReadPage(p) \/ CallReadOrAllocatePage(p) PROVE GoodStep
  BY <1>3, ReadPageIs, ReadOrAllocatePageIs
<1>4. ASSUME NEW p \in PID, HitUnlinkedPage(p) PROVE GoodStep
  BY <1>4, NeverStuck
<1>5. ASSUME NEW s \in Slot,
             \/ CallDisposePage(s) \/ CallPinPage(s) \/ CallUnpinPage(s)
             \/ CallGetBlockObject(s) \/ CallFreeBlockObject(s) \/ CallFlushPage(s)
             \/ \E img \in Image : WriteHeld(s, img)
      PROVE  GoodStep
  BY <1>5, DisposePageStep, HandleStep, FlushPageIs, WriteHeldStep
<1>6. ASSUME NEW op \in {"flushAllPages", "close"}, BeginFlushAll(op) PROVE GoodStep
  BY <1>6, BeginFlushIs
<1>7. ASSUME NEW p \in PID, FlushOne(p) PROVE GoodStep
  BY <1>7, FlushOneIs
<1>8. CASE FlushExtend \/ FlushHeader \/ Crash \/ Restart
  BY <1>8, FlushExtendIs, FlushHeaderIs, CrashIs, RestartIs
<1> QED BY <1>1, <1>2, <1>3, <1>4, <1>5, <1>6, <1>7, <1>8 DEF Next

(* Only the second write of a flush is made in phase "header". *)
LEMMA HeaderPhase ==
  ASSUME Sound, PoolSafe, FileSafe, Next, leaked' = LeakedNext, phase = "header",
         result'.op # "crash"
  PROVE  Pool!SaveBits
<1>1. FlushHeader
  <2>1. result' # Returned("crash", OK)
    BY DEF Returned
  <2> QED BY <2>1 DEF Next, CallAllocatePage, CallAllocatePageWithPID, CallReadPage,
       CallReadOrAllocatePage, CallDisposePage, CallPinPage, CallUnpinPage, Holding,
       CallGetBlockObject, CallFreeBlockObject, CallFlushPage, WriteHeld, BeginFlushAll,
       FlushOne, FlushExtend, Crash, Restart
<1> QED BY <1>1, FlushHeaderIs

-----------------------------------------------------------------------------
SoundPool == Sound /\ PoolSafe

(* A reader sees through the pool: what View reads in slots and hash table *)
(* is what the frames hold.                                                *)
LEMMA ViewIsLemma == SoundPool => ViewIs
<1> SUFFICES ASSUME SoundPool PROVE ViewIs
  OBVIOUS
<1>1. FrameFacts
  BY FrameFactsLemma DEF SoundPool
<1>2. ASSUME NEW p \in Page PROVE View(p) = Seen(p)
  <2>1. Frames[p] # NULL <=> Cached(p)
    BY <1>1 DEF FrameFacts
  <2>2. Cached(p) => Frames[p].image = image[pageHash[p]]
    BY <1>1 DEF FrameFacts
  <2> QED BY <2>1, <2>2 DEF View, Seen
<1> QED BY <1>2 DEF ViewIs, Views

(* ... in the next state as well.                                          *)
LEMMA ViewIsNext == SoundPool' => ViewIs'
BY ViewIsLemma, PTL

(* recent as its two cases.                                                *)
LEMMA RecentIs ==
  ASSUME recent' = RecentNext
  PROVE  IF phase = "header" /\ result'.op # "crash" THEN Forgets ELSE Grows
<1>1. \A p \in Page : Views[p]' = View(p)'
  BY DEF Views
<1> QED BY <1>1 DEF RecentNext, Forgets, Grows

(* The inductive invariant: the buffer's own, the pool's, the file's and   *)
(* the store's.                                                            *)
HInv == Inv /\ PoolSafe /\ FileSafe /\ RecentSafe

(* The initial state is one of both abstractions and has the invariant.    *)
LEMMA HInitInv ==
  ASSUME GoodCallers, HInit
  PROVE  HInv /\ Pool!Init /\ Store!Init
<1>1. /\ Inv /\ file = Created /\ disk.header = {} /\ phase = "ready"
      /\ leaked = {} /\ recent = [p \in Page |-> {NoPage}]
      /\ pageHash = [p \in PID |-> NULL] /\ result = [op |-> "start", rc |-> OK]
  BY InitInv DEF HInit, Init, FreshBuffer, Returned
<1>2. Sound /\ DiskGood(disk)
  BY <1>1, InvFacts DEF Sound
<1>3. Bits = {}
  BY <1>1 DEF Bits, Created
<1>4. Frames = Pool!NoFrames
  <2>1. \A p \in Page : pageHash[p] = NULL
    BY <1>1, InvalidPID
  <2> QED BY <2>1 DEF Frames, Cached, Pool!NoFrames
<1>5. PoolSafe
  BY <1>1, <1>2, <1>3, <1>4, PoolTypesLemma DEF PoolSafe, LeakedBits, Pool!NoFrames
<1>6. FileSafe
  BY <1>1, <1>3, <1>4 DEF FileSafe, Pool!Dirty, Pool!InPool, Pool!NoFrames
<1>7. Views = [p \in Page |-> NoPage]
  BY <1>2, <1>3, <1>5, ViewIsLemma DEF SoundPool, ViewIs, Seen
<1>8. RecentSafe
  BY <1>1, <1>7 DEF RecentSafe, OnDisk, Content
<1>9. CallKind = "quiet"
  BY <1>1 DEF CallKind, Alloc, AllocOverwrite, OK
<1>10. Pool!Init
  BY <1>1, <1>2, <1>3, <1>4, <1>9 DEF Pool!Init, DiskGood, DiskFile
<1>11. Store!Init
  BY <1>1, <1>7, <1>9, StoreConstants DEF Store!Init
<1> QED BY <1>1, <1>5, <1>6, <1>8, <1>10, <1>11 DEF HInv

(* What one step does to the invariant and to the two abstractions. *)
StepKeeps ==
  /\ HInv'
  /\ [Pool!Next]_(Pool!vars)
  /\ [Store!Next]_<<Views, recent, CallKind>>

(* A step keeps the invariant and is a step of both abstractions ...       *)
LEMMA HStepKeeps ==
  ASSUME GoodCallers, HInv, HNext
  PROVE  StepKeeps
<1>1. /\ Sound /\ PoolSafe /\ FileSafe /\ RecentSafe
      /\ Next /\ leaked' = LeakedNext /\ recent' = RecentNext
  BY DEF Sound, HInv, HNext
<1>2. Inv' /\ Sound'
  BY <1>1, NextInv DEF Sound, GoodCallers
<1>3. Pool!Next /\ LeakedBits' /\ FileSafe'
  BY <1>1, StepIsGood DEF GoodStep
<1>4. PoolTypes'
  BY <1>2, <1>3, PoolTypesNext
<1>5. PoolSafe'
  BY <1>1, <1>3, <1>4, ReadKeeps, AllocateKeeps, OverwriteKeeps, LeakKeeps, ChangeKeeps,
     DisposeKeeps, QuietKeeps, CrashKeeps DEF Pool!Next
<1>6. ViewIs /\ ViewIs'
  BY <1>1, <1>2, <1>5, ViewIsLemma, ViewIsNext DEF SoundPool
<1>7. CASE phase = "header" /\ result'.op # "crash"
  <2>1. Pool!SaveBits /\ Forgets
    BY <1>1, <1>7, HeaderPhase, RecentIs
  <2>2. Store!Flushed /\ Views' = Views
    BY <1>1, <1>4, <1>6, <2>1, SaveIsFlushed
  <2>3. RecentSafe'
    BY <1>1, <1>5, <1>6, <2>1, <2>2, RecentKeeps
  <2> QED BY <1>2, <1>3, <1>5, <2>2, <2>3 DEF HInv, Store!Next, StepKeeps
<1>8. CASE ~(phase = "header" /\ result'.op # "crash")
  <2>1. Grows
    BY <1>1, <1>8, RecentIs
  <2>2. Store!Next
    BY <1>1, <1>3, <1>4, <1>6, <2>1, PoolStepIsStoreStep
  <2>3. RecentSafe'
    BY <1>1, <1>3, <1>5, <1>6, <2>1, RecentKeeps
  <2> QED BY <1>2, <1>3, <1>5, <2>2, <2>3 DEF HInv, StepKeeps
<1> QED BY <1>7, <1>8

(* ... and so is a stuttering one.                                         *)
LEMMA HStutterKeeps ==
  ASSUME HInv, UNCHANGED <<vars, leaked, recent>>
  PROVE  StepKeeps
<1>1. UNCHANGED <<file, disk, pageHash, image, dirty, phase, todo, result, leaked, recent>>
  BY DEF vars, storage, bufferVars, slotVars
<1>2. Inv'
  BY StutterStep DEF HInv
<1>3. Frames' = Frames /\ Bits' = Bits /\ CallKind' = CallKind /\ Views' = Views
  BY <1>1 DEF Frames, Cached, FrameOf, Bits, CallKind, Views, View
<1>4. PoolSafe'
  BY <1>1, <1>3 DEF HInv, PoolSafe, PoolTypes
<1>5. FileSafe'
  BY <1>1, <1>3 DEF HInv, FileSafe, Pool!Dirty, Pool!InPool, InFile
<1>6. RecentSafe'
  BY <1>1, <1>3 DEF HInv, RecentSafe, OnDisk
<1> QED BY <1>1, <1>2, <1>3, <1>4, <1>5, <1>6 DEF HInv, Pool!vars, StepKeeps

-----------------------------------------------------------------------------
LEMMA HNextKeeps ==
  ASSUME GoodCallers, HInv, [HNext]_<<vars, leaked, recent>>
  PROVE  StepKeeps
BY HStepKeeps, HStutterKeeps

(* The invariant holds in every behaviour.                                 *)
LEMMA HSpecInv == GoodCallers => (HSpec => []HInv)
<1> SUFFICES ASSUME GoodCallers PROVE HSpec => []HInv
  OBVIOUS
<1>1. HInit => HInv
  BY HInitInv
<1>2. HInv /\ [HNext]_<<vars, leaked, recent>> => HInv'
  BY HNextKeeps DEF StepKeeps
<1> QED BY <1>1, <1>2, PTL DEF HSpec

(* A clean page in the pool is the page on disk, for every number of slots *)
(* and pages: an eviction may drop it (BufferManager.cpp:396).             *)
THEOREM CleanPagesOnDisk ==
  0 \notin DisposePins /\ OverwritePIDs \subseteq Page => (HSpec => []CleanIsOnDisk)
<1> SUFFICES ASSUME GoodCallers PROVE HSpec => []CleanIsOnDisk
  BY DEF GoodCallers
<1>1. ASSUME HInv PROVE CleanIsOnDisk
  <2>1. Sound /\ FrameFacts /\ PoolSafe /\ FileSafe
    BY <1>1, FrameFactsLemma DEF HInv, Sound
  <2>2. phase # "down"  \/ \A s \in Slot : pid[s] \notin Page
    BY <1>1, InvFacts, InvalidPID DEF HInv, PhaseInv
  <2>3. ASSUME NEW s \in Slot, pid[s] \in Page, ~dirty[s], pid[s] \notin leaked
        PROVE  InFile(disk, pid[s]) /\ disk.page[pid[s]] = image[s]
    <3>1. /\ pid[s] \in Bits /\ Frames[pid[s]] # NULL
          /\ Frames[pid[s]].image = image[s] /\ ~Frames[pid[s]].dirty
      BY <2>1, <2>2, <2>3, InvalidPID DEF FrameFacts, Bits
    <3> QED BY <2>1, <2>3, <3>1 DEF PoolSafe, FileSafe, Pool!Dirty
  <2> QED BY <2>3 DEF CleanIsOnDisk
<1> QED BY <1>1, HSpecInv, PTL

(* The buffer implements the pool of frames: no eviction, flush or refused *)
(* call loses what was written to a page or tears bitmap and pages apart   *)
(* (BufferManager.cpp:101-416).                                            *)
THEOREM BufferImplementsPool ==
  0 \notin DisposePins /\ OverwritePIDs \subseteq Page => (HSpec => ImplementsPagePool)
<1> SUFFICES ASSUME GoodCallers PROVE HSpec => ImplementsPagePool
  BY DEF GoodCallers
<1>1. HInit => Pool!Init
  BY HInitInv
<1>2. HInv /\ [HNext]_<<vars, leaked, recent>> => [Pool!Next]_(Pool!vars)
  BY HNextKeeps DEF StepKeeps
<1> QED BY <1>1, <1>2, HSpecInv, PTL DEF HSpec, ImplementsPagePool, Pool!Spec

(* The page layer implements PageStore: only a caller's own allocation,    *)
(* write or disposal changes a page, and after a crash every page is as it *)
(* was at some moment since the last completed flush (BufferManager.cpp,   *)
(* BitmapPagedFile.cpp).                                                   *)
THEOREM BufferImplementsStore ==
  0 \notin DisposePins /\ OverwritePIDs \subseteq Page => (HSpec => ImplementsPageStore)
<1> SUFFICES ASSUME GoodCallers PROVE HSpec => ImplementsPageStore
  BY DEF GoodCallers
<1>1. HInit => Store!Init
  BY HInitInv
<1>2. HInv /\ [HNext]_<<vars, leaked, recent>> => [Store!Next]_<<Views, recent, CallKind>>
  BY HNextKeeps DEF StepKeeps
<1> QED BY <1>1, <1>2, HSpecInv, PTL DEF HSpec, ImplementsPageStore, Store!Spec
=============================================================================
