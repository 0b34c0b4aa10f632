--------------------------- MODULE BufferManager ---------------------------
(***************************************************************************)
(* lower/BufferManager.cpp: a pool of slots caching the pages of one       *)
(* BitmapPagedFile, with an LRUPageReplacer over the unpinned slots.       *)
(*                                                                         *)
(* An action is one call of a public method, every call it makes to the    *)
(* replacer and to the file included.  flushAllPages is one action per     *)
(* write, so that the process can die between any two of them.  The        *)
(* callers (DirectlyMappedArray, BTree) are the choice of the next call;   *)
(* they keep the protocol of handles: only a pinned page is written,       *)
(* marked, pinned again, unpinned or flushed.                              *)
(***************************************************************************)
EXTENDS LRUList, BitmapFile

CONSTANTS
  NumSlots,       \* the slots of the pool: Slot is their positions in it
  MaxPins,        \* bound on the pins of one page
  OverwritePIDs,  \* the pids callers pass to allocatePageWithPID
  DisposePins     \* the pin counts at which callers pass a page to disposePage

ASSUME NumSlotsAssumption == NumSlots \in Nat \ {0} /\ Slot = 1..NumSlots
ASSUME MaxPinsAssumption == MaxPins \in Nat \ {0}
ASSUME OverwritePIDsAssumption == OverwritePIDs \subseteq PID
ASSUME DisposePinsAssumption == DisposePins \subseteq Nat

VARIABLES
  file, disk,     \* the storage: see BitmapFile
  lru,            \* pageReplacer: see LRUList
  pid,            \* PageRec::pid of each slot
  dirty,          \* PageRec::dirty
  pinCount,       \* PageRec::pinCount
  image,          \* the page image of each slot
  object,         \* objpool and objexists: the pid the live block object of
                  \* the slot was built for, NULL while objexists is false
  pageHash,       \* from pid to the slot that caches it, NULL when none does
  phase,          \* where the process stands: see Phase
  todo,           \* the pids flushAllPages has yet to visit
  result          \* the last call and its return code

INVALID_PID == NumBits + 1

Hit == "RC_HIT"
ReadIn == "RC_READ"
Alloc == "RC_ALLOC"
AllocOverwrite == "RC_ALLOC_OVERWRITE"

Phase == {"ready", "flushing", "header", "down"}

Call == {"start", "allocatePage", "allocatePageWithPID", "readPage",
         "readOrAllocatePage", "disposePage", "pinPage", "unpinPage", "write",
         "getBlockObject", "freeBlockObject", "flushPage", "flushAllPages",
         "close", "crash", "fault"}

Code == Failing \cup {OK, Hit, ReadIn, Alloc, AllocOverwrite}

slotVars == <<pid, dirty, pinCount, image, object>>
bufferVars == <<lru, slotVars, pageHash>>
storage == <<file, disk>>
vars == <<storage, bufferVars, phase, todo, result>>

TypeOK ==
  /\ file \in FileObject
  /\ disk \in DiskFile
  /\ lru \in List
  /\ pid \in [Slot -> PID \cup {INVALID_PID}]
  /\ dirty \in [Slot -> BOOLEAN]
  /\ pinCount \in [Slot -> Nat]
  /\ image \in [Slot -> Image]
  /\ object \in [Slot -> PID \cup {INVALID_PID, NULL}]
  /\ pageHash \in [PID -> Slot \cup {NULL}]
  /\ phase \in Phase
  /\ todo \in SUBSET PID
  /\ result \in [op : Call, rc : Code]

Returned(op, rc) == [op |-> op, rc |-> rc]

-----------------------------------------------------------------------------
(* The replacer after the constructor has added every header in turn. *)
FreshList ==
  [next  |-> [x \in Node |-> CASE x = HEAD -> 1
                               [] x = NumSlots -> HEAD
                               [] OTHER -> x + 1],
   prev  |-> [x \in Node |-> CASE x = HEAD -> NumSlots
                               [] x = 1 -> HEAD
                               [] OTHER -> x - 1],
   count |-> NumSlots % CountMod]

(* The constructor: no slot holds a page.  The pool's memory is whatever   *)
(* the allocation returned.                                                *)
FreshBuffer ==
  /\ lru = FreshList
  /\ pid = [s \in Slot |-> INVALID_PID]
  /\ dirty = [s \in Slot |-> FALSE]
  /\ pinCount = [s \in Slot |-> 0]
  /\ image \in [Slot -> Image]
  /\ object = [s \in Slot |-> NULL]
  /\ pageHash = [p \in PID |-> NULL]

Init ==
  /\ file = Created
  /\ disk = [size |-> 0, header |-> {}, page |-> [p \in Page |-> ZeroImage]]
  /\ FreshBuffer
  /\ phase = "ready"
  /\ todo = {}
  /\ result = Returned("start", OK)

Cached(p) == pageHash[p] # NULL

(* The end of a process: nothing of its memory is left.  What stands here  *)
(* is what the constructors of the next one will set.                      *)
MemoryGone ==
  /\ file' = Created
  /\ lru' = FreshList
  /\ pid' = [s \in Slot |-> INVALID_PID]
  /\ dirty' = [s \in Slot |-> FALSE]
  /\ pinCount' = [s \in Slot |-> 0]
  /\ image' = [s \in Slot |-> ZeroImage]
  /\ object' = [s \in Slot |-> NULL]
  /\ pageHash' = [p \in PID |-> NULL]
  /\ todo' = {}
  /\ phase' = "down"

-----------------------------------------------------------------------------
(* replacePage takes v = Victim(lru) off the list.  A dirty victim is      *)
(* written first; when the file refuses it, the call fails there and the   *)
(* slot keeps its page, its dirty bit and its place in the hash table.     *)
WritableVictim(v) == dirty[v] => AccessStatus(file, pid[v]) = OK

(* Mutants: the victim is not written; its hash entry stays; the block      *)
(* object of its page survives.                                            *)
DiskAfterEvicting_NotWritten(v) == disk
HashWithout_Kept(v) == pageHash
ObjectsWithout_Kept(v) == object

(* What replacePage leaves of the disk, the hash table and the objects. *)
DiskAfterEvicting(v) == IF dirty[v] THEN Write(disk, pid[v], image[v]) ELSE disk
HashWithout(v) == [p \in PID |-> IF p = pid[v] THEN NULL ELSE pageHash[p]]
ObjectsWithout(v) == [object EXCEPT ![v] = NULL]

(* A hit pins the cached slot, taking it off the list if it had no pin.    *)
Pin(s) ==
  /\ pinCount[s] < MaxPins
  /\ pinCount' = [pinCount EXCEPT ![s] = @ + 1]

(* Mutant: a page that is hit stays on the list. *)
ListAfterHit_Kept(s) == lru

ListAfterHit(s) == IF pinCount[s] = 0 THEN RemoveSlot(lru, s) ELSE lru

HitPage(op, p) ==
  LET s == pageHash[p]
  IN  /\ Cached(p)
      /\ pinCount[s] = 0 => CanUnlink(lru, s)
      /\ Pin(s)
      /\ lru' = ListAfterHit(s)
      /\ result' = Returned(op, Hit)
      /\ UNCHANGED <<storage, pid, dirty, image, object, pageHash, phase, todo>>

(* The same hit on a slot that a failed eviction left unlinked and         *)
(* unpinned: remove follows a null link, and the process dies.             *)
HitUnlinkedPage(p) ==
  /\ Cached(p)
  /\ pinCount[pageHash[p]] = 0
  /\ ~CanUnlink(lru, pageHash[p])
  /\ MemoryGone
  /\ result' = Returned("fault", OK)
  /\ UNCHANGED disk

(* A miss with every slot pinned. *)
NoVictim(op) ==
  /\ IsEmpty(lru)
  /\ result' = Returned(op, OutOfSpace)
  /\ UNCHANGED <<disk, bufferVars, phase, todo>>

(* A miss whose victim cannot be written. *)
VictimStuck(op) ==
  LET v == Victim(lru)
  IN  /\ ~IsEmpty(lru)
      /\ ~WritableVictim(v)
      /\ lru' = RemoveSlot(lru, v)
      /\ result' = Returned(op, AccessStatus(file, pid[v]))
      /\ UNCHANGED <<disk, slotVars, pageHash, phase, todo>>

Evicting == ~IsEmpty(lru) /\ WritableVictim(Victim(lru))

(* A miss that ends with p in the victim's slot, pinned. *)
Load(op, p, isDirty, img, rc) ==
  LET v == Victim(lru)
  IN  /\ lru' = RemoveSlot(lru, v)
      /\ disk' = DiskAfterEvicting(v)
      /\ pid' = [pid EXCEPT ![v] = p]
      /\ dirty' = [dirty EXCEPT ![v] = isDirty]
      /\ pinCount' = [pinCount EXCEPT ![v] = 1]
      /\ image' = [image EXCEPT ![v] = img]
      /\ object' = ObjectsWithout(v)
      /\ pageHash' = [HashWithout(v) EXCEPT ![p] = v]
      /\ result' = Returned(op, rc)
      /\ UNCHANGED <<phase, todo>>

(* A miss whose page the file cannot give: the emptied slot goes back to   *)
(* the list as newList says.                                               *)
Recycle(op, newList, rc) ==
  LET v == Victim(lru)
  IN  /\ lru' = newList
      /\ disk' = DiskAfterEvicting(v)
      /\ pid' = [pid EXCEPT ![v] = INVALID_PID]
      /\ dirty' = [dirty EXCEPT ![v] = FALSE]
      /\ pinCount' = [pinCount EXCEPT ![v] = 0]
      /\ object' = ObjectsWithout(v)
      /\ pageHash' = HashWithout(v)
      /\ result' = Returned(op, rc)
      /\ UNCHANGED <<image, phase, todo>>

-----------------------------------------------------------------------------
(* allocatePage asks the file first: when no slot can be had the page      *)
(* stays allocated in the file and nobody holds it.                        *)
CallAllocatePage ==
  LET p == AllocatePagePID(file)
      op == "allocatePage"
  IN  /\ phase = "ready"
      /\ IF AllocatePageStatus(file) # OK
         THEN /\ result' = Returned(op, OutOfSpace)
              /\ UNCHANGED <<storage, bufferVars, phase, todo>>
         ELSE /\ file' = AllocatePage(file)
              /\ \/ NoVictim(op)
                 \/ VictimStuck(op)
                 \/ /\ Evicting
                    /\ Load(op, p, TRUE, image[Victim(lru)], Alloc)

(* allocatePageWithPID on a pid that is not cached takes any refusal of    *)
(* the file to mean that the page exists and is to be overwritten.         *)
CallAllocatePageWithPID(p) ==
  LET op == "allocatePageWithPID"
      rc == AllocatePIDStatus(file, p)
  IN  /\ phase = "ready"
      /\ \/ HitPage(op, p)
         \/ /\ ~Cached(p)
            /\ \/ NoVictim(op) /\ UNCHANGED file
               \/ VictimStuck(op) /\ UNCHANGED file
               \/ /\ Evicting
                  /\ file' = IF rc = OK THEN AllocatePID(file, p) ELSE file
                  /\ Load(op, p, TRUE, image[Victim(lru)],
                          IF rc = OK THEN Alloc ELSE AllocOverwrite)

CallReadPage(p) ==
  LET op == "readPage"
      rc == AccessStatus(file, p)
      v == Victim(lru)
  IN  /\ phase = "ready"
      /\ \/ HitPage(op, p)
         \/ /\ ~Cached(p)
            /\ UNCHANGED file
            /\ \/ NoVictim(op)
               \/ VictimStuck(op)
               \/ /\ Evicting
                  /\ IF rc = OK
                     THEN Load(op, p, FALSE,
                               Read(DiskAfterEvicting(v), p, image[v]), ReadIn)
                     ELSE Recycle(op, AddBack(RemoveSlot(lru, v), v), rc)

(* readOrAllocatePage: a page the file refuses to read is allocated. *)
CallReadOrAllocatePage(p) ==
  LET op == "readOrAllocatePage"
      v == Victim(lru)
      rc == AllocatePIDStatus(file, p)
  IN  /\ phase = "ready"
      /\ \/ HitPage(op, p)
         \/ /\ ~Cached(p)
            /\ \/ NoVictim(op) /\ UNCHANGED file
               \/ VictimStuck(op) /\ UNCHANGED file
               \/ /\ Evicting
                  /\ AccessStatus(file, p) = OK
                  /\ Load(op, p, FALSE, Read(DiskAfterEvicting(v), p, image[v]), ReadIn)
                  /\ UNCHANGED file
               \/ /\ Evicting
                  /\ AccessStatus(file, p) # OK
                  /\ rc = OK
                  /\ Load(op, p, TRUE, image[v], Alloc)
                  /\ file' = AllocatePID(file, p)
               \/ /\ Evicting
                  /\ AccessStatus(file, p) # OK
                  /\ rc # OK
                  /\ Recycle(op, Add(RemoveSlot(lru, v), v), rc)
                  /\ UNCHANGED file

(* disposePage resets the record and adds it to the list, whether or not   *)
(* it was on it.                                                           *)
CallDisposePage(s) ==
  LET rc == AccessStatus(file, pid[s])
  IN  /\ phase = "ready"
      /\ pid[s] \in PID
      /\ pinCount[s] \in DisposePins
      /\ IF rc # OK
         THEN /\ result' = Returned("disposePage", rc)
              /\ UNCHANGED <<storage, bufferVars, phase, todo>>
         ELSE /\ file' = Dispose(file, pid[s])
              /\ pageHash' = HashWithout(s)
              /\ pid' = [pid EXCEPT ![s] = INVALID_PID]
              /\ dirty' = [dirty EXCEPT ![s] = FALSE]
              /\ pinCount' = [pinCount EXCEPT ![s] = 0]
              /\ lru' = Add(Reset(lru, s), s)
              /\ result' = Returned("disposePage", OK)
              /\ UNCHANGED <<disk, image, object, phase, todo>>

-----------------------------------------------------------------------------
(* What the holder of a handle does with it. *)
Holding(s) == phase = "ready" /\ pinCount[s] > 0

CallPinPage(s) ==
  /\ Holding(s)
  /\ Pin(s)
  /\ result' = Returned("pinPage", OK)
  /\ UNCHANGED <<storage, lru, pid, dirty, image, object, pageHash, phase, todo>>

(* Mutant: a page goes back to the list with its first unpin. *)
ListAfterUnpin_First(s) == IF s \in Listed(lru) THEN lru ELSE Add(lru, s)

ListAfterUnpin(s) == IF pinCount[s] = 1 THEN Add(lru, s) ELSE lru

CallUnpinPage(s) ==
  /\ Holding(s)
  /\ pinCount' = [pinCount EXCEPT ![s] = @ - 1]
  /\ lru' = ListAfterUnpin(s)
  /\ result' = Returned("unpinPage", OK)
  /\ UNCHANGED <<storage, pid, dirty, image, object, pageHash, phase, todo>>

(* The caller changes the image and marks the page dirty, as the block     *)
(* classes do (DMABlock.cpp:83-85).                                        *)
WriteHeld(s, img) ==
  /\ Holding(s)
  /\ image' = [image EXCEPT ![s] = img]
  /\ dirty' = [dirty EXCEPT ![s] = TRUE]
  /\ result' = Returned("write", OK)
  /\ UNCHANGED <<storage, lru, pid, pinCount, object, pageHash, phase, todo>>

(* getBlockObject builds an object for the page, or returns the one the    *)
(* slot already has; freeBlockObject forgets it.                           *)
CallGetBlockObject(s) ==
  /\ Holding(s)
  /\ object' = [object EXCEPT ![s] = IF @ = NULL THEN pid[s] ELSE @]
  /\ result' = Returned("getBlockObject", OK)
  /\ UNCHANGED <<storage, lru, pid, dirty, pinCount, image, pageHash, phase, todo>>

CallFreeBlockObject(s) ==
  /\ Holding(s)
  /\ object' = [object EXCEPT ![s] = NULL]
  /\ result' = Returned("freeBlockObject", OK)
  /\ UNCHANGED <<storage, lru, pid, dirty, pinCount, image, pageHash, phase, todo>>

CallFlushPage(s) ==
  LET rc == IF dirty[s] THEN AccessStatus(file, pid[s]) ELSE OK
  IN  /\ Holding(s)
      /\ disk' = IF dirty[s] /\ rc = OK THEN Write(disk, pid[s], image[s]) ELSE disk
      /\ dirty' = IF rc = OK THEN [dirty EXCEPT ![s] = FALSE] ELSE dirty
      /\ result' = Returned("flushPage", rc)
      /\ UNCHANGED <<file, lru, pid, pinCount, image, object, pageHash, phase, todo>>

-----------------------------------------------------------------------------
(* Mutant: only the pages nobody holds. *)
ToFlush_Unpinned == {p \in PID : Cached(p) /\ pinCount[pageHash[p]] = 0}

ToFlush == {p \in PID : Cached(p)}

(* flushAllPages, called by a client or by the destructors, visits the     *)
(* hash table in an order of its own.  While it runs result holds the op   *)
(* and the variable ret, which every dirty page overwrites.                *)
BeginFlushAll(op) ==
  /\ phase = "ready"
  /\ phase' = "flushing"
  /\ todo' = ToFlush
  /\ result' = Returned(op, OK)
  /\ UNCHANGED <<storage, bufferVars>>

FlushOne(p) ==
  LET s == pageHash[p]
      rc == AccessStatus(file, pid[s])
  IN  /\ phase = "flushing"
      /\ p \in todo
      /\ todo' = todo \ {p}
      /\ disk' = IF dirty[s] /\ rc = OK THEN Write(disk, pid[s], image[s]) ELSE disk
      /\ dirty' = [dirty EXCEPT ![s] = FALSE]
      /\ result' = IF dirty[s] THEN Returned(result.op, rc) ELSE result
      /\ UNCHANGED <<file, lru, pid, pinCount, image, object, pageHash, phase>>

(* BitmapPagedFile::flush, its two writes. *)
FlushExtend ==
  /\ phase = "flushing"
  /\ todo = {}
  /\ disk' = ExtendFile(file, disk)
  /\ phase' = "header"
  /\ UNCHANGED <<file, bufferVars, todo, result>>

FlushHeader ==
  /\ phase = "header"
  /\ disk' = WriteHeader(file, disk)
  /\ IF result.op = "close"
     THEN MemoryGone
     ELSE phase' = "ready" /\ UNCHANGED <<file, bufferVars, todo>>
  /\ UNCHANGED result

(* The process dies; the file stays as written. *)
Crash ==
  /\ phase # "down"
  /\ MemoryGone
  /\ result' = Returned("crash", OK)
  /\ UNCHANGED disk

(* A new process opens the file, or creates it anew where nothing of it    *)
(* ever reached the disk.                                                  *)
Restart ==
  /\ phase = "down"
  /\ file' \in IF disk.size >= NumHeaderPages THEN Opened(disk) ELSE {Created}
  /\ image' \in [Slot -> Image]
  /\ phase' = "ready"
  /\ result' = Returned("start", OK)
  /\ UNCHANGED <<disk, lru, pid, dirty, pinCount, object, pageHash, todo>>

Next ==
  \/ CallAllocatePage
  \/ \E p \in OverwritePIDs : CallAllocatePageWithPID(p)
  \/ \E p \in PID : CallReadPage(p) \/ CallReadOrAllocatePage(p)
  \/ \E p \in PID : phase = "ready" /\ HitUnlinkedPage(p)
  \/ \E s \in Slot : \/ CallDisposePage(s) \/ CallPinPage(s) \/ CallUnpinPage(s)
                     \/ CallGetBlockObject(s) \/ CallFreeBlockObject(s)
                     \/ CallFlushPage(s)
                     \/ \E img \in Image : WriteHeld(s, img)
  \/ \E op \in {"flushAllPages", "close"} : BeginFlushAll(op)
  \/ \E p \in PID : FlushOne(p)
  \/ FlushExtend \/ FlushHeader
  \/ Crash \/ Restart

Spec == Init /\ [][Next]_vars

-----------------------------------------------------------------------------
(* The hash table and the records agree: a cached page is found in the one *)
(* slot that holds it, and no slot holds a page that lookup misses, so no  *)
(* page is ever in the pool twice (BufferManager.cpp:103-292).             *)
HashMatchesSlots ==
  /\ \A p \in PID : Cached(p) => pid[pageHash[p]] = p
  /\ \A s \in Slot : pid[s] \in PID => pageHash[pid[s]] = s

(* The slots on the replacer's list are exactly the unpinned ones, and its *)
(* links are sound: no pinned page can be chosen as a victim and no        *)
(* unpinned slot is lost to the pool (BufferManager.cpp:386-416, 318-330). *)
UnpinnedAreListed ==
  /\ WellLinked(lru)
  /\ Listed(lru) = {s \in Slot : pinCount[s] = 0}

(* A slot that is neither pinned nor on the list is one whose eviction the *)
(* file refused: no other failure loses a slot (BufferManager.cpp:224-229, *)
(* 269-276, 400-403).                                                      *)
LostSlotsAreUnwritable ==
  /\ WellLinked(lru)
  /\ \A s \in Slot :
       pinCount[s] = 0 /\ s \notin Listed(lru)
         => pid[s] \in PID /\ AccessStatus(file, pid[s]) # OK

(* A page in the pool is allocated in the file, so its eviction can write  *)
(* it (BufferManager.cpp:396-403).                                         *)
CachedIsAllocated ==
  \A s \in Slot : pid[s] \in PID => AccessStatus(file, pid[s]) = OK

(* A block object handed out for a pinned page was built for that page,    *)
(* with its key range, not for an earlier page of the slot: objexists is   *)
(* cleared wherever a slot changes hands (BufferManager.cpp:84-99, 407).   *)
BlockObjectFresh ==
  \A s \in Slot : pinCount[s] > 0 /\ object[s] # NULL => object[s] = pid[s]

(* "As long as a page has at least one pin, it cannot be discarded from    *)
(* the buffer" (BufferManager.cpp:303-304): while somebody holds a page,   *)
(* nobody else's call moves it or changes its image.                       *)
HeldPagesStay ==
  \A s \in Slot :
    pinCount[s] > 0 /\ phase' # "down" /\ result'.op # "disposePage"
      => /\ pid'[s] = pid[s]
         /\ image'[s] = image[s] \/ result'.op = "write"
PinnedPagesStay == [][HeldPagesStay]_vars
=============================================================================
