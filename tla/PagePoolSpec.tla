---------------------------- MODULE PagePoolSpec ----------------------------
(***************************************************************************)
(* PagePool as a state machine: everything that may happen to the frames,  *)
(* the disk and the two copies of the allocation bitmap.                   *)
(***************************************************************************)
EXTENDS PagePool

CONSTANTS Page, Image

VARIABLES
  bits,        \* the allocated pages, in memory
  frame,       \* the frame of every cached page
  stored,      \* the content of every page on disk
  storedBits,  \* the bitmap on disk
  loose,       \* pages allocated and given to nobody: their content is not defined
  call         \* the kind of the last call

vars == <<bits, frame, stored, storedBits, loose, call>>

NoFrames == [p \in Page |-> Absent]

Init ==
  /\ bits = {}
  /\ frame = NoFrames
  /\ stored \in [Page -> Image]
  /\ storedBits = {}
  /\ loose = {}
  /\ call = "quiet"

(* A load may evict one page first. *)
Room == {[frames |-> frame, disk |-> stored]} \cup
        {[frames |-> Evicted(frame, v), disk |-> DiskWith(frame, stored, v)] :
           v \in {q \in Page : InPool(frame, q)}}

(* A page is read, or a load fails after its eviction. *)
Read ==
  /\ call' = "quiet"
  /\ \E r \in Room :
       /\ stored' = r.disk
       /\ \/ frame' = r.frames
          \/ \E p \in bits \ loose : frame' = Fetched(r.frames, r.disk, p)
          \/ \E p \in bits \cap loose, img \in Image :
               ~InPool(frame, p) /\ frame' = [r.frames EXCEPT ![p] = Frame(img, FALSE)]
  /\ UNCHANGED <<bits, storedBits, loose>>

Allocate ==
  /\ call' = "alloc"
  /\ \E r \in Room, p \in Page \ bits, img \in Image :
       /\ stored' = r.disk
       /\ frame' = Installed(r.frames, p, img)
       /\ bits' = bits \cup {p}
       /\ loose' = loose \ {p}
  /\ UNCHANGED storedBits

Overwrite ==
  /\ call' = "overwrite"
  /\ \E r \in Room, p \in bits, img \in Image :
       /\ ~InPool(r.frames, p)
       /\ stored' = r.disk
       /\ frame' = Installed(r.frames, p, img)
       /\ loose' = loose \ {p}
  /\ UNCHANGED <<bits, storedBits>>

(* An allocation that fails, and may take a page with it. *)
Leak ==
  /\ call' = "leak"
  /\ \/ UNCHANGED <<bits, loose>>
     \/ \E p \in Page \ bits : bits' = bits \cup {p} /\ loose' = loose \cup {p}
  /\ UNCHANGED <<frame, stored, storedBits>>

Change ==
  /\ call' = "put"
  /\ \E p \in Page, img \in Image :
       /\ InPool(frame, p)
       /\ frame' = Marked(Scribbled(frame, p, img), p)
  /\ UNCHANGED <<bits, stored, storedBits, loose>>

Dispose ==
  /\ call' = "drop"
  /\ \E p \in bits :
       /\ bits' = bits \ {p}
       /\ frame' = Evicted(frame, p)
       /\ loose' = loose \ {p}
  /\ UNCHANGED <<stored, storedBits>>

WriteBack ==
  /\ call' = "quiet"
  /\ \E p \in Page :
       /\ Dirty(frame, p)
       /\ stored' = DiskWith(frame, stored, p)
       /\ frame' = Cleaned(frame, p)
  /\ UNCHANGED <<bits, storedBits, loose>>

(* The file grows: pages that neither bitmap nor pool need change content. *)
Fill ==
  /\ call' = "quiet"
  /\ \E p \in Page \ storedBits, img \in Image :
       /\ p \in bits => p \in loose
       /\ stored' = [stored EXCEPT ![p] = img]
  /\ UNCHANGED <<bits, frame, storedBits, loose>>

(* The bitmap is written when no page is dirty; a closing process ends. *)
SaveBits ==
  /\ call' = "quiet"
  /\ \A p \in Page : ~Dirty(frame, p)
  /\ storedBits' = bits
  /\ frame' \in {frame, NoFrames}
  /\ UNCHANGED <<bits, stored, loose>>

Crash ==
  /\ call' = "crash"
  /\ bits' = storedBits
  /\ frame' = NoFrames
  /\ loose' = loose \cap storedBits
  /\ UNCHANGED <<stored, storedBits>>

Next == \/ Read \/ Allocate \/ Overwrite \/ Leak \/ Change \/ Dispose
        \/ WriteBack \/ Fill \/ SaveBits \/ Crash

Spec == Init /\ [][Next]_vars
=============================================================================
