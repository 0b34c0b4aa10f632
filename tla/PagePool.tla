------------------------------ MODULE PagePool ------------------------------
(***************************************************************************)
(* The buffer manager as the structures above it use it, without slots,    *)
(* pins or hash table: a frame for every page that is cached, and the      *)
(* content of every page on the disk.  A cached page may leave the pool    *)
(* whenever nobody holds it, and is written first if its dirty bit is set; *)
(* writing to an image and setting the dirty bit are two things.           *)
(* BufferManagerHistory checks that BufferManager keeps to it.             *)
(***************************************************************************)
CONSTANT Absent  \* the frame of a page that is not cached

Frame(img, isDirty) == [image |-> img, dirty |-> isDirty]

InPool(frames, p) == frames[p] # Absent
Dirty(frames, p) == InPool(frames, p) /\ frames[p].dirty

(* readPage on an allocated page: a hit, or a clean frame read from disk. *)
Fetched(frames, disk, p) ==
  IF InPool(frames, p) THEN frames ELSE [frames EXCEPT ![p] = Frame(disk[p], FALSE)]

(* A page that is allocated, its content new: the frame is born dirty. *)
Installed(frames, p, img) == [frames EXCEPT ![p] = Frame(img, TRUE)]

(* The holder writes to the image, and markDirty. *)
Scribbled(frames, p, img) == [frames EXCEPT ![p].image = img]
Marked(frames, p) == [frames EXCEPT ![p].dirty = TRUE]

(* The disk after p was written, if it is dirty; the frames without it,    *)
(* and with it clean.                                                      *)
DiskWith(frames, disk, p) ==
  IF Dirty(frames, p) THEN [disk EXCEPT ![p] = frames[p].image] ELSE disk
Evicted(frames, p) == [frames EXCEPT ![p] = Absent]
Cleaned(frames, p) == [frames EXCEPT ![p].dirty = FALSE]
=============================================================================
