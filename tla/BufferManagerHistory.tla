------------------------ MODULE BufferManagerHistory ------------------------
(***************************************************************************)
(* BufferManager with two history variables, and the proof obligation that *)
(* it implements PageStore.  leaked are the pages that an allocatePage     *)
(* without a free slot left allocated in the file and handed to nobody;    *)
(* recent are the contents each page had since the last flushAllPages that *)
(* completed.                                                              *)
(***************************************************************************)
EXTENDS BufferManager

VARIABLES leaked, recent

NoPage == "no page"
Unknown == "unknown content"

(* What stands for "not allocated", "not known" and "not cached" is no     *)
(* content and no frame.                                                   *)
ASSUME ContentAssumption == NoPage \notin Image /\ Unknown \notin Image
ASSUME FrameAssumption == NULL \notin [image : Image, dirty : BOOLEAN]

(* The allocated pages; while no process runs, what the next one will find.*)
Bits == IF phase = "down" THEN disk.header ELSE file.header

(* The content of page p as a reader would get it: from the pool when p is *)
(* cached, from the disk otherwise.                                        *)
View(p) ==
  CASE p \notin Bits -> NoPage
    [] p \in Bits /\ p \in leaked -> Unknown
    [] p \in Bits /\ p \notin leaked /\ Cached(p) -> image[pageHash[p]]
    [] OTHER -> disk.page[p]
Views == [p \in Page |-> View(p)]

CallKind ==
  CASE result.op = "write" -> "put"
    [] result.op = "allocatePage" /\ result.rc # Alloc -> "leak"
    [] result.rc = Alloc -> "alloc"
    [] result.rc = AllocOverwrite -> "overwrite"
    [] result.op = "disposePage" /\ result.rc = OK -> "drop"
    [] result.op = "crash" -> "crash"
    [] OTHER -> "quiet"

HInit ==
  /\ Init
  /\ leaked = {}
  /\ recent = [p \in Page |-> {NoPage}]

(* A leaked page stays so until it is given out or its bit is lost.        *)
LeakedNext ==
  LET kept == leaked \cap Bits'
  IN  CASE result'.op = "allocatePage" /\ result'.rc # Alloc /\ file' # file ->
             kept \cup (file'.header \ file.header)
        [] result'.rc = AllocOverwrite -> 
             {p \in kept : Cached(p) \/ pageHash'[p] = NULL}
        [] OTHER -> kept

RecentNext ==
  IF phase = "header" /\ result'.op # "crash"
  THEN [p \in Page |-> {View(p)'}]
  ELSE [p \in Page |-> recent[p] \cup {View(p)'}]

HNext ==
  /\ Next
  /\ leaked' = LeakedNext
  /\ recent' = RecentNext

HSpec == HInit /\ [][HNext]_<<vars, leaked, recent>>

-----------------------------------------------------------------------------
(* The page layer keeps PageStore's promise: cached, evicted, read back,   *)
(* flushed or recovered after a crash, a page has the content its holders  *)
(* gave it (BufferManager.cpp, BitmapPagedFile.cpp).                       *)
Store == INSTANCE PageStore
           WITH store <- Views, call <- CallKind
ImplementsPageStore == Store!Spec

(* The buffer is the pool of frames that the arrays and trees above it are *)
(* written for: whatever page makes room for whatever other, a frame holds *)
(* what was last written to it or read from the disk, a dirty frame never  *)
(* leaves unwritten, and the bitmap is saved when no frame is dirty        *)
(* (BufferManager.cpp:101-416).                                            *)
FrameOf(p) == [image |-> image[pageHash[p]], dirty |-> dirty[pageHash[p]]]
Frames == [p \in Page |-> IF Cached(p) THEN FrameOf(p) ELSE NULL]
Pool == INSTANCE PagePoolSpec
          WITH Absent <- NULL, call <- CallKind, loose <- leaked, bits <- Bits,
               frame <- Frames, stored <- disk.page, storedBits <- disk.header
ImplementsPagePool == Pool!Spec

(* A clean page in the pool is the page on disk, so that dropping it loses *)
(* nothing (BufferManager.cpp:396).                                        *)
CleanIsOnDisk ==
  \A s \in Slot : pid[s] \in Page /\ ~dirty[s] /\ pid[s] \notin leaked
                    => InFile(disk, pid[s]) /\ disk.page[pid[s]] = image[s]
=============================================================================
