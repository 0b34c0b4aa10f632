-------------------------- MODULE BitmapPagedFile --------------------------
(***************************************************************************)
(* lower/BitmapPagedFile.cpp as a process that opens, uses, flushes and    *)
(* closes one paged file, and may die between any two of its writes.  The  *)
(* operations are in BitmapFile.                                           *)
(***************************************************************************)
EXTENDS BitmapFile

VARIABLES
  file,    \* the BitmapPagedFile object; meaningless while phase is "closed"
  disk,    \* the file of the operating system
  phase,   \* where the process stands: see Phase
  result   \* the last call and its return code

Phase == {"open",      \* between two calls
          "flushing",  \* in flush, between its two writes
          "closing",   \* in flush, called by the destructor
          "closed"}    \* no process has the file open

Call == {"create", "open", "allocatePage", "allocatePageWithPID", "disposePage",
         "readPage", "writePage", "flush", "close", "crash"}

Returned(op, pid, rc) == [op |-> op, pid |-> pid, rc |-> rc]

vars == <<file, disk, phase, result>>

TypeOK ==
  /\ file \in FileObject
  /\ disk \in DiskFile
  /\ phase \in Phase
  /\ result \in [op : Call, pid : PID, rc : Failing \cup {OK}]

(* A file just created by the constructor: nothing is written yet. *)
Init ==
  /\ file = Created
  /\ disk = [size |-> 0, header |-> {}, page |-> [p \in Page |-> ZeroImage]]
  /\ phase = "open"
  /\ result = Returned("create", 0, OK)

(* The constructor, with CREATE and without. *)
Create ==
  /\ phase = "closed"
  /\ file' = Created
  /\ phase' = "open"
  /\ result' = Returned("create", 0, OK)
  /\ UNCHANGED disk

Open ==
  /\ phase = "closed"
  /\ file' \in Opened(disk)
  /\ phase' = "open"
  /\ result' = Returned("open", 0, OK)
  /\ UNCHANGED disk

CallAllocatePage ==
  /\ phase = "open"
  /\ LET rc == AllocatePageStatus(file)
     IN  IF rc = OK
         THEN /\ file' = AllocatePage(file)
              /\ result' = Returned("allocatePage", AllocatePagePID(file), rc)
         ELSE /\ result' = Returned("allocatePage", 0, rc)
              /\ UNCHANGED file
  /\ UNCHANGED <<disk, phase>>

CallAllocatePageWithPID(pid) ==
  /\ phase = "open"
  /\ LET rc == AllocatePIDStatus(file, pid)
     IN  /\ file' = IF rc = OK THEN AllocatePID(file, pid) ELSE file
         /\ result' = Returned("allocatePageWithPID", pid, rc)
  /\ UNCHANGED <<disk, phase>>

CallDisposePage(pid) ==
  /\ phase = "open"
  /\ LET rc == AccessStatus(file, pid)
     IN  /\ file' = IF rc = OK THEN Dispose(file, pid) ELSE file
         /\ result' = Returned("disposePage", pid, rc)
  /\ UNCHANGED <<disk, phase>>

CallWritePage(pid, img) ==
  /\ phase = "open"
  /\ LET rc == AccessStatus(file, pid)
     IN  /\ disk' = IF rc = OK THEN Write(disk, pid, img) ELSE disk
         /\ result' = Returned("writePage", pid, rc)
  /\ UNCHANGED <<file, phase>>

(* Mutant: the bitmap is written before the file is long enough. *)
BeginFlush_HeaderFirst(close) ==
  /\ phase = "open"
  /\ disk' = WriteHeader(file, disk)
  /\ phase' = IF close THEN "closing" ELSE "flushing"
  /\ result' = Returned(IF close THEN "close" ELSE "flush", 0, OK)
  /\ UNCHANGED file

(* flush as two steps, one per write, on its own or from the destructor. *)
BeginFlush(close) ==
  /\ phase = "open"
  /\ disk' = ExtendFile(file, disk)
  /\ phase' = IF close THEN "closing" ELSE "flushing"
  /\ result' = Returned(IF close THEN "close" ELSE "flush", 0, OK)
  /\ UNCHANGED file

EndFlush ==
  /\ phase \in {"flushing", "closing"}
  /\ disk' = WriteHeader(file, disk)
  /\ phase' = IF phase = "closing" THEN "closed" ELSE "open"
  /\ UNCHANGED <<file, result>>

(* The process dies; what it wrote stays with the operating system. *)
Crash ==
  /\ phase # "closed"
  /\ phase' = "closed"
  /\ file' = Created
  /\ result' = Returned("crash", 0, OK)
  /\ UNCHANGED disk

Next ==
  \/ Create
  \/ Open
  \/ CallAllocatePage
  \/ \E pid \in PID :
        \/ CallAllocatePageWithPID(pid)
        \/ CallDisposePage(pid)
        \/ \E img \in Image : CallWritePage(pid, img)
  \/ \E close \in BOOLEAN : BeginFlush(close)
  \/ EndFlush
  \/ Crash

Spec == Init /\ [][Next]_vars

-----------------------------------------------------------------------------
(* "maximum allocated pid < numContentPages" (BitmapPagedFile.cpp:38),     *)
(* over every sequence of allocations, crashes and reopenings.             *)
BitsWithinExtent ==
  phase # "closed" => \A p \in file.header : p < file.numContentPages

(* The bitmap on disk never describes a page the file does not reach: the  *)
(* order of flush's two writes (BitmapPagedFile.cpp:213-229) is what lets  *)
(* the constructor compute numContentPages from the file's length.         *)
DiskBitsInFile == \A p \in disk.header : InFile(disk, p)

(* What the file holds at a page changes only by a writePage to that page: *)
(* the filler flush writes at the end of the file hits no page the file    *)
(* already held, and neither does reopening (BitmapPagedFile.cpp:213-223). *)
ChangesOnlyByWrite ==
  \A p \in Page : InFile(disk, p) /\ disk'.page[p] # disk.page[p]
                    => result'.op = "writePage" /\ result'.pid = p /\ result'.rc = OK
OnlyWritesChangePages == [][ChangesOnlyByWrite]_vars

(* A successful allocation hands out a page nobody has, whether it extends *)
(* the file or reuses a disposed page (BitmapPagedFile.cpp:85-137).        *)
AllocatesFresh ==
  result'.op \in {"allocatePage", "allocatePageWithPID"} /\ result'.rc = OK
    => result'.pid \notin file.header /\ result'.pid \in file'.header
AllocationIsFresh == [][AllocatesFresh]_vars

(* allocatePage fails only when every bit is set: pages disposed anywhere  *)
(* in the file are found again (BitmapPagedFile.cpp:94-105).               *)
FailsOnlyFull ==
  result'.op = "allocatePage" /\ result'.rc = OutOfSpace => file.header = Page
OutOfSpaceMeansFull == [][FailsOnlyFull]_vars

-----------------------------------------------------------------------------
(* "numContentPages <= 8*PAGE_SIZE --> maximum number of pages in file     *)
(* container" (BitmapPagedFile.cpp:37): the extent never exceeds what the  *)
(* bitmap describes.                                                       *)
ExtentWithinBitmap == phase # "closed" => file.numContentPages <= NumBits
=============================================================================
