----------------------------- MODULE BitmapFile -----------------------------
(***************************************************************************)
(* The paged file of lower/BitmapPagedFile.cpp as operators on two values: *)
(*   f = [header, numContentPages]: the BitmapPagedFile object in memory,  *)
(*       where header is the set of pids whose bit is set;                 *)
(*   d = [size, header, page]: the file as the operating system keeps it,  *)
(*       which outlives the process.  size counts whole pages, the header  *)
(*       pages included; page is the content area, zeros where a hole was  *)
(*       left; header is the bitmap written by the last flush.             *)
(* The operators return the new value; a caller composes them in the order *)
(* of the code's calls.                                                    *)
(***************************************************************************)
EXTENDS Integers, FiniteSets

CONSTANTS
  NumBits,         \* NUM_BITS_HEADER: the pages the bitmap can describe
  NumHeaderPages,  \* NUM_HEADER_PAGES
  WordMod,         \* 2^32: numContentPages is a u32
  Image,           \* the contents a page can hold
  ZeroImage,       \* the content of a hole
  HeaderImage      \* the first page of the bitmap, seen as page content

ASSUME NumBitsAssumption == NumBits \in Nat \ {0}
ASSUME NumHeaderPagesAssumption == NumHeaderPages \in Nat \ {0}
ASSUME WordModAssumption == WordMod \in Nat /\ WordMod > NumBits + NumHeaderPages
ASSUME ImageAssumption == ZeroImage \in Image /\ HeaderImage \in Image

Page == 0..NumBits-1   \* the pids the bitmap describes
PID == 0..NumBits      \* NumBits stands for every pid past the bitmap

(* Return codes (common/common.h:170-180). *)
OK == "RC_OK"
OutOfSpace == "RC_OutOfSpace"
NotAllocated == "RC_NotAllocated"
AlreadyAllocated == "RC_AlreadyAllocated"
OutOfRange == "RC_OutOfRange"
Failing == {OutOfSpace, NotAllocated, AlreadyAllocated, OutOfRange}  \* rc & RC_FAIL

FileObject == [header : SUBSET Page, numContentPages : 0..WordMod-1]

DiskFile == [size : 0..NumHeaderPages+WordMod,
             header : SUBSET Page,
             page : [Page -> Image]]

Larger(a, b) == IF a >= b THEN a ELSE b

-----------------------------------------------------------------------------
(* The constructor with CREATE: the bitmap is cleared in memory only, and  *)
(* an existing file keeps its length and content (O_CREAT, no O_TRUNC).    *)
Created == [header |-> {}, numContentPages |-> 0]

(* Mutant: the last content page is not counted. *)
Opened_OneLess(d) ==
  [header : IF d.size >= NumHeaderPages THEN {d.header} ELSE SUBSET Page,
   numContentPages : {(d.size - NumHeaderPages - 1) % WordMod}]

(* The constructor over an existing file.  numContentPages is computed     *)
(* from the file's length in unsigned arithmetic; a file shorter than the  *)
(* bitmap leaves the bitmap's memory as it was allocated: any bits.        *)
Opened(d) ==
  [header : IF d.size >= NumHeaderPages THEN {d.header} ELSE SUBSET Page,
   numContentPages : {(d.size - NumHeaderPages) % WordMod}]

IsAllocated(f, pid) == pid \in f.header

(* allocatePage: the page after the last one while the bitmap has room,    *)
(* then the lowest free bit.                                               *)
FreeBits(f) == Page \ f.header

(* Mutants: disposed pages are never looked for; the end of the bitmap is   *)
(* not tested.                                                             *)
AllocatePageStatus_NoSearch(f) ==
  IF f.numContentPages < NumBits THEN OK ELSE OutOfSpace
AllocatePagePID_NoBound(f) == f.numContentPages

AllocatePageStatus(f) ==
  IF f.numContentPages < NumBits \/ FreeBits(f) # {} THEN OK ELSE OutOfSpace
AllocatePagePID(f) ==
  IF f.numContentPages < NumBits
  THEN f.numContentPages
  ELSE CHOOSE p \in FreeBits(f) : \A q \in FreeBits(f) : p <= q
AllocatePage(f) ==
  [header |-> f.header \cup {AllocatePagePID(f)},
   numContentPages |-> IF f.numContentPages < NumBits
                       THEN f.numContentPages + 1 ELSE f.numContentPages]

(* allocatePageWithPID: pages skipped over keep their clear bit. *)
AllocatePIDStatus(f, pid) ==
  CASE pid >= NumBits -> OutOfRange
    [] pid < NumBits /\ pid < f.numContentPages /\ IsAllocated(f, pid) -> AlreadyAllocated
    [] OTHER -> OK

(* Mutants: a pid inside the extent shrinks it; the bit is not set. *)
AllocatePID_Shrinks(f, pid) ==
  [header |-> f.header \cup {pid}, numContentPages |-> pid + 1]
AllocatePID_NoBit(f, pid) ==
  [f EXCEPT !.numContentPages = Larger(@, pid + 1)]

AllocatePID(f, pid) ==
  [header |-> f.header \cup {pid},
   numContentPages |-> Larger(f.numContentPages, pid + 1)]

(* The test shared by disposePage, readPage and writePage. *)
AccessStatus(f, pid) ==
  CASE pid >= f.numContentPages -> OutOfRange
    [] pid < f.numContentPages /\ ~IsAllocated(f, pid) -> NotAllocated
    [] OTHER -> OK

Dispose(f, pid) == [f EXCEPT !.header = @ \ {pid}]

(* writePage and readPage where AccessStatus allows them.  pread past the  *)
(* end of the file is reported with perror only, and the image stays as it *)
(* was.                                                                    *)
InFile(d, pid) == NumHeaderPages + pid < d.size
Write(d, pid, img) ==
  [size |-> Larger(d.size, NumHeaderPages + pid + 1),
   header |-> d.header,
   page |-> [d.page EXCEPT ![pid] = img]]
Read(d, pid, img) == IF InFile(d, pid) THEN d.page[pid] ELSE img

(* Mutant: the filler is written although the file is long enough. *)
ExtendFile_Always(f, d) ==
  LET total == NumHeaderPages + f.numContentPages
  IN  IF total >= d.size /\ f.numContentPages > 0
      THEN [d EXCEPT !.size = total,
                     !.page = [p \in Page |-> IF NumHeaderPages + p = total - 1
                                              THEN HeaderImage ELSE @[p]]]
      ELSE d

(* flush, its two writes: the file is first made long enough, with the     *)
(* bytes of the bitmap as filler, then the bitmap is written.              *)
ExtendFile(f, d) ==
  LET total == NumHeaderPages + f.numContentPages
  IN  IF total > d.size
      THEN [size |-> total,
            header |-> d.header,
            page |-> [p \in Page |-> IF NumHeaderPages + p = total - 1
                                     THEN HeaderImage ELSE d.page[p]]]
      ELSE d
WriteHeader(f, d) ==
  [size |-> Larger(d.size, NumHeaderPages), header |-> f.header, page |-> d.page]
=============================================================================
