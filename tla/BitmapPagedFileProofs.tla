----------------------- MODULE BitmapPagedFileProofs -----------------------
(***************************************************************************)
(* The bitmap and the length of the file agree through allocations,        *)
(* flushes, crashes and reopenings, for every size of the bitmap.          *)
(***************************************************************************)
EXTENDS BitmapPagedFile, OperatorProofs

(* A flush that has extended the file leaves it long enough for the bitmap *)
(* it is about to write, and the last call is still that flush.            *)
Extended ==
  phase \in {"flushing", "closing"}
    => /\ disk.size >= NumHeaderPages + file.numContentPages
       /\ result.op \in {"flush", "close"}

Result == [op : Call, pid : PID, rc : Failing \cup {OK}]

(* The inductive invariant: besides what the properties say, the file      *)
(* never reaches the length at which numContentPages would wrap to zero    *)
(* (DiskGood), and its extent covers the bitmap about to be written.       *)
IInv == FileGood(file) /\ DiskGood(disk) /\ Extended /\ phase \in Phase /\ result \in Result

USE DEF Page, PID

LEMMA InitIInv == Init => IInv
<1> USE NumHeaderPagesAssumption, NumBitsAssumption, WordModAssumption, ImageAssumption
<1> SUFFICES ASSUME Init PROVE IInv
  OBVIOUS
<1>1. disk = [size |-> 0, header |-> {}, page |-> [p \in Page |-> ZeroImage]]
  BY DEF Init
<1>2. DiskGood(disk)
  BY <1>1 DEF DiskFile, DiskGood
<1>3. result \in Result
  BY DEF Init, Returned, Call, Result
<1>4. FileGood(file)
  BY CreatedLemma DEF Init
<1> QED BY <1>2, <1>3, <1>4 DEF Init, IInv, Extended, Phase

LEMMA StatusTypes ==
  ASSUME NEW f, NEW pid
  PROVE  /\ AllocatePageStatus(f) \in Failing \cup {OK}
         /\ AllocatePIDStatus(f, pid) \in Failing \cup {OK}
         /\ AccessStatus(f, pid) \in Failing \cup {OK}
BY DEF AllocatePageStatus, AllocatePIDStatus, AccessStatus, Failing

LEMMA NextIInv == IInv /\ [Next]_vars => IInv'
<1> USE NumHeaderPagesAssumption, NumBitsAssumption, WordModAssumption
<1> SUFFICES ASSUME IInv, [Next]_vars PROVE IInv'
  OBVIOUS
<1>1. /\ FileGood(file) /\ DiskGood(disk)
      /\ phase \in Phase /\ result \in Result
      /\ phase \in {"flushing", "closing"}
           => /\ disk.size >= NumHeaderPages + file.numContentPages
              /\ result.op \in {"flush", "close"}
  BY DEF IInv, Extended
<1>2. SUFFICES /\ FileGood(file') /\ DiskGood(disk')
               /\ phase' \in Phase /\ result' \in Result
               /\ phase' \in {"flushing", "closing"}
                    => /\ disk'.size >= NumHeaderPages + file'.numContentPages
                       /\ result'.op \in {"flush", "close"}
  BY DEF IInv, Extended, FileGood, DiskGood, InFile
<1>3. CASE Create
  <2>1. FileGood(file')
    BY <1>3, CreatedLemma DEF Create
  <2>2. result' \in Result
    BY <1>3 DEF Create, Returned, Call, Result
  <2> QED BY <1>1, <1>3, <2>1, <2>2 DEF Create, Phase
<1>4. CASE Open
  <2>1. FileGood(file')
    BY <1>1, <1>4, OpenedLemma DEF Open
  <2>2. result' \in Result
    BY <1>4 DEF Open, Returned, Call, Result
  <2> QED BY <1>1, <1>4, <2>1, <2>2 DEF Open, Phase
<1>5. CASE CallAllocatePage
  <2>1. CASE AllocatePageStatus(file) = OK
    <3>1. FileGood(file') /\ AllocatePagePID(file) \in PID
      BY <1>1, <1>5, <2>1, AllocatePageLemma DEF CallAllocatePage
    <3>2. result' \in Result
      BY <1>5, <2>1, <3>1 DEF CallAllocatePage, Returned, Call, Result
    <3> QED BY <1>1, <1>5, <3>1, <3>2 DEF CallAllocatePage
  <2>2. CASE AllocatePageStatus(file) # OK
    <3>1. result' \in Result
      BY <1>5, <2>2, StatusTypes DEF CallAllocatePage, Returned, Call, Result
    <3> QED BY <1>1, <1>5, <2>2, <3>1 DEF CallAllocatePage
  <2> QED BY <2>1, <2>2
<1>6. ASSUME NEW pid \in PID, CallAllocatePageWithPID(pid)
      PROVE  FileGood(file') /\ result' \in Result /\ UNCHANGED <<disk, phase>> /\ phase = "open"
  <2>1. FileGood(file')
    BY <1>1, <1>6, AllocatePIDLemma DEF CallAllocatePageWithPID
  <2>2. result' \in Result
    BY <1>6, StatusTypes DEF CallAllocatePageWithPID, Returned, Call, Result
  <2> QED BY <1>6, <2>1, <2>2 DEF CallAllocatePageWithPID
<1>7. ASSUME NEW pid \in PID, CallDisposePage(pid)
      PROVE  FileGood(file') /\ result' \in Result /\ UNCHANGED <<disk, phase>> /\ phase = "open"
  <2>1. FileGood(file')
    BY <1>1, <1>7, DisposeLemma DEF CallDisposePage
  <2>2. result' \in Result
    BY <1>7, StatusTypes DEF CallDisposePage, Returned, Call, Result
  <2> QED BY <1>7, <2>1, <2>2 DEF CallDisposePage
<1>8. ASSUME NEW pid \in PID, NEW img \in Image, CallWritePage(pid, img)
      PROVE  DiskGood(disk') /\ result' \in Result /\ UNCHANGED <<file, phase>> /\ phase = "open"
  <2>1. AccessStatus(file, pid) = OK => pid \in Page
    BY <1>1, AccessLemma DEF FileGood, FileObject
  <2>2. DiskGood(disk')
    BY <1>1, <1>8, <2>1, WriteLemma DEF CallWritePage
  <2>3. result' \in Result
    BY <1>8, StatusTypes DEF CallWritePage, Returned, Call, Result
  <2> QED BY <1>8, <2>2, <2>3 DEF CallWritePage
<1>9. ASSUME NEW close \in BOOLEAN, BeginFlush(close)
      PROVE  /\ DiskGood(disk') /\ result' \in Result /\ UNCHANGED file
             /\ phase' \in {"flushing", "closing"}
             /\ disk'.size >= NumHeaderPages + file.numContentPages
             /\ result'.op \in {"flush", "close"}
  <2>1. DiskGood(disk') /\ disk'.size >= NumHeaderPages + file.numContentPages
    BY <1>1, <1>9, ExtendLemma DEF BeginFlush
  <2>2. result' \in Result /\ result'.op \in {"flush", "close"}
    BY <1>9 DEF BeginFlush, Returned, Call, Result
  <2> QED BY <1>9, <2>1, <2>2 DEF BeginFlush
<1>10. CASE EndFlush
  <2>1. DiskGood(disk')
    BY <1>1, <1>10, WriteHeaderLemma DEF EndFlush
  <2> QED BY <1>1, <1>10, <2>1 DEF EndFlush, Phase
<1>11. CASE Crash
  <2>1. FileGood(file')
    BY <1>11, CreatedLemma DEF Crash
  <2>2. result' \in Result
    BY <1>11 DEF Crash, Returned, Call, Result
  <2> QED BY <1>1, <1>11, <2>1, <2>2 DEF Crash, Phase
<1>12. CASE UNCHANGED vars
  BY <1>1, <1>12 DEF vars
<1>13. CASE \E pid \in PID : \/ CallAllocatePageWithPID(pid)
                            \/ CallDisposePage(pid)
                            \/ \E img \in Image : CallWritePage(pid, img)
  BY <1>1, <1>6, <1>7, <1>8, <1>13
<1>14. CASE \E close \in BOOLEAN : BeginFlush(close)
  BY <1>1, <1>9, <1>14 DEF Phase
<1> QED BY <1>3, <1>4, <1>5, <1>10, <1>11, <1>12, <1>13, <1>14 DEF Next

LEMMA SpecIInv == Spec => []IInv
BY InitIInv, NextIInv, PTL DEF Spec

(* The file object, the file and the results keep their types, numContent- *)
(* Pages its 32 bits included, whatever is crashed and reopened            *)
(* (BitmapPagedFile.cpp:45-229).                                           *)
THEOREM TypeCorrect == Spec => []TypeOK
<1>1. IInv => TypeOK
  BY DEF IInv, TypeOK, FileGood, DiskGood, Result
<1> QED BY <1>1, SpecIInv, PTL

(* No page has its bit set past numContentPages, so every allocated page   *)
(* can be read, written and disposed (BitmapPagedFile.cpp:38).             *)
THEOREM BitsStayWithinExtent == Spec => []BitsWithinExtent
<1>1. IInv => BitsWithinExtent
  BY DEF IInv, FileGood, BitsWithinExtent
<1> QED BY <1>1, SpecIInv, PTL

(* The bitmap on disk never describes a page that the file on disk does    *)
(* not reach (BitmapPagedFile.cpp:213-229).                                *)
THEOREM DiskBitsStayInFile == Spec => []DiskBitsInFile
<1>1. IInv => DiskBitsInFile
  BY DEF IInv, DiskGood, DiskBitsInFile
<1> QED BY <1>1, SpecIInv, PTL

-----------------------------------------------------------------------------
(* Which steps touch what: the cases an action property has to look at.    *)
LEMMA AllocationSteps ==
  ASSUME IInv, Next, result'.op \in {"allocatePage", "allocatePageWithPID"}
  PROVE  CallAllocatePage \/ \E pid \in PID : CallAllocatePageWithPID(pid)
<1>1. phase \in {"flushing", "closing"} => result.op \in {"flush", "close"}
  BY DEF IInv, Extended
<1> QED BY <1>1 DEF Next, Create, Open, CallDisposePage, CallWritePage, BeginFlush, EndFlush,
                    Crash, Returned

(* No allocation hands out a page that is in use                           *)
(* (BitmapPagedFile.cpp:85-137).                                           *)
THEOREM AllocationStaysFresh == Spec => AllocationIsFresh
<1>1. ASSUME IInv, Next PROVE AllocatesFresh
  <2> SUFFICES ASSUME result'.op \in {"allocatePage", "allocatePageWithPID"}, result'.rc = OK
               PROVE  result'.pid \notin file.header /\ result'.pid \in file'.header
    BY DEF AllocatesFresh
  <2>1. FileGood(file)
    BY <1>1 DEF IInv
  <2>2. CASE CallAllocatePage
    <3>1. AllocatePageStatus(file) = OK
      BY <2>2 DEF CallAllocatePage, Returned
    <3>2. file' = AllocatePage(file) /\ result'.pid = AllocatePagePID(file)
      BY <2>2, <3>1 DEF CallAllocatePage, Returned
    <3> QED BY <2>1, <3>1, <3>2, AllocatePageLemma
  <2>3. ASSUME NEW pid \in PID, CallAllocatePageWithPID(pid)
        PROVE  result'.pid \notin file.header /\ result'.pid \in file'.header
    <3>1. /\ AllocatePIDStatus(file, pid) = OK
          /\ file' = AllocatePID(file, pid) /\ result'.pid = pid
      BY <2>3 DEF CallAllocatePageWithPID, Returned
    <3> QED BY <2>1, <3>1, AllocatePIDLemma
  <2> QED BY <1>1, <2>2, <2>3, AllocationSteps
<1>2. IInv /\ [Next]_vars => [AllocatesFresh]_vars
  BY <1>1
<1> QED BY <1>2, SpecIInv, PTL DEF Spec, AllocationIsFresh

(* An allocation fails only when no bit of the bitmap is clear             *)
(* (BitmapPagedFile.cpp:94-105).                                           *)
THEOREM OutOfSpaceIsFull == Spec => OutOfSpaceMeansFull
<1>1. ASSUME IInv, Next PROVE FailsOnlyFull
  <2> SUFFICES ASSUME result'.op = "allocatePage", result'.rc = OutOfSpace
               PROVE  file.header = Page
    BY DEF FailsOnlyFull
  <2>1. CallAllocatePage
    BY <1>1, AllocationSteps DEF CallAllocatePageWithPID, Returned
  <2>2. AllocatePageStatus(file) # OK
    BY <2>1 DEF CallAllocatePage, Returned, OK, OutOfSpace
  <2>3. file.header \subseteq Page
    BY <1>1 DEF IInv, FileGood, FileObject
  <2> QED BY <2>2, <2>3 DEF AllocatePageStatus, FreeBits
<1>2. IInv /\ [Next]_vars => [FailsOnlyFull]_vars
  BY <1>1
<1> QED BY <1>2, SpecIInv, PTL DEF Spec, OutOfSpaceMeansFull

(* No flush, reopening or crash overwrites a page the file holds           *)
(* (BitmapPagedFile.cpp:213-223).                                          *)
THEOREM WritesAloneChangePages == Spec => OnlyWritesChangePages
<1>1. ASSUME IInv, Next PROVE ChangesOnlyByWrite
  <2> SUFFICES ASSUME NEW p \in Page, InFile(disk, p), disk'.page[p] # disk.page[p]
               PROVE  result'.op = "writePage" /\ result'.pid = p /\ result'.rc = OK
    BY DEF ChangesOnlyByWrite
  <2>1. FileGood(file) /\ DiskGood(disk)
    BY <1>1 DEF IInv
  <2>2. ASSUME NEW pid \in PID, NEW img \in Image, CallWritePage(pid, img)
        PROVE  result'.op = "writePage" /\ result'.pid = p /\ result'.rc = OK
    <3>1. AccessStatus(file, pid) = OK /\ disk' = Write(disk, pid, img)
      BY <2>2 DEF CallWritePage
    <3>2. pid \in Page
      BY <2>1, <3>1, AccessLemma DEF FileGood, FileObject
    <3>3. disk'.page = [disk.page EXCEPT ![pid] = img]
      BY <2>1, <3>1, <3>2, WriteLemma
    <3>4. pid = p
      BY <2>1, <3>3 DEF DiskGood, DiskFile
    <3> QED BY <2>2, <3>1, <3>4 DEF CallWritePage, Returned
  <2>3. ASSUME NEW close \in BOOLEAN, BeginFlush(close)
        PROVE  FALSE
    BY <2>1, <2>3, ExtendLemma DEF BeginFlush
  <2>4. CASE EndFlush
    BY <2>4 DEF EndFlush, WriteHeader
  <2> QED BY <1>1, <2>2, <2>3, <2>4
          DEF Next, Create, Open, CallAllocatePage, CallAllocatePageWithPID, CallDisposePage, Crash
<1>2. IInv /\ [Next]_vars => [ChangesOnlyByWrite]_vars
  BY <1>1
<1> QED BY <1>2, SpecIInv, PTL DEF Spec, OnlyWritesChangePages
=============================================================================
