------------------------------ MODULE LRUQueue ------------------------------
(***************************************************************************)
(* What a page replacer with least-recently-used order promises            *)
(* (lower/PageReplacer.h, LRUPageReplacer.h): the unpinned records wait in *)
(* a queue, the victim is the one that has waited longest, a record given  *)
(* back by addback is the next victim, and a record that is used again     *)
(* leaves from wherever it stands.  The calls and their answers are        *)
(* visible, the queue is not.                                              *)
(***************************************************************************)
EXTENDS SequencesExt

CONSTANTS Slot, NULL, OutOfSpace

VARIABLES
  queue,  \* the unpinned records, least recently used first
  call    \* the last call: its name and its record

Waiting == {queue[i] : i \in DOMAIN queue}
Called(op, s) == [op |-> op, record |-> s]

Init == queue = <<>> /\ call = Called("new", NULL)

Enqueue(s) ==
  /\ s \notin Waiting
  /\ queue' = Append(queue, s)
  /\ call' = Called("add", s)

GiveBack(s) ==
  /\ s \notin Waiting
  /\ queue' = <<s>> \o queue
  /\ call' = Called("addback", s)

Dequeue ==
  /\ queue # <<>>
  /\ queue' = Tail(queue)
  /\ call' = Called("selectToReplace", Head(queue))

Refuse ==
  /\ queue = <<>>
  /\ call' = Called("selectToReplace", OutOfSpace)
  /\ UNCHANGED queue

Leave(s) ==
  /\ \E i \in DOMAIN queue : queue[i] = s /\ queue' = RemoveAt(queue, i)
  /\ call' = Called("remove", s)

Next ==
  \/ Dequeue \/ Refuse
  \/ \E s \in Slot : Enqueue(s) \/ GiveBack(s) \/ Leave(s)

Spec == Init /\ [][Next]_<<queue, call>>
=============================================================================
