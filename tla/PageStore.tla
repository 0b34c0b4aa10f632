------------------------------ MODULE PageStore ------------------------------
(***************************************************************************)
(* What the page layer promises the structures above it: a map from pids   *)
(* to page contents that survives a crash with some loss.  Nothing but a   *)
(* caller's own allocation, write or disposal of a page changes it: not a  *)
(* read, an eviction or a flush of that page or of any other.  A page      *)
(* comes back from a crash as it was at some moment since the last         *)
(* completed flushAllPages, that flush's own state included.               *)
(***************************************************************************)
CONSTANTS Page, Image

NoPage == "no page"            \* the pid is not allocated
Unknown == "unknown content"   \* allocated, but never handed to anyone

VARIABLES
  store,   \* the content of every page
  recent,  \* the contents of every page since the last completed flush
  call     \* the kind of the last call

Content == Image \cup {NoPage, Unknown}

Init == /\ store = [p \in Page |-> NoPage]
        /\ recent = [p \in Page |-> {NoPage}]
        /\ call = "quiet"

Remember == recent' = [p \in Page |-> recent[p] \cup {store'[p]}]

(* A new page has whatever content its memory had. *)
Alloc == /\ call' = "alloc"
         /\ \E p \in Page, c \in Image :
              store[p] = NoPage /\ store' = [store EXCEPT ![p] = c]
         /\ Remember

(* An existing page is allocated again, its content discarded. *)
Overwrite == /\ call' = "overwrite"
             /\ \E p \in Page, c \in Image :
                  store[p] # NoPage /\ store' = [store EXCEPT ![p] = c]
             /\ Remember

(* An allocation fails, and may take a page with it. *)
Leak == /\ call' = "leak"
        /\ \/ UNCHANGED store
           \/ \E p \in Page : store[p] = NoPage /\ store' = [store EXCEPT ![p] = Unknown]
        /\ Remember

(* The holder of a page changes it. *)
Put == /\ call' = "put"
       /\ \E p \in Page, img \in Image :
            /\ store[p] # NoPage
            /\ store' = IF store[p] = Unknown THEN store ELSE [store EXCEPT ![p] = img]
       /\ Remember

Drop == /\ call' = "drop"
        /\ \E p \in Page : store[p] # NoPage /\ store' = [store EXCEPT ![p] = NoPage]
        /\ Remember

(* Reads, pins, evictions, flushes of one page; flushAllPages under way. *)
Quiet == /\ call' = "quiet"
         /\ UNCHANGED <<store, recent>>

(* flushAllPages has written the last of what it writes. *)
Flushed == /\ call' = "quiet"
           /\ UNCHANGED store
           /\ recent' = [p \in Page |-> {store[p]}]

(* A page nobody was ever given comes back as anything. *)
Survivors(p) == IF Unknown \in recent[p] THEN Content ELSE recent[p]

Crash == /\ call' = "crash"
         /\ store' \in [Page -> Content]
         /\ \A p \in Page : store'[p] \in Survivors(p)
         /\ Remember

Next == Alloc \/ Overwrite \/ Leak \/ Put \/ Drop \/ Quiet \/ Flushed \/ Crash

Spec == Init /\ [][Next]_<<store, recent, call>>
=============================================================================
