------------------------ MODULE DirectlyMappedArray ------------------------
(***************************************************************************)
(* directly_mapped/DirectlyMappedArray.cpp and DMABlock.cpp: a dense array *)
(* in pages.  Page 0 is the header, whose only changing field is nnz; page *)
(* p > 0 holds the block of keys (p-1)*Cap .. p*Cap-1, if it was ever      *)
(* written.  The pages are frames of a PagePool.                           *)
(*                                                                         *)
(* A get or a put of one key is one action.  A batch put is one action per *)
(* block, so that evictions and a crash may come between two blocks.  The  *)
(* blocks a call holds are pinned only within a step, the header always.   *)
(***************************************************************************)
EXTENDS PagePool, Integers, SequencesExt

CONSTANTS
  Cap,       \* config->dmaBlockCapacity
  EndsBy,    \* header->endsBy: the number of elements
  Value,     \* the data
  Default,   \* DMABlock::DefaultValue
  NA,        \* NA_DOUBLE
  MaxBatch,  \* bound on the entries of a batch
  CountMod,  \* 2^64: nnz is a size_t
  Careful    \* whether callers avoid what the array gets wrong: see Callers

ASSUME CapAssumption == Cap \in Nat \ {0}
ASSUME EndsByAssumption == EndsBy \in Nat \ {0}
ASSUME DefaultAssumption == Default \in Value
ASSUME MaxBatchAssumption == MaxBatch \in Nat \ {0}
ASSUME CountModAssumption == CountMod \in Nat /\ CountMod > EndsBy
ASSUME CarefulAssumption == Careful \in BOOLEAN
ASSUME AbsentAssumption ==
  Absent \notin [image : [0..Cap-1 -> Value] \cup 0..CountMod-1, dirty : BOOLEAN]

VARIABLES
  bits,        \* the pages allocated in the file, in memory
  frame,       \* the cached pages
  stored,      \* the pages on disk
  storedBits,  \* the bitmap on disk; {} until the first flush ends
  phase,       \* "ready", or "flushing" or "closing" inside flushAllPages
  job,         \* the batch put under way, and its entries not yet put
  call         \* the last step of a call: name, argument and answer

poolVars == <<bits, frame, stored, storedBits>>
vars == <<poolVars, phase, job, call>>

Smaller(a, b) == IF a <= b THEN a ELSE b
Greater(a, b) == IF a >= b THEN a ELSE b

Key == 0..EndsBy-1
Entry == [key : 0..EndsBy, datum : Value]

HeaderPage == 0
INVALID_PID == -1
findPage(key) == key \div Cap + 1
Lower(p) == (p - 1) * Cap
Upper(p) == p * Cap
BlockPage == 1..findPage(EndsBy - 1)
PagesOf(b, e) == {p \in BlockPage : p >= findPage(b) /\ Lower(p) < e}

Block == [0..Cap-1 -> Value]
EmptyBlock == [i \in 0..Cap-1 |-> Default]
FrameOf(images) == {Absent} \cup [image : images, dirty : BOOLEAN]

Called(op, arg, answer) == [op |-> op, arg |-> arg, answer |-> answer]
NoJob == [op |-> "none", entries |-> <<>>]

TypeOK ==
  /\ bits \in SUBSET (BlockPage \cup {HeaderPage})
  /\ \A p \in BlockPage : frame[p] \in FrameOf(Block) /\ stored[p] \in Block
  /\ frame[HeaderPage] \in FrameOf(0..CountMod-1) \ {Absent}
  /\ stored[HeaderPage] \in 0..CountMod-1
  /\ storedBits \in SUBSET (BlockPage \cup {HeaderPage})
  /\ phase \in {"ready", "flushing", "closing"}
  /\ job.entries \in Seq(Entry)
  /\ job.entries = <<>> <=> job = NoJob

-----------------------------------------------------------------------------
(* The constructor of a new array: the header page, dirty. *)
OnlyHeader(header) ==
  [p \in BlockPage \cup {HeaderPage} |-> IF p = HeaderPage THEN header ELSE Absent]

Init ==
  /\ bits = {HeaderPage}
  /\ frame = OnlyHeader(Frame(0, TRUE))
  /\ stored = [p \in BlockPage \cup {HeaderPage} |->
                 IF p = HeaderPage THEN 0 ELSE EmptyBlock]
  /\ storedBits = {}
  /\ phase = "ready"
  /\ job = NoJob
  /\ call = Called("create", <<>>, "AC_OK")

(* readBlock: a page that is not allocated has no block. *)
HasBlock(p) == p \in bits
BlockAt(p) == Fetched(frame, stored, p)[p].image
DatumAt(k) ==
  IF HasBlock(findPage(k)) THEN BlockAt(findPage(k))[k - Lower(findPage(k))] ELSE Default

(* readOrAllocBlock: a new page gets a block object, which zeroes it. *)
WithBlock(p) ==
  IF HasBlock(p) THEN Fetched(frame, stored, p) ELSE Installed(frame, p, EmptyBlock)

(* newBlock: a page in the pool has a block object already and is not      *)
(* touched; any other gets a new one, which zeroes it.                     *)
WithNewBlock(p) ==
  IF InPool(frame, p) THEN frame ELSE Installed(frame, p, EmptyBlock)

nnz == frame[HeaderPage].image

(* Mutant: the counter does not wrap. *)
Counted_NoWrap(frames, n) ==
  Scribbled(frames, HeaderPage, frames[HeaderPage].image + n)

(* header->nnz += n writes to the header's image without markDirty. *)
Counted(frames, n) ==
  Scribbled(frames, HeaderPage, (frames[HeaderPage].image + n) % CountMod)

-----------------------------------------------------------------------------
(* DMABlock: the image after a put of several entries in turn.  The last   *)
(* entry of a key stays.                                                   *)
BlockBatchPut(image, p, es) ==
  [i \in DOMAIN image |->
     LET own == {j \in DOMAIN es : es[j].key - Lower(p) = i}
     IN  IF own = {} THEN image[i] ELSE es[Max(own)].datum]

(* Mutant: an entry that becomes the default value is not subtracted. *)
Change_NoErase(image, p, e) ==
  IF image[e.key - Lower(p)] = Default /\ e.datum # Default THEN 1 ELSE 0

(* What DMABlock::put adds to the number of entries. *)
Change(image, p, e) ==
  LET old == image[e.key - Lower(p)]
  IN  CASE old # Default /\ e.datum = Default -> -1
        [] old = Default /\ e.datum # Default -> 1
        [] OTHER -> 0

(* Each entry is compared with the image that those before it have left.   *)
BatchChange(image, p, es) ==
  LET sum[i \in 0..Len(es)] ==
        IF i = 0 THEN 0
        ELSE sum[i-1] + Change(BlockBatchPut(image, p, SubSeq(es, 1, i-1)), p, es[i])
  IN  sum[Len(es)]

(* Mutant: the block is not marked. *)
Altered_Unmarked(frames, p, es) ==
  Scribbled(frames, p, BlockBatchPut(frames[p].image, p, es))

(* The frames after the block of page p took es and was marked dirty. *)
Altered(frames, p, es) ==
  Marked(Scribbled(frames, p, BlockBatchPut(frames[p].image, p, es)), p)

(* put marks the page only where the datum changes. *)
Put(e) ==
  LET p == findPage(e.key)
      old == WithBlock(p)[p].image
  IN  /\ phase = "ready" /\ job = NoJob
      /\ bits' = bits \cup {p}
      /\ frame' = IF old[e.key - Lower(p)] = e.datum THEN WithBlock(p)
                  ELSE Counted(Altered(WithBlock(p), p, <<e>>), Change(old, p, e))
      /\ call' = Called("put", e, "AC_OK")
      /\ UNCHANGED <<stored, storedBits, phase, job>>

-----------------------------------------------------------------------------
(* The batch puts take the entries up to the first one of another page,    *)
(* INVALID_PID standing for every key out of range.                        *)
PageOf(k) == IF k >= EndsBy THEN INVALID_PID ELSE findPage(k)

GroupLen(es) ==
  CHOOSE n \in 1..Len(es) :
    /\ \A i \in 1..n : PageOf(es[i].key) = PageOf(es[1].key)
    /\ n < Len(es) => PageOf(es[n+1].key) # PageOf(es[1].key)
HasNonDefault(es) == \E i \in DOMAIN es : es[i].datum # Default

(* The next step of a batch with the entries es left: what it puts, where. *)
Group(es) == SubSeq(es, 1, GroupLen(es))
Rest(es) == SubSeq(es, GroupLen(es) + 1, Len(es))
Target(es) == PageOf(Head(es).key)

Continue(op, es) ==
  /\ phase = "ready"
  /\ job \in {NoJob, [op |-> op, entries |-> es]}
  /\ job' = IF Rest(es) = <<>> THEN NoJob ELSE [op |-> op, entries |-> Rest(es)]
  /\ call' = Called(op, [left |-> es, group |-> Group(es)], "AC_OK")

(* Put and count a group in a block that is read or allocated. *)
PutGroup(es) ==
  LET p == Target(es)
  IN  /\ bits' = bits \cup {p}
      /\ frame' = Counted(Altered(WithBlock(p), p, Group(es)),
                          BatchChange(WithBlock(p)[p].image, p, Group(es)))

(* batchPut(putCount, puts): the entries of a page are dropped when all of *)
(* them are the default value.                                             *)
BatchPut(es) ==
  /\ Continue("batchPut", es)
  /\ IF Target(es) # INVALID_PID /\ HasNonDefault(Group(es))
     THEN PutGroup(es)
     ELSE UNCHANGED <<bits, frame>>
  /\ UNCHANGED <<stored, storedBits, phase>>

(* batchPut(v) *)
BatchPutVector(es) ==
  /\ Continue("batchPutVector", es)
  /\ PutGroup(es)
  /\ UNCHANGED <<stored, storedBits, phase>>

(* batchPut(beginsAt, endsBy, p): every block of the range is new, neither *)
(* marked nor counted.                                                     *)
BatchPutRange(es) ==
  LET p == Target(es)
      f == WithNewBlock(p)
  IN  /\ Continue("batchPutRange", es)
      /\ bits' = bits \cup {p}
      /\ frame' = Scribbled(f, p, BlockBatchPut(f[p].image, p, Group(es)))
      /\ UNCHANGED <<stored, storedBits, phase>>

-----------------------------------------------------------------------------
(* A get leaves in the pool the blocks it has read. *)
ReadBlocks(pages) ==
  /\ phase = "ready" /\ job = NoJob
  /\ frame' = [p \in DOMAIN frame |->
                 IF p \in pages /\ HasBlock(p) THEN Fetched(frame, stored, p)[p]
                 ELSE frame[p]]
  /\ UNCHANGED <<bits, stored, storedBits, phase, job>>

Get(k) ==
  /\ ReadBlocks(IF k >= EndsBy THEN {} ELSE {findPage(k)})
  /\ call' = Called("get", k, IF k >= EndsBy THEN NA ELSE DatumAt(k))

(* batchGet(getCount, gets): the loop over the entries, with the current   *)
(* page and the number n of entries met on it; their data are filled in    *)
(* when the page changes, and after the loop.                              *)
Filled(data, keys, p, first, last) ==
  [i \in DOMAIN data |-> IF i \in first..last /\ p # INVALID_PID
                         THEN DatumAt(keys[i]) ELSE data[i]]

Visit(acc, keys, i) ==
  LET p == PageOf(keys[i])
      data == IF p = INVALID_PID THEN [acc.data EXCEPT ![i] = Default] ELSE acc.data
  IN  IF acc.page # p
      THEN [page |-> p, n |-> 1, data |-> Filled(data, keys, acc.page, i - acc.n, i - 1)]
      ELSE [page |-> p, n |-> acc.n + 1, data |-> data]

BatchGetData(keys) ==
  LET loop[i \in 0..Len(keys)] ==
        IF i = 0 THEN [page |-> INVALID_PID, n |-> 0, data |-> [j \in DOMAIN keys |-> NA]]
        ELSE Visit(loop[i-1], keys, i)
      end == loop[Len(keys)]
  IN  Filled(end.data, keys, end.page, Len(keys) - end.n + 1, Len(keys))

BatchGet(keys) ==
  /\ ReadBlocks({PageOf(keys[i]) : i \in DOMAIN keys})
  /\ call' = Called("batchGet", keys, BatchGetData(keys))

(* batchGet(beginsAt, endsBy, p): the memory from p on after the loop over *)
(* the pages; at is how far p has moved.  A missing block fills a block's  *)
(* worth of memory.                                                        *)
Overlay(memory, at, data) ==
  [j \in DOMAIN memory \cup {at + i : i \in DOMAIN data} |->
     IF j - at \in DOMAIN data THEN data[j - at] ELSE memory[j]]

RangeStep(acc, p, b, e) ==
  LET first == Greater(b, Lower(p))
      n == Smaller(e, Upper(p)) - first
      skip == Smaller(Cap, e - Lower(p))
  IN  IF HasBlock(p)
      THEN [at |-> acc.at + n,
            memory |-> Overlay(acc.memory, acc.at, [i \in 0..n-1 |-> DatumAt(first + i)])]
      ELSE [at |-> acc.at + skip, memory |-> Overlay(acc.memory, acc.at, EmptyBlock)]

BatchGetRangeData(b, e) ==
  LET loop[p \in findPage(b)-1..findPage(e-1)] ==
        IF p < findPage(b) THEN [at |-> 0, memory |-> <<>>]
        ELSE RangeStep(loop[p-1], p, b, e)
  IN  loop[findPage(e-1)].memory

BatchGetRange(b, e) ==
  /\ ReadBlocks(PagesOf(b, e))
  /\ call' = Called("batchGetRange", <<b, e>>, BatchGetRangeData(b, e))

(* batchGet(beginsAt, endsBy, v): page after page and key after key, the   *)
(* entries other than the default are appended to v.                       *)
NonDefaults(b, e) ==
  LET v[k \in b..e] ==
        IF k = b THEN <<>>
        ELSE IF HasBlock(findPage(k-1)) /\ DatumAt(k-1) # Default
        THEN Append(v[k-1], [key |-> k-1, datum |-> DatumAt(k-1)])
        ELSE v[k-1]
  IN  v[e]

BatchGetVector(b, e) ==
  /\ ReadBlocks(PagesOf(b, e))
  /\ call' = Called("batchGetVector", <<b, e>>, NonDefaults(b, e))

-----------------------------------------------------------------------------
(* The pool makes room, between calls or inside one. *)
Quiet == call' = Called("quiet", <<>>, "AC_OK")

Evict(p) ==
  /\ phase = "ready"
  /\ InPool(frame, p)
  /\ stored' = DiskWith(frame, stored, p)
  /\ frame' = Evicted(frame, p)
  /\ Quiet
  /\ UNCHANGED <<bits, storedBits, phase, job>>

(* flush, or the destructor's: the dirty pages, then the bitmap. *)
BeginFlush(how) ==
  /\ phase = "ready" /\ job = NoJob
  /\ phase' = how
  /\ Quiet
  /\ UNCHANGED <<poolVars, job>>

WriteBack(p) ==
  /\ phase # "ready"
  /\ Dirty(frame, p)
  /\ stored' = DiskWith(frame, stored, p)
  /\ frame' = Cleaned(frame, p)
  /\ Quiet
  /\ UNCHANGED <<bits, storedBits, phase, job>>

(* Once a process has closed the array the next one opens it. *)
EndFlush ==
  /\ phase # "ready"
  /\ \A p \in DOMAIN frame : ~Dirty(frame, p)
  /\ storedBits' = bits
  /\ frame' = IF phase = "closing" THEN OnlyHeader(Frame(stored[HeaderPage], FALSE))
              ELSE frame
  /\ call' = Called(phase, <<>>, "AC_OK")
  /\ phase' = "ready"
  /\ UNCHANGED <<bits, stored, job>>

(* The process dies; the next one opens what is on disk, or creates the    *)
(* array anew if no flush had ended.                                       *)
Crash ==
  /\ bits' = IF storedBits = {} THEN {HeaderPage} ELSE storedBits
  /\ frame' = OnlyHeader(IF storedBits = {} THEN Frame(0, TRUE)
                         ELSE Frame(stored[HeaderPage], FALSE))
  /\ phase' = "ready"
  /\ job' = NoJob
  /\ call' = Called("crash", <<>>, "AC_OK")
  /\ UNCHANGED <<stored, storedBits>>

-----------------------------------------------------------------------------
(* The callers.  Batches are sorted, as the code assumes.  Careful ones    *)
(* give batchPut no page of default values only, put ranges where there    *)
(* are no blocks yet, and get ranges where every block exists.             *)
Sorted(es) == \A i \in 1..Len(es)-1 : es[i].key <= es[i+1].key
Batches == {es \in UNION {[1..n -> Entry] : n \in 1..MaxBatch} : Sorted(es)}
Ranges == {r \in Key \X (1..EndsBy) : r[1] < r[2]}

NoEmptyGroup(es) ==
  \A i \in DOMAIN es : \E j \in DOMAIN es :
    PageOf(es[j].key) = PageOf(es[i].key) /\ es[j].datum # Default
InRange(es) == \A i \in DOMAIN es : es[i].key \in Key
Consecutive(es) == \A i \in 1..Len(es)-1 : es[i+1].key = es[i].key + 1
OnNewBlocks(es) == \A i \in DOMAIN es : ~HasBlock(findPage(es[i].key))

Callers ==
  \/ \E k \in Key, d \in Value : Put([key |-> k, datum |-> d])
  \/ \E k \in 0..EndsBy : Get(k)
  \/ \E k, l \in 0..EndsBy : k <= l /\ BatchGet(<<k, l>>)
  \/ \E r \in Ranges :
       \/ (Careful => PagesOf(r[1], r[2]) \subseteq bits) /\ BatchGetRange(r[1], r[2])
       \/ BatchGetVector(r[1], r[2])

(* A new batch, or what is left of the one under way. *)
BatchStep ==
  \E es \in Batches :
    \/ (Careful => NoEmptyGroup(es)) /\ BatchPut(es)
    \/ InRange(es) /\ BatchPutVector(es)
    \/ /\ InRange(es) /\ Consecutive(es)
       /\ job = NoJob /\ Careful => OnNewBlocks(es)
       /\ BatchPutRange(es)

Next ==
  \/ Callers \/ BatchStep
  \/ \E p \in BlockPage : Evict(p)
  \/ \E p \in DOMAIN frame : WriteBack(p)
  \/ \E how \in {"flushing", "closing"} : BeginFlush(how)
  \/ EndFlush \/ Crash

Spec == Init /\ [][Next]_vars
=============================================================================
