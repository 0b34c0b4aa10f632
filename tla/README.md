# riotstore in TLA+

riotstore is a storage engine for large arrays and matrices: a C++ library,
single-threaded, that a client links and calls synchronously. These modules
model its paged storage, from the page replacer to the array and the B-tree
with its batch buffers, as state machines; TLC checks them on small instances,
and TLAPS proves the central results of the lower layers, of the array, of the
leaf with its splitters and of the batch buffers for every size, under the assumptions
section 5 names. The references below are to `src/`.

## 1. The system

```
        MDArray (array/)             expr/, test/: clients and benchmarks
           |  linearizes coordinates to keys
     LinearStorage
      /          \
DirectlyMappedArray   BTree (+ batch buffer, splitters, cursor)
      \          /
     BufferManager  ----  LRUPageReplacer
           |
     BitmapPagedFile  ----  one operating-system file
```

| Component | State | Operations | Hard behaviour | What makes it correct |
|---|---|---|---|---|
| `LRUPageReplacer` (lower) | a circular doubly linked list through the page records, a sentinel, a counter | `selectToReplace`, `add`, `addback`, `remove` | a record linked twice or unlinked twice; `addback` does not count | the links stay inverse; the list is a queue of the unpinned slots |
| `BitmapPagedFile` (lower) | the allocation bitmap and `numContentPages` in memory; the file: length, bitmap header, pages | create/open, `allocatePage`, `allocatePageWithPID`, `disposePage`, `readPage`, `writePage`, `flush` | crash between the two writes of `flush`; reopening; the last bit of the bitmap; re-creating over an old file | no page handed out twice; the bitmap on disk describes a file that exists; only `writePage` changes content |
| `BufferManager` (lower) | an array of page records (pid, dirty, pins, image), the hash table pid -> slot, the block objects, the replacer, the file | `allocatePage`, `allocatePageWithPID`, `readPage`, `readOrAllocatePage`, `disposePage`, `pinPage`, `unpinPage`, `markPageDirty`, `flushPage`, `flushAllPages`, `getBlockObject`, `freeBlockObject` | a failure in the middle of an eviction; hits on pinned and unpinned pages; a crash in the middle of a flush | hash and records agree; pinned pages stay; no slot is lost; what is clean is on disk; no stale block object |
| `DirectlyMappedArray`, `DMABlock` (directly_mapped) | header page with the element count, one page per block of consecutive keys | `get`, `put`, `batchGet`, `batchPut` (three forms each), `flush` | the batch put of a range overwrites whole blocks and does not mark cached ones dirty; the header's count is not marked dirty | the array is the map its callers wrote; `nnz` counts its non-default entries, also after reopening |
| `BTree`, `Cursor` (btree) | header page, a tree of pages, leaf chain, the cursor's path of pinned pages | `search`, `get`, `put`, `split`, `batchGet`, `batchPut`, `flush` | a split that reaches the root; the leaf chain; pins taken and dropped along the path; bounds of cached block objects | keys stay in order and inside their bounds; every leaf is on the chain; pins balance |
| B-tree blocks | sparse leaves (sorted cells), dense leaves (a circular buffer), internal blocks | `get`, `put`, `putRangeSorted`, range get, `canSwitchFormat`, `truncate`, loading | the segment of a dense leaf wraps and is tightened; the entry that overflows is in no page; the switch between formats | a leaf is the function from keys to data that was put, and so are the halves of a split |
| Splitters | none | choice of a split point and of the halves' formats for the M, B, S, T, R policies | boundaries at the first and last entry; unsigned bounds | each half fits the format chosen for it |
| Batch buffers | pending entries by key, remembered pages with their counts or times | `put`, `find`, `flushAll`, eviction policies | duplicates; remembered counts; leaves that split under them; batch operations that go past the buffer | tree + buffer is the map that was put; a policy evicts what its name says |
| `ExternalSort`, heap | runs on disk | sort, merge | run boundaries | the output is the sorted input |
| `MDArray`, iterators | linearization, storage | element access, dense and sparse kernels | none of its own | linearization is a bijection onto the keys |
| Linearizations (row, column, block-based) | dimensions | `linearize`, `unlinearize`, `move` | partial blocks at the edges | inverse of each other and in range |
| SparseMatrix, parsers | input files | calls a vendored solver, parses Matrix Market and RB files | I/O | - |
| Config, common | constants | - | - | - |

The callers of the buffer are the two storages. The B-tree takes pages with
`allocatePage`, so the file chooses their pids; the array asks for the pid its
block number gives, with `allocatePageWithPID` and `readOrAllocatePage`. Both
hold a page pinned while they use it and give it back with `unpinPage`. There
are no threads, callbacks or messages: the interleavings that matter are those
of successive calls, of several holders of one page, and of a process that
dies between two writes and another that opens the file it left.

The hazards of the whole system are listed, with the line where each bites, in
`PROJECT.json`; the properties below are aimed at them.

## 2. What is modelled

### LRUList, LRUQueue, LRUPageReplacer

`LRUList` translates `LRUPageReplacer.cpp` assignment by assignment: a record
of the two link functions `next` and `prev` over the slots and the sentinel
`HEAD`, and the counter modulo `CountMod` (the code's `size_t`). `NULL` is the
null link of a record that is on no list, and `CanUnlink` is the condition
under which `remove` follows no null link. `LRUPageReplacer` makes a state
machine of these operators, under the protocol of its only caller: a record is
added when it is on no list and removed when it is on one. `LRUQueue` is what
the class comment promises, a sequence of waiting records; the pointer list is
shown to implement it with the walk along `next` as refinement mapping.

### BitmapFile, BitmapPagedFile

`BitmapFile` has one operator per method of `BitmapPagedFile`: the result code,
and the next value of the in-memory object (`size` = `numContentPages`, the set
`bits` of allocated pids) and of the disk (`size` in pages, `header` = the
bitmap last written, `page` = the images). The bitmap is a set of pids, so the
search for a zero bit is "the least free pid". The length arithmetic
on opening is in words of `WordMod` values, because it can wrap.
`BitmapPagedFile` makes a state machine of it: `flush` is two actions, its two
writes, and the process may die before, between and after them. The
constructor's CREATE mode runs over whatever file is there and clears the
bitmap in memory only.

### BufferManager

`BufferManager` EXTENDS both operator modules. Each action is one public method
with the calls it makes to the replacer and to the file in the code's order.
The shared steps of the methods are operators: `HitPage`, `NoVictim` (every
slot pinned), `VictimStuck` (the victim cannot be written), `Load`
(`replacePage` and the new page), `Recycle` (the emptied slot goes back, with
`addback` or `add` as the method has it). `flushAllPages` is one action per page,
in any order (it iterates over a hash table), then the two writes of the file's
flush; the destructor is the same sequence followed by the end of the process.
`Crash` may come anywhere. The callers are the choice of the next call; they
are assumed to keep the protocol of handles (only a pinned page is written,
marked, pinned again, flushed or unpinned). The write of an image and
`markPageDirty` are one step here, as in the block classes' ordinary put;
what callers that forget the mark lose is the subject of `DirectlyMappedArray`.

`HitUnlinkedPage` is the crash the code runs into when a page is hit whose
eviction failed earlier: the record has null links and `remove` follows them.

`PageStore` is what a client is promised, without slots, pins, dirty bits or
hash table: allocated pids, current contents, and the contents that may be
found after a crash: for each page one of those it has had since the last
completed flush. `BufferManagerHistory` adds to the buffer the history variable this needs,
and the mapping under which the buffer implements `PageStore`.

`PagePool` has the operators of a second, finer view, the one the storages are
written against: a page is in the pool or not, and a cached page has an image
and a dirty bit; slots, pins, hash table and list are gone. `PagePoolSpec` makes
a state machine of them and `BufferManagerHistory` maps the buffer to it.

### DirectlyMappedArray

The array in terms of `PagePool`, so a page may be evicted whenever it is not
pinned. The image of the header page is its one changing field, `nnz`; the image
of block `p` is a function of `Cap` offsets. `get`, `put` and the batch gets are
one action each. The three batch puts are one action per block (`BatchPut`,
`BatchPutVector`, `BatchPutRange`), with the entries still to be put in `job`, so
that an eviction or a crash may come between two blocks. What `DMABlock` does to
an image, what it adds to the count and whether it marks the page are operators
of their own (`BlockBatchPut`, `Change`, `Altered`): the count is added to the header
image without a mark, and a range is put without a mark or a count, as in the
code. The arithmetic of the batch gets (grouping by page, how far the output
pointer moves over a missing block) is translated, not summarised.

The pool's capacity is left out: an operation has the header and at most one
block pinned, and the buffer is assumed to have two slots at least
(`dmaBufferSize` is 10 unless configured), so a page can always be loaded. `Crash` before the first flush leads to a new, empty array, since
nothing on disk says that there was one.

`Careful` says which callers there are. Careless ones call anything; careful
ones avoid three things (section 4): they give `batchPut` no page
of default values only, put ranges where there are no blocks yet, and get
ranges where the blocks exist. Keys are in the array except where the code
checks them.

### LinearStore, ArrayStore

`LinearStore` is the promise of `LinearStorage.h`, the interface of all storages:
a map; every form of get answers from it; a batch takes effect a prefix at a
time; a put out of range changes nothing. It has the map, the entries of the
current batch still to be put and the last call. `ArrayStore` EXTENDS it with what a
storage in a file promises of crashes: each key has one of the data it had since
the last completed flush. The array is shown to implement `ArrayStore`
(`DirectlyMappedArrayHistory` has the history variables and the mapping), the tree
and the tree with a batch buffer to implement `LinearStore`.

### LeafRules, DenseLeafBlock, SparseBlock, LeafBlock, LeafStore

`LeafRules` says of a leaf's entries, a function from keys to data, when they fit a
format, what `put` answers, where each splitter may cut and which formats the
halves get (`SplitTypes`, whose unsigned differences it keeps; where it gives up, the
halves get whatever the types were, `TypesUsed`). `HalvesFit` says for which
capacities and splitters it never gives up. `DenseLeafBlock`
is `BtreeDenseLeafBlock.cpp` index by index: the circular buffer of cells with
`headIndex`, `tailIndex` and `nEntries` on the page and `tailKey` derived when an
object is built, the extension and tightening of the segment, and `truncate`.
`SparseBlock` has the sorted cells of sparse leaves and internal blocks; the binary
search is its result. `LeafBlock` puts both behind one machine that follows a
leaf through the calls `BTree` makes: puts, the switch of format or the split
a put asks for (and then either half), gets, range gets, and the loss of the block
object with the page. `LeafStore` is the same leaf as a mere function,
split by the rules: `LeafBlock` implements it, and the tree builds on it.

### BTree

One leaf of `BTree` is an element of `LeafStore`: type, entries and next leaf; an
internal block is a sequence of separators and pids. The code's mutations inside
a call are written over the record `Tree` of the state a call works on: `Searched`
moves the cursor (up the old path, then down), `PutHelper` puts, switches the
format or splits, `Attach` is one turn of the loop in `split`, `GrowRoot` its
end, `Closed` the cursor's destructor. Every pin and unpin is there. `put` and the
gets are one action; a batch put is one action per entry, with the
cursor kept from one to the next. Internal blocks are split in the middle, by M, the
default (`Config.cpp`).

The bounds of a block live in its object only. `bounds` has those that differ from
the bounds the path gives: a range get builds objects with bounds (0,0) for the
leaves in the middle of the chain, and they stay until the page is evicted
(`Evict`). Whether a page is cached matters nowhere else, so the buffer is not in
this module. `Careful` callers keep away from two defects (section 4): they
get ranges only where the leaf chain is whole, and while stale bounds
are about, the keys of a batch ascend.

### BatchBuffer

A tree with a batch buffer: `put` goes to the buffer, which when full lets its
policy choose groups of entries to write, a group being what lies within the
bounds of one leaf (`Located`, with the shortcut for a nearly full tree). LG_RAND
locates each group after it has written those before it: `Walks` takes it along the
pending entries one group at a time (`Turn`), with the cuts and the count of leaves
that the writes have made by then. Of the
seven policies of `initBatching` six are in one module, FWF, LS, SP, LRU, LS_RAND and
LG_RAND, told apart by `policy` in `Evictions`, `IsFull` and
`Remembered`. The tree below is the map that `BTree` was shown to implement, and
the lower bounds of its leaves: a write may split the leaves it goes to.
Duplicate keys, free slots, the counts of the remembered pages (`pids`), LRU's
pseudo-timestamp and LS's heap (any largest page may be its root) are as in the code.
`Careful` callers put no key that is pending, use the batch calls over an empty
buffer, which they bypass, and have the B splitter, whose cuts `locate` assumes.

## 3. The runs

| Run | Instance | What it shows |
|---|---|---|
| `lru` | 4 records, counter modulo 8 | links mutually inverse, forward and backward walks agree, the list implements the queue |
| `file` | 3 content pages, 1 header page, words modulo 5, two images | the bitmap is bounded by the extent, in memory and on disk, through crashes; only writes change pages; an allocation is fresh; "out of space" means a full bitmap |
| `buffer` | 2 slots, 2 content pages, 2 pins per page, two images; `allocatePageWithPID` inside the bitmap; disposal by the holder of a single pin | hash, list, block objects and dirty bits are right through misses, refusals, flushes, crashes and restarts; pinned pages stay; the buffer implements `PageStore` and `PagePoolSpec` |
| `buffer_edges` | as above, callers may name the first pid past the bitmap | what still holds when a page enters the pool that the file will refuse: no other failure loses a slot |
| `file_reopen` | as `file` | violated: `numContentPages` is at most the bitmap's length |
| `array` | two blocks of two keys, the last key outside the array; data 0 and 1, batches of up to two entries, `nnz` modulo 8; careful callers | the array implements the map in all forms of get and put, through evictions, flushes, closings and crashes between the blocks of a batch; `nnz` counts the entries of a process that created the array |
| `array_range` | as `array`, careless callers | violated: a range leaves alone what it does not cover |
| `leaf` | sparse leaves of 3 entries, dense ones of 5 cells, keys 0 to 8, splitters M, B, T and any other choice | a dense leaf's indices and counts stay right and survive reloading; no entry is left over by a split or a switch of format; leaf and halves hold what was put |
| `btree` | leaves of 2 entries or 3 cells, internal blocks of 2 children, keys 0 to 4, batches of 2, every leaf splitter, with and without dense leaves; careful callers | the tree is sound, the cursor is a path through splits and new roots, pins balance, stale bounds harm no answer, `nnz` follows the entries, the tree implements the map |
| `btree_chain` | as `btree`, M splitter, careless callers | violated: a range get finds every entry of the range |
| `batch` | buffers of 3 entries, six policies, two remembered pages, keys 0, 1, 5 and 8 of 10 and one out of bound, leaves cut at multiples of 2; careful callers | size, free slots and page counts are right; each policy evicts what its name says; buffer and tree answer like one map |
| `batch_newest` | as `batch`, FWF, careless callers | violated: a put sets the datum |

The bounds. Four records are the least with a record that has two neighbours
other than the sentinel on either side of the removed one. Three pages allow a gap left by
`allocatePageWithPID`, a disposed page before it and a file that ends in front
of it. Words of five values are the least that hold every legal extent and
still tell a wrapped one from it. The replacer's counter wraps modulo 8 in
`lru`; nothing in the buffer reads it, so the other runs collapse it (modulo 1). Two slots and two pages, with the pages the
file would refuse, give hits, misses that evict a clean and a dirty page, a
miss with all slots pinned and one with a pinned and a free slot; two pins
tell the first unpin from the last. Of the images `HeaderImage`, the bytes of
the bitmap that `flush` writes as filler, is one and arbitrary user data the
other. The configurations of the buffer use a VIEW that forgets `result`
in states where no action reads it, which merges states with the
same future; the properties that look at `result` only do so in steps, on the
value the step has just set. The view of the arrays' runs forgets `call` for the
same reason, and the value of `nnz` in the states where nothing is claimed of it:
no guard reads it. Three keys in blocks of two give a full block, a
block that the array's end cuts, ranges that begin or end inside a block, and
batches of two entries that stay in a block, cross into the next, or name one
key twice.

Of leaves of three entries and five cells half of what overflows a dense leaf
still fits a sparse one, as with the default capacities, 511 and 1021 (`Config.cpp`);
with 500 and 1000, which `riotrc` has, the splitters M and T differ (section 4).
Nine keys leave room on either side of a full dense segment, so
that it wraps and is tightened at both ends. In `btree` five keys in leaves of two or
three and internal blocks of two children give trees of up to four levels, splits that
stop in the middle and splits that reach the root, split leaves with stale bounds, and
batches whose second search climbs the cursor by every number of levels. Pids are
names there: the view sees the tree they span, the chain and the stale bounds by
their lower keys. Counts modulo 16 do not wrap in a tree of five keys.
In `batch` the keys 0 and 1 share a leaf that the B splitter cannot cut, 5 and 8
are in others once it has cut, and a leaf of several cells can hold 5 and 8 or 1 and 5
when LG_RAND's eviction splits another one before it; the tree is nearly full
for `locate` after two splits, so that computed and searched bounds both
occur. Three pending entries and two remembered pages are the least with a page that
is not remembered while others are. `LSBytes` makes LS full with three
pages, or with three entries in two pages. LRU's times are seen as ages; `MaxTime` bounds
its puts between two openings. Six are enough for two evictions in a row and for the page
that would go first if remembered times were one put later still. LRU's times compare a
remembered page, which has the time after its last put, with pages that have the time
of theirs: `EvictsAsNamed` lets a page that was put to once it was remembered
(`Late`) count as used one put later, and no other.

`CHECK_DEADLOCK` is left on everywhere.

All specifications are safety only. The library runs when it is called: no
thread, timer or queue of its own obliges it to do anything later, so there is
nothing for fairness to be about and no liveness property is claimed.

## 4. Findings

* `file_reopen`: `BitmapPagedFile.cpp:71` computes the number of content pages
  of an existing file as its length minus the header, unsigned. A process that
  dies before its first flush leaves a file shorter than that, and the next
  one takes it to have about 2^32 pages.
* `array_range`: `batchPut` of a range (`DirectlyMappedArray.cpp:325-344`) takes
  every block as new, "since they are overwritten anyway". A block that the
  range covers in part and that is not cached loses the rest.
* `btree_chain`: `split` (`Btree.cpp:330`) makes the new leaf the successor of the
  old one, and the new leaf has none: what came after the old leaf is off the chain,
  which the range get follows. A switch of format (`Btree.cpp:580`) cuts
  the chain in the same way.
* `batch_newest`: the buffers keep their entries in a set ordered by key
  (`BatchBufferFWF.cpp:20` and the same in SP, LRU, LS_RAND, LG_RAND), which
  refuses a second entry of a key. The older datum stays; the entry is counted
  all the same, and a policy with slots has lost one.

Other observations, which no run is about; `Careful` callers or an assumption keep
the runs away from those that matter to them:

* Lower layers. `disposePage` (`BufferManager.cpp:175-193`) is to be called with an
  unpinned page, says its comment, and then adds a page to the replacer's list that
  is on it; no code in `src/` calls it. `flushAllPages` (`BufferManager.cpp:352-373`)
  overwrites the failure of one page by the success of the next. `addback` does not
  count (`LRUPageReplacer.cpp:36-42`), so the replacer's size drifts.
  `BitmapPagedFile.cpp:36` says the smallest available pid is assigned, while
  `allocatePage` extends the file first and looks for disposed pages only
  when the bitmap is at its end.
* The array. A range get over a missing block writes a whole block of zeros
  (`DirectlyMappedArray.cpp:166`). `batchPut` (`DirectlyMappedArray.cpp:274, 299`) drops a page's
  entries when all of them are the default value, so a batch of zeros does not
  clear; `LinearStorage.h:92` promises to put each entry. `nnz` changes in the
  header's image, which is not marked dirty (201, 232, 277, 302): after the
  first flush later counts never reach the disk. The branch at 224 is dead.
* The tree. `put` returns `kOverflow` or `kSwitchFormat` after it has split or
  switched (`Btree.cpp:282, 316`), which `MDArray::put` (`MDArray.cpp:309`) reports
  as out of range. Objects built with bounds (0,0) by a range get (`Btree.cpp:537`)
  stay cached: a batch whose keys descend leaves such a leaf for a sibling
  without its cursor's parent. `nLeaves` starts at 2 for one leaf
  (86, 98). `print` and `locate` leave pages pinned (410, 202). The splitter 'B' of
  the default configuration (`Config.cpp:35`) is called 'A' by the factory
  (`Splitter.h:172`). M and T ignore the result of `splitTypes`, which may find no format
  (`Splitter.cpp:88`). With the default capacities it always finds one (section 5). With
  `riotrc`'s 1000 and 500, which `Config.cpp:57-60` accepts like any others, a dense leaf
  of 1000 entries may overflow by one into a half of 501 that is too wide for the other
  format: the types are then what was on the stack, and the half loses an entry. TLC
  finds it at capacities of 6 and 3, for M and for T. `riotrc` itself has the
  splitter A, which looks for a cut that has formats and finds one there too. `del` of a dense leaf asserts that the index of
  a cell is below the number of entries (`BtreeDenseLeafBlock.cpp:175`), which a
  segment with gaps does not keep to; the model goes on, as a build without
  assertions does.
* The batch buffers. `locate` computes bounds that only the B splitter respects
  (`Btree.cpp:191-198`). An eviction of LG_RAND may write part of what
  one leaf has pending: once the splits of the groups before have nearly filled the tree,
  `locate` answers cells instead of leaves, and one group becomes several with sizes of
  their own (`BatchBufferLGRand.h:88`, `Btree.cpp:194`). Nothing is lost by it. The comment at `BatchBufferSP.h:103` speaks of the
  largest count where the smallest is evicted. LS writes the older of two
  entries of one key last (`BatchBufferLS.h:190`), and its `flushAll` uses an iterator after
  the erasure of its node (199). SP's capacity, less what the remembered pages cost,
  can fall below zero. LG does not update the counts it remembers.

## 5. What is proved

Proofs are in the `*Proofs` modules, for every value of the constants that
satisfies the named assumptions of the modules.

* `OperatorProofs`: lemmas on the operators several components are built from. Those of
  the list (`Add`, `AddBack`, `Remove`): each keeps the
  links mutually inverse and changes `Listed` by exactly its record. Those of the file:
  what every method does to bitmap, extent and images. Those of the leaves: what a
  put answers, and that every splitter cuts an overfull leaf into halves that hold an
  entry and fit the formats `splitTypes` gives them (`OverflowSplits`), for the
  capacities that `HalvesFit` allows the splitter.
  The modules below EXTEND it, and so declare the constants of `LRUList`, `BitmapFile` and
  `LeafRules`, also where only some of them matter.
* `LRUPageReplacerProofs` makes of the lemmas on the list `TypeOK` and `LinksInverse` as
  invariants for any number of records, and then `WalksAlwaysAgree` and
  `ListImplementsQueue`. For these a sequence represents the list when it names the
  listed records once each, every link leads from one to the next, and the
  sentinel stands at both ends: each operation of the list is the queue's
  operation on that sequence, and a walk along the links in either direction meets
  it in order (`WalkMeets`). The records are finitely many (`SlotFinite`;
  BufferManager.cpp:44 allocates an array of them).
* `BitmapPagedFileProofs`: type correctness and all the
  properties of the run `file`. The inductive invariant relates the bitmap in memory
  with the extent, the bitmap on disk with the file's length and the images
  beyond the end of the file with zero: the middle part is what makes reopening after a
  crash safe, and it needs the order of flush's writes.
* `BufferManagerProofs`: the inductive invariant `Inv` joins the types, the
  agreement of hash and records, the soundness of the list, which slots may be
  off it, the freshness of block objects and the bounds of the flush in progress. None of
  these is inductive alone: the list is needed to know that a victim is
  unpinned, that to know that a handle's page stays, the hash to know that a
  page to be loaded is in no other slot. One lemma per action. The theorems:
  `HashAlwaysMatches`, `OnlyRefusalsLoseSlots`, `ObjectsStayFresh`,
  `HeldPagesAreSafe` and `TypeCorrect`, provided callers dispose only pinned
  pages (`0 \notin DisposePins`: with the disposal of an unpinned page a record would be
  listed twice, section 4); and
  `CachedStaysAllocated`, `UnpinnedStayListed`, provided also that callers name
  only pids of the bitmap (`OverwritePIDs \subseteq Page`; the run
  `buffer_edges` shows the states this excludes).

  The second part of the module has what the buffer promises its clients, from
  `HInv == Inv /\ PoolSafe /\ FileSafe /\ RecentSafe`. `Inv` is the buffer's own
  invariant. `PoolSafe` reads the buffer as a pool: what is cached is allocated,
  and a clean frame that no failure has leaked is the page on disk. `FileSafe`
  is what the file lacks: an allocated page it does not reach is leaked or
  dirty, a flush in progress has still to visit what is dirty, and nothing is dirty
  once it writes the header. `RecentSafe` says that the history variable holds what
  is seen and what a crash would bring back. The proof has two halves: a step of
  the pool keeps `PoolSafe` and changes what is seen only as the store allows; and
  every action of the buffer is a step of the pool. The theorems:
  `CleanPagesOnDisk`, `BufferImplementsPool`, `BufferImplementsStore`, for the callers of
  the last two theorems above, with `ContentAssumption` and `FrameAssumption`.
* `DirectlyMappedArrayProofs`: `TypeCorrect`, `NnzAlwaysCounts` and
  `ArrayImplementsStore`, the last for `Careful` callers (careless ones lose data,
  section 4), with all forms of get. The inductive invariant `AInv` has the
  types; that a cached block is allocated; that a clean block is the page on disk when
  callers are careful or the count is trusted; that `nnz` is the size
  of the map while it is trusted; that what is left of a range lies on pages
  without a block, without which the next block of the batch would wipe out
  entries; and that `recent` has what is seen and what a crash would bring back. The
  proof takes the effect of each action on frames and map first, then `AInv` action by
  action, then the loops of the gets, then the refinement. The loops are recursive
  functions over a bounded index: a lemma (`UpTo`) takes the least index at which a
  claim fails, which replaces the library's induction theorems.

* `BatchBufferProofs`: the four properties of the run `batch`, for `Careful` callers
  (careless ones lose data, section 4) and any capacity, number of remembered pages
  and set of keys: `TypeCorrect`, `CountsAlwaysMatch`, `AlwaysEvictsAsNamed` and
  `BufferedTreeImplementsStore`. The inductive invariant `BufferInv` takes the
  pending entries as a set. What makes it inductive is what it says of bounds
  (`BoundsFit`): those of a remembered page were a leaf's when they were taken, and
  either are cuts of the tree still or, once `locate` computes bounds, multiples of
  `Boundary`. Bounds that fit go on fitting when leaves split (`BoundsLast`), and two
  that fit never cut each other (`LocatedApart`): the groups are disjoint
  (`GroupsFit`), and so are what a policy writes and what it remembers
  (`EvictionFits`). The loop of SP and LRU along the pending keys is a recursive
  function whose invariant (`Walked`) gives the lightest page (`LightestIs`), with
  SP's early stop. LS needs one fact more: each of its entries is in one of its pages.
  LG_RAND's walk has an invariant of its own (`WalkFits`): the entries passed are to be
  written just when the group in which they were met has the size class, and as long as
  the tree is not nearly full the new cuts lie below every entry to come (`Ahead`), so
  that their leaves are whole. It ends in `WalksFit`: what is written depends only on the
  cuts there are in the end, as `EvictsAsNamed` says it (`MetWith`).

* `LeafBlockProofs`: the four properties of the run `leaf`, for every tree and set of
  data: `TypeCorrect`, `AlwaysSegmentSound`,
  `NothingEverOverflows` and `LeafImplementsStore`. All four have the hypothesis
  `HalvesFit(Splitter)`, which the code does not enforce. For the splitters A (the source's B), R and S
  it only says that a sparse leaf holds no more records than a dense one. For M and T
  it adds that half of an overflowing dense leaf fits a sparse one
  (`DenseCap < 2 * SparseCap`: the default capacities, 1021 and 511, but not `riotrc`'s
  1000 and 500), and for T that its threshold is at least one half (it is 0.7).
  The assumptions on the constants ask for positive numbers and no more. The inductive
  invariant is `IInv`: the block is `LeafGood`, nothing is left over, the bounds are
  in order, and a tree without dense leaves has none. `LeafGood` is stronger than
  `SegmentSound`: a dense block's tail index is its head index plus the length of
  the segment, around the end, and an overflow entry lies on the far side of a
  tightened segment; a sparse block's cells ascend within its bounds. Every operation keeps it
  and does to the entries what `LeafRules` says: extension at either end with
  tightening and clearing, deletion, truncation with the overflow entry on either
  side of the cut, filling a new block entry by entry, reading a page again. What makes
  a split safe is `SplitSound` (in `OperatorProofs`): both halves hold an entry and fit the formats
  `splitTypes` gives them. It is proved for each splitter on what can overflow
  (`Overfull`: one key too many, and no other format that would do). The hard
  ones are T, where a half that is dense enough leaves too few keys for the other to
  overflow (`LowerSplit`, `UpperSplit`), and B, where the search finds a multiple of
  the capacity between two keys before it runs out of keys (`BoundaryExists`), as the
  overfull leaf spans more than the capacity.

* `BTreeProofs`: the six properties of the run `btree`, for `Careful` callers (section 4)
  and any number of keys, capacity of internal blocks, set of splitters, length of
  batch and width of the counters: `TypeCorrect`, `AlwaysSound`,
  `CursorFollowsTree`, `PinsBalanced`, `CountsFollow` and `StoresMap`. They follow from
  `TreeInvariant`, and it from `TreeAssumption` and from `SplitterAssumption`, which is
  `HalvesFit` of the tree's splitters: the tree keeps a leaf as its entries, and entries
  without a format have no place there.

  The tree is read from the bottom up. A layout `pl` gives each page a level and its
  true bounds (`Settled`): bounds of pages on one level do not overlap, a
  block's cells are the lower bounds of the pages they name, each of which ends where
  the next begins, every page but the root is named by a cell, and a leaf's successor
  begins where the leaf ends. That there is such a layout says all that
  `TreeSound` says, level by level, and unlike `TreeSound` it is stated without a
  walk from the root, so that a split disturbs few of its parts.

  Objects and cursor levels may have other bounds than the layout's, which is the
  hard part of the code: a range get leaves (0,0), a later split through such an object
  gives bounds that begin too low. The invariant says how wrong they may be
  (`BoundsGood`): an object's lower bound is at most the true one, its upper
  bound is the true one or 0; only leaves have such objects, and never the root. And it says whom
  they may not hurt: the cursor is good for the keys that are still ahead in the batch
  (`Ready`), which with stale bounds about ascend (`SafeOrder`). A leaf with stale
  bounds claims no key of another leaf but keys below its own, and ascending
  keys have left those behind when the cursor stands on it.

  A split is a loop upwards in which the tree is broken: a page `n` holds the upper part
  of a page `o` and no block names it yet, or a block `x` has a cell too many. `Laid`
  has the layout of such a tree, with `o`, `n` and `x` as parameters. Lemmas go from a
  settled tree to the split leaf, from each turn of `Attach` to the next, and from the
  last one, in a block with room or a new root, to a settled tree. The levels of the cursor and the
  pins change along: what is pinned is the path, the new block, and `temp` no more.

  The refinement then needs the entries only: a put changes what is stored at its key
  and nowhere else, since a split moves entries and pages of one level do not share a key;
  a search ends at the only leaf whose bounds hold the key; and a range get whose chain
  reaches the last leaf (`ChainReaches`) passes every leaf in between, as the
  chain goes from end to beginning. Its answer ascends, since the leaves do.

Only model-checked: that the code departs from its documents (section 4). Each of those
runs ends in one behaviour.

Liveness, ENABLED and RECURSIVE operators are out of the prover's reach, and so
are the library's induction theorems, whose parameters are operators. What a
recursive function over a bounded index computes is proved with the lemma
`UpTo` above.

## 6. What is not modelled, and why

* Short or failing `pread`/`pwrite`: the operating system writes whole pages
  (the code answers OK in either case; listed as a hazard).
* The bits inside the words of the bitmap: a set of pids. The scan word by word
  is `findFirstZeroBit`'s arithmetic and is represented by its meaning.
* `totalPinCount` and the printing functions: nothing else reads them.
* `LinearStorage::fromFile`: dispatches on a type field.
* `lib/SuiteSparse` is vendored; `expr/` and `test/` are clients; the parsers
  and `SparseMatrix` are I/O around the vendored library.
* `put` with a key past the end of the array, which the code does not check; no
  caller does it.
* `DMADenseIterator`: only a test makes one, and its block handling (it deletes
  objects that lie in the pool's memory) is undefined behaviour.
* A crash of a process with an open tree: the pages of a tree reach the disk in
  any order and the header does so only when marked, so nothing is promised
  of the file then. The tree's own runs close and reopen.
* The criteria by which the R and S splitters choose among the legal split
  points (floating-point ratios and expected values): any legal point is allowed.
* `flushAll` of LS, which uses freed memory; LG, whose remembered counts go
  stale; LPALL, which nothing creates.
* `ExternalSort` sorts files of records and has no caller in `src/`; the heap is
  represented by the choice of a largest element.
* The linearizations are pure arithmetic on coordinates, without state (only two
  dimensions are instantiated, `Linearization.cpp:35`), and
  `MDArray` is numeric kernels over a storage: its get and put are those of the
  storage at the linearized key.
* Dead code: the sparse iterator and the B-tree iterator (`createIterator`
  returns NULL).

The share of the repository's lines that the modules stand for is small
because nearly all of its lines are the vendored SuiteSparse: the storage engine
itself (`src/lower`, `src/directly_mapped`, `src/btree`) is a few thousand lines, and most of
its state-changing code is modelled.

## 7. Plan

The replacer, the file, the buffer, the array, the leaf, the tree and the batch
buffers are modelled, checked and proved: every property of a run that passes is a
theorem, with the callers and the assumptions named in section 5. What could be added:

1. What the tree promises to callers that are not careful, short of the defects of
   section 4: its order, its pins and its counts do not depend on the leaf chain.
2. The tree over `PagePool`, with its pages in the cache and on disk, to say what a
   process that dies leaves of a tree.
3. The linearizations, as lemmas in two dimensions.
