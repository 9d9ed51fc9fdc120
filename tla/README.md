# A TLA+ development for oo-alloc

oo-alloc is a C++ library of memory allocators behind one interface,
`IAllocator`. Nothing in it runs concurrently and nothing is persisted. What is
hard is that each allocator keeps its metadata in the memory it hands out, in
words it reads back much later, and that clients call `alloc_raw`, `free_raw`
and `clear` in any order. The models here ask whether, after every such
sequence, the metadata that will be read is still what was written, memory is in
one client's hands only, and nothing is lost; and where sums of sizes wrap.

## Inventory

| Part | State | Operations | What makes it correct |
|---|---|---|---|
| `utils` | none | `align_up`, `calc_pad`, `page_size`, `os_alloc`, `os_free` | rounding is exact; wrapping is known |
| `IAllocator` | none of its own | `alloc_raw`, `free_raw`, `clear`, `capacity`, `owns` | live memory is aligned, in the region, disjoint |
| `make`, `destroy` of `IAllocator` | the calls in progress | construct in place, unwind when a constructor throws, destruct and free | every allocation has one owner; constructors and destructors match; calls end |
| `ArenaAllocator` | region, offset | bump; free does nothing; clear | live memory lies behind the offset |
| `StackAllocator` | region, offset, a header word per allocation | bump, rewind to a header, clear | headers survive; the offset is the end of the newest allocation |
| `PoolAllocator` | region, chunk geometry, intrusive free list | pop, push, relink | a chunk is free or in one hand; links lead to free chunks; none is lost |
| `FreeListAllocator` | region, address-ordered free list, headers | first fit with split, insert and coalesce, reset | used and free blocks tile the region; no two free blocks touch |
| `BuddyAllocator` | region, a list per order, headers at block starts and below data | split cascade and pop, merge with buddies, reset | blocks partition the region; the header at a buddy's address is true; merging is complete |
| `SegregatedAllocator` | region, 25 buckets, bit mask, headers | split, push, lazy `coalesce_all` | mask and buckets agree; headers tile the region |
| `SlabAllocator` | caches of pages in three lists, mark in each page, base allocator | slot pop and push, page set-up, large requests to the base | a page's list follows its counter; a pointer is routed by a mark that is current |
| `RBTree` | colours, links, a shared sentinel | `insert`, `remove`, `find_best` | red-black invariants; best fit |
| `FreeTreeAllocator` | region, boundary tags, tree of free blocks | best fit with split, coalesce both sides, reset | tags agree; tree nodes are the free blocks; no two free blocks touch |
| `TrackingAllocator` | counters, a map of active allocations, the wrapped allocator | forwards and counts | counters are the sum of what is active below |
| `benchmarks`, `tests` | | | read for the statements they make |

Interactions. `SegregatedAllocator`, `BuddyAllocator` and the others own one
mapping each, from `utils::os_alloc`. `SlabAllocator` takes its pages and its
large blocks from another allocator, `TrackingAllocator` forwards every call to
one, and `FreeTreeAllocator` keeps its free blocks in an `RBTree`. Everything
else is a client calling through `IAllocator`.

`PROJECT.json` lists the hazards of this code line by line. The kinds that occur:
sequences of legal calls that would corrupt metadata, metadata that is stale when
read, sums and products at the edge of a word, tables indexed past their end, a
failure noticed after state was changed, and an exception halfway through an array
whose constructors themselves allocate.

## How the models are built

* **Words.** `std::size_t` and addresses are naturals up to `SIZE_MAX`, with the
  width `WORD_BITS` scaled down from 64. Sums the code lets wrap are written with
  `Wrap`. All sizes of structures (`sizeof(std::size_t)` = 8, headers of 4 and 16
  bytes, `MIN_BLOCK_SIZE` = 32, `SlabHeader` = 32) are the real ones; the word, the
  page size, the mapping's place and size, `MAX_ORDER`, the largest offset of a
  buddy header (`OFFSET_MAX` for `UINT16_MAX`), the largest back offset of the
  segregated allocator (`OFFSET_MAX` for `UINT8_MAX`), `NUM_CACHES` and
  `NUM_BUCKETS` are parameters. In
  the slab runs the largest cache is half a page, as in the build, so that its
  slabs hold one object; at 64 bytes it is twice the slab header, so that its slots
  are not aligned to their size, as in the build.
* **Memory.** `mem` holds the metadata words the allocator will read, by address.
  A client is taken to write all of the memory it was given; whatever is written
  over metadata removes it from `mem`. An address outside `mem` is data that no
  allocator code may read as metadata. This is the harder case wherever metadata
  has to survive. For the slab mark, which does harm by surviving, it would be the
  easier one: there the client's write is an action of its own (`client_write`),
  taken at any time or never.
* **The client.** `live` is the set of allocations the client may use: pointer,
  size and alignment asked for. A client frees only what is live, once, and uses
  nothing after `clear` or the destructor: the calls the library's interface
  allows. Every operation may follow every other.
* **Operations.** One action per operation, the whole of it: `alloc_raw` includes
  the header writes and the list updates, `free_raw` the coalescing. The early
  returns of `alloc_raw` are the guard `fits` (or `well_formed`), and `alloc_null`
  is the call that returns `nullptr`. Constructors are `Init`, with a mapping that
  may fail. `alive` becomes false in the destructor, after which nothing happens:
  this is why the configurations of allocators switch deadlock checking off.
* **Undefined behaviour.** Where the code reads or writes outside what it owns
  (an index past a table, a null tree, data past its block), `fault` is set and the
  model stops: nothing is claimed of what follows.
* **Mutants.** A definition named `x_Something` right before `x`, marked "Mutant",
  is `x` with a plausible mistake in it; the corresponding property fails with it.

## Modules

| Module | Models |
|---|---|
| `Utils` | words, `align_up`, `calc_pad`, the power-of-two test, `os_alloc` (external: `mmap`), allocations |
| `IAllocator` | the abstract allocator: what any client may rely on |
| `ArenaAllocator`, `StackAllocator`, `PoolAllocator`, `FreeListAllocator`, `BuddyAllocator` | the allocators of the same names |
| `SlabAllocator` | the slab allocator composed with `BuddyAllocator` as its base |
| `MCArena` | the arena for TLC, and `Utils` against the bitwise text of `utils.hpp` |
| `TrackingAllocator` | the tracking wrapper composed with the abstract `IAllocator` as its base |
| `SegregatedAllocator` | the allocator of the same name |
| `BestFit` | the abstract tree: what `FreeTreeAllocator` needs of `RBTree` |
| `RBTree`, `MCRBTree` | the red-black tree, shown to implement `BestFit`; its instance for TLC |
| `FreeTreeAllocator` | the allocator of the same name, composed with `BestFit` |
| `Objects` | `make` and `destroy`, composed with the abstract `IAllocator` |
| `Utils_proofs` and the modules `..._proofs` of the arena, stack, pool, free list, buddy, tracking and free-tree allocators | theorems |

Every module of an allocator that manages memory instantiates `IAllocator` as
`Contract` and has
`ContractSpec` checked as a property: each step of the concrete allocator is an
abstract allocation of aligned memory in the region and disjoint from all that is
live, an abstract free, a clear, the end, or nothing. `Lifo` is true for the
stack, which places each allocation above the ones before it and whose `free_raw`
ends the later ones as well. For the slab allocator the contract speaks of the
objects served from slabs (the others are the base's), and of alignments only up to
the 32 bytes that the first slot keeps: a larger alignment is not kept (see below).

Correspondence of state: variables named `m_...` are the members of the class.
In `FreeListAllocator`, `free_list` is the chain from `m_free_list_head`; in
`BuddyAllocator`, `m_free_lists[k]` is the chain of order `k`. The loop that
splits a block down and the loop that merges buddies are written in closed form
(`SplitLists`, `SplitHeaders`, `merged_order`): nothing can come between their
rounds. `lost` in the buddy model is the blocks that a refused request has popped
and nobody holds. `fault` records that `m_free_lists` was read out of range or
before it was set.

In `SegregatedAllocator`, `m_buckets[b]` is the chain of bucket `b`,
`m_active_buckets` the set of bits of the mask, `mem` the header at the start of
each block and `back` the byte in front of each allocation, truncated as the code
truncates it. Footers are written by the code and never read, and are left out.
The splitting loop is in closed form (`popped`); `coalesce_all` is a fold of its
passes, each of which merges at most one pair per bucket, as the `break` does. A
served request whose data ends past its block sets `fault`.

`RBTree` works on links, colours and the shared sentinel, whose parent field is
written by rotations and removals and stays stale, as in the code. Where the code
spells out the two mirror images of a case, the model has one with the side as a
parameter. `TypeOK` allows the sentinel's parent to name a node that has left, and
nothing else. `FreeTreeAllocator` uses the tree through `BestFit` only, where
any node of the least fitting size may be returned, so it does not depend on how
the tree breaks ties. Its `tags` are the headers and footers, its `back` the
pointers hidden in front of the data; headers that lie inside a block that was
merged or handed out leave `tags`.

`Objects` has the call stack as its state: a frame is a `make` that is
constructing, a `make` whose `catch` block is unwinding, or a `destroy`. A
constructor may call `make` for a child, which the object owns and its destructor
destroys; a constructor that throws gives back its child first, as a member with a
destructor would. The allocator is the abstract one of either kind: over a stack,
`OwnedOnce` checks that the order of unwinding never frees below something live.
`make<T>` and `destroy` of one object are the arrays of length 1.

`SlabAllocator` has the buddy allocator's state in its `base_...` variables and
calls `Base!alloc_raw` and `Base!free_raw` within its own actions. `header` is
what the start of a page holds as long as its bytes 30 and 31 read `SLAB_ID`. It
outlives the slab: the base's list links end at byte 24 of a block, its header of
an allocation covers the bytes of the mark only when the data begins right behind
them, and the client may free the block without having written it, or may hold one
that ends before the mark. A client is taken never to write that ID itself.
`free_raw` has three outcomes: `free_slot`, `free_to_base`, and `free_undefined`
for a page that is marked and is no slab, which sets `fault`. `clear()` frees many pages into the base: `clear` takes the
lists, `clear_slab` frees the next page, and no other action is enabled until the
last one is freed. A block that came from the base directly stays its client's
over a `clear()`, as in the code, which does not know of it.

`TrackingAllocator` sees its base only through the interface, so its base is the
abstract `IAllocator` of either kind (`lifo`), which may place allocations
anywhere its promise allows and refuse any request.

Abstractions to know of: in the buddy model the `prev` pointers follow from the
lists being sequences, and so they do in the slab and segregated models; what a
block held before it was split, handed out or
merged is dropped from `mem`, which is stricter than the code. The pool's
`chunk_align` is taken to be 0 or a power of two, as `utils.hpp` requires.

## Runs

| Run | Question | Bounds |
|---|---|---|
| `arena` | is what the arena hands out safe? is the modular arithmetic the masks of the code, and does it round as the comments say? | 8-bit words, 32-byte region at an address aligned to the page and not to the largest alignment, constructor sizes that are zero, ordinary and wrapping; the arithmetic over all pairs of words |
| `stack` | does the header chain survive frees in any order? | 64-byte region: up to four allocations, with and without padding |
| `pool` | is the intrusive list sound and complete? | up to 4 chunks, four geometries, failing and overflowing constructors |
| `free_list` | do used and free blocks tile the region, sorted and coalesced? | 160-byte region: up to 6 blocks of 24 to 56 bytes, rests too small to split, padding |
| `buddy` | do splitting and merging keep the blocks and their headers right, also when a request is refused after its block was popped? | 256-byte region, orders 0 to 3, up to 8 blocks; offsets of 64 and more do not fit a header |
| `slab` | do lists, counters and free slots agree, is what came out of a slab known by its page, is nothing lost to the base? | 128-byte pages with slabs of one and three objects, a 1024-byte base with room for two slabs, or a slab and direct blocks, which runs out; alignments of half a page and of a page; pages that were slabs and are used again |
| `tracking` | are the books right? | a 40-byte base, allocations of 8 and 13 bytes anywhere in it, a byte count up to `CURR_BOUND` = 60 |
| `segregated` | do mask, lists and headers agree through splits, frees and deferred merging, and does every pointer find its block? | a 128-byte region with `NUM_BUCKETS` = 3: up to four blocks of 32 bytes; a region of 256 bytes and some requests are above the largest bucket, and a region size wraps; back offsets of 64 and more are truncated |
| `rbtree` | is it a red-black tree with best-fit search after any insertions and removals? | every tree of up to 8 nodes, two of each size, so that ties occur; each address has one size |
| `free_tree` | do tags, tree and back pointers agree, and are free blocks always merged? | a 384-byte region: up to five blocks, both merges at once, blocks too small to split; a request whose rounded size wraps |
| `objects` | who owns what when constructors nest and throw, and do calls end? | arrays of up to 3 objects and counts that overflow, nesting up to `MAX_DEPTH` = 3, a region of five objects that runs out |

The bounds reach every guard on both sides, every split and consume case, both
merges at once, and complete exhaustion and recovery of the region; more bytes
add blocks of the same kinds.

One run expects a violation: `slab_stale` has the constants of `slab` and checks
`RoutedByOwner`, that a page with the mark is a slab, as `README.md:669` of the
repository and the comment at `SlabAllocator.cpp:101` say. The section on documents
below says how it fails.

In `rbtree` one size per address loses no tree: an address plays no part in the
code's comparisons, so a tree with other sizes at its addresses is one of these
with the nodes renamed, up to two nodes of equal size.

The properties, each stated in the comment above its definition:

| Run | Properties |
|---|---|
| `arena` | `Pow2IsMaskTest`, `RoundingIsLeast`, `LiveBehindOffset`, `ContractSpec` |
| `stack` | `HeaderChain`, `OffsetIsTop`, `ContractSpec` |
| `pool` | `FreeLinks`, `NothingLost`, `ContractSpec` |
| `free_list` | `SortedAndCoalesced`, `HeadersIntact`, `Tiled`, `ContractSpec` |
| `buddy` | `Partition`, `HeadersTrue`, `BlockHoldsData`, `MergesFully`, `ContractSpec` |
| `slab` | `SlabsTrue` (`ListsMatchUse`, `SlotsAccounted`), `NoLeak`, `SlabsRecognised`, `ContractSpec` |
| `tracking` | `BooksBalance`, `PeakIsHighWater` |
| `segregated` | `HeadersTrue` (`Tiled`, `PrevFreeTrue`), `BucketsTrue`, `DataInBlock` (`BackFindsBlock`, `BlockHoldsData`), `CoalescesFully`, `ContractSpec` |
| `rbtree` | `RedBlackTree` (`Linked`, `RedBlack`), `SearchTree` (`Reached`, `Ordered`, `FindsBest`), `BestFitSpec` |
| `free_tree` | `TagsTrue` (`Tiled`), `FreeSpaceTrue` (`TreeIsFree`, `NoFreeNeighbours`), `DataInBlock` (`BackPointers`, `BlockHoldsData`), `ContractSpec` |
| `objects` | `OwnedOnce`, `ObjectsMatchMemory`, `CallsEnd` |

`TypeOK` is a conjunct of `SortedAndCoalesced`, `Partition`, `SlabsTrue`,
`HeadersTrue` of the segregated allocator, `RedBlackTree`, `TagsTrue` and
`ObjectsMatchMemory`.
For the arena, the stack and the pool it is part of the proofs' inductive
invariants only.

### Fairness

One property is a liveness property: in `Objects`, `CallsEnd` says that every
`make` and `destroy` gets back to its client, whatever throws. It assumes weak
fairness of `Step`, the next step of the innermost call. The code justifies that:
a call runs on its caller's thread, which does nothing else until it returns. That
the constructors and destructors of the objects end is an assumption on the
client; so is that they do not nest without limit, which `MAX_DEPTH` bounds. Every
other operation is one action, a terminating call of one thread, and nothing
obliges a client to make another; the other specifications assume no fairness.

### Where the code and its documents disagree

The passing runs keep to requests for which the properties hold, or the properties
state the exception. What happens beyond that:

* Slab, stale mark (`slab_stale`): a slab is set up, `clear()` gives its page back,
  and the base places a block of a client in that page. `free_raw` finds the old
  `SLAB_ID` and takes the block for a slot of a slab that no longer exists. A short
  block aligned to a page begins at the page's start and ends before the mark, so
  that its client cannot write over it; with the build's numbers it takes
  `alloc_raw(8, 8)`, `clear()`, `alloc_raw(8, 4096)`. A block that covers the mark is
  misrouted for as long as its client has not written the
  mark's bytes. `SlabsRecognised`, in run `slab`, is the half of the statement that
  holds: a slot is always known as one.
* Slab, alignment: the first slot lies 32 bytes into the page, so no
  slot of a cache of 64 bytes or more is aligned to its size, and requests aligned
  to 64 and more are served from them, for instance `alloc_raw(64, 64)`. Run `slab` has such
  requests, and `ContractSpec` holds because it claims alignments up to 32 only.
* Stack: below alignment 8 the padding can exceed what the overflow
  check of `alloc_raw` leaves room for, and a request that is larger than the stack
  is served: with `CtorSizes = {40}`, `Sizes = {1, 246}`, `Aligns = {1}` in `stack`,
  `ContractSpec` fails.
* Free list: with sizes just below `SIZE_MAX` and alignment below
  8, rounding up wraps the required size to 0, which is what the header then says
  (`HeadersIntact` fails when `Sizes` has 490 to 495).
* Buddy, large requests: `size_to_order` adds the header a second
  time after the overflow check and calls `std::bit_ceil` beyond its domain, so that
  sizes above half of the address space get a block of order 0 (`BlockHoldsData` fails when `Sizes`
  has 1100). For the same reason
  a constructor asked for that half passes its check against `MAX_ORDER`; only the
  failing mapping stops it. An order of `MAX_ORDER` or more is used as an index
  (`alloc_undefined`).
* Buddy, lost blocks: a request whose offset does not fit the header is refused after
  its block was popped, and the block is lost until `clear()`. `MergesFully` has the
  condition `lost = {}` for it.
* Tracking around a stack: a free in the middle leaves the records of the newer
  allocations, so the exact part of `BooksBalance` has the condition `~lifo`.
* Segregated: with an alignment above 255 the back offset is
  truncated, and `free_raw` reads a header elsewhere (`BackFindsBlock` has the
  condition, `free_undefined` is the outcome).
* Segregated: the worst-case size counts the header byte and
  not the byte in front of the data, so a request at alignment 1 that fills its block
  overruns it by one byte (`BlockHoldsData` has the condition). A region or a
  worst-case size above the largest bucket indexes past `m_buckets`.
* Free tree: for sizes just below `SIZE_MAX` the rounding wraps and
  the request is served with a block of 40 bytes (`fault` in `alloc_raw`). After a
  failed mapping `alloc_raw` and `clear` go through a null tree (`alloc_undefined`).

## Proofs

All theorems hold for every value of the constants that satisfies the named
assumptions of the modules: a word of any width, any page size, any set of
page-aligned mappings, any finite or infinite set of requests.

* `Utils_proofs`: `calc_pad` is below the alignment and reaches an aligned
  address; `Wrap` and `align_up` stay in a word, and `align_up` gives a multiple
  that is not below its argument when the sum does not wrap. Of powers of two, by
  induction: half of one is one, and of two of them the smaller divides the larger
  (`Pow2Divides`), which is why an address aligned to the page is aligned to every
  smaller power. The induction is `NatInd`, over a set of numbers: the library's
  rules take an operator as a parameter, which the provers cannot instantiate,
  while a set they can. With it a least element exists (`NatMin`).
* `ArenaAllocator_proofs`: `Safety` and `Refinement`, for all requests.
  `TypeOK /\ LiveBehindOffset` is inductive: a new allocation starts at or above
  the offset, everything live ends at or below it.
* `StackAllocator_proofs`: `Safety`, `NothingHeldDown` and `Refinement` under
  `NoWrap`, a condition on the requests without which the contract fails (see
  above). The invariant is the conjunction of `TypeOK`, `HeaderChain`,
  `OffsetIsTop` and `InBounds`. None of them is inductive alone: a free sets the
  offset to what a header says, so `OffsetIsTop` needs the header to be the end of
  a surviving allocation, and a header stays intact because new headers are written
  above the offset, which is above everything live.
* `PoolAllocator_proofs`: `Safety` for all geometries and requests. `FreeLinks`
  says of each link that it leads to a free chunk, and of each free chunk that at
  most one link or the head leads to it. That is local, so it is inductive without
  speaking of paths. `NoChunkLost` is about paths: the list reaches every free
  chunk. Its invariant `Listed` states that there is an enumeration of the free
  chunks along the links, from the head to the null link; a pop drops its first
  element, a push adds one in front, and `clear` relinks all. `Refinement`
  is proved under `PageServes`: the page is a power of two, as `page_size()` gives
  it, and clients ask for no alignment above it. The pool checks a request against
  its chunk alignment only and aligns its region only to the page, so a pool made
  with a larger alignment does not keep it. The invariant `Geometry` says that
  region, chunk size and chunk alignment are what the constructor computed.
* `FreeListAllocator_proofs`: `FreeListOrdered` (`SortedAndCoalesced`), `Headers`
  (`HeadersIntact`), `NoByteLost` (`Tiled`) and `Refinement`. Two assumptions:
  `PageHoldsBlock`, that a page is a multiple of a block's alignment and holds a
  block; and `NoWrap`, that rounding up the required size does not wrap. From
  alignment 8 on the early return of `alloc_raw` is enough for that, because a
  free block is 8-aligned and the padding is then 0 or at most the alignment less
  8 (lemma `Request`); below it `NoWrap` excludes the few sizes next to the largest
  one let through, for which `HeadersIntact` fails (see above). The invariant
  compares the list and the blocks in use byte by byte: `Ordered` (the list is
  sorted and no two blocks touch), `Owned` (a header describes its block),
  `Parted` (no byte is in two hands) and `Full` (none is in no hand). An
  allocation moves the bytes of one block out of the list and a free moves them
  back, so the last two follow from which bytes a list holds; only `Splice` and
  `Coalesced` look at positions, the second at the four ways `free_raw` merges a
  block with its neighbours. No part is inductive alone: `free_raw` takes address
  and size from a header, which is still the one written because no other block
  shares its bytes, and the block it inserts fits between its neighbours for the
  same reason.
* `BuddyAllocator_proofs`: `BlocksTile` (`Partition`), `HeadersRead`
  (`HeadersTrue`), `RoomForData` (`BlockHoldsData`), `MergesAll` (`MergesFully`)
  and `Refinement`, for every number of lists, largest offset and region, with
  requests that are refused after their block was popped included. Two
  assumptions: `PageHoldsBlock`, that a page is a power of two, as the
  constructor's comment says, and holds a block; and `InDomain`, that
  `size_to_order` stays within the domain of `std::bit_ceil`: a request is at most
  half of the address space, headers and padding included, and no constructor asks
  for that half. Run `buddy` satisfies it; without it a request gets a block of
  order 0 (see above). Requests that index past the lists are not excluded: they
  set `fault`. The argument:
    * *Geometry.* A block is an interval at a multiple of its size, and two blocks
      are nested or disjoint (`Nest`). A block and its buddy are the block one order
      up (`Pair`), so a block and the buddies passed on the way up are the larger
      block (`Telescope`). That sizes double (`Doubling`) comes from counting the
      subsets of an interval, as the provers know nothing of `2^k`.
    * *Loops.* `Exchange` replaces blocks by others with the same bytes. The
      splits of `alloc_raw` are one exchange (`Pop`, then `HandOut` or `Lose`) and
      the merges of `free_raw` are one in the other direction (`GiveBack`). What
      they do to the lists is `SplitFree` and `MergeFree`, and to the headers
      `SplitMem` and `MergeMem`.
    * *Invariant.* `IndInv`, the type invariant with `Heap` of the current lists,
      headers and allocations: the blocks are laid out without gap or overlap
      (`Laid`), each is in one hand (`OneHand`), the header below an allocation's
      data leads to a block that holds it (`Owned`), the header at a block's start
      is right (`Marked`), every header that says free is at a block in a list
      (`NoStray`), and no two buddies are free (`Unpaired`). None is inductive
      alone. `free_raw` merges on the word of a header, and `NoStray` makes what it
      finds a block that it can unlink; the headers of other blocks survive because
      blocks share no bytes (`Elsewhere`); and `Unpaired` holds after a merge
      because the loop stops only at a buddy that is not free, or at the whole
      region. From `Laid` and `Unpaired`, `Whole` shows that free blocks alone can
      only be the region in one piece, which is complete merging.
* `TrackingAllocator_proofs`: `Bookkeeping` and `Peak`, for every base that keeps
  the interface's promise, of either kind. The invariant `Books` adds to the
  property that live allocations do not share a pointer (the promise gives
  disjointness, and no allocation is empty), and that the byte count is at least
  the bytes recorded, those of frees that a stack ended implicitly included.
  `BytesInUse` counts the pairs of a pointer and a byte of its allocation, so that
  adding or removing an allocation is a fact about the cardinality of a union.
* `FreeTreeAllocator_proofs`: `Tags`, `FreeSpace`, `BackPointersTrue` and
  `Refinement` under `NoWrap`: the rounding in `search_size` does not wrap. It
  excludes the six largest sizes that the early return lets through;
  run `free_tree` has such a request. All four follow from one invariant, a
  conjunction of what region the object has, how the tags tile it, that free
  blocks and the tree's nodes are the same, and that allocated blocks and live
  allocations are the same. It is stated of a table of tags and not of the
  variables, so that one lemma each covers `update_block` for a whole block, for a
  split (`SplitTiling`) and for a merge to either side or both (`MergeTiling`), the
  two cases that the code's comments on bounds and neighbours are about. None of
  the four holds by itself: a merge reads the neighbour's footer (tags), removes
  its node (tree), and is complete only because no two free blocks touched before.

Not proved, only model-checked:

* the slab allocator, whose state is the buddy allocator's and its own, and whose
  `clear()` runs over many steps of both;
* the segregated allocator: `coalesce_all` is a fold over passes, and what a fold
  computes needs induction over its data, which the provers cannot do;
* `Objects`: `CallsEnd` is liveness under fairness and out of the prover's reach;
  the other two relate a stack of frames of any depth to memory, and their
  inductive invariant is not worked out yet;
* `RBTree`: it is recursive, and no theorem about a recursive operator can be
  checked; run `rbtree` covers every tree up to its bound;
* `Pow2IsMaskTest` and `RoundingIsLeast`, which compare with bitwise operators that
  are recursive in the library.

## Plan

Every allocator, the tree and `make`/`destroy` are modelled, and seven allocators
are proved. What is left is proof, in this order: `OwnedOnce` and
`ObjectsMatchMemory` of `Objects`, and the slab's invariants on top of the buddy's
`IndInv`.

## Not modelled

* Timing claims and the benchmarks, which keep no state an allocator depends on.
* The tests: each is a fixed sequence of calls that the models' behaviours
  include. What they assert is quoted above the properties.
* The Windows branch of `utils`, which differs from the other only in its system
  calls.
* The doubly linked list surgery that buddy, slab and segregated share: their lists
  are sequences here, so that `prev` and `next` agree is taken from the code.
* `capacity` returns a member and `owns` is a comparison; `owns` is modelled where
  a property or a guard uses it.
* Footers of the segregated allocator, which nothing reads, and the text of the
  tracking allocator's report.
