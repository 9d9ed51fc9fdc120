--------------------------- MODULE BuddyAllocator ---------------------------
(***************************************************************************)
(* src/BuddyAllocator.cpp: blocks of MIN_BLOCK_SIZE * 2^order, split in    *)
(* halves on demand and merged with their buddies when freed.              *)
(*                                                                         *)
(* m_free_lists[order] is the chain from the list's head along the next    *)
(* pointers, as a sequence of block addresses.  mem holds the AllocHeaders *)
(* by address: the one at the start of each block and the one right below  *)
(* the data of each allocation, which coincide when no padding is needed.  *)
(* What a block's bytes held before it was split, handed out or merged is  *)
(* dropped from mem, so an address outside mem stands for data that no     *)
(* code may take for a header.                                             *)
(***************************************************************************)
EXTENDS Utils, SequencesExt

CONSTANTS
    MAX_ORDER,                      \* number of free lists
    OFFSET_MAX,                     \* UINT16_MAX, AllocHeader::offset's largest
    CtorSizes, Sizes, Aligns        \* the arguments clients pass

ASSUME ArgAssumption ==
    /\ MAX_ORDER \in Nat \ {0} /\ OFFSET_MAX \in Nat
    /\ CtorSizes \subseteq Word /\ Sizes \subseteq Word /\ Aligns \subseteq Word

VARIABLES
    alive,          \* the object exists: its destructor has not run
    fault,          \* a list that does not exist or was never set was read
    m_start_ptr, m_total_size, m_free_lists,
    mem,            \* header address -> [free, order, offset]
    live,           \* the client's allocations
    lost            \* blocks neither free nor handed out: <<addr, order>>

region == <<m_start_ptr, m_total_size>>
vars == <<alive, fault, region, m_free_lists, mem, live, lost>>

MIN_BLOCK_SIZE == 32
header_size == 4            \* sizeof(AllocHeader)

\* "page sizes themselves are powers of two" (the constructor), and a page
\* and a word hold a block.
ASSUME PageHoldsBlock ==
    /\ IsPow2(PAGE_SIZE) /\ PAGE_SIZE >= MIN_BLOCK_SIZE
    /\ WORD_BITS > 5

Orders == 0..(MAX_ORDER - 1)
BlockSize(order) == MIN_BLOCK_SIZE * 2^order
TopOrder == WORD_BITS - 6   \* of the largest power of two in a word
Header(free, order, offset) ==
    [free |-> free, order |-> order, offset |-> offset]

\* The order whose blocks hold size bytes and a header.  Where bit_ceil is
\* undefined, either result is raised to MIN_BLOCK_SIZE.
size_to_order(size) ==
    LET need == Wrap(size + header_size) IN
    IF need > BlockSize(TopOrder) THEN 0
    ELSE Min({k \in 0..TopOrder : BlockSize(k) >= need})

\* countr_zero(total) - countr_zero(MIN_BLOCK_SIZE)
max_order(total) == CHOOSE k \in 0..TopOrder : BlockSize(k) = total

\* The lists and the header that clear() writes.
one_block(start, total) ==
    [k \in Orders |-> IF start # NULL /\ k = max_order(total)
                      THEN <<start>> ELSE <<>>]
one_header(start, total) ==
    [h \in {start} \ {NULL} |-> Header(TRUE, max_order(total), 0)]

\* The capacity the constructor asks for, 0 when it gives up.
capacity(target) ==
    LET total == align_up(target, PAGE_SIZE) IN
    IF target = 0 \/ size_to_order(total) >= MAX_ORDER THEN 0 ELSE total

Init ==
    /\ alive = TRUE /\ fault = FALSE
    /\ \E size \in CtorSizes : \E target \in bit_ceil(size) :
         LET total == IF size < MIN_BLOCK_SIZE THEN 0 ELSE capacity(target) IN
         /\ m_start_ptr \in os_alloc(total)
         /\ m_total_size = IF m_start_ptr = NULL THEN 0 ELSE total
    /\ m_free_lists = one_block(m_start_ptr, m_total_size)
    /\ mem = one_header(m_start_ptr, m_total_size)
    /\ live = {}
    /\ lost = {}

\* The headers outside the block: all that its reuse leaves alone.
Outside(block, order) ==
    {h \in DOMAIN mem : h < block \/ h >= block + BlockSize(order)}

-----------------------------------------------------------------------------
\* The request passes the early returns of alloc_raw.
well_formed(size, align) ==
    /\ ~BadAlign(align)
    /\ size > 0 /\ size <= SIZE_MAX - align - header_size

\* Mutant: no room to shift the data pointer.
target_order_NoShift(size, align) == size_to_order(size + header_size)

target_order(size, align) == size_to_order(size + align + header_size)

\* m_free_lists[target] is out of range, or the constructor left it unset.
undefined(size, align) ==
    \/ m_start_ptr = NULL
    \/ target_order(size, align) >= MAX_ORDER

\* The orders at or above target that have a free block.
available(target) == {k \in Orders : k >= target /\ m_free_lists[k] # <<>>}

\* Mutant: the right half of the last split is forgotten.
SplitLists_DropLast(target, source) ==
    LET block == Head(m_free_lists[source]) IN
    [k \in Orders |->
        IF k = source THEN Tail(m_free_lists[k])
        ELSE IF k > target /\ k < source
             THEN <<block + BlockSize(k)>> \o m_free_lists[k]
        ELSE m_free_lists[k]]

(***************************************************************************)
(* split_block from source down to target, then the pop of the left-most   *)
(* block: each order passed keeps the right half of a split.               *)
(***************************************************************************)
SplitLists(target, source) ==
    LET block == Head(m_free_lists[source]) IN
    [k \in Orders |->
        IF k = source THEN Tail(m_free_lists[k])
        ELSE IF k >= target /\ k < source
             THEN <<block + BlockSize(k)>> \o m_free_lists[k]
        ELSE m_free_lists[k]]

\* Mutant: the right halves keep the order they were split from.
SplitHeaders_OldOrder(target, source) ==
    LET block == Head(m_free_lists[source])
        right == {block + BlockSize(k) : k \in target..(source - 1)}
    IN [h \in Outside(block, source) \cup right \cup {block} |->
          IF h = block THEN Header(FALSE, target, 0)
          ELSE IF h \in right
               THEN Header(TRUE, 1 + CHOOSE k \in target..(source - 1) :
                                           h = block + BlockSize(k), 0)
          ELSE mem[h]]

\* The headers those splits write, with the popped block marked as used.
SplitHeaders(target, source) ==
    LET block == Head(m_free_lists[source])
        right == {block + BlockSize(k) : k \in target..(source - 1)}
    IN [h \in Outside(block, source) \cup right \cup {block} |->
          IF h = block THEN Header(FALSE, target, 0)
          ELSE IF h \in right
               THEN Header(TRUE, CHOOSE k \in target..(source - 1) :
                                   h = block + BlockSize(k), 0)
          ELSE mem[h]]

data_ptr(block, align) == align_up(block + header_size, align)

\* The pop, the splits and the headers of a request for which a block is
\* found; the data header lies right below the data.
take(size, align) ==
    LET target == target_order(size, align)
        source == Min(available(target))
        ptr == data_ptr(Head(m_free_lists[source]), align)
        offset == ptr - Head(m_free_lists[source])
        split == SplitHeaders(target, source)
    IN
    /\ m_free_lists' = SplitLists(target, source)
    /\ mem' = [h \in DOMAIN split \cup {ptr - header_size} |->
                 IF h = ptr - header_size
                 THEN Header(FALSE, target,
                             IF offset > OFFSET_MAX THEN 0 ELSE offset)
                 ELSE split[h]]

alloc_raw(size, align) ==
    /\ well_formed(size, align)
    /\ ~undefined(size, align)
    /\ available(target_order(size, align)) # {}
    /\ take(size, align)
    /\ LET target == target_order(size, align)
           block == Head(m_free_lists[Min(available(target))])
           ptr == data_ptr(block, align)
       IN IF ptr - block > OFFSET_MAX
          THEN \* refused, but only after the block has been popped
               lost' = lost \cup {<<block, target>>} /\ UNCHANGED live
          ELSE /\ live' = live \cup
                    {[ptr |-> ptr, size |-> size, align |-> align]}
               /\ UNCHANGED lost
    /\ UNCHANGED <<alive, fault, region>>

alloc_null(size, align) ==
    /\ \/ ~well_formed(size, align)
       \/ /\ well_formed(size, align)
          /\ ~undefined(size, align)
          /\ available(target_order(size, align)) = {}
    /\ UNCHANGED vars

\* The behaviour is undefined from here on.
alloc_undefined(size, align) ==
    /\ well_formed(size, align)
    /\ undefined(size, align)
    /\ fault' = TRUE
    /\ UNCHANGED <<alive, region, m_free_lists, mem, live, lost>>

-----------------------------------------------------------------------------
\* The block of this order that the address lies in.
block_at(addr, order) == addr - ((addr - m_start_ptr) % BlockSize(order))

\* get_buddy: the offset with the bit of the block's size flipped.
get_buddy(block, order) ==
    IF ((block - m_start_ptr) \div BlockSize(order)) % 2 = 0
    THEN block + BlockSize(order)
    ELSE block - BlockSize(order)

\* Mutant: the buddy's order is not compared.
merges_AnyOrder(block, order) ==
    /\ order < MAX_ORDER - 1
    /\ get_buddy(block, order) < m_start_ptr + m_total_size
    /\ get_buddy(block, order) \in DOMAIN mem
    /\ mem[get_buddy(block, order)].free

\* The merge loop goes on past this order.
merges(block, order) ==
    /\ order < MAX_ORDER - 1
    /\ get_buddy(block, order) < m_start_ptr + m_total_size
    /\ get_buddy(block, order) \in DOMAIN mem
    /\ mem[get_buddy(block, order)].free
    /\ mem[get_buddy(block, order)].order = order

\* The order at which the merge loop stops for the block freed.
merged_order(block, order) ==
    Min({k \in order..(MAX_ORDER - 1) : ~merges(block_at(block, k), k)})

block_of(a) == a.ptr - mem[a.ptr - header_size].offset
order_of(a) == mem[a.ptr - header_size].order

\* List k without the buddy that the block freed merges with at order k.
unlinked(block, k) ==
    RemoveFirst(m_free_lists[k], get_buddy(block_at(block, k), k))

\* Mutant: the merged block keeps its own, not the lower, address.
free_raw_KeepAddress(a) ==
    LET order == order_of(a)
        merged == merged_order(block_of(a), order)
        block == block_of(a)
    IN
    /\ m_free_lists' = [k \in Orders |->
         IF k = merged THEN <<block>> \o m_free_lists[k]
         ELSE IF k \in order..(merged - 1) THEN unlinked(block_of(a), k)
         ELSE m_free_lists[k]]
    /\ mem' = [h \in Outside(block, merged) \cup {block} |->
                 IF h = block THEN Header(TRUE, merged, 0) ELSE mem[h]]
    /\ live' = live \ {a}
    /\ UNCHANGED <<alive, fault, region, lost>>

free_raw(a) ==
    LET order == order_of(a)
        merged == merged_order(block_of(a), order)
        block == block_at(block_of(a), merged)
    IN
    /\ m_free_lists' = [k \in Orders |->
         IF k = merged THEN <<block>> \o m_free_lists[k]
         ELSE IF k \in order..(merged - 1) THEN unlinked(block_of(a), k)
         ELSE m_free_lists[k]]
    /\ mem' = [h \in Outside(block, merged) \cup {block} |->
                 IF h = block THEN Header(TRUE, merged, 0) ELSE mem[h]]
    /\ live' = live \ {a}
    /\ UNCHANGED <<alive, fault, region, lost>>

clear ==
    /\ m_free_lists' = one_block(m_start_ptr, m_total_size)
    /\ mem' = one_header(m_start_ptr, m_total_size)
    /\ live' = {}
    /\ lost' = {}
    /\ UNCHANGED <<alive, fault, region>>

destructor ==
    /\ alive' = FALSE
    /\ m_start_ptr' = NULL
    /\ m_total_size' = IF m_start_ptr = NULL THEN m_total_size ELSE 0
    /\ mem' = <<>>
    /\ live' = {}
    /\ UNCHANGED <<fault, m_free_lists, lost>>

owns(ptr) == ptr >= m_start_ptr /\ ptr < m_start_ptr + m_total_size

Next ==
    /\ alive /\ ~fault
    /\ \/ \E size \in Sizes, align \in Aligns :
            \/ alloc_raw(size, align)
            \/ alloc_null(size, align)
            \/ alloc_undefined(size, align)
       \/ \E a \in live : free_raw(a)
       \/ clear
       \/ destructor

Spec == Init /\ [][Next]_vars

-----------------------------------------------------------------------------
\* No header claims more than the region.
TypeOK ==
    /\ alive \in BOOLEAN /\ fault \in BOOLEAN
    /\ m_start_ptr \in Word /\ m_total_size \in Word
    /\ m_free_lists \in [Orders -> Seq(Word)]
    /\ DOMAIN mem \subseteq Word
    /\ \A h \in DOMAIN mem :
         /\ mem[h] \in [free : BOOLEAN, order : Orders, offset : 0..OFFSET_MAX]
         /\ BlockSize(mem[h].order) <= m_total_size
    /\ live \subseteq Allocation
    /\ lost \subseteq Word \X Orders

FreeBlocks == UNION {{<<b, k>> : b \in ToSet(m_free_lists[k])} : k \in Orders}
UsedBlocks == {<<block_of(a), order_of(a)>> : a \in live}
Blocks == FreeBlocks \cup UsedBlocks \cup lost

\* The bytes of a block <<addr, order>>.
Bytes(b) == b[1]..(b[1] + BlockSize(b[2]) - 1)

(***************************************************************************)
(* Whatever was split, merged, lost or freed out of order, every block is  *)
(* free, used or lost and not two of them, at a multiple of its size, and  *)
(* the blocks are disjoint and make up the region; no block is in a list   *)
(* twice or behind two allocations.                                        *)
(***************************************************************************)
Partition ==
    /\ TypeOK
    /\ alive =>
         /\ \A b \in Blocks :
              /\ (b[1] - m_start_ptr) % BlockSize(b[2]) = 0
              /\ \A c \in Blocks \ {b} :
                   \/ b[1] + BlockSize(b[2]) <= c[1]
                   \/ c[1] + BlockSize(c[2]) <= b[1]
         /\ UNION {Bytes(b) : b \in Blocks} =
              m_start_ptr..(m_start_ptr + m_total_size - 1)
         /\ FreeBlocks \cap (UsedBlocks \cup lost) = {}
         /\ UsedBlocks \cap lost = {}
         /\ \A k \in Orders : IsInjective(m_free_lists[k])
         /\ \A a, b \in live : block_of(a) = block_of(b) => a = b

(***************************************************************************)
(* The header at the start of every block says what the block is, and a    *)
(* buddy that free_raw inspects is always the start of such a block, so    *)
(* the merge loop never takes a client's bytes for a header.               *)
(***************************************************************************)
HeadersTrue ==
    alive =>
      /\ \A b \in Blocks :
           /\ b[1] \in DOMAIN mem
           /\ mem[b[1]].order = b[2]
           /\ mem[b[1]].free <=> b \in FreeBlocks
      /\ \A a \in live :
           LET merged == merged_order(block_of(a), order_of(a)) IN
           \A k \in order_of(a)..merged :
             LET buddy == get_buddy(block_at(block_of(a), k), k) IN
             \/ buddy >= m_start_ptr + m_total_size
             \/ \E b \in Blocks : b[1] = buddy

(***************************************************************************)
(* "Failed to fully coalesce to max order" (tests/buddy_free.cpp): merging *)
(* is complete.  Two buddies of one order are never both free, and once    *)
(* every allocation is freed the region is one free block again, for as    *)
(* long as no request was refused after its block had been popped.         *)
(***************************************************************************)
MergesFully ==
    alive =>
      /\ \A b \in FreeBlocks :
           <<get_buddy(b[1], b[2]), b[2]>> \notin FreeBlocks
      /\ live = {} /\ lost = {} =>
           m_free_lists = one_block(m_start_ptr, m_total_size)

(***************************************************************************)
(* "we need space for data, header, and enough room to shift the data      *)
(* pointer" (alloc_raw): the block behind an allocation holds its header   *)
(* and all its data.                                                       *)
(***************************************************************************)
BlockHoldsData ==
    \A a \in live :
      /\ block_of(a) + header_size <= a.ptr
      /\ End(a) <= block_of(a) + BlockSize(order_of(a))

(***************************************************************************)
(* The sizes for which size_to_order stays within the domain of bit_ceil:  *)
(* at most half of the address space, headers and padding included.  The   *)
(* constructor's are those that do not ask for that half itself.           *)
(***************************************************************************)
InDomain ==
    /\ PAGE_SIZE < BlockSize(TopOrder)
    /\ \A size \in CtorSizes : BlockSize(TopOrder) \notin bit_ceil(size)
    /\ \A size \in Sizes, align \in Aligns :
         size <= SIZE_MAX - align - header_size =>
           size + align + 2 * header_size <= BlockSize(TopOrder)

(***************************************************************************)
(* The buddy allocator keeps the promise of IAllocator.                    *)
(***************************************************************************)
Contract == INSTANCE IAllocator
    WITH start <- m_start_ptr, total <- m_total_size, live <- live,
         Lifo <- FALSE

ContractSpec == Contract!Spec
=============================================================================
