------------------------- MODULE FreeListAllocator --------------------------
(***************************************************************************)
(* src/FreeListAllocator.cpp: first fit over a free list that is kept in   *)
(* address order and coalesced on every free.                              *)
(*                                                                         *)
(* free_list is the chain from m_free_list_head along the next pointers,   *)
(* as a sequence of the FreeBlocks met.  mem holds the AllocHeaders by     *)
(* address.  A client is taken to write every byte it was given, and any   *)
(* write over a header's bytes removes it from mem.                        *)
(***************************************************************************)
EXTENDS Utils, SequencesExt

CONSTANTS CtorSizes, Sizes, Aligns      \* the arguments clients pass

ASSUME ArgAssumption ==
    CtorSizes \subseteq Word /\ Sizes \subseteq Word /\ Aligns \subseteq Word

VARIABLES
    alive,          \* the object exists: its destructor has not run
    m_start_ptr, m_total_size,
    free_list,      \* from m_free_list_head: <<[addr, size], ...>>
    mem,            \* header address -> [size, pad]
    live            \* the client's allocations

vars == <<alive, m_start_ptr, m_total_size, free_list, mem, live>>

FreeBlock == [addr : Word, size : 1..SIZE_MAX]
AllocHeader == [size : Word, pad : Word]

block_size == 16        \* sizeof(FreeBlock)
block_align == 8        \* alignof(FreeBlock)
header_size == 16       \* sizeof(AllocHeader)

ASSUME PageHoldsBlock == PAGE_SIZE >= block_size /\ PAGE_SIZE % block_align = 0

\* clear(): the whole region is one free block.
one_block(start, total) ==
    IF start = NULL THEN <<>> ELSE <<[addr |-> start, size |-> total]>>

Init ==
    /\ alive = TRUE
    /\ \E size \in CtorSizes :
         LET total == align_up(size, PAGE_SIZE) IN
         /\ m_start_ptr \in (IF size = 0 THEN {NULL} ELSE os_alloc(total))
         /\ m_total_size = IF m_start_ptr = NULL THEN 0 ELSE total
    /\ free_list = one_block(m_start_ptr, m_total_size)
    /\ mem = <<>>
    /\ live = {}

\* The headers that survive writing the bytes from lo up to hi.
Untouched(lo, hi) == {h \in DOMAIN mem : h + header_size <= lo \/ h >= hi}

-----------------------------------------------------------------------------
block_pad(block, align) == calc_pad(block.addr + header_size, align)

\* What an allocation of this size and alignment takes out of the block.
required_size(block, size, align) ==
    align_up(size + header_size + block_pad(block, align), block_align)

\* Mutant: the padding is not counted against the block's size.
fitting_NoPad(size, align) ==
    {i \in DOMAIN free_list :
        free_list[i].size >= align_up(size + header_size, block_align)}

\* The blocks the traversal would stop at.
fitting(size, align) ==
    {i \in DOMAIN free_list :
        free_list[i].size >= required_size(free_list[i], size, align)}

fits(size, align) ==
    /\ ~BadAlign(align)
    /\ size > 0 /\ size <= SIZE_MAX - align - header_size
    /\ fitting(size, align) # {}

\* The rest is large enough to be a free block of its own.
splits(block, required) == block.size - required >= block_size

alloc_raw(size, align) ==
    /\ fits(size, align)
    /\ LET i == Min(fitting(size, align))
           curr == free_list[i]
           required == required_size(curr, size, align)
           rest == [addr |-> curr.addr + required,
                    size |-> curr.size - required]
           split == splits(curr, required)
           header_ptr == curr.addr + block_pad(curr, align)
           header == [size |-> IF split THEN required ELSE curr.size,
                      pad  |-> block_pad(curr, align)]
           data_ptr == header_ptr + header_size
           rest_end == IF split THEN rest.addr + block_size ELSE rest.addr
           kept == Untouched(header_ptr, data_ptr + size)
                     \cap Untouched(rest.addr, rest_end)
       IN
       /\ free_list' = IF split THEN ReplaceAt(free_list, i, rest)
                                ELSE RemoveAt(free_list, i)
       /\ mem' = [h \in kept \cup {header_ptr} |->
                    IF h = header_ptr THEN header ELSE mem[h]]
       /\ live' = live \cup
                    {[ptr |-> data_ptr, size |-> size, align |-> align]}
    /\ UNCHANGED <<alive, m_start_ptr, m_total_size>>

alloc_null(size, align) == ~fits(size, align) /\ UNCHANGED vars

-----------------------------------------------------------------------------
\* Mutant: the right neighbour is not merged.
coalesce_LeftOnly(before, block, after) ==
    IF before # <<>> /\ Last(before).addr + Last(before).size = block.addr
    THEN Front(before)
           \o <<[Last(before) EXCEPT !.size = @ + block.size]>> \o after
    ELSE before \o <<block>> \o after

\* coalesce: block absorbs the next free block when they touch, then the
\* previous one absorbs the result when they touch.
coalesce(before, block, after) ==
    LET right == /\ after # <<>>
                 /\ block.addr + block.size = Head(after).addr
        grown == IF right THEN [block EXCEPT !.size = @ + Head(after).size]
                          ELSE block
        rest == IF right THEN Tail(after) ELSE after
        left == /\ before # <<>>
                /\ Last(before).addr + Last(before).size = grown.addr
    IN IF left
       THEN Front(before)
              \o <<[Last(before) EXCEPT !.size = @ + grown.size]>> \o rest
       ELSE before \o <<grown>> \o rest

\* Where the walk over the list stops: the first block not below addr.
position(addr) ==
    Min({i \in DOMAIN free_list : free_list[i].addr >= addr}
          \cup {Len(free_list) + 1})

\* Mutant: the padding in front of the header is not given back.
origin_NoPad(header_ptr) ==
    [addr |-> header_ptr, size |-> mem[header_ptr].size - mem[header_ptr].pad]

\* The block that the header at header_ptr describes.
origin(header_ptr) ==
    [addr |-> header_ptr - mem[header_ptr].pad, size |-> mem[header_ptr].size]

free_raw(a) ==
    /\ LET new == origin(a.ptr - header_size)
           i == position(new.addr)
           kept == Untouched(new.addr, new.addr + block_size)
       IN
       /\ free_list' = coalesce(SubSeq(free_list, 1, i - 1), new,
                                SubSeq(free_list, i, Len(free_list)))
       /\ mem' = [h \in kept |-> mem[h]]
    /\ live' = live \ {a}
    /\ UNCHANGED <<alive, m_start_ptr, m_total_size>>

clear ==
    /\ free_list' = one_block(m_start_ptr, m_total_size)
    /\ mem' = [h \in Untouched(m_start_ptr, m_start_ptr + block_size) |->
                 mem[h]]
    /\ live' = {}
    /\ UNCHANGED <<alive, m_start_ptr, m_total_size>>

destructor ==
    /\ alive' = FALSE
    /\ m_start_ptr' = NULL
    /\ mem' = <<>>
    /\ live' = {}
    /\ UNCHANGED <<m_total_size, free_list>>

owns(ptr) == ptr >= m_start_ptr /\ ptr < m_start_ptr + m_total_size

Next ==
    /\ alive
    /\ \/ \E size \in Sizes, align \in Aligns :
            alloc_raw(size, align) \/ alloc_null(size, align)
       \/ \E a \in live : free_raw(a)
       \/ clear
       \/ destructor

Spec == Init /\ [][Next]_vars

-----------------------------------------------------------------------------
TypeOK ==
    /\ alive \in BOOLEAN
    /\ m_start_ptr \in Word /\ m_total_size \in Word
    /\ free_list \in Seq(FreeBlock)
    /\ DOMAIN mem \subseteq Word
    /\ \A h \in DOMAIN mem : mem[h] \in AllocHeader
    /\ live \subseteq Allocation

(***************************************************************************)
(* The free list stays in address order and fully coalesced: each block    *)
(* lies in the region, is aligned and large enough for the FreeBlock kept  *)
(* in it, and ends strictly below the next one; so, with Tiled, the list is *)
(* one block of the whole region once everything is freed.                 *)
(***************************************************************************)
SortedAndCoalesced ==
    /\ TypeOK
    /\ alive => \A i \in DOMAIN free_list :
         LET f == free_list[i] IN
         /\ f.addr >= m_start_ptr
         /\ f.addr + f.size <= m_start_ptr + m_total_size
         /\ f.addr % block_align = 0
         /\ f.size >= block_size
         /\ \A j \in DOMAIN free_list :
              i < j => f.addr + f.size < free_list[j].addr

\* The bytes that the headers and the free list account for.
FreeBlocks == {free_list[i] : i \in DOMAIN free_list}
Holds(block, byte) == block.addr <= byte /\ byte < block.addr + block.size

(***************************************************************************)
(* "prefixed with a AllocHeader, which holds the size and pad" (README):   *)
(* every header that a legal free_raw may read is intact, and the block it *)
(* describes encloses the header and the data of its allocation.           *)
(***************************************************************************)
HeadersIntact ==
    \A a \in live :
      LET h == a.ptr - header_size IN
      /\ h \in DOMAIN mem
      /\ origin(h).addr <= h
      /\ End(a) <= origin(h).addr + origin(h).size

(***************************************************************************)
(* Free blocks and used blocks tile the region: every byte belongs to      *)
(* exactly one of them, however allocations, frees in any order, splits    *)
(* and merges follow each other.  Nothing is lost and nothing is in two    *)
(* hands.                                                                  *)
(***************************************************************************)
Tiled ==
    alive =>
      \A byte \in m_start_ptr..(m_start_ptr + m_total_size - 1) :
        \/ /\ \E f \in FreeBlocks : Holds(f, byte)
           /\ \A a \in live : ~Holds(origin(a.ptr - header_size), byte)
        \/ /\ \A f \in FreeBlocks : ~Holds(f, byte)
           /\ \E a \in live :
                \A b \in live :
                  Holds(origin(b.ptr - header_size), byte) <=> b = a

(***************************************************************************)
(* The requests for which required_size cannot wrap.  The early return     *)
(* leaves room for the padding and the header; below the alignment of a    *)
(* block it leaves too little for rounding up.                             *)
(***************************************************************************)
NoWrap ==
    \A size \in Sizes, align \in Aligns :
      size <= SIZE_MAX - align - header_size =>
        size + header_size + (block_align - 1) <= SIZE_MAX

(***************************************************************************)
(* The free list allocator keeps the promise of IAllocator.                *)
(***************************************************************************)
Contract == INSTANCE IAllocator
    WITH start <- m_start_ptr, total <- m_total_size, live <- live,
         Lifo <- FALSE

ContractSpec == Contract!Spec
=============================================================================
