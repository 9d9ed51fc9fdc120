--------------------------- MODULE StackAllocator ---------------------------
(***************************************************************************)
(* src/StackAllocator.cpp: a bump pointer that can be rewound.  The word   *)
(* below each allocation keeps the offset of the stack before it.          *)
(*                                                                         *)
(* mem is the part of the region that the allocator reads back: the header *)
(* words by address.  A client is taken to write every byte it was given,  *)
(* so an allocation wipes the old headers under its header and its data.   *)
(***************************************************************************)
EXTENDS Utils

CONSTANTS CtorSizes, Sizes, Aligns      \* the arguments clients pass

ASSUME ArgAssumption ==
    CtorSizes \subseteq Word /\ Sizes \subseteq Word /\ Aligns \subseteq Word

VARIABLES
    alive,          \* the object exists: its destructor has not run
    m_start_ptr, m_offset, m_total_size,
    mem,            \* header address -> stored offset
    live            \* the client's allocations

vars == <<alive, m_start_ptr, m_offset, m_total_size, mem, live>>

header_size == 8        \* sizeof(std::size_t)
header_align == 8       \* alignof(std::size_t)

Init ==
    /\ alive = TRUE
    /\ \E size \in CtorSizes :
         LET total == align_up(size, PAGE_SIZE) IN
         /\ m_start_ptr \in (IF size = 0 THEN {NULL} ELSE os_alloc(total))
         /\ m_total_size = IF m_start_ptr = NULL THEN 0 ELSE total
    /\ m_offset = 0
    /\ mem = <<>>
    /\ live = {}

\* Padding between the header's place and the data, both aligned.
data_pad(align) ==
    calc_pad(m_start_ptr + m_offset + header_size, MaxOf(align, header_align))

data_ptr(align) == m_start_ptr + m_offset + header_size + data_pad(align)

\* Mutant: the padding is forgotten.
alloc_size_NoPad(size, align) == Wrap(header_size + size)

alloc_size(size, align) == Wrap(header_size + data_pad(align) + size)

fits(size, align) ==
    /\ ~BadAlign(align)
    /\ size > 0 /\ size <= SIZE_MAX - align - header_size
    /\ alloc_size(size, align) <= m_total_size - m_offset

\* The headers that survive writing the bytes from lo up to hi.
Untouched(lo, hi) == {h \in DOMAIN mem : h + header_size <= lo \/ h >= hi}

\* Mutant: the offset is pushed before it is stored in the header.
alloc_raw_PushFirst(size, align) ==
    LET ptr == data_ptr(align)
        header_ptr == ptr - header_size
        pushed == m_offset + alloc_size(size, align)
    IN
    /\ fits(size, align)
    /\ mem' = [h \in Untouched(header_ptr, ptr + size) \cup {header_ptr} |->
                 IF h = header_ptr THEN pushed ELSE mem[h]]
    /\ m_offset' = pushed
    /\ live' = live \cup {[ptr |-> ptr, size |-> size, align |-> align]}
    /\ UNCHANGED <<alive, m_start_ptr, m_total_size>>

alloc_raw(size, align) ==
    LET ptr == data_ptr(align)
        header_ptr == ptr - header_size
    IN
    /\ fits(size, align)
    /\ mem' = [h \in Untouched(header_ptr, ptr + size) \cup {header_ptr} |->
                 IF h = header_ptr THEN m_offset ELSE mem[h]]
    /\ m_offset' = m_offset + alloc_size(size, align)
    /\ live' = live \cup {[ptr |-> ptr, size |-> size, align |-> align]}
    /\ UNCHANGED <<alive, m_start_ptr, m_total_size>>

alloc_null(size, align) == ~fits(size, align) /\ UNCHANGED vars

\* Mutant: only the freed allocation's own bytes are given back.
free_raw_PopOnlyTop(a) ==
    /\ m_offset' = m_offset - (a.size + header_size)
    /\ live' = {b \in live : b.ptr < a.ptr}
    /\ UNCHANGED <<alive, m_start_ptr, m_total_size, mem>>

\* The rewind ends every allocation made after a as well.
free_raw(a) ==
    /\ m_offset' = mem[a.ptr - header_size]
    /\ live' = {b \in live : b.ptr < a.ptr}
    /\ UNCHANGED <<alive, m_start_ptr, m_total_size, mem>>

clear ==
    /\ m_offset' = 0
    /\ live' = {}
    /\ UNCHANGED <<alive, m_start_ptr, m_total_size, mem>>

destructor ==
    /\ alive' = FALSE
    /\ m_start_ptr' = NULL
    /\ mem' = <<>>
    /\ live' = {}
    /\ UNCHANGED <<m_offset, m_total_size>>

owns(ptr) == ptr >= m_start_ptr /\ ptr < m_start_ptr + m_total_size

Next ==
    /\ alive
    /\ \/ \E size \in Sizes, align \in Aligns :
            alloc_raw(size, align) \/ alloc_null(size, align)
       \/ \E a \in live : free_raw(a)
       \/ clear
       \/ destructor

Spec == Init /\ [][Next]_vars

-----------------------------------------------------------------------------
\* The region's end is an address too.
TypeOK ==
    /\ alive \in BOOLEAN
    /\ m_start_ptr \in Word
    /\ m_offset \in Word
    /\ m_total_size \in Word
    /\ m_start_ptr + m_total_size \in Word
    /\ DOMAIN mem \subseteq Word
    /\ \A h \in DOMAIN mem : mem[h] \in Word
    /\ live \subseteq Allocation

(***************************************************************************)
(* Every header a legal free_raw may read is intact, below its data and    *)
(* clear of every live allocation, and rewinding to it leaves exactly the  *)
(* allocations made before it behind m_offset: the stored offset is the    *)
(* end of the previous allocation, or 0.                                   *)
(***************************************************************************)
HeaderChain ==
    \A a \in live :
      LET h == a.ptr - header_size IN
      /\ h \in DOMAIN mem
      /\ m_start_ptr + mem[h] <= h
      /\ \A b \in live : \/ b.ptr >= a.ptr
                         \/ End(b) <= m_start_ptr + mem[h]
      /\ \/ mem[h] = 0
         \/ \E b \in live : /\ b.ptr < a.ptr
                            /\ End(b) = m_start_ptr + mem[h]

(***************************************************************************)
(* The stack keeps no memory that nothing live holds down: m_offset is the *)
(* end of the newest live allocation, or 0 when there is none, however     *)
(* frees are ordered.                                                      *)
(***************************************************************************)
OffsetIsTop ==
    alive => \/ live = {} /\ m_offset = 0
             \/ \E a \in live : /\ End(a) = m_start_ptr + m_offset
                                /\ \A b \in live : End(b) <= End(a)

(***************************************************************************)
(* "Allocated out-of-bounds" (tests/stack_exhaust.cpp): the allocator owns *)
(* the first and the last byte of whatever it hands out.                   *)
(***************************************************************************)
InBounds ==
    /\ m_offset <= m_total_size
    /\ \A a \in live : owns(a.ptr) /\ owns(End(a) - 1)

(***************************************************************************)
(* The sizes for which alloc_size cannot wrap.  The early return leaves    *)
(* room for the header and the alignment asked for, but below              *)
(* header_align the padding may exceed that alignment.                     *)
(***************************************************************************)
NoWrap ==
    \A size \in Sizes, align \in Aligns :
      size <= SIZE_MAX - align - header_size =>
        header_size + (MaxOf(align, header_align) - 1) + size <= SIZE_MAX

(***************************************************************************)
(* The stack keeps the promise of IAllocator, frees rewinding.             *)
(***************************************************************************)
Contract == INSTANCE IAllocator
    WITH start <- m_start_ptr, total <- m_total_size, live <- live,
         Lifo <- TRUE

ContractSpec == Contract!Spec
=============================================================================
