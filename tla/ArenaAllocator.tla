--------------------------- MODULE ArenaAllocator ---------------------------
(***************************************************************************)
(* src/ArenaAllocator.cpp: a bump pointer over one mapping.                *)
(***************************************************************************)
EXTENDS Utils

CONSTANTS CtorSizes, Sizes, Aligns      \* the arguments clients pass

ASSUME ArgAssumption ==
    CtorSizes \subseteq Word /\ Sizes \subseteq Word /\ Aligns \subseteq Word

VARIABLES
    alive,          \* the object exists: its destructor has not run
    m_start_ptr, m_total_size, m_offset,
    live            \* the client's allocations

vars == <<alive, m_start_ptr, m_total_size, m_offset, live>>

Init ==
    /\ alive = TRUE
    /\ \E size \in CtorSizes :
         LET total == align_up(size, PAGE_SIZE) IN
         /\ m_start_ptr \in os_alloc(total)
         /\ m_total_size = IF m_start_ptr = NULL THEN 0 ELSE total
    /\ m_offset = 0
    /\ live = {}

\* Mutant: the padding is not counted against the room left.
fits_NoPad(size, align) ==
    /\ ~BadAlign(align)
    /\ size > 0 /\ size <= SIZE_MAX - align
    /\ size <= m_total_size - m_offset

\* What is left of the early returns: the request is well formed and fits.
fits(size, align) ==
    /\ ~BadAlign(align)
    /\ size > 0 /\ size <= SIZE_MAX - align
    /\ Wrap(size + calc_pad(m_start_ptr + m_offset, align))
         <= m_total_size - m_offset

\* Mutant: the offset moves by the size alone.
alloc_raw_NoPad(size, align) ==
    LET pad == calc_pad(m_start_ptr + m_offset, align) IN
    /\ fits(size, align)
    /\ m_offset' = m_offset + size
    /\ live' = live \cup {[ptr   |-> m_start_ptr + m_offset + pad,
                           size  |-> size,
                           align |-> align]}
    /\ UNCHANGED <<alive, m_start_ptr, m_total_size>>

alloc_raw(size, align) ==
    LET pad == calc_pad(m_start_ptr + m_offset, align) IN
    /\ fits(size, align)
    /\ m_offset' = m_offset + (pad + size)
    /\ live' = live \cup {[ptr   |-> m_start_ptr + m_offset + pad,
                           size  |-> size,
                           align |-> align]}
    /\ UNCHANGED <<alive, m_start_ptr, m_total_size>>

alloc_null(size, align) == ~fits(size, align) /\ UNCHANGED vars

\* free_raw ignores its argument: only the client forgets the allocation.
free_raw(a) ==
    /\ live' = live \ {a}
    /\ UNCHANGED <<alive, m_start_ptr, m_total_size, m_offset>>

clear ==
    /\ m_offset' = 0
    /\ live' = {}
    /\ UNCHANGED <<alive, m_start_ptr, m_total_size>>

destructor ==
    /\ alive' = FALSE
    /\ m_start_ptr' = NULL
    /\ live' = {}
    /\ UNCHANGED <<m_total_size, m_offset>>

owns(ptr) == ptr >= m_start_ptr /\ ptr < m_start_ptr + m_total_size

Next ==
    /\ alive
    /\ \/ \E size \in Sizes, align \in Aligns :
            alloc_raw(size, align) \/ alloc_null(size, align)
       \/ \E a \in live : free_raw(a)
       \/ clear
       \/ destructor

Spec == Init /\ [][Next]_vars

-----------------------------------------------------------------------------
\* The region's end is an address too.
TypeOK ==
    /\ alive \in BOOLEAN
    /\ m_start_ptr \in Word
    /\ m_total_size \in Word
    /\ m_start_ptr + m_total_size \in Word
    /\ m_offset \in Word
    /\ live \subseteq Allocation

(***************************************************************************)
(* Memory that has been handed out is behind the bump pointer until the    *)
(* next clear(), freed or not: every live allocation is owned by the arena,*)
(* ends below m_offset, and overlaps no other one.                         *)
(***************************************************************************)
LiveBehindOffset ==
    /\ m_offset <= m_total_size
    /\ \A a \in live :
         /\ owns(a.ptr) /\ owns(End(a) - 1)
         /\ End(a) <= m_start_ptr + m_offset
         /\ \A b \in live \ {a} : ~Overlap(a, b)

(***************************************************************************)
(* The arena keeps the promise of IAllocator.                              *)
(***************************************************************************)
Contract == INSTANCE IAllocator
    WITH start <- m_start_ptr, total <- m_total_size, live <- live,
         Lifo <- FALSE

ContractSpec == Contract!Spec
=============================================================================
