------------------------- MODULE TrackingAllocator --------------------------
(***************************************************************************)
(* src/TrackingAllocator.cpp: a wrapper that keeps records of what goes    *)
(* through it and forwards to any other allocator.                         *)
(*                                                                         *)
(* It knows its base by the IAllocator interface only, so the base is the  *)
(* abstract module IAllocator: it may place an allocation anywhere its     *)
(* promise allows and may refuse any request.  lifo says which of its two  *)
(* kinds is wrapped.  All requests go through the wrapper, so the base's   *)
(* live allocations are the client's.                                      *)
(***************************************************************************)
EXTENDS Utils, FiniteSets, Functions

CONSTANTS
    BaseStart, BaseTotal,           \* the base's region
    Sizes, Aligns,                  \* alloc_raw arguments
    CURR_BOUND      \* bound on the byte count, which may grow for ever

ASSUME ArgAssumption ==
    /\ BaseStart \in Word /\ BaseTotal \in Word
    /\ Sizes \subseteq Word /\ Aligns \subseteq Word
    /\ CURR_BOUND \in Word

VARIABLES
    lifo, start, total, live,       \* the base
    alive,                          \* the wrapper's destructor has not run
    m_active_allocs,                \* pointer -> size
    m_curr_alloced_bytes, m_peak_alloced_bytes

records == <<m_active_allocs, m_curr_alloced_bytes, m_peak_alloced_bytes>>
vars == <<lifo, start, total, live, alive, records>>

Heap == INSTANCE IAllocator WITH Lifo <- FALSE
Stack == INSTANCE IAllocator WITH Lifo <- TRUE

Init ==
    /\ lifo \in BOOLEAN
    /\ start = BaseStart /\ total = BaseTotal /\ live = {}
    /\ alive = TRUE
    /\ m_active_allocs = <<>>
    /\ m_curr_alloced_bytes = 0
    /\ m_peak_alloced_bytes = 0

\* m_active_allocs[ptr] = size
recorded(ptr, size) ==
    [p \in DOMAIN m_active_allocs \cup {ptr} |->
       IF p = ptr THEN size ELSE m_active_allocs[p]]

\* Mutant: the peak follows the current count down as well as up.
record_PeakFollows(ptr, size) ==
    LET curr == Wrap(m_curr_alloced_bytes + size) IN
    /\ m_active_allocs' = recorded(ptr, size)
    /\ m_curr_alloced_bytes' = curr
    /\ m_peak_alloced_bytes' = curr

\* alloc_raw once the base has returned ptr.
record(ptr, size) ==
    LET curr == Wrap(m_curr_alloced_bytes + size) IN
    /\ m_active_allocs' = recorded(ptr, size)
    /\ m_curr_alloced_bytes' = curr
    /\ m_peak_alloced_bytes' = MaxOf(m_peak_alloced_bytes, curr)

alloc_raw(size, align) ==
    /\ m_curr_alloced_bytes + size <= CURR_BOUND
    /\ \E ptr \in start..(start + total) :
         /\ live' = live \cup {[ptr |-> ptr, size |-> size, align |-> align]}
         /\ IF lifo THEN Stack!alloc_raw ELSE Heap!alloc_raw
         /\ record(ptr, size)
    /\ UNCHANGED <<lifo, alive>>

alloc_null == UNCHANGED vars

tracked(ptr) == ptr \in DOMAIN m_active_allocs

\* Mutant: a fixed amount is taken off, whatever the size recorded.
erase_FixedSize(ptr) ==
    /\ m_active_allocs' = Restrict(m_active_allocs,
                                   DOMAIN m_active_allocs \ {ptr})
    /\ m_curr_alloced_bytes' = Wrap(m_curr_alloced_bytes + (SIZE_MAX + 1) - 13)
    /\ UNCHANGED m_peak_alloced_bytes

\* free_raw before it forwards ptr.
erase(ptr) ==
    /\ m_active_allocs' = Restrict(m_active_allocs,
                                   DOMAIN m_active_allocs \ {ptr})
    /\ m_curr_alloced_bytes' = Wrap(m_curr_alloced_bytes + (SIZE_MAX + 1)
                                      - m_active_allocs[ptr])
    /\ UNCHANGED m_peak_alloced_bytes

free_raw(a) ==
    /\ tracked(a.ptr)
    /\ erase(a.ptr)
    /\ live' = live \ (IF lifo THEN Stack!Released(a) ELSE Heap!Released(a))
    /\ UNCHANGED <<lifo, start, total, alive>>

\* nullptr, or a pointer without a record: nothing happens.
free_ignored(ptr) == (ptr = NULL \/ ~tracked(ptr)) /\ UNCHANGED vars

\* The peak stays.
clear ==
    /\ m_active_allocs' = <<>>
    /\ m_curr_alloced_bytes' = 0
    /\ Heap!clear
    /\ UNCHANGED <<lifo, alive, m_peak_alloced_bytes>>

\* Reports what is still recorded; neither the records nor the base change.
destructor == alive' = FALSE /\ UNCHANGED <<lifo, start, total, live, records>>

Next ==
    /\ alive
    /\ \/ \E size \in Sizes, align \in Aligns : alloc_raw(size, align)
       \/ alloc_null
       \/ \E a \in live : free_raw(a)
       \/ \E ptr \in {NULL} \cup {a.ptr : a \in live} : free_ignored(ptr)
       \/ clear
       \/ destructor

Spec == Init /\ [][Next]_vars

-----------------------------------------------------------------------------
\* How many bytes the live allocations have, each byte named by its
\* allocation and its place in it.
BytesInUse == Cardinality(UNION {{a.ptr} \X (1..a.size) : a \in live})

(***************************************************************************)
(* Every live allocation has its own record, so that its free_raw reaches  *)
(* the base, and the byte count never falls below the bytes in use: around *)
(* a stack too, whose free_raw ends newer allocations that stay on record, *)
(* however the addresses of the stale records are handed out again.  Around*)
(* a base whose free_raw ends one allocation the books are exact, so the   *)
(* destructor reports a leak exactly when there is one.                    *)
(***************************************************************************)
BooksBalance ==
    /\ \A a \in live : tracked(a.ptr) /\ m_active_allocs[a.ptr] = a.size
    /\ m_curr_alloced_bytes >= BytesInUse
    /\ ~lifo => /\ DOMAIN m_active_allocs = {a.ptr : a \in live}
                /\ m_curr_alloced_bytes = BytesInUse

(***************************************************************************)
(* "Peak bytes wrong post clear()", "Peak bytes wrong post free()"         *)
(* (tests/track_clear.cpp, track_peak.cpp): the peak outlives whatever is  *)
(* freed or cleared, is never below the bytes in use and grows only to     *)
(* meet them.                                                              *)
(***************************************************************************)
PeakIsHighWater ==
    [][/\ m_peak_alloced_bytes' >= m_peak_alloced_bytes
       /\ m_peak_alloced_bytes' >= m_curr_alloced_bytes'
       /\ m_peak_alloced_bytes' > m_peak_alloced_bytes =>
            m_peak_alloced_bytes' = m_curr_alloced_bytes']_records
=============================================================================
