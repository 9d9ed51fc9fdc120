--------------------------- MODULE PoolAllocator ----------------------------
(***************************************************************************)
(* src/PoolAllocator.cpp: equal chunks on an intrusive, singly linked free *)
(* list.                                                                   *)
(*                                                                         *)
(* mem holds the next pointers: the first word of the chunks that hold one.*)
(* A chunk handed out belongs to its client, who overwrites that word, so  *)
(* alloc_raw removes the chunk from mem; to follow a link that is not in   *)
(* mem would be to read the client's data.                                 *)
(***************************************************************************)
EXTENDS Utils

CONSTANTS
    ChunkSizes, ChunkAligns, ChunkCounts,   \* constructor arguments
    Sizes, Aligns                           \* alloc_raw arguments

ASSUME ArgAssumption ==
    /\ ChunkSizes \subseteq Word /\ ChunkCounts \subseteq Word
    /\ Sizes \subseteq Word /\ Aligns \subseteq Word
    \* "NOTE: align must be a power of 2" (utils.hpp)
    /\ \A align \in ChunkAligns : align \in Word /\ (align = 0 \/ IsPow2(align))

VARIABLES
    alive,          \* the object exists: its destructor has not run
    m_chunk_size, m_chunk_align, m_start_ptr, m_total_size, m_free_list_head,
    mem,            \* free chunk -> next free chunk
    live            \* the client's allocations

geometry == <<m_chunk_size, m_chunk_align, m_start_ptr, m_total_size>>
vars == <<alive, geometry, m_free_list_head, mem, live>>

pointer_size == 8       \* sizeof(void *)

\* The chunks of a region of total bytes at start.
ChunksOf(start, total, chunk_size) ==
    IF start = NULL THEN {}
    ELSE {start + i * chunk_size : i \in 0..((total \div chunk_size) - 1)}

Chunks == ChunksOf(m_start_ptr, m_total_size, m_chunk_size)

\* What clear() writes: each chunk links to the one above it.
Linked(start, total, chunk_size) ==
    LET chunks == ChunksOf(start, total, chunk_size) IN
    [c \in chunks |-> IF c + chunk_size \in chunks THEN c + chunk_size
                                                   ELSE NULL]

\* chunk_size rounded up so that every chunk can hold a pointer, aligned.
rounded(chunk_size, chunk_align) ==
    align_up(MaxOf(chunk_size, pointer_size), chunk_align)

\* Mutant: the product is not checked for overflow.
bytes_Unchecked(chunk_size, chunk_align, chunk_count) ==
    IF chunk_size = 0 \/ chunk_align = 0 \/ chunk_count = 0 THEN 0
    ELSE Wrap(rounded(chunk_size, chunk_align) * chunk_count)

\* m_chunk_size * chunk_count, 0 when an argument is 0 or the product wraps.
bytes(chunk_size, chunk_align, chunk_count) ==
    IF chunk_size = 0 \/ chunk_align = 0 \/ chunk_count = 0 THEN 0
    ELSE IF rounded(chunk_size, chunk_align) > SIZE_MAX \div chunk_count THEN 0
    ELSE rounded(chunk_size, chunk_align) * chunk_count

Init ==
    /\ alive = TRUE
    /\ \E size \in ChunkSizes, align \in ChunkAligns, count \in ChunkCounts :
         LET total == bytes(size, align, count) IN
         /\ m_start_ptr \in os_alloc(total)
         /\ IF m_start_ptr # NULL
            THEN /\ m_chunk_size = rounded(size, align)
                 /\ m_chunk_align = align
                 /\ m_total_size = total
            ELSE /\ m_chunk_size = 0
                 /\ m_chunk_align = IF size = 0 \/ count = 0 THEN align ELSE 0
                 /\ m_total_size = 0
    /\ m_free_list_head = m_start_ptr
    /\ mem = Linked(m_start_ptr, m_total_size, m_chunk_size)
    /\ live = {}

\* Mutant: a chunk is handed out whatever alignment is asked for.
fits_AnyAlign(size, align) ==
    /\ ~BadAlign(align)
    /\ size > 0 /\ size <= m_chunk_size
    /\ m_free_list_head # NULL

fits(size, align) ==
    /\ ~BadAlign(align)
    /\ size > 0 /\ size <= m_chunk_size /\ align <= m_chunk_align
    /\ m_free_list_head # NULL

alloc_raw(size, align) ==
    LET ret_head == m_free_list_head IN
    /\ fits(size, align)
    /\ m_free_list_head' = mem[ret_head]
    /\ mem' = [c \in DOMAIN mem \ {ret_head} |-> mem[c]]
    /\ live' = live \cup {[ptr |-> ret_head, size |-> size, align |-> align]}
    /\ UNCHANGED <<alive, geometry>>

alloc_null(size, align) == ~fits(size, align) /\ UNCHANGED vars

\* Mutant: the freed chunk becomes the whole list.
free_raw_NoLink(a) ==
    /\ mem' = [c \in DOMAIN mem \cup {a.ptr} |->
                 IF c = a.ptr THEN NULL ELSE mem[c]]
    /\ m_free_list_head' = a.ptr
    /\ live' = live \ {a}
    /\ UNCHANGED <<alive, geometry>>

free_raw(a) ==
    /\ mem' = [c \in DOMAIN mem \cup {a.ptr} |->
                 IF c = a.ptr THEN m_free_list_head ELSE mem[c]]
    /\ m_free_list_head' = a.ptr
    /\ live' = live \ {a}
    /\ UNCHANGED <<alive, geometry>>

clear ==
    /\ \/ m_start_ptr = NULL /\ UNCHANGED <<mem, m_free_list_head>>
       \/ /\ m_start_ptr # NULL
          /\ mem' = Linked(m_start_ptr, m_total_size, m_chunk_size)
          /\ m_free_list_head' = m_start_ptr
    /\ live' = {}
    /\ UNCHANGED <<alive, geometry>>

destructor ==
    /\ alive' = FALSE
    /\ m_start_ptr' = NULL
    /\ mem' = <<>>
    /\ live' = {}
    /\ UNCHANGED <<m_chunk_size, m_chunk_align, m_total_size, m_free_list_head>>

owns(ptr) == ptr >= m_start_ptr /\ ptr < m_start_ptr + m_total_size

Next ==
    /\ alive
    /\ \/ \E size \in Sizes, align \in Aligns :
            alloc_raw(size, align) \/ alloc_null(size, align)
       \/ \E a \in live : free_raw(a)
       \/ clear
       \/ destructor

Spec == Init /\ [][Next]_vars

-----------------------------------------------------------------------------
\* The region's end is an address too, and it holds at least one chunk.
TypeOK ==
    /\ alive \in BOOLEAN
    /\ m_chunk_size \in Word /\ m_chunk_align \in Word
    /\ m_start_ptr \in Word /\ m_total_size \in Word
    /\ m_start_ptr + m_total_size \in Word
    /\ m_start_ptr # NULL => m_chunk_size \in 1..m_total_size
    /\ m_free_list_head \in Word
    /\ DOMAIN mem \subseteq Word
    /\ \A c \in DOMAIN mem : mem[c] \in Word
    /\ live \subseteq Allocation

(***************************************************************************)
(* Every chunk is either in one client's hands or in the free list's       *)
(* memory; a link leads to a free chunk or ends the list; no free chunk    *)
(* has two links to it, counting the head.  So a pop never returns a chunk *)
(* that is in use and never reads a client's data as a link.               *)
(***************************************************************************)
FreeLinks ==
    alive =>
      /\ \A a \in live : /\ a.ptr \in Chunks \ DOMAIN mem
                        /\ a.size \in 1..m_chunk_size
      /\ \A a, b \in live : a.ptr = b.ptr => a = b
      /\ DOMAIN mem \cup {a.ptr : a \in live} = Chunks
      /\ m_free_list_head \in DOMAIN mem \cup {NULL}
      /\ \A c \in DOMAIN mem :
           /\ mem[c] \in DOMAIN mem \cup {NULL}
           /\ mem[c] # NULL => mem[c] # m_free_list_head
           /\ \A d \in DOMAIN mem : mem[c] = mem[d] /\ mem[c] # NULL => c = d

(***************************************************************************)
(* No chunk is lost: following the links from m_free_list_head reaches     *)
(* every chunk that no client holds, so the pool refuses a well-formed     *)
(* request only when all its chunks are in use.                            *)
(***************************************************************************)
NothingLost ==
    alive =>
      LET n == m_total_size
          walk[i \in 0..n] ==
            IF i = 0 THEN m_free_list_head
            ELSE IF walk[i - 1] \in DOMAIN mem THEN mem[walk[i - 1]]
            ELSE NULL
      IN {walk[i] : i \in 0..n} \ {NULL} = Chunks \ {a.ptr : a \in live}

(***************************************************************************)
(* The alignments a mapping can serve: os_alloc aligns the region to the   *)
(* page, itself a power of two, and the constructor to nothing more.       *)
(***************************************************************************)
PageServes ==
    /\ IsPow2(PAGE_SIZE)
    /\ \A align \in Aligns : align <= PAGE_SIZE

(***************************************************************************)
(* The pool keeps the promise of IAllocator.                               *)
(***************************************************************************)
Contract == INSTANCE IAllocator
    WITH start <- m_start_ptr, total <- m_total_size, live <- live,
         Lifo <- FALSE

ContractSpec == Contract!Spec
=============================================================================
