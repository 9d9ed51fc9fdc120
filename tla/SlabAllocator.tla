--------------------------- MODULE SlabAllocator ----------------------------
(***************************************************************************)
(* src/SlabAllocator.cpp over a buddy allocator, the base that the tests   *)
(* give it: pages of equal objects for small requests, the base itself for *)
(* the others.                                                             *)
(*                                                                         *)
(* m_caches[i] holds the three slab lists of a cache, each the chain from  *)
(* its head along the next pointers, as a sequence of pages.  header maps  *)
(* a page to the SlabHeader at its start; its domain is the pages whose id *)
(* word reads SLAB_ID, whether they still are slabs or not.  A client      *)
(* writes the bytes it was given when it likes, or not at all, and is      *)
(* taken never to write that ID.                                           *)
(***************************************************************************)
EXTENDS Utils, SequencesExt

CONSTANTS
    NUM_CACHES,                     \* number of object sizes
    MAX_ORDER, OFFSET_MAX,          \* of the base
    CtorSizes,
    Sizes, Aligns                   \* the arguments clients pass

ASSUME ArgAssumption ==
    /\ NUM_CACHES \in Nat \ {0}
    /\ Sizes \subseteq Word /\ Aligns \subseteq Word

VARIABLES
    base_alive, base_fault, base_start, base_total, base_lists, base_mem,
    base_live, base_lost,           \* the base's state
    alive,          \* the object exists: its destructor has not run
    fault,          \* free_raw took a page that is no slab for one
    clearing,       \* the pages that a clear() in progress has yet to free
    m_caches, header,
    live            \* the client's allocations

base_vars == <<base_alive, base_fault, base_start, base_total, base_lists,
               base_mem, base_live, base_lost>>
vars == <<base_vars, alive, fault, clearing, m_caches, header, live>>

Base == INSTANCE BuddyAllocator
    WITH alive <- base_alive, fault <- base_fault,
         m_start_ptr <- base_start, m_total_size <- base_total,
         m_free_lists <- base_lists, mem <- base_mem,
         live <- base_live, lost <- base_lost

header_size == 32           \* sizeof(SlabHeader)
MIN_CACHE_SIZE == 8         \* 1 << MIN_CACHE_ORDER
MAX_CACHE_SIZE == MIN_CACHE_SIZE * 2^(NUM_CACHES - 1)

\* The bytes of the id within a page.
id_bytes == 30..31

Caches == 0..(NUM_CACHES - 1)
object_size(idx) == MIN_CACHE_SIZE * 2^idx

page_of(ptr) == ptr - (ptr % PAGE_SIZE)

\* Mutant: rounded down instead of up.
size_to_cache_idx_Down(size) ==
    Max({0} \cup {i \in Caches : object_size(i) <= size})

size_to_cache_idx(size) == Min({i \in Caches : object_size(i) >= size})

capacity(idx) == (PAGE_SIZE - header_size) \div object_size(idx)

no_slabs == [i \in Caches |-> [empty |-> <<>>, partial |-> <<>>, full |-> <<>>]]

Init ==
    /\ Base!Init
    /\ alive = TRUE /\ fault = FALSE
    /\ clearing = <<>>
    /\ m_caches = no_slabs
    /\ header = <<>>
    /\ live = {}

\* The pages on some list of some cache.
SlabPages ==
    UNION {UNION {ToSet(m_caches[i][l]) : l \in {"empty", "partial", "full"}} :
             i \in Caches}

\* Mutant: the pointer is not masked down to its page.
owns_Unmasked(ptr) == ptr \in DOMAIN header

owns(ptr) == page_of(ptr) \in DOMAIN header

-----------------------------------------------------------------------------
base_alloc(size, align) ==
    \/ Base!alloc_raw(size, align)
    \/ Base!alloc_null(size, align)
    \/ Base!alloc_undefined(size, align)

\* What m_base_allocator->alloc_raw returned in this step.
base_result ==
    IF base_live' = base_live THEN NULL
    ELSE (CHOOSE b \in base_live' : b \notin base_live).ptr

\* The headers whose id survives when the bytes from first up to end are
\* written over.
Surviving(first, end) ==
    {p \in DOMAIN header : \A i \in id_bytes : p + i < first \/ p + i >= end}

\* The header and the free slots that init_slab writes.
new_header(page, idx) ==
    [used |-> 0, capacity |-> capacity(idx), cache_idx |-> idx,
     free_list |-> [i \in 1..capacity(idx) |->
                      page + header_size + ((i - 1) * object_size(idx))]]

\* A cache's lists once a slot of the page has been taken.  The page came
\* from the front of partial, from empty, or is new to the cache.
with_slot_taken(cache, page, full) ==
    [empty |-> Remove(cache.empty, page),
     partial |-> IF full THEN Remove(cache.partial, page)
                 ELSE <<page>> \o Remove(cache.partial, page),
     full |-> IF full THEN <<page>> \o cache.full ELSE cache.full]

\* The end of alloc_raw: the first free slot of the page is handed out.
take_slot(page, h, size, align) ==
    LET idx == h.cache_idx
        taken == [h EXCEPT !.used = @ + 1, !.free_list = Tail(@)]
    IN
    /\ header' = (page :> taken) @@ header
    /\ m_caches' = [m_caches EXCEPT
         ![idx] = with_slot_taken(@, page, taken.used = taken.capacity)]
    /\ live' = live \cup
         {[ptr |-> Head(h.free_list), size |-> size, align |-> align]}

well_formed(size, align) ==
    /\ ~BadAlign(align)
    /\ size > 0 /\ size <= SIZE_MAX - align

\* Small enough for a cache.
cached(size, align) == size <= MAX_CACHE_SIZE /\ align <= MAX_CACHE_SIZE

cache_for(size, align) == size_to_cache_idx(MaxOf(size, align))

\* The slabs of a cache in the order alloc_raw looks at them.
candidates(idx) == m_caches[idx].partial \o m_caches[idx].empty

alloc_cached(size, align) ==
    /\ well_formed(size, align) /\ cached(size, align)
    /\ LET idx == cache_for(size, align) IN
       /\ candidates(idx) # <<>>
       /\ LET page == Head(candidates(idx)) IN
          take_slot(page, header[page], size, align)
    /\ UNCHANGED <<base_vars, alive, fault, clearing>>

alloc_new_slab(size, align) ==
    /\ well_formed(size, align) /\ cached(size, align)
    /\ LET idx == cache_for(size, align) IN
       /\ candidates(idx) = <<>>
       /\ base_alloc(PAGE_SIZE, PAGE_SIZE)
       /\ IF base_result = NULL THEN UNCHANGED <<m_caches, header, live>>
          ELSE take_slot(base_result, new_header(base_result, idx), size, align)
    /\ UNCHANGED <<alive, fault, clearing>>

\* The base writes its AllocHeader below the data, and none of the data.
alloc_from_base(size, align) ==
    /\ well_formed(size, align) /\ ~cached(size, align)
    /\ base_alloc(size, align)
    /\ IF base_result = NULL THEN UNCHANGED <<header, live>>
       ELSE /\ live' = live \cup
                 {[ptr |-> base_result, size |-> size, align |-> align]}
            /\ header' = [p \in Surviving(base_result - Base!header_size,
                                        base_result) |-> header[p]]
    /\ UNCHANGED <<alive, fault, clearing, m_caches>>

alloc_null(size, align) == ~well_formed(size, align) /\ UNCHANGED vars

-----------------------------------------------------------------------------
\* The slab had no free slot before the one just freed.
unfill(cache, page, h) ==
    IF h.used # h.capacity - 1 THEN cache
    ELSE [cache EXCEPT !.full = Remove(@, page), !.partial = <<page>> \o @]

\* The slab has no object left.
drain(cache, page, h) ==
    IF h.used # 0 THEN cache
    ELSE [cache EXCEPT !.partial = Remove(@, page), !.empty = <<page>> \o @]

\* Mutant: "else if", which forgets slabs of one object.
with_slot_freed_ElseIf(cache, page, h) ==
    IF h.used = h.capacity - 1 THEN unfill(cache, page, h)
    ELSE drain(cache, page, h)

with_slot_freed(cache, page, h) == drain(unfill(cache, page, h), page, h)

push_slot(h, ptr) == [h EXCEPT !.used = @ - 1, !.free_list = <<ptr>> \o @]

free_slot(a) ==
    LET page == page_of(a.ptr)
        h == push_slot(header[page], a.ptr)
    IN
    /\ owns(a.ptr) /\ page \in SlabPages
    /\ header' = [header EXCEPT ![page] = h]
    /\ m_caches' = [m_caches EXCEPT
                      ![h.cache_idx] = with_slot_freed(@, page, h)]
    /\ live' = live \ {a}
    /\ UNCHANGED <<base_vars, alive, fault, clearing>>

\* A page that only looks like a slab is on no list, and its counters and
\* links are a client's data: the behaviour is undefined from here on.
free_undefined(a) ==
    /\ owns(a.ptr) /\ page_of(a.ptr) \notin SlabPages
    /\ fault' = TRUE
    /\ UNCHANGED <<base_vars, alive, clearing, m_caches, header, live>>

free_to_base(a) ==
    /\ ~owns(a.ptr)
    /\ \E b \in base_live : b.ptr = a.ptr /\ Base!free_raw(b)
    /\ live' = live \ {a}
    /\ UNCHANGED <<alive, fault, clearing, m_caches, header>>

\* The client's allocations that are blocks of the base.
Routed == {a \in live : \E b \in base_live : b.ptr = a.ptr}

\* The client of a block of the base writes all of it.
client_write(a) ==
    /\ header' = [p \in Surviving(a.ptr, End(a)) |-> header[p]]
    /\ UNCHANGED <<base_vars, alive, fault, clearing, m_caches, live>>

\* Mutant: the empty slabs are kept from the base.
slabs_in_order_NoEmpty ==
    FlattenSeq([i \in 1..NUM_CACHES |->
                  m_caches[i - 1].full \o m_caches[i - 1].partial])

\* The slabs in the order that clear() frees them.
slabs_in_order ==
    FlattenSeq([i \in 1..NUM_CACHES |->
                  m_caches[i - 1].full \o m_caches[i - 1].partial
                    \o m_caches[i - 1].empty])

(***************************************************************************)
(* clear() gives the slabs back to the base one at a time; nothing else    *)
(* runs until the last one is freed.  Blocks that came straight from the   *)
(* base are not known to it and stay their clients'.                       *)
(***************************************************************************)
clear ==
    /\ clearing' = slabs_in_order
    /\ m_caches' = no_slabs
    /\ live' = Routed
    /\ UNCHANGED <<base_vars, alive, fault, header>>

clear_slab ==
    /\ \E b \in base_live : b.ptr = Head(clearing) /\ Base!free_raw(b)
    /\ clearing' = Tail(clearing)
    /\ UNCHANGED <<alive, fault, m_caches, header, live>>

\* The destructor is a clear().
destructor ==
    /\ clearing' = slabs_in_order
    /\ m_caches' = no_slabs
    /\ live' = Routed
    /\ alive' = FALSE
    /\ UNCHANGED <<base_vars, fault, header>>

Next ==
    /\ ~fault /\ ~base_fault
    /\ \/ clearing # <<>> /\ clear_slab
       \/ /\ clearing = <<>> /\ alive
          /\ \/ \E size \in Sizes, align \in Aligns :
                  \/ alloc_cached(size, align)
                  \/ alloc_new_slab(size, align)
                  \/ alloc_from_base(size, align)
                  \/ alloc_null(size, align)
             \/ \E a \in live :
                  free_slot(a) \/ free_undefined(a) \/ free_to_base(a)
             \/ \E a \in Routed : client_write(a)
             \/ clear
             \/ destructor

Spec == Init /\ [][Next]_vars

-----------------------------------------------------------------------------
\* The free slots of a page lie behind its header and inside it.
TypeOK ==
    /\ alive \in BOOLEAN /\ fault \in BOOLEAN
    /\ clearing \in Seq(Word)
    /\ DOMAIN m_caches = Caches
    /\ \A i \in Caches : \A l \in {"empty", "partial", "full"} :
         m_caches[i][l] \in Seq(Word)
    /\ \A p \in DOMAIN header :
         /\ header[p].cache_idx \in Caches
         /\ header[p].used \in 0..header[p].capacity
         /\ \A s \in ToSet(header[p].free_list) :
              /\ s >= p + header_size
              /\ s + object_size(header[p].cache_idx) <= p + PAGE_SIZE
    /\ live \subseteq Allocation

(***************************************************************************)
(* A slab is on exactly one list of its own cache, once, and the list says *)
(* how full it is: alloc_raw never pops a slot of a full slab, and finds   *)
(* every slot that is free.  Slabs of a single object, which go from full  *)
(* to empty in one free_raw, are no exception.                             *)
(***************************************************************************)
ListsMatchUse ==
    ~fault =>
      /\ \A i \in Caches : LET c == m_caches[i] IN
           /\ IsInjective(c.empty \o c.partial \o c.full)
           /\ ToSet(c.empty \o c.partial \o c.full) \subseteq
                {p \in DOMAIN header : header[p].cache_idx = i}
           /\ \A p \in ToSet(c.empty) : header[p].used = 0
           /\ \A p \in ToSet(c.full) : header[p].used = header[p].capacity
           /\ \A p \in ToSet(c.partial) :
                header[p].used \in 1..(header[p].capacity - 1)
      /\ \A p \in SlabPages : header[p].used = Cardinality(
           {a \in live \ Routed : page_of(a.ptr) = p})

(***************************************************************************)
(* A slot is free or in one client's hands: the free list of a slab holds  *)
(* each slot that no client has, once, and none that a client has.         *)
(***************************************************************************)
SlotsAccounted ==
    ~fault => \A p \in SlabPages :
      LET h == header[p]
          used == {a.ptr : a \in {b \in live : page_of(b.ptr) = p}}
      IN
      /\ IsInjective(h.free_list)
      /\ used \cap ToSet(h.free_list) = {}
      /\ used \cup ToSet(h.free_list) =
           ToSet(new_header(p, h.cache_idx).free_list)

(***************************************************************************)
(* The slabs' books agree: lists, counts and free lists tell one story about *)
(* which slots clients hold, whatever the order of allocations and frees.  *)
(***************************************************************************)
SlabsTrue == TypeOK /\ ListsMatchUse /\ SlotsAccounted

(***************************************************************************)
(* "Slab clear caused a mem leak in base allocator" (tests/slab_clear.cpp):*)
(* every block the base has handed out is a slab, a slab about to be given *)
(* back, or a block some client still holds.                               *)
(***************************************************************************)
NoLeak ==
    ~fault => {b.ptr : b \in base_live} =
                SlabPages \cup ToSet(clearing) \cup {a.ptr : a \in Routed}

(***************************************************************************)
(* "it checks the ID to confirm it belongs to a slab" (README.md): what    *)
(* came out of a slab is always known by the page it lies in.  The mark of *)
(* a slab in use outlives whatever its objects' and other blocks' clients  *)
(* and the base write, and no block of the base begins in a page that is   *)
(* a slab, so only a page that was a slab earlier can mislead free_raw.    *)
(***************************************************************************)
SlabsRecognised ==
    ~fault => \A a \in live :
      /\ page_of(a.ptr) \in SlabPages <=> a \notin Routed
      /\ page_of(a.ptr) \in SlabPages => owns(a.ptr)

(***************************************************************************)
(* "If the ID matches the predefined SLAB_ID, it is a slab block"          *)
(* (README.md): free_raw takes a pointer for a slab's exactly when it came *)
(* out of one.  The code does not see to that: a page keeps its mark when  *)
(* clear() gives it back, and a block that the base places there later is  *)
(* taken for a slot until its client has written over the mark.            *)
(***************************************************************************)
RoutedByOwner == ~fault => \A a \in live : owns(a.ptr) <=> a \notin Routed

\* The objects served from slabs, with the alignment that their slots have.
served ==
    {[a EXCEPT !.align = IF @ > header_size THEN header_size ELSE @] :
       a \in live \ Routed}

(***************************************************************************)
(* The objects served from slabs keep the promise of IAllocator within the *)
(* base's region, but for alignments above header_size, which they keep    *)
(* only so far: "ensure the cache picked is large enough to fit the        *)
(* aligned size" (alloc_raw) aligns objects among themselves, and the      *)
(* first one lies header_size into its page.                               *)
(***************************************************************************)
Contract == INSTANCE IAllocator
    WITH start <- base_start, total <- base_total, live <- served,
         Lifo <- FALSE

ContractSpec == Contract!Spec
=============================================================================
