------------------------ MODULE SegregatedAllocator ------------------------
(***************************************************************************)
(* src/SegregatedAllocator.cpp: one list of free blocks per power of two,  *)
(* a mask of the lists that have blocks, and merging put off until a       *)
(* request finds no block that is large enough.                            *)
(*                                                                         *)
(* m_buckets[b] is the chain from the head of bucket b along the next      *)
(* pointers, as a sequence of block addresses; m_active_buckets is the set *)
(* of bits that are 1.  mem holds the AllocHeader at the start of every    *)
(* block, back the byte in front of the data of every allocation.  The     *)
(* footers are written and never read; they are left out.  What the bytes  *)
(* of a block held before it was merged is dropped from mem.               *)
(***************************************************************************)
EXTENDS Utils, SequencesExt

CONSTANTS
    NUM_BUCKETS,
    OFFSET_MAX,                     \* UINT8_MAX, the largest back offset
    CtorSizes, Sizes, Aligns        \* the arguments clients pass

ASSUME ArgAssumption ==
    /\ NUM_BUCKETS \in Nat \ {0} /\ OFFSET_MAX \in Nat
    /\ CtorSizes \subseteq Word /\ Sizes \subseteq Word /\ Aligns \subseteq Word

VARIABLES
    alive,          \* the object exists: its destructor has not run
    fault,          \* the behaviour has become undefined
    m_start_ptr, m_total_size,
    m_buckets, m_active_buckets,
    mem,            \* block address -> [bucket, free, prev_free]
    back,           \* data address -> the byte in front of it
    live            \* the client's allocations

region == <<m_start_ptr, m_total_size>>
heap == <<m_buckets, m_active_buckets, mem>>
vars == <<alive, fault, region, heap, back, live>>

MIN_BUCKET_ORDER == 5
header_size == 1                    \* sizeof(AllocHeader)

Buckets == 0..(NUM_BUCKETS - 1)
bucket_to_size(bucket) == 2^(MIN_BUCKET_ORDER + bucket)
MAX_BUCKET_SIZE == bucket_to_size(NUM_BUCKETS - 1)
heap_end == m_start_ptr + m_total_size

\* AllocHeader; its order is the bucket's plus MIN_BUCKET_ORDER throughout.
Header(bucket, free, prev_free) ==
    [bucket |-> bucket, free |-> free, prev_free |-> prev_free]

size_to_bucket(size) ==
    Min({b \in 0..WORD_BITS : bucket_to_size(b) >= size})

\* The lists, the mask and the header that clear() writes.
cleared(start, total) ==
    LET top == size_to_bucket(total) IN
    [buckets |-> [b \in Buckets |-> IF b = top THEN <<start>> ELSE <<>>],
     active |-> {top},
     mem |-> [h \in {start} |-> Header(top, TRUE, FALSE)]]

\* The heap variables in the next state.
Becomes(s) ==
    /\ m_buckets' = s.buckets
    /\ m_active_buckets' = s.active
    /\ mem' = s.mem

current == [buckets |-> m_buckets, active |-> m_active_buckets, mem |-> mem]

(***************************************************************************)
(* The constructor.  Without a region m_buckets is left as it was found;   *)
(* a region larger than the largest bucket is written past its end.        *)
(***************************************************************************)
Init ==
    /\ alive = TRUE
    /\ \E size \in CtorSizes : \E target \in bit_ceil(size) :
         LET total == align_up(target, PAGE_SIZE) IN
         /\ m_start_ptr \in os_alloc(IF size = 0 THEN 0 ELSE total)
         /\ m_total_size = IF m_start_ptr = NULL THEN 0 ELSE total
    /\ fault = (size_to_bucket(m_total_size) >= NUM_BUCKETS)
    /\ m_buckets = cleared(m_start_ptr, m_total_size).buckets
    /\ m_active_buckets =
         IF m_start_ptr = NULL THEN {}
         ELSE cleared(m_start_ptr, m_total_size).active
    /\ mem = IF m_start_ptr = NULL THEN <<>>
             ELSE cleared(m_start_ptr, m_total_size).mem
    /\ back = <<>>
    /\ live = {}

-----------------------------------------------------------------------------
\* Mutant: the right-hand block is told nothing.
set_prev_free_Never(m, addr, flag) == m

\* right_header->is_prev_free = flag, when there is a block to the right.
set_prev_free(m, addr, flag) ==
    IF addr < heap_end THEN [m EXCEPT ![addr].prev_free = flag] ELSE m

\* The offset with the bit of the block's size flipped.
buddy_addr(block, bucket) ==
    LET size == bucket_to_size(bucket) IN
    IF ((block - m_start_ptr) \div size) % 2 = 0
    THEN block + size ELSE block - size

\* Mutant: the buddy's order is not compared.
mergeable_AnyOrder(s, block, bucket) ==
    LET buddy == buddy_addr(block, bucket) IN
    /\ buddy < heap_end
    /\ buddy \in DOMAIN s.mem /\ s.mem[buddy].free

\* The buddy exists, is free and has the same size.
mergeable(s, block, bucket) ==
    LET buddy == buddy_addr(block, bucket) IN
    /\ buddy < heap_end
    /\ buddy \in DOMAIN s.mem
    /\ s.mem[buddy].free /\ s.mem[buddy].bucket = bucket

remove_from_bucket(s, blocks, bucket) ==
    LET rest == SelectSeq(s.buckets[bucket], LAMBDA b : b \notin blocks) IN
    [s EXCEPT !.buckets[bucket] = rest,
              !.active = IF rest = <<>> THEN @ \ {bucket} ELSE @]

\* Both buddies leave their bucket; the block they make up enters the next.
merge(s, block, bucket) ==
    LET buddy == buddy_addr(block, bucket)
        left == Min({block, buddy})
        right == Max({block, buddy})
        out == remove_from_bucket(s, {block, buddy}, bucket)
        headers == [h \in DOMAIN s.mem \ {right} |->
                      IF h = left THEN [s.mem[h] EXCEPT !.bucket = bucket + 1]
                      ELSE s.mem[h]]
    IN [buckets |-> [out.buckets EXCEPT ![bucket + 1] = <<left>> \o @],
        active |-> out.active \cup {bucket + 1},
        mem |-> set_prev_free(headers, left + bucket_to_size(bucket + 1), TRUE)]

\* The scan of one bucket ends at the first block it merges.
coalesce_bucket(s, bucket) ==
    LET found == SelectSeq(s.buckets[bucket],
                           LAMBDA b : mergeable(s, b, bucket))
    IN IF found = <<>> THEN s ELSE merge(s, Head(found), bucket)

\* The for loop over the buckets below the last.
coalesce_pass(s) ==
    FoldLeft(coalesce_bucket, s, [i \in 1..(NUM_BUCKETS - 1) |-> i - 1])

\* Mutant: the passes are not repeated while they merge something.
coalesce_all_Once(s) == coalesce_pass(s)

(***************************************************************************)
(* coalesce_all repeats the pass until one merges nothing.  A pass that    *)
(* merges removes a block, so as many passes as there are blocks is        *)
(* enough, and the passes left over change nothing.                        *)
(***************************************************************************)
coalesce_all(s) ==
    FoldLeft(LAMBDA t, i : coalesce_pass(t), s,
             [i \in 1..Cardinality(DOMAIN s.mem) |-> i])

-----------------------------------------------------------------------------
\* The request passes the early returns of alloc_raw.
well_formed(size, align) ==
    /\ ~BadAlign(align)
    /\ size > 0 /\ size <= SIZE_MAX - align - header_size
    /\ size <= MAX_BUCKET_SIZE - header_size
    /\ align <= MAX_BUCKET_SIZE - header_size

\* Mutant: no room for the padding.
actual_size_NoPad(size, align) == header_size + size

actual_size(size, align) == header_size + (align - 1) + size

bucket_idx(size, align) == size_to_bucket(actual_size(size, align))

\* m_buckets[bucket_idx] is out of range, or the constructor left it unset.
undefined(size, align) ==
    \/ m_start_ptr = NULL
    \/ bucket_idx(size, align) >= NUM_BUCKETS

\* The buckets that can serve target: its own blocks, or a bit at or above.
sources(s, target) ==
    IF s.buckets[target] # <<>> THEN {target}
    ELSE {b \in s.active : b >= target}

\* The heap a request works on: merged first if nothing can serve it.
prepared(target) ==
    IF sources(current, target) # {} THEN current ELSE coalesce_all(current)

(***************************************************************************)
(* split_block from source down to target, then the pop of the left-most   *)
(* block, which is marked as used: each bucket passed keeps the right half *)
(* of a split, and the block to the right learns that its left is taken.   *)
(***************************************************************************)
popped(s, target) ==
    LET source == Min(sources(s, target))
        block == Head(s.buckets[source])
        split == target..(source - 1)
        rest == Tail(s.buckets[source])
        right == [h \in {block + bucket_to_size(b) : b \in split} |->
                    Header(CHOOSE b \in split : h = block + bucket_to_size(b),
                           TRUE, TRUE)]
        headers == right @@ [s.mem EXCEPT ![block].bucket = target,
                                          ![block].free = FALSE]
    IN [block |-> block,
        buckets |-> [b \in Buckets |->
          IF b = source THEN rest
          ELSE IF b \in split THEN <<block + bucket_to_size(b)>> \o s.buckets[b]
          ELSE s.buckets[b]],
        active |-> (IF rest = <<>> THEN s.active \ {source} ELSE s.active)
                     \cup split,
        mem |-> set_prev_free(headers, block + bucket_to_size(target), FALSE)]

data_addr(block, align) == align_up(block + header_size + 1, align)

(***************************************************************************)
(* A request that is served.  The data may end past its block: writing it  *)
(* destroys the next block's header, and nothing is said from there on.    *)
(***************************************************************************)
alloc_raw(size, align) ==
    /\ well_formed(size, align)
    /\ ~undefined(size, align)
    /\ LET target == bucket_idx(size, align)
           s == prepared(target)
           t == popped(s, target)
           ptr == data_addr(t.block, align)
       IN
       /\ sources(s, target) # {}
       /\ Becomes(t)
       /\ back' = (ptr :> ((ptr - t.block) % (OFFSET_MAX + 1))) @@ back
       /\ live' = live \cup {[ptr |-> ptr, size |-> size, align |-> align]}
       /\ fault' = (ptr + size > t.block + bucket_to_size(target))
    /\ UNCHANGED <<alive, region>>

\* nullptr: the request is refused, or even merging everything did not help.
alloc_null(size, align) ==
    \/ ~well_formed(size, align) /\ UNCHANGED vars
    \/ /\ well_formed(size, align)
       /\ ~undefined(size, align)
       /\ LET s == prepared(bucket_idx(size, align)) IN
          /\ sources(s, bucket_idx(size, align)) = {}
          /\ Becomes(s)
       /\ UNCHANGED <<alive, fault, region, back, live>>

alloc_undefined(size, align) ==
    /\ well_formed(size, align)
    /\ undefined(size, align)
    /\ fault' = TRUE
    /\ UNCHANGED <<alive, region, heap, back, live>>

\* The block that free_raw finds by the byte in front of the data.
block_of(a) == a.ptr - back[a.ptr]

\* Mutant: the bit of the bucket is not set.
pushed_NoBit(block) ==
    LET bucket == mem[block].bucket IN
    [buckets |-> [m_buckets EXCEPT ![bucket] = <<block>> \o @],
     active |-> m_active_buckets,
     mem |-> set_prev_free([mem EXCEPT ![block].free = TRUE],
                           block + bucket_to_size(bucket), TRUE)]

\* free_raw's update of the header, the bucket and the right neighbour.
pushed(block) ==
    LET bucket == mem[block].bucket IN
    [buckets |-> [m_buckets EXCEPT ![bucket] = <<block>> \o @],
     active |-> m_active_buckets \cup {bucket},
     mem |-> set_prev_free([mem EXCEPT ![block].free = TRUE],
                           block + bucket_to_size(bucket), TRUE)]

free_raw(a) ==
    /\ block_of(a) \in DOMAIN mem
    /\ Becomes(pushed(block_of(a)))
    /\ back' = [p \in DOMAIN back \ {a.ptr} |-> back[p]]
    /\ live' = live \ {a}
    /\ UNCHANGED <<alive, fault, region>>

\* The byte was truncated: the header is read from some data.
free_undefined(a) ==
    /\ block_of(a) \notin DOMAIN mem
    /\ fault' = TRUE
    /\ UNCHANGED <<alive, region, heap, back, live>>

\* Without a region the header is written through nullptr.
clear ==
    /\ IF m_start_ptr = NULL
       THEN fault' = TRUE /\ UNCHANGED heap
       ELSE Becomes(cleared(m_start_ptr, m_total_size)) /\ UNCHANGED fault
    /\ back' = <<>>
    /\ live' = {}
    /\ UNCHANGED <<alive, region>>

\* m_total_size keeps its value.
destructor ==
    /\ alive' = FALSE
    /\ m_start_ptr' = NULL
    /\ mem' = <<>>
    /\ back' = <<>>
    /\ live' = {}
    /\ UNCHANGED <<fault, m_total_size, m_buckets, m_active_buckets>>

owns(ptr) == ptr >= m_start_ptr /\ ptr < heap_end

Next ==
    /\ alive /\ ~fault
    /\ \/ \E size \in Sizes, align \in Aligns :
            \/ alloc_raw(size, align)
            \/ alloc_null(size, align)
            \/ alloc_undefined(size, align)
       \/ \E a \in live : free_raw(a) \/ free_undefined(a)
       \/ clear
       \/ destructor

Spec == Init /\ [][Next]_vars

-----------------------------------------------------------------------------
\* No header claims more than the region.
TypeOK ==
    /\ alive \in BOOLEAN /\ fault \in BOOLEAN
    /\ m_start_ptr \in Word /\ m_total_size \in Word
    /\ m_buckets \in [Buckets -> Seq(Word)]
    /\ m_active_buckets \subseteq Nat
    /\ DOMAIN mem \subseteq Word
    /\ \A h \in DOMAIN mem :
         /\ mem[h] \in [bucket : Nat, free : BOOLEAN, prev_free : BOOLEAN]
         /\ bucket_to_size(mem[h].bucket) <= m_total_size
    /\ DOMAIN back = {a.ptr : a \in live}
    /\ \A p \in DOMAIN back : back[p] \in 0..OFFSET_MAX
    /\ live \subseteq Allocation

\* The object can still be used.
Sound == alive /\ ~fault /\ m_start_ptr # NULL

block_end(h) == h + bucket_to_size(mem[h].bucket)

(***************************************************************************)
(* Splitting, deferred merging and frees in any order keep the blocks side *)
(* by side from the start of the region to its end, each at a multiple of  *)
(* its size from the start: walking by the sizes in the headers visits     *)
(* exactly the blocks.                                                     *)
(***************************************************************************)
Tiled ==
    Sound =>
      /\ m_start_ptr \in DOMAIN mem
      /\ \A h \in DOMAIN mem :
           /\ (h - m_start_ptr) % bucket_to_size(mem[h].bucket) = 0
           /\ block_end(h) \in DOMAIN mem \cup {heap_end}
           /\ \A g \in DOMAIN mem : g <= h \/ g >= block_end(h)

(***************************************************************************)
(* The three places that say where the free blocks are agree: the lists,   *)
(* the mask of lists that have blocks, which alloc_raw searches instead of *)
(* the lists, and the free bits, which merging goes by.                    *)
(***************************************************************************)
BucketsTrue ==
    Sound =>
      /\ m_active_buckets = {b \in Buckets : m_buckets[b] # <<>>}
      /\ \A b \in Buckets :
           /\ IsInjective(m_buckets[b])
           /\ ToSet(m_buckets[b]) =
                {h \in DOMAIN mem : mem[h].free /\ mem[h].bucket = b}

(***************************************************************************)
(* is_prev_free of every block says whether the block to its left is free, *)
(* after any sequence of splits, merges and frees.                         *)
(***************************************************************************)
PrevFreeTrue ==
    Sound => \A h \in DOMAIN mem :
      mem[h].prev_free <=>
        \E g \in DOMAIN mem : block_end(g) = h /\ mem[g].free

(***************************************************************************)
(* What coalesce_all and free_raw read in the headers they walk over, the  *)
(* blocks' places and sizes, is true, and so is is_prev_free, which the    *)
(* code keeps up to date and reads nowhere.                                *)
(***************************************************************************)
HeadersTrue == TypeOK /\ Tiled /\ PrevFreeTrue

(***************************************************************************)
(* "'free_raw' relies on reading that byte" (alloc_raw): the byte leads    *)
(* from every allocation whose alignment fits in a byte to the start of    *)
(* its own block, whose header it does not overlay, which is marked as     *)
(* used and is no other allocation's.                                      *)
(***************************************************************************)
BackFindsBlock ==
    Sound => \A a \in live :
      a.align <= OFFSET_MAX =>
        /\ block_of(a) \in DOMAIN mem
        /\ ~mem[block_of(a)].free
        /\ block_of(a) + header_size < a.ptr /\ a.ptr < block_end(block_of(a))
        /\ \A b \in live \ {a} :
             b.ptr < block_of(a) \/ b.ptr >= block_end(block_of(a))

\* The block that an allocation was taken from.
own_block(a) == Max({g \in DOMAIN mem : g < a.ptr})

(***************************************************************************)
(* "1 byte header + worst case alignment + requested size" (alloc_raw):    *)
(* the block behind an allocation holds all its data, save for requests    *)
(* with no alignment to pad for, which the byte in front of the data can   *)
(* push one byte past the end of the block.                                *)
(***************************************************************************)
BlockHoldsData ==
    \A a \in live :
      End(a) <= block_end(own_block(a)) + (IF a.align = 1 THEN 1 ELSE 0)

(***************************************************************************)
(* An allocation lies in a block of its own, and free_raw finds that block. *)
(***************************************************************************)
DataInBlock == BackFindsBlock /\ BlockHoldsData

(***************************************************************************)
(* "its only responsible for coalescing all of the blocks back": after     *)
(* coalesce_all no two buddies of one size are both free, and when nothing *)
(* is allocated the region is one block again, ready for the largest       *)
(* request.                                                                *)
(***************************************************************************)
CoalescesFully ==
    Sound =>
      LET s == coalesce_all(current) IN
      /\ \A b \in 0..(NUM_BUCKETS - 2) : \A h \in ToSet(s.buckets[b]) :
           ~mergeable(s, h, b)
      /\ live = {} => s = cleared(m_start_ptr, m_total_size)

(***************************************************************************)
(* The segregated allocator keeps the promise of IAllocator for as long as *)
(* its behaviour is defined.                                               *)
(***************************************************************************)
Contract == INSTANCE IAllocator
    WITH start <- m_start_ptr, total <- m_total_size,
         live <- IF fault THEN {} ELSE live, Lifo <- FALSE

ContractSpec == Contract!Spec
=============================================================================
