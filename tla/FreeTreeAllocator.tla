------------------------- MODULE FreeTreeAllocator -------------------------
(***************************************************************************)
(* src/FreeTreeAllocator.cpp: best fit by a tree of the free blocks, with  *)
(* a size and a flag at both ends of every block so that a freed one finds *)
(* its neighbours.                                                         *)
(*                                                                         *)
(* A block is named by the address of its header.  tags holds the header   *)
(* and the footer of every block, the prologue and the epilogue, by        *)
(* address, as size() and allocated() read them; what lies inside a block  *)
(* is dropped from it.  The tree in front of the blocks is the abstract    *)
(* BestFit, which module RBTree implements; its nodes are the first data   *)
(* bytes of the free blocks.                                               *)
(***************************************************************************)
EXTENDS Utils

CONSTANTS CtorSizes, Sizes, Aligns      \* the arguments clients pass

ASSUME ArgAssumption ==
    CtorSizes \subseteq Word /\ Sizes \subseteq Word /\ Aligns \subseteq Word

VARIABLES
    alive,          \* the object exists: its destructor has not run
    fault,          \* the behaviour has become undefined
    m_start_ptr, m_total_size,
    m_free_tree,    \* node -> size
    tags,           \* address -> [size, allocated]
    back,           \* data address -> the header pointer in front of it
    live            \* the client's allocations

region == <<m_start_ptr, m_total_size>>
heap == <<m_free_tree, tags>>
vars == <<alive, fault, region, heap, back, live>>

Tree == INSTANCE BestFit WITH tree <- m_free_tree

word_size == 8                  \* of a pointer, and of a header or footer
tree_size == 48                 \* sizeof(RBTree)
node_size == 40                 \* sizeof(RBTree::Node)
min_split_size == 2 * word_size + node_size

ASSUME PageHoldsBlock ==
    /\ PAGE_SIZE >= tree_size + 4 * word_size + node_size
    /\ PAGE_SIZE % word_size = 0

prologue(start) == start + tree_size
epilogue(start, total) == start + total - word_size
first_block(start) == prologue(start) + word_size

\* BlockMetadata: the flag shares the word with the size.
Tag(size, allocated) ==
    [size |-> size - (size % 8), allocated |-> allocated \/ size % 2 = 1]

node_of(header) == header + word_size
footer_of(header, size) == header + word_size + size
next_of(header, size) == footer_of(header, size) + word_size

\* Mutant: the footer keeps the flag it had.
update_block_OldFooter(t, header, size, allocated) ==
    LET footer == footer_of(header, size) IN
    [a \in {b \in DOMAIN t : b < header \/ b > footer} \cup {header, footer} |->
       IF a = header THEN Tag(size, allocated)
       ELSE IF a = footer
            THEN Tag(size, a \in DOMAIN t /\ t[a].allocated)
       ELSE t[a]]

\* Header and footer of a block; the tags between them are data from here on.
update_block(t, header, size, allocated) ==
    LET footer == footer_of(header, size) IN
    [a \in {b \in DOMAIN t : b < header \/ b > footer} \cup {header, footer} |->
       IF a \in {header, footer} THEN Tag(size, allocated) ELSE t[a]]

\* What clear() writes: the two fake tags and one free block between them.
cleared(start, total) ==
    LET header == first_block(start)
        size == epilogue(start, total) - header - 2 * word_size
        ends == [a \in {prologue(start), epilogue(start, total)} |->
                   Tag(0, TRUE)]
    IN [tree |-> [n \in {node_of(header)} |-> size],
        tags |-> update_block(ends, header, size, FALSE)]

Becomes(s) == m_free_tree' = s.tree /\ tags' = s.tags

Init ==
    /\ alive = TRUE /\ fault = FALSE
    /\ \E size \in CtorSizes :
         LET total == align_up(size, PAGE_SIZE) IN
         /\ m_start_ptr \in os_alloc(total)
         /\ m_total_size = IF m_start_ptr = NULL THEN 0 ELSE total
    /\ m_free_tree = IF m_start_ptr = NULL THEN <<>>
                     ELSE cleared(m_start_ptr, m_total_size).tree
    /\ tags = IF m_start_ptr = NULL THEN <<>>
              ELSE cleared(m_start_ptr, m_total_size).tags
    /\ back = <<>>
    /\ live = {}

-----------------------------------------------------------------------------
least_align(align) == MaxOf(align, word_size)

\* The request passes the early returns of alloc_raw.
well_formed(size, align) ==
    /\ ~BadAlign(align)
    /\ size > 0 /\ size <= SIZE_MAX - least_align(align) - word_size

\* Mutant: no room for the padding.
search_size_NoPad(size, align) ==
    MaxOf(align_up(size + word_size, word_size), node_size)

(***************************************************************************)
(* The worst case, rounded up, and never less than a node.  The rounding   *)
(* wraps for requests just below the largest one let through.              *)
(***************************************************************************)
search_size(size, align) ==
    MaxOf(align_up(size + (least_align(align) - 1) + word_size, word_size),
          node_size)

\* Mutant: the room for the header pointer comes after the alignment.
align_ptr_Before(node, align) == align_up(node, least_align(align)) + word_size

align_ptr(node, align) == align_up(node + word_size, least_align(align))

\* The rest of the block has room for its tags and a node.
splits(orig, search) == orig - search >= min_split_size

\* The heap when the block of this node is handed out, its rest split off.
taken(node, search) ==
    LET header == node - word_size
        orig == m_free_tree[node]
        rest == next_of(header, search)
        rest_size == orig - search - 2 * word_size
        without == Tree!removed(m_free_tree, node)
    IN IF splits(orig, search)
       THEN [tree |-> Tree!inserted(without, node_of(rest), rest_size),
             tags |-> update_block(update_block(tags, header, search, TRUE),
                                   rest, rest_size, FALSE)]
       ELSE [tree |-> without, tags |-> update_block(tags, header, orig, TRUE)]

(***************************************************************************)
(* A request that is served from some best-fitting block.  Data that ends  *)
(* past its block destroys other tags, and nothing is said from there on.  *)
(***************************************************************************)
alloc_raw(size, align) ==
    LET search == search_size(size, align) IN
    /\ well_formed(size, align) /\ m_start_ptr # NULL
    /\ \E node \in Tree!find_best(m_free_tree, search) :
         LET ptr == align_ptr(node, align)
             header == node - word_size
             s == taken(node, search)
         IN
         /\ Becomes(s)
         /\ back' = [p \in DOMAIN back \cup {ptr} |->
                       IF p = ptr THEN header ELSE back[p]]
         /\ live' = live \cup {[ptr |-> ptr, size |-> size, align |-> align]}
         /\ fault' = (ptr + size > footer_of(header, s.tags[header].size))
    /\ UNCHANGED <<alive, region>>

alloc_null(size, align) ==
    /\ \/ ~well_formed(size, align)
       \/ /\ m_start_ptr # NULL
          /\ Tree!find_best(m_free_tree, search_size(size, align)) = {}
    /\ UNCHANGED vars

\* Without a region the tree is searched through nullptr.
alloc_undefined(size, align) ==
    /\ well_formed(size, align) /\ m_start_ptr = NULL
    /\ fault' = TRUE
    /\ UNCHANGED <<alive, region, heap, back, live>>

-----------------------------------------------------------------------------
right_of(header) == next_of(header, tags[header].size)
left_of(header) == header - 2 * word_size - tags[header - word_size].size

\* Mutant: only the right-hand neighbour is looked at.
neighbours_RightOnly(header) ==
    IF tags[right_of(header)].allocated THEN {} ELSE {right_of(header)}

(***************************************************************************)
(* The free blocks that coalesce finds on both sides of a block: by the    *)
(* header to its right and by the footer to its left.                      *)
(***************************************************************************)
neighbours(header) ==
    (IF tags[right_of(header)].allocated THEN {} ELSE {right_of(header)}) \cup
    (IF tags[header - word_size].allocated THEN {} ELSE {left_of(header)})

\* What merging with h adds: its size and the two tags in between.
gain(header, h) ==
    IF h \in neighbours(header) THEN tags[h].size + 2 * word_size ELSE 0

coalesced_size(header) ==
    tags[header].size + gain(header, right_of(header))
                      + gain(header, left_of(header))

\* The block joined with its free neighbours and entered into the tree.
released(header) ==
    LET merged == IF left_of(header) \in neighbours(header)
                  THEN left_of(header) ELSE header
        size == coalesced_size(header)
        gone == {node_of(h) : h \in neighbours(header)}
        without == [n \in DOMAIN m_free_tree \ gone |-> m_free_tree[n]]
    IN [tree |-> Tree!inserted(without, node_of(merged), size),
        tags |-> update_block(tags, merged, size, FALSE)]

free_raw(a) ==
    /\ Becomes(released(back[a.ptr]))
    /\ back' = [p \in DOMAIN back \ {a.ptr} |-> back[p]]
    /\ live' = live \ {a}
    /\ UNCHANGED <<alive, fault, region>>

\* Without a region the tree is cleared through nullptr.
clear ==
    /\ IF m_start_ptr = NULL
       THEN fault' = TRUE /\ UNCHANGED heap
       ELSE Becomes(cleared(m_start_ptr, m_total_size)) /\ UNCHANGED fault
    /\ back' = <<>>
    /\ live' = {}
    /\ UNCHANGED <<alive, region>>

\* m_total_size keeps its value.
destructor ==
    /\ alive' = FALSE
    /\ m_start_ptr' = NULL
    /\ m_free_tree' = <<>>
    /\ tags' = <<>>
    /\ back' = <<>>
    /\ live' = {}
    /\ UNCHANGED <<fault, m_total_size>>

owns(ptr) == ptr >= m_start_ptr /\ ptr < m_start_ptr + m_total_size

Next ==
    /\ alive /\ ~fault
    /\ \/ \E size \in Sizes, align \in Aligns :
            \/ alloc_raw(size, align)
            \/ alloc_null(size, align)
            \/ alloc_undefined(size, align)
       \/ \E a \in live : free_raw(a)
       \/ clear
       \/ destructor

Spec == Init /\ [][Next]_vars

-----------------------------------------------------------------------------
\* Every tag's size leaves the flag's bits alone.
TypeOK ==
    /\ alive \in BOOLEAN /\ fault \in BOOLEAN
    /\ m_start_ptr \in Word /\ m_total_size \in Word
    /\ DOMAIN m_free_tree \subseteq Word
    /\ \A n \in DOMAIN m_free_tree :
         m_free_tree[n] \in node_size..m_total_size /\ m_free_tree[n] % 8 = 0
    /\ DOMAIN tags \subseteq Word
    /\ \A h \in DOMAIN tags :
         tags[h] \in [size : 0..m_total_size, allocated : BOOLEAN]
    /\ DOMAIN back = {a.ptr : a \in live}
    /\ live \subseteq Allocation

\* The object can still be used.
Sound == alive /\ ~fault /\ m_start_ptr # NULL

\* A header is the tag right behind another one: a footer or the prologue.
Headers == {h \in DOMAIN tags : h - word_size \in DOMAIN tags}
Blocks == Headers \ {epilogue(m_start_ptr, m_total_size)}

block_end(h) == footer_of(h, tags[h].size)

(***************************************************************************)
(* "we dont need to check for out of bounds here" (coalesce): from the     *)
(* prologue to the epilogue, which stay allocated, each block ends where   *)
(* the next begins, its footer says what its header says, nothing else is  *)
(* taken for a tag, and every block has room for a node.                   *)
(***************************************************************************)
Tiled ==
    Sound =>
      /\ {first_block(m_start_ptr), epilogue(m_start_ptr, m_total_size)}
           \subseteq Headers
      /\ tags[prologue(m_start_ptr)] = Tag(0, TRUE)
      /\ tags[epilogue(m_start_ptr, m_total_size)] = Tag(0, TRUE)
      /\ \A h \in Blocks :
           /\ tags[h].size >= node_size
           /\ block_end(h) \in DOMAIN tags /\ tags[block_end(h)] = tags[h]
           /\ block_end(h) + word_size \in Headers
           /\ \A t \in DOMAIN tags : t <= h \/ t >= block_end(h)

(***************************************************************************)
(* The tags that coalesce walks by are true.                               *)
(***************************************************************************)
TagsTrue == TypeOK /\ Tiled

(***************************************************************************)
(* The tree holds the free blocks, all of them and nothing else, under the *)
(* sizes in their tags, through all splits and merges.                     *)
(***************************************************************************)
TreeIsFree ==
    Sound =>
      LET free == {h \in Blocks : ~tags[h].allocated} IN
      /\ DOMAIN m_free_tree = {node_of(h) : h \in free}
      /\ \A h \in free : m_free_tree[node_of(h)] = tags[h].size

(***************************************************************************)
(* "no need to coalesce, we know that there is no free block neighboring"  *)
(* (alloc_raw): no two free blocks ever touch.                             *)
(***************************************************************************)
NoFreeNeighbours ==
    Sound => \A h \in Blocks :
      ~tags[h].allocated => tags[block_end(h) + word_size].allocated

(***************************************************************************)
(* The tree is the free space, fully merged: with Tiled, once everything is *)
(* freed, in whatever order, it is one block of the whole heap again.      *)
(* ("Merge both failed", tests/tree_coal.cpp.)                             *)
(***************************************************************************)
FreeSpaceTrue == TreeIsFree /\ NoFreeNeighbours

(***************************************************************************)
(* The pointer hidden in the padding leads from every allocation to the    *)
(* header of its own block and overlays no tag; a block is allocated       *)
(* exactly when one allocation lies in it.                                 *)
(***************************************************************************)
BackPointers ==
    Sound =>
      /\ \A a \in live :
           /\ back[a.ptr] \in Blocks
           /\ a.ptr - word_size >= node_of(back[a.ptr])
           /\ a.ptr < block_end(back[a.ptr])
      /\ \A a, b \in live : back[a.ptr] = back[b.ptr] => a = b
      /\ \A h \in Blocks :
           tags[h].allocated <=> \E a \in live : back[a.ptr] = h

(***************************************************************************)
(* "calculate worst case size" (alloc_raw): the block behind an allocation *)
(* holds all its data, for every request that the region could hold.       *)
(***************************************************************************)
BlockHoldsData ==
    \A a \in live :
      a.size <= m_total_size => End(a) <= block_end(back[a.ptr])

(***************************************************************************)
(* An allocation lies in a block of its own, and free_raw finds that block.*)
(***************************************************************************)
DataInBlock == BackPointers /\ BlockHoldsData

(***************************************************************************)
(* The sizes for which search_size cannot wrap.  The early return leaves   *)
(* room for the alignment and the back pointer, but not for rounding up.   *)
(***************************************************************************)
NoWrap ==
    \A size \in Sizes, align \in Aligns :
      well_formed(size, align) =>
        size + (least_align(align) - 1) + 2 * word_size - 1 <= SIZE_MAX

(***************************************************************************)
(* The free-tree allocator keeps the promise of IAllocator for as long as  *)
(* its behaviour is defined.                                               *)
(***************************************************************************)
Contract == INSTANCE IAllocator
    WITH start <- m_start_ptr, total <- m_total_size,
         live <- IF fault THEN {} ELSE live, Lifo <- FALSE

ContractSpec == Contract!Spec
=============================================================================
