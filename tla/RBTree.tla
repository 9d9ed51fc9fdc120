------------------------------- MODULE RBTree -------------------------------
(***************************************************************************)
(* src/internal/RBTree.cpp: the intrusive red-black tree of free blocks,   *)
(* with a shared sentinel for every missing link.                          *)
(*                                                                         *)
(* An operation is a function on trees, written t: t.root is m_root and    *)
(* t.n maps every node in the tree, and the sentinel, to its fields.  A    *)
(* removed node leaves t.n: its memory is the client's from then on.  The  *)
(* code writes every rotation and case twice, once per side; here the side *)
(* is a parameter.  The loops are recursive operators.                     *)
(***************************************************************************)
EXTENDS Naturals, Sequences, FiniteSets

CONSTANTS
    sentinel,           \* &m_sentinel
    Nodes,              \* the addresses where nodes may lie
    SizesAt(_)          \* the sizes a block at an address may have

ASSUME NodeAssumption ==
    /\ sentinel \notin Nodes
    /\ \A n \in Nodes : SizesAt(n) \subseteq Nat

VARIABLES m_root, nodes
vars == <<m_root, nodes>>

this == [root |-> m_root, n |-> nodes]

Becomes(t) == m_root' = t.root /\ nodes' = t.n

opposite(side) == IF side = "left" THEN "right" ELSE "left"

\* The side on which x hangs from its parent.
side_of(t, x) == IF x = t.n[t.n[x].parent].left THEN "left" ELSE "right"

paint(t, x, red) == [t EXCEPT !.n[x].red = red]

(***************************************************************************)
(* rotate_l for "left", rotate_r for "right": x moves down to that side    *)
(* and its other child takes its place.  The parent of the child that      *)
(* changes sides is written even when it is the sentinel.                  *)
(***************************************************************************)
rotate(t, x, side) ==
    LET y == t.n[x][opposite(side)]
        inner == t.n[y][side]
        p == t.n[x].parent
        linked == IF p = sentinel THEN [t EXCEPT !.root = y]
                  ELSE [t EXCEPT !.n[p][side_of(t, x)] = y]
    IN [linked EXCEPT !.n[x][opposite(side)] = inner, !.n[inner].parent = x,
                      !.n[y].parent = p, !.n[y][side] = x, !.n[x].parent = y]

RECURSIVE insert_fix(_, _)
insert_fix(t, x) ==
    LET p == t.n[x].parent
        g == t.n[p].parent
        side == side_of(t, p)
        uncle == t.n[g][opposite(side)]
        inner == x = t.n[p][opposite(side)]
        \* cases 2 and 3: an inner child is first rotated outside
        low == IF inner THEN p ELSE x
        straight == IF inner THEN rotate(t, p, side) ELSE t
        mid == straight.n[low].parent
        top == straight.n[mid].parent
    IN
    IF ~t.n[p].red THEN paint(t, t.root, FALSE)
    ELSE IF t.n[uncle].red  \* case 1
         THEN insert_fix(paint(paint(paint(t, p, FALSE), uncle, FALSE),
                               g, TRUE), g)
    ELSE insert_fix(rotate(paint(paint(straight, mid, FALSE), top, TRUE),
                           top, opposite(side)), low)

RECURSIVE leaf_for(_, _, _, _)
\* The sentinel's parent when it is reached from x on the way down.
leaf_for(t, size, x, parent) ==
    IF x = sentinel THEN parent
    ELSE leaf_for(t, size,
                  IF size <= t.n[x].size THEN t.n[x].left ELSE t.n[x].right, x)

\* The new node as a red leaf.
attach(t, node, size) ==
    LET parent == leaf_for(t, size, t.root, sentinel)
        new == [size |-> size, red |-> TRUE, parent |-> parent,
                left |-> sentinel, right |-> sentinel]
        grown == [t EXCEPT !.n = [n \in DOMAIN t.n \cup {node} |->
                                    IF n = node THEN new ELSE t.n[n]]]
    IN IF parent = sentinel THEN [grown EXCEPT !.root = node]
       ELSE IF size <= t.n[parent].size
            THEN [grown EXCEPT !.n[parent].left = node]
       ELSE [grown EXCEPT !.n[parent].right = node]

insert(node, size) ==
    /\ node \notin DOMAIN nodes
    /\ Becomes(insert_fix(attach(this, node, size), node))

-----------------------------------------------------------------------------
\* v takes the place of u; the sentinel's parent is written too.
transplant(t, u, v) ==
    LET p == t.n[u].parent
        linked == IF p = sentinel THEN [t EXCEPT !.root = v]
                  ELSE [t EXCEPT !.n[p][side_of(t, u)] = v]
    IN [linked EXCEPT !.n[v].parent = p]

RECURSIVE min(_, _)
min(t, x) == IF t.n[x].left = sentinel THEN x ELSE min(t, t.n[x].left)

\* Cases 3 and 4: the sibling of the side has a red child.
case4(t, p, side) ==
    LET far == opposite(side)
        s == t.n[p][far]
        near == t.n[s][side]
        ready == IF t.n[t.n[s][far]].red THEN t
                 ELSE rotate(paint(paint(t, near, FALSE), s, TRUE), s, far)
        top == ready.n[p][far]
    IN rotate(paint(paint(paint(ready, top, ready.n[p].red), p, FALSE),
                    ready.n[top][far], FALSE), p, side)

RECURSIVE remove_fix(_, _)
remove_fix(t, x) ==
    LET p == t.n[x].parent
        side == side_of(t, x)
        far == opposite(side)
        sibling == t.n[p][far]
        \* case 1: a red sibling is rotated up
        u == IF t.n[sibling].red
             THEN rotate(paint(paint(t, sibling, FALSE), p, TRUE), p, side)
             ELSE t
        s == u.n[p][far]
    IN
    IF x = t.root \/ t.n[x].red THEN paint(t, x, FALSE)
    ELSE IF ~u.n[u.n[s].left].red /\ ~u.n[u.n[s].right].red
         THEN remove_fix(paint(u, s, TRUE), p)      \* case 2
    ELSE paint(case4(u, p, side), x, FALSE)

\* Mutant: the successor takes its own right subtree along.
unlinked_OwnRight(t, node) ==
    LET z == t.n[node]
        y == min(t, z.right)
        x == t.n[y].right
        lifted == IF t.n[y].parent = node THEN [t EXCEPT !.n[x].parent = y]
                  ELSE transplant(t, y, x)
        moved == [transplant(lifted, node, y) EXCEPT
                    !.n[y].left = z.left, !.n[z.left].parent = y,
                    !.n[y].red = z.red]
    IN IF z.left = sentinel
       THEN [t |-> transplant(t, node, z.right), gap |-> z.right, red |-> z.red]
       ELSE IF z.right = sentinel
       THEN [t |-> transplant(t, node, z.left), gap |-> z.left, red |-> z.red]
       ELSE [t |-> moved, gap |-> x, red |-> t.n[y].red]

(***************************************************************************)
(* node leaves its place: a lone child takes it, or else the successor,    *)
(* which moves up and takes over its colour.  The result also says which   *)
(* node filled the gap and whether the place that closed was red.          *)
(***************************************************************************)
unlinked(t, node) ==
    LET z == t.n[node]
        y == min(t, z.right)
        x == t.n[y].right
        lifted == IF t.n[y].parent = node THEN [t EXCEPT !.n[x].parent = y]
                  ELSE [transplant(t, y, x) EXCEPT !.n[y].right = z.right,
                                                   !.n[z.right].parent = y]
        moved == [transplant(lifted, node, y) EXCEPT
                    !.n[y].left = z.left, !.n[z.left].parent = y,
                    !.n[y].red = z.red]
    IN IF z.left = sentinel
       THEN [t |-> transplant(t, node, z.right), gap |-> z.right, red |-> z.red]
       ELSE IF z.right = sentinel
       THEN [t |-> transplant(t, node, z.left), gap |-> z.left, red |-> z.red]
       ELSE [t |-> moved, gap |-> x, red |-> t.n[y].red]

\* Mutant: the colour tested is that of the node removed.
fixed_RemovedColour(t, node) ==
    LET u == unlinked(t, node) IN
    IF t.n[node].red THEN u.t ELSE remove_fix(u.t, u.gap)

\* A black place that closed leaves a black node short.
fixed(t, node) ==
    LET u == unlinked(t, node) IN IF u.red THEN u.t ELSE remove_fix(u.t, u.gap)

remove(node) ==
    /\ node \in DOMAIN nodes \ {sentinel}
    /\ LET t == fixed(this, node) IN
       Becomes([t EXCEPT !.n = [n \in DOMAIN nodes \ {node} |-> t.n[n]]])

\* Only the root is reset: the sentinel keeps the parent it last had.
clear ==
    /\ m_root' = sentinel
    /\ nodes' = [n \in {sentinel} |-> nodes[n]]

RECURSIVE best_below(_, _, _, _)
best_below(t, req_size, x, best) ==
    IF x = sentinel THEN best
    ELSE IF t.n[x].size = req_size THEN x
    ELSE IF t.n[x].size > req_size THEN best_below(t, req_size, t.n[x].left, x)
    ELSE best_below(t, req_size, t.n[x].right, best)

\* Mutant: a node larger than the request ends the search.
find_best_First(t, req_size) ==
    IF t.root = sentinel THEN sentinel
    ELSE IF t.n[t.root].size >= req_size THEN t.root
    ELSE best_below(t, req_size, t.n[t.root].right, sentinel)

find_best(t, req_size) == best_below(t, req_size, t.root, sentinel)

Init ==
    /\ m_root = sentinel
    /\ nodes = [n \in {sentinel} |->
                  [size |-> 0, red |-> FALSE, parent |-> sentinel,
                   left |-> sentinel, right |-> sentinel]]

Next ==
    \/ \E n \in Nodes : \E size \in SizesAt(n) : insert(n, size)
    \/ \E n \in Nodes : remove(n)
    \/ clear

Spec == Init /\ [][Next]_vars

-----------------------------------------------------------------------------
\* A link leads to a node of the tree; only the sentinel's parent, which
\* nobody may rely on, can be a node that has left.
TypeOK ==
    /\ m_root \in DOMAIN nodes
    /\ DOMAIN nodes \subseteq Nodes \cup {sentinel}
    /\ nodes[sentinel].parent \in Nodes \cup {sentinel}
    /\ \A n \in DOMAIN nodes :
         /\ nodes[n].size \in Nat /\ nodes[n].red \in BOOLEAN
         /\ {nodes[n].left, nodes[n].right} \subseteq DOMAIN nodes
         /\ n = sentinel \/ nodes[n].parent \in DOMAIN nodes

RECURSIVE inorder(_, _)
\* The nodes below x from left to right.
inorder(t, x) ==
    IF x = sentinel THEN <<>>
    ELSE inorder(t, t.n[x].left) \o <<x>> \o inorder(t, t.n[x].right)

RECURSIVE black_heights(_, _)
\* The numbers of black nodes on the ways from x down to the sentinel.
black_heights(t, x) ==
    IF x = sentinel THEN {0}
    ELSE LET below == black_heights(t, t.n[x].left)
                        \cup black_heights(t, t.n[x].right)
         IN {h + (IF t.n[x].red THEN 0 ELSE 1) : h \in below}

(***************************************************************************)
(* The red-black properties that tests/rbtree_*.cpp check for one sequence *)
(* each, after any sequence of insertions and removals: the root is black, *)
(* a red node has black children, every way down has as many black nodes;  *)
(* and the sentinel, which both fix-ups treat as a node, stays black and   *)
(* childless.                                                              *)
(***************************************************************************)
RedBlack ==
    /\ ~nodes[m_root].red
    /\ \A n \in DOMAIN nodes :
         nodes[n].red => ~nodes[nodes[n].left].red /\ ~nodes[nodes[n].right].red
    /\ Cardinality(black_heights(this, m_root)) = 1
    /\ ~nodes[sentinel].red
    /\ nodes[sentinel].left = sentinel /\ nodes[sentinel].right = sentinel

(***************************************************************************)
(* Rotations and transplants keep the links in step: a child's parent is   *)
(* the node it hangs from, the root's the sentinel, so remove can start    *)
(* from a bare node as FreeTreeAllocator does.                             *)
(***************************************************************************)
Linked ==
    /\ m_root # sentinel => nodes[m_root].parent = sentinel
    /\ \A n \in DOMAIN nodes \ {sentinel} :
         \A c \in {nodes[n].left, nodes[n].right} \ {sentinel} :
           nodes[c].parent = n

(***************************************************************************)
(* After any sequence of insertions and removals the nodes form a red-black *)
(* tree whose links agree in both directions.                              *)
(***************************************************************************)
RedBlackTree == TypeOK /\ Linked /\ RedBlack

(***************************************************************************)
(* Every node that was inserted and not removed is reached from the root,  *)
(* on one way only: no operation drops or doubles a subtree.               *)
(***************************************************************************)
Reached ==
    LET seq == inorder(this, m_root) IN
    /\ {seq[i] : i \in 1..Len(seq)} = DOMAIN nodes \ {sentinel}
    /\ Len(seq) = Cardinality(DOMAIN nodes \ {sentinel})

(***************************************************************************)
(* Read from left to right the sizes never fall, equal sizes included,     *)
(* which rotations can leave on either side.                               *)
(***************************************************************************)
Ordered ==
    LET seq == inorder(this, m_root) IN
    \A i, j \in 1..Len(seq) : i < j => nodes[seq[i]].size <= nodes[seq[j]].size

\* The abstract tree: the sizes of the nodes that can be reached.
abstract ==
    LET seq == inorder(this, m_root) IN
    [n \in {seq[i] : i \in 1..Len(seq)} |-> nodes[n].size]

Abstract == INSTANCE BestFit WITH tree <- abstract

(***************************************************************************)
(* A best-fit search goes down one way only, and yet returns a node of the *)
(* least size that fits, whatever is asked for.                            *)
(***************************************************************************)
FindsBest ==
    \A req \in UNION {SizesAt(n) : n \in Nodes} \cup {0} :
      LET best == Abstract!find_best(abstract, req) IN
      IF best = {} THEN find_best(this, req) = sentinel
      ELSE find_best(this, req) \in best

(***************************************************************************)
(* The order that find_best relies on survives every rotation, and what it *)
(* finds by it is a best fit among all the nodes inserted.                 *)
(***************************************************************************)
SearchTree == Reached /\ Ordered /\ FindsBest

(***************************************************************************)
(* The nodes that can be reached change as those of a set do: one is added *)
(* or one is taken away and no other.  That an insertion adds its node is  *)
(* Reached.                                                                *)
(***************************************************************************)
BestFitSpec == Abstract!Spec
=============================================================================
