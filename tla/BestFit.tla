------------------------------ MODULE BestFit ------------------------------
(***************************************************************************)
(* What the free-tree allocator needs of internal::RBTree (public part of  *)
(* src/internal/RBTree.hpp): a set of nodes with their sizes, to which     *)
(* nodes are added and from which they are taken one at a time, and a      *)
(* search that returns some node of the least size that fits.  RBTree is   *)
(* shown to implement it; FreeTreeAllocator is built on it.                *)
(***************************************************************************)
EXTENDS Naturals

VARIABLE tree       \* node -> size, for the nodes in the tree

inserted(t, node, size) ==
    [n \in DOMAIN t \cup {node} |-> IF n = node THEN size ELSE t[n]]

removed(t, node) == [n \in DOMAIN t \ {node} |-> t[n]]

fitting(t, req_size) == {n \in DOMAIN t : t[n] >= req_size}

\* The nodes that find_best may return; with none it returns the sentinel.
find_best(t, req_size) ==
    {n \in fitting(t, req_size) : \A m \in fitting(t, req_size) : t[n] <= t[m]}

Init == tree = <<>>

insert ==
    \E n \in DOMAIN tree' \ DOMAIN tree :
      tree' = inserted(tree, n, tree'[n])

remove == \E n \in DOMAIN tree : tree' = removed(tree, n)

clear == tree' = <<>>

Next == insert \/ remove \/ clear

Spec == Init /\ [][Next]_tree
=============================================================================
