------------------------------ MODULE MCRBTree ------------------------------
(***************************************************************************)
(* RBTree with nodes 1..N.  The tree never looks at a node's address, so   *)
(* it is enough to give each address one size; two addresses share a size, *)
(* which makes for equal sizes in one tree.                                *)
(***************************************************************************)
EXTENDS RBTree

CONSTANT N

MCNodes == 1..N
MCSizesAt(n) == {(n + 1) \div 2}
=============================================================================
