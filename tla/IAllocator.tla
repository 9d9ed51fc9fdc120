----------------------------- MODULE IAllocator -----------------------------
(***************************************************************************)
(* The promise of the IAllocator interface (include/oo_alloc/IAllocator.hpp*)
(* lines 16-25), as a client of any allocator may rely on it: a pointer    *)
(* that alloc_raw returns is aligned, its bytes lie in the allocator's     *)
(* region and in no other allocation that is still live.  nullptr changes  *)
(* nothing.  The allocators of this library are shown to implement it.     *)
(*                                                                         *)
(* Lifo says that allocations are stacked up: each lies above those before *)
(* it and free_raw also ends the ones above the freed one, which is what   *)
(* the README promises of the stack allocator.                             *)
(***************************************************************************)
EXTENDS Utils

CONSTANT Lifo       \* TRUE or FALSE

VARIABLES
    start,      \* first byte of the region, NULL when there is none
    total,      \* its size: capacity()
    live        \* the allocations the client may use

vars == <<start, total, live>>

Init == live = {}

Inside(a) == a.ptr >= start /\ End(a) <= start + total

Released(a) == IF Lifo THEN {b \in live : b.ptr >= a.ptr} ELSE {a}

alloc_raw ==
    /\ \E a \in live' \ live :
         /\ live' = live \cup {a}
         /\ a.size > 0 /\ Inside(a)
         /\ a.align > 0 /\ a.ptr % a.align = 0
         /\ \A b \in live : ~Overlap(a, b) /\ (Lifo => b.ptr < a.ptr)
    /\ UNCHANGED <<start, total>>

free_raw ==
    /\ \E a \in live : live' = live \ Released(a)
    /\ UNCHANGED <<start, total>>

clear == live' = {} /\ UNCHANGED <<start, total>>

destructor == live' = {} /\ start' = NULL

Next == alloc_raw \/ free_raw \/ clear \/ destructor

Spec == Init /\ [][Next]_vars
=============================================================================
