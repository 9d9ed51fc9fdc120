------------------------------ MODULE Objects ------------------------------
(***************************************************************************)
(* make and destroy of include/oo_alloc/IAllocator.hpp: objects built in   *)
(* memory from any allocator, with constructors that may throw.            *)
(*                                                                         *)
(* An object is one of ELEM_SIZE bytes; make<T> is the array of one.  Its  *)
(* constructor may make a child with the same allocator, which it owns and *)
(* its destructor destroys, as may the child's: calls nest, and stack is   *)
(* the call stack.  The allocator is the abstract module IAllocator; lifo  *)
(* says which of its two kinds it is.                                      *)
(***************************************************************************)
EXTENDS Utils, SequencesExt

CONSTANTS
    BaseStart, BaseTotal,   \* the allocator's region
    ELEM_SIZE,              \* sizeof(ElemType), alignof(ElemType) being 1
    Counts,                 \* make and destroy arguments
    MAX_DEPTH               \* bound on the nesting of calls

ASSUME ArgAssumption ==
    /\ BaseStart \in Word \ {NULL} /\ BaseTotal \in Word
    /\ ELEM_SIZE \in Word \ {0} /\ Counts \subseteq Word
    /\ MAX_DEPTH \in Nat \ {0}

VARIABLES
    lifo, start, total, live,   \* the allocator
    objs,       \* address of a constructed object -> its child, or NULL
    roots,      \* what the client holds: [ptr, count]
    stack       \* the calls in progress, innermost last

base == <<lifo, start, total, live>>
vars == <<base, objs, roots, stack>>

Heap == INSTANCE IAllocator WITH Lifo <- FALSE
Stack == INSTANCE IAllocator WITH Lifo <- TRUE

Init ==
    /\ lifo \in BOOLEAN
    /\ start = BaseStart /\ total = BaseTotal /\ live = {}
    /\ objs = <<>>
    /\ roots = {}
    /\ stack = <<>>

(***************************************************************************)
(* A call in progress: op is "make", "unwind" for the catch block of make, *)
(* or "destroy"; done counts the objects of the array that exist; child is *)
(* what the constructor running has made so far.                           *)
(***************************************************************************)
Frame(op, ptr, count, done) ==
    [op |-> op, ptr |-> ptr, count |-> count, done |-> done, child |-> NULL]

top == Last(stack)
Running(op) == stack # <<>> /\ top.op = op

\* The stack below the innermost call, and with that call replaced.
callers == Front(stack)
Replaced(frame) == Append(callers, frame)

\* The object under construction, and the one to be destroyed next.
next_elem == top.ptr + top.done * ELEM_SIZE

last_elem == top.ptr + (top.done - 1) * ELEM_SIZE

\* Mutant: the child is destroyed after the call has freed its memory.
ThenDestroy_Late(frames, child) ==
    IF child = NULL THEN frames
    ELSE Front(frames) \o <<Frame("destroy", child, 1, 1), Last(frames)>>

\* The innermost call with a destroy(child) on top of it, if there is one.
ThenDestroy(frames, child) ==
    IF child = NULL THEN frames
    ELSE Append(frames, Frame("destroy", child, 1, 1))

-----------------------------------------------------------------------------
count_ok(count) == count > 0 /\ count <= SIZE_MAX \div ELEM_SIZE

\* alloc_raw has returned ptr for an array of count objects.
begin_make(count) ==
    /\ count_ok(count)
    /\ \E ptr \in start..(start + total) :
         /\ live' = live \cup
              {[ptr |-> ptr, size |-> Wrap(count * ELEM_SIZE), align |-> 1]}
         /\ IF lifo THEN Stack!alloc_raw ELSE Heap!alloc_raw
         /\ stack' = Append(stack, Frame("make", ptr, count, 0))
    /\ UNCHANGED <<lifo, objs, roots>>

\* The client's call.
make(count) == stack = <<>> /\ begin_make(count)

\* The count is refused, or alloc_raw returns nullptr, as it always may.
make_null == stack = <<>> /\ UNCHANGED vars

\* The constructor of the next object makes its child.
make_child ==
    /\ Running("make") /\ top.done < top.count
    /\ top.child = NULL /\ Len(stack) < MAX_DEPTH
    /\ begin_make(1)

\* The constructor of the next object ends.
construct ==
    /\ Running("make") /\ top.done < top.count
    /\ objs' = (next_elem :> top.child) @@ objs
    /\ stack' = Replaced([top EXCEPT !.done = @ + 1, !.child = NULL])
    /\ UNCHANGED <<base, roots>>

\* make returns the pointer, to the client or to a constructor.
make_return ==
    /\ Running("make") /\ top.done = top.count
    /\ IF callers = <<>>
       THEN /\ stack' = <<>>
            /\ roots' = roots \cup {[ptr |-> top.ptr, count |-> top.count]}
       ELSE /\ stack' = [callers EXCEPT ![Len(callers)].child = top.ptr]
            /\ UNCHANGED roots
    /\ UNCHANGED <<base, objs>>

\* Mutant: the objects built so far are forgotten.
ctor_throw_Forget ==
    /\ Running("make") /\ top.done < top.count
    /\ stack' = ThenDestroy(Replaced(Frame("unwind", top.ptr, top.count, 0)),
                            top.child)
    /\ UNCHANGED <<base, objs, roots>>

\* The constructor throws; the child it owns goes before make's catch block.
ctor_throw ==
    /\ Running("make") /\ top.done < top.count
    /\ stack' = ThenDestroy(
                  Replaced(Frame("unwind", top.ptr, top.count, top.done)),
                  top.child)
    /\ UNCHANGED <<base, objs, roots>>

\* Mutant: the loop does not count down.
destruct_NoStep ==
    /\ Running("unwind") \/ Running("destroy")
    /\ top.done > 0
    /\ objs' = Restrict(objs, DOMAIN objs \ {last_elem})
    /\ stack' = ThenDestroy(stack, IF last_elem \in DOMAIN objs
                                   THEN objs[last_elem] ELSE NULL)
    /\ UNCHANGED <<base, roots>>

\* ~T() of the last object left, which destroys the child it owns.
destruct ==
    /\ Running("unwind") \/ Running("destroy")
    /\ top.done > 0
    /\ objs' = Restrict(objs, DOMAIN objs \ {last_elem})
    /\ stack' = ThenDestroy(Replaced([top EXCEPT !.done = @ - 1]),
                            objs[last_elem])
    /\ UNCHANGED <<base, roots>>

free_raw(ptr) ==
    /\ \E a \in live :
         /\ a.ptr = ptr
         /\ live' = live \ (IF lifo THEN Stack!Released(a) ELSE Heap!Released(a))
    /\ UNCHANGED <<lifo, start, total>>

\* The end of destroy.
destroy_free ==
    /\ Running("destroy") /\ top.done = 0
    /\ free_raw(top.ptr)
    /\ stack' = callers
    /\ UNCHANGED <<objs, roots>>

\* free_raw and throw: the constructor that made the call fails in turn.
unwind_free ==
    /\ Running("unwind") /\ top.done = 0
    /\ free_raw(top.ptr)
    /\ stack' = IF callers = <<>> THEN <<>>
                ELSE [callers EXCEPT ![Len(callers)].op = "unwind"]
    /\ UNCHANGED <<objs, roots>>

(***************************************************************************)
(* The client destroys what it holds; from a stack, what it made last.     *)
(***************************************************************************)
destroy(r) ==
    /\ stack = <<>>
    /\ lifo => \A q \in roots : q.ptr <= r.ptr
    /\ roots' = roots \ {r}
    /\ stack' = <<Frame("destroy", r.ptr, r.count, r.count)>>
    /\ UNCHANGED <<base, objs>>

\* destroy(nullptr) returns at once.
destroy_null == stack = <<>> /\ UNCHANGED vars

\* A step of the calls in progress.
Step ==
    \/ make_child \/ construct \/ make_return \/ ctor_throw
    \/ destruct \/ destroy_free \/ unwind_free

Next ==
    \/ \E count \in Counts : make(count)
    \/ make_null
    \/ \E r \in roots : destroy(r)
    \/ destroy_null
    \/ Step

(***************************************************************************)
(* A call runs on the thread of its caller, which does nothing else until  *)
(* it returns, and constructors and destructors are taken to end.          *)
(***************************************************************************)
Spec == Init /\ [][Next]_vars /\ WF_vars(Step)

-----------------------------------------------------------------------------
TypeOK ==
    /\ live \subseteq Allocation
    /\ \A e \in DOMAIN objs : e \in Word /\ objs[e] \in Word
    /\ roots \subseteq [ptr : Word, count : Word]
    /\ Len(stack) <= MAX_DEPTH + 1
    /\ \A i \in 1..Len(stack) :
         /\ stack[i].op \in {"make", "unwind", "destroy"}
         /\ stack[i].done \in 0..stack[i].count

\* Everyone who is to free an allocation.
Owners ==
    {[by |-> "client", at |-> 0, ptr |-> r.ptr] : r \in roots} \cup
    {[by |-> "call", at |-> i, ptr |-> stack[i].ptr] : i \in 1..Len(stack)} \cup
    {[by |-> "constructor", at |-> i, ptr |-> stack[i].child] :
       i \in {j \in 1..Len(stack) : stack[j].child # NULL}} \cup
    {[by |-> "object", at |-> e, ptr |-> objs[e]] :
       e \in {d \in DOMAIN objs : objs[d] # NULL}}

(***************************************************************************)
(* Nothing is leaked and nothing is freed twice, whichever constructor     *)
(* throws at whatever depth: every allocation has exactly one owner and    *)
(* every owner's allocation is there.  On a stack this rests on the order: *)
(* a free also ends the allocations above, which must have gone before.    *)
(***************************************************************************)
OwnedOnce ==
    /\ {o.ptr : o \in Owners} = {a.ptr : a \in live}
    /\ Cardinality(Owners) = Cardinality(live)

\* How many objects of an allocation exist: all, but for the calls at work.
Existing(a) ==
    LET working == {i \in 1..Len(stack) : stack[i].ptr = a.ptr} IN
    IF working = {} THEN a.size \div ELEM_SIZE
    ELSE stack[CHOOSE i \in working : TRUE].done

(***************************************************************************)
(* Constructors and destructors match: the objects that exist are those of *)
(* the live arrays, each once, and of an array that a call is at work on   *)
(* the first ones; no object is ever outside the memory it was given.      *)
(***************************************************************************)
ObjectsMatchMemory ==
    /\ TypeOK
    /\ DOMAIN objs = UNION {
         {a.ptr + i * ELEM_SIZE : i \in 0..(Existing(a) - 1)} : a \in live}

(***************************************************************************)
(* Every make and destroy comes to its end, exceptions included: the       *)
(* unwinding of nested calls always gets back to the client.               *)
(***************************************************************************)
CallsEnd == stack # <<>> ~> stack = <<>>
=============================================================================
