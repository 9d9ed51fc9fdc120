------------------------------- MODULE Utils -------------------------------
(***************************************************************************)
(* Machine words, the helpers of include/oo_alloc/utils.hpp, and the       *)
(* operating system's page allocation they wrap.                           *)
(*                                                                         *)
(* An address and a std::size_t are naturals of Word.  The build's 64-bit  *)
(* word is scaled down to WORD_BITS; every sum that the code lets wrap is  *)
(* written with Wrap.  An address is never a bit pattern here: the masks   *)
(* of the code, x & (align - 1) for a power of two, are x % align, which   *)
(* module MCUtils checks against the bitwise text.                         *)
(***************************************************************************)
EXTENDS Naturals

CONSTANTS
    WORD_BITS,      \* width of std::size_t and std::uintptr_t
    SIZE_MAX,       \* its largest value
    PAGE_SIZE,      \* what page_size() returns
    MapAddrs        \* the addresses mmap may return

ASSUME WordAssumption ==
    /\ WORD_BITS \in Nat
    /\ SIZE_MAX \in Nat
    /\ SIZE_MAX + 1 = 2^WORD_BITS

ASSUME PageAssumption ==
    /\ PAGE_SIZE \in Nat \ {0}
    /\ MapAddrs \subseteq 1..SIZE_MAX
    /\ \A a \in MapAddrs : a % PAGE_SIZE = 0

NULL == 0

Word == 0..SIZE_MAX

Wrap(n) == n % (SIZE_MAX + 1)

MaxOf(a, b) == IF a >= b THEN a ELSE b

\* Mutant: an even number will do.
IsPow2_Even(n) == n = 1 \/ (n > 0 /\ n % 2 = 0)

\* A power of two: no odd number but 1 divides it.
IsPow2(n) == n > 0 /\ \A d \in 2..n : n % d = 0 => d % 2 = 0

(***************************************************************************)
(* align == 0 || (align & (align - 1)) != 0, the first early return of     *)
(* every alloc_raw.                                                        *)
(***************************************************************************)
BadAlign(align) == align = 0 \/ ~IsPow2(align)

\* Mutant: one more than needed is added before rounding down.
align_up_TooFar(size, align) ==
    LET s == Wrap(size + align) IN s - (s % align)

align_up(size, align) ==
    LET s == Wrap(size + (align - 1)) IN s - (s % align)

calc_pad(ptr, align) == (align - (ptr % align)) % align

(***************************************************************************)
(* std::bit_ceil: the least power of two not below n.  Beyond the largest  *)
(* one the shift is undefined; builds give 0 or 1.                         *)
(***************************************************************************)
bit_ceil(n) ==
    IF n > 2^(WORD_BITS - 1) THEN {0, 1}
    ELSE {2^k : k \in {k \in 0..(WORD_BITS - 1) :
                          2^k >= n /\ (k = 0 \/ 2^(k - 1) < n)}}

(***************************************************************************)
(* os_alloc(size): the results mmap may give, NULL for MAP_FAILED.  A      *)
(* mapping of no bytes fails, and a mapping lies below the top of the      *)
(* address space.                                                          *)
(***************************************************************************)
os_alloc(size) ==
    {NULL} \cup {a \in MapAddrs : size > 0 /\ a + size <= SIZE_MAX}

(***************************************************************************)
(* An allocation as its client sees it: the bytes from ptr to the end of   *)
(* the size it asked for.                                                  *)
(***************************************************************************)
Allocation == [ptr : Word, size : Word, align : Word]

End(a) == a.ptr + a.size

Overlap(a, b) == a.ptr < End(b) /\ b.ptr < End(a)
=============================================================================
