------------------------------ MODULE MCArena -------------------------------
(***************************************************************************)
(* The arena for TLC, with the arithmetic that it and every other          *)
(* allocator place memory by: module Utils against the bitwise text of     *)
(* utils.hpp and against what its comments promise, over every pair of     *)
(* words.  The invariants on arithmetic are facts of no state: they are    *)
(* stated of an arena that has served nothing yet, where TLC evaluates     *)
(* them once for each region that the constructor may get.                 *)
(***************************************************************************)
EXTENDS ArenaAllocator, Bitwise

\* The mask of the low bits below align, and its complement in a word.
low(align) == align - 1
high(align) == SIZE_MAX - low(align)

(***************************************************************************)
(* IsPow2 is the test (align & (align - 1)) == 0 of every alloc_raw, for   *)
(* an align that is not 0.                                                 *)
(***************************************************************************)
Pow2IsMaskTest ==
    m_offset = 0 =>
      \A align \in Word \ {0} : IsPow2(align) <=> (align & low(align)) = 0

(***************************************************************************)
(* The two roundings that place every block and every pointer are least:   *)
(* align_up, (size + (align - 1)) & ~(align - 1), gives the least multiple *)
(* of align not below the size, or 0 where that exceeds a word; calc_pad,  *)
(* (align - (ptr & (align - 1))) & (align - 1), the least number of bytes  *)
(* that aligns the address.                                                *)
(***************************************************************************)
RoundingIsLeast ==
    m_offset = 0 =>
      \A align \in {a \in Word : IsPow2(a)}, x \in Word :
        LET up == align_up(x, align)
            pad == calc_pad(x, align)
            multiples == {m \in Word : m >= x /\ m % align = 0}
        IN
        /\ up = (Wrap(x + low(align)) & high(align))
        /\ IF multiples = {} THEN up = 0
           ELSE up \in multiples /\ \A m \in multiples : up <= m
        /\ pad = ((align - (x & low(align))) & low(align))
        /\ (x + pad) % align = 0
        /\ \A p \in 0..(align - 1) : (x + p) % align = 0 => pad <= p
=============================================================================
