---------------------------- MODULE Utils_proofs ----------------------------
(***************************************************************************)
(* Facts about the operators of module Utils, for every word width, page   *)
(* size and set of mappings.                                               *)
(***************************************************************************)
EXTENDS Utils, TLAPS, WellFoundedInduction

(***************************************************************************)
(* Division with remainder: a % n is below n, and a is a multiple of n     *)
(* plus it.                                                                *)
(***************************************************************************)
LEMMA ModFacts ==
    ASSUME NEW a \in Nat, NEW n \in Nat \ {0}
    PROVE  /\ a % n \in Nat /\ a % n < n /\ a % n <= a
           /\ a \div n \in Nat /\ a = n * (a \div n) + (a % n)
  OBVIOUS

(***************************************************************************)
(* A multiple of n leaves no remainder.                                    *)
(***************************************************************************)
LEMMA MultipleMod ==
    ASSUME NEW q \in Nat, NEW n \in Nat \ {0}
    PROVE  (n * q) % n = 0
  OBVIOUS

(***************************************************************************)
(* A number that leaves no remainder is a multiple.                        *)
(***************************************************************************)
LEMMA Multiple ==
    ASSUME NEW x \in Nat, NEW n \in Nat \ {0}, x % n = 0
    PROVE  \E p \in Nat : x = n * p
<1>1. x \div n \in Nat /\ x = n * (x \div n) + (x % n)
  BY ModFacts
<1>2. n * (x \div n) \in Nat
  BY <1>1
<1>3. x = n * (x \div n)
  BY <1>1, <1>2
<1> QED
  BY <1>1, <1>3

(***************************************************************************)
(* Induction over the naturals, with a set where the library has a         *)
(* predicate: a set with a natural in it has a least element.              *)
(***************************************************************************)
LEMMA NatMin ==
    ASSUME NEW T \in SUBSET Nat, NEW n \in T
    PROVE  \E x \in T : \A y \in T : x <= y
<1> DEFINE R == OpToRel(<, Nat)
<1>1. IsWellFoundedOn(R, Nat)
  BY NatLessThanWellFounded
<1>2. \A x, y \in Nat : y < x => <<y, x>> \in R
  BY DEF OpToRel
<1> HIDE DEF R
<1>3. PICK x \in T : \A y \in T : ~ (<<y, x>> \in R)
  BY <1>1, WFMin
<1>4. x \in Nat /\ \A y \in T : y \in Nat /\ ~(y < x)
  BY <1>2, <1>3, T \subseteq Nat
<1>5. \A y \in T : x <= y
  BY <1>4
<1> QED
  BY <1>5

(***************************************************************************)
(* A set that has 0 and, with a natural, the next one, has them all.       *)
(***************************************************************************)
LEMMA NatInd ==
    ASSUME NEW T \in SUBSET Nat, 0 \in T, \A n \in T : n + 1 \in T
    PROVE  T = Nat
<1> SUFFICES ASSUME NEW m \in Nat \ T PROVE FALSE
  OBVIOUS
<1>1. PICK x \in Nat \ T : \A y \in Nat \ T : x <= y
  BY NatMin
<1>2. x # 0 /\ x - 1 \in Nat /\ x = (x - 1) + 1
  BY <1>1
<1>3. x - 1 \in T
  BY <1>1, <1>2
<1> QED
  BY <1>1, <1>2, <1>3

(***************************************************************************)
(* A power of two above 1 is twice a power of two.                         *)
(***************************************************************************)
LEMMA HalfPow2 ==
    ASSUME NEW n \in Nat, n > 1, IsPow2(n)
    PROVE  \E h \in Nat \ {0} : n = 2 * h /\ h < n /\ IsPow2(h)
<1> DEFINE h == n \div 2
<1>1. n % n = 0
  BY MultipleMod, n * 1 = n
<1>2. n % 2 = 0
  BY <1>1 DEF IsPow2
<1>3. h \in Nat \ {0} /\ n = 2 * h /\ h < n
  BY <1>2
<1> HIDE DEF h
<1>4. IsPow2(h)
  <2> SUFFICES ASSUME NEW d \in 2..h, h % d = 0 PROVE d % 2 = 0
    BY <1>3 DEF IsPow2
  <2> DEFINE q == h \div d
  <2>1. q \in Nat /\ h = d * q + 0 /\ d \in Nat \ {0}
    BY <1>3, ModFacts
  <2> HIDE DEF q
  <2>2. n = d * (2 * q)
    BY <1>3, <2>1
  <2>3. n % d = 0
    BY <2>1, <2>2, MultipleMod, 2 * q \in Nat
  <2>4. d \in 2..n
    BY <1>3
  <2> QED
    BY <2>3, <2>4 DEF IsPow2
<1> QED
  BY <1>3, <1>4

(***************************************************************************)
(* Of two powers of two the smaller divides the larger: what lets the code *)
(* compare alignments with <=.                                             *)
(***************************************************************************)
LEMMA Pow2Divides ==
    ASSUME NEW a \in Nat, NEW b \in Nat, IsPow2(a), IsPow2(b), a <= b
    PROVE  b % a = 0
<1> DEFINE P(m) == \A k \in Nat : IsPow2(k) /\ IsPow2(m) /\ k <= m => m % k = 0
           bad == {m \in Nat : ~P(m)}
<1> SUFFICES bad = {}
  OBVIOUS
<1> SUFFICES ASSUME NEW n \in bad PROVE FALSE
  OBVIOUS
<1>1. PICK m \in bad : \A y \in bad : m <= y
  BY NatMin
<1>2. PICK k \in Nat : IsPow2(k) /\ IsPow2(m) /\ k <= m /\ m % k # 0
  OBVIOUS
<1>3. k > 1
  BY <1>2 DEF IsPow2
<1>4. PICK h \in Nat \ {0} : k = 2 * h /\ h < k /\ IsPow2(h)
  BY <1>2, <1>3, HalfPow2
<1>5. PICK g \in Nat \ {0} : m = 2 * g /\ g < m /\ IsPow2(g)
  BY <1>2, <1>3, HalfPow2
<1>6. g \notin bad
  BY <1>1, <1>5
<1>7. g % h = 0
  BY <1>2, <1>4, <1>5, <1>6
<1>8. PICK q \in Nat : g = h * q
  BY <1>4, <1>5, <1>7, Multiple
<1>9. m = k * q
  BY <1>4, <1>5, <1>8
<1> QED
  BY <1>2, <1>3, <1>9, MultipleMod

(***************************************************************************)
(* The size and alignment of a machine word in the build.                  *)
(***************************************************************************)
LEMMA Eight == IsPow2(8)
<1>1. \A d \in 2..8 : 8 % d = 0 => d \in {2, 4, 8}
  <2> SUFFICES ASSUME NEW d \in 2..8, 8 % d = 0 PROVE d \in {2, 4, 8}
    OBVIOUS
  <2>1. d \in {2, 3, 4, 5, 6, 7, 8}
    OBVIOUS
  <2>2. 8 % 3 = 2 /\ 8 % 5 = 3 /\ 8 % 6 = 2 /\ 8 % 7 = 1
    OBVIOUS
  <2> QED
    BY <2>1, <2>2
<1>2. 2 % 2 = 0 /\ 4 % 2 = 0 /\ 8 % 2 = 0
  OBVIOUS
<1> QED
  BY <1>1, <1>2 DEF IsPow2

(***************************************************************************)
(* Multiples of a number, added up or taken off, are multiples of it, and  *)
(* a multiple of a multiple is one.                                        *)
(***************************************************************************)
LEMMA ModSum ==
    ASSUME NEW x \in Nat, NEW y \in Nat, NEW n \in Nat \ {0},
           x % n = 0, y % n = 0
    PROVE  /\ (x + y) % n = 0
           /\ y <= x => (x - y) % n = 0
<1>1. PICK p \in Nat : x = n * p
  BY Multiple
<1>2. PICK q \in Nat : y = n * q
  BY Multiple
<1>3. (x + y) % n = 0
  BY <1>1, <1>2, MultipleMod, p + q \in Nat, n * p + n * q = n * (p + q)
<1>4. ASSUME y <= x PROVE (x - y) % n = 0
  <2>1. x - y = n * (p - q)
    BY <1>1, <1>2
  <2>2. p - q \in Nat
    <3> SUFFICES ASSUME p < q PROVE FALSE
      OBVIOUS
    <3>1. PICK r \in Nat : q = p + 1 + r
      BY q - p - 1 \in Nat
    <3>2. n * q = n * p + n + n * r /\ n * r \in Nat
      BY <3>1
    <3> QED
      BY <1>1, <1>2, <1>4, <3>2
  <2> QED
    BY <2>1, <2>2, MultipleMod
<1> QED
  BY <1>3, <1>4

LEMMA ModTimes ==
    ASSUME NEW x \in Nat, NEW k \in Nat, NEW n \in Nat \ {0}, x % n = 0
    PROVE  k * x \in Nat /\ (k * x) % n = 0
<1>1. PICK q \in Nat : x = n * q
  BY Multiple
<1>2. k * q \in Nat /\ k * x = n * (k * q)
  BY <1>1
<1>3. (n * (k * q)) % n = 0
  BY <1>2, MultipleMod
<1> QED
  BY <1>2, <1>3

LEMMA ModTrans ==
    ASSUME NEW x \in Nat, NEW m \in Nat \ {0}, NEW n \in Nat \ {0},
           x % m = 0, m % n = 0
    PROVE  x % n = 0
<1>1. PICK p \in Nat : x = m * p
  BY Multiple
<1>2. PICK q \in Nat : m = n * q
  BY Multiple
<1>3. x = n * (q * p) /\ q * p \in Nat
  BY <1>1, <1>2
<1> QED
  BY <1>3, MultipleMod

(***************************************************************************)
(* calc_pad is less than the alignment and reaches an aligned address.     *)
(***************************************************************************)
LEMMA CalcPad ==
    ASSUME NEW ptr \in Nat, NEW align \in Nat \ {0}
    PROVE  /\ calc_pad(ptr, align) \in Nat
           /\ calc_pad(ptr, align) < align
           /\ (ptr + calc_pad(ptr, align)) % align = 0
<1> DEFINE r == ptr % align
           q == ptr \div align
<1>1. r \in Nat /\ r < align /\ q \in Nat /\ ptr = align * q + r
  BY ModFacts
<1>2. CASE r = 0
  <2>1. align % align = 0
    BY MultipleMod, align * 1 = align
  <2>2. calc_pad(ptr, align) = 0
    BY <1>2, <2>1 DEF calc_pad
  <2> QED
    BY <1>1, <1>2, <2>2
<1>3. CASE r # 0
  <2>1. align - r \in Nat /\ align - r < align
    BY <1>1, <1>3
  <2>2. calc_pad(ptr, align) = align - r
    BY <2>1 DEF calc_pad
  <2>3. ptr + (align - r) = align * (q + 1)
    BY <1>1, <2>1
  <2>4. (align * (q + 1)) % align = 0
    BY <1>1, MultipleMod, q + 1 \in Nat
  <2> QED
    BY <2>1, <2>2, <2>3, <2>4
<1> QED
  BY <1>2, <1>3

(***************************************************************************)
(* Wrap reduces to a word and leaves a word alone.                         *)
(***************************************************************************)
LEMMA WrapFacts ==
    ASSUME NEW n \in Nat
    PROVE  /\ Wrap(n) \in Word /\ Wrap(n) <= n
           /\ n <= SIZE_MAX => Wrap(n) = n
  BY WordAssumption, ModFacts DEF Wrap, Word

(***************************************************************************)
(* align_up yields a word.                                                 *)
(***************************************************************************)
LEMMA AlignUpWord ==
    ASSUME NEW size \in Nat, NEW align \in Nat \ {0}
    PROVE  align_up(size, align) \in Word
<1> DEFINE s == Wrap(size + (align - 1))
<1>1. s \in Word
  BY WrapFacts
<1>2. s % align \in Nat /\ s % align <= s
  BY <1>1, ModFacts, WordAssumption DEF Word
<1> QED
  BY <1>1, <1>2, WordAssumption DEF align_up, Word

(***************************************************************************)
(* A request that passes the first early return has a positive alignment.  *)
(***************************************************************************)
LEMMA GoodAlign ==
    ASSUME NEW align \in Word, ~BadAlign(align)
    PROVE  align \in Nat \ {0}
  BY WordAssumption DEF BadAlign, Word

(***************************************************************************)
(* Wrapped or not, what align_up yields is a multiple of align.            *)
(***************************************************************************)
LEMMA AlignUpMultiple ==
    ASSUME NEW size \in Nat, NEW align \in Nat \ {0}
    PROVE  align_up(size, align) % align = 0
<1> DEFINE s == Wrap(size + (align - 1))
<1>1. s \in Nat
  BY WrapFacts, WordAssumption DEF Word
<1>2. align_up(size, align) = s - (s % align)
  BY DEF align_up
<1> HIDE DEF s
<1>3. s \div align \in Nat /\ s - (s % align) = align * (s \div align)
  BY <1>1, ModFacts
<1> QED
  BY <1>2, <1>3, MultipleMod

(***************************************************************************)
(* Where its sum does not wrap, align_up yields a multiple of align, not   *)
(* below size and by less than align above it.                             *)
(***************************************************************************)
LEMMA AlignUpFits ==
    ASSUME NEW size \in Nat, NEW align \in Nat \ {0},
           size + (align - 1) <= SIZE_MAX
    PROVE  /\ align_up(size, align) \in Nat
           /\ size <= align_up(size, align)
           /\ align_up(size, align) <= size + (align - 1)
           /\ align_up(size, align) % align = 0
<1> DEFINE s == size + (align - 1)
           q == s \div align
<1>1. s \in Nat /\ Wrap(s) = s
  BY WrapFacts
<1>2. align_up(size, align) = s - (s % align)
  BY <1>1 DEF align_up
<1>3. s % align \in Nat /\ s % align < align /\ s % align <= s /\ q \in Nat
      /\ s = align * q + (s % align)
  BY <1>1, ModFacts
<1>4. s - (s % align) = align * q
  BY <1>1, <1>3
<1>5. (align * q) % align = 0
  BY <1>3, MultipleMod
<1> QED
  BY <1>1, <1>2, <1>3, <1>4, <1>5

(***************************************************************************)
(* What os_alloc returns is NULL or the start of a range of size bytes.    *)
(***************************************************************************)
LEMMA OsAlloc ==
    ASSUME NEW size \in Word, NEW p \in os_alloc(size)
    PROVE  p \in Word /\ (p # NULL => p + size <= SIZE_MAX)
  BY WordAssumption, PageAssumption DEF os_alloc, Word, NULL
=============================================================================
