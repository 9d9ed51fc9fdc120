----------------------- MODULE BuddyAllocator_proofs -----------------------
(***************************************************************************)
(* The blocks and headers of the buddy allocator for every region, number  *)
(* of lists and set of requests.  A block is <<addr, order>>, the bytes of *)
(* an aligned interval; two of them are disjoint or one is inside the      *)
(* other.  Both loops of the code, down in alloc_raw and up in free_raw,   *)
(* exchange one block for a smaller one and the buddies passed on the way, *)
(* or back: lemma Telescope.                                               *)
(***************************************************************************)
EXTENDS BuddyAllocator, Utils_proofs, FiniteSetTheorems

\* 2^k counts the subsets of 1..k.
LEMMA Doubling ==
    ASSUME NEW k \in Nat
    PROVE  2^k \in Nat /\ 2^(k + 1) = 2 * 2^k
<1> DEFINE A == SUBSET (1..k)
           x == k + 1
           B == {s \cup {x} : s \in A}
           C == SUBSET (1..x)
           f == [s \in A |-> s \cup {x}]
<1>1. IsFiniteSet(1..k) /\ Cardinality(1..k) = k
  BY FS_Interval
<1>2. IsFiniteSet(1..x) /\ Cardinality(1..x) = k + 1
  BY FS_Interval
<1>3. IsFiniteSet(A) /\ Cardinality(A) = 2^k
  BY <1>1, FS_SUBSET
<1>4. Cardinality(C) = 2^(k + 1)
  BY <1>2, FS_SUBSET
<1>5. \A s \in A : x \notin s
  OBVIOUS
<1>6. f \in Bijection(A, B)
  <2>1. f \in [A -> B]
    OBVIOUS
  <2>2. \A s, t \in A : f[s] = f[t] => s = t
    BY <1>5
  <2>3. \A t \in B : \E s \in A : f[s] = t
    OBVIOUS
  <2> QED
    BY <2>1, <2>2, <2>3 DEF Bijection, Injection, Surjection, IsInjective
<1>7. IsFiniteSet(B) /\ Cardinality(B) = 2^k
  BY <1>3, <1>6, FS_Bijection DEF ExistsBijection
<1>8. C = A \cup B
  <2>1. ASSUME NEW s \in C PROVE s \in A \cup B
    <3>1. CASE x \in s
      <4>1. s \ {x} \in A /\ s = (s \ {x}) \cup {x}
        BY <3>1
      <4> QED
        BY <4>1
    <3>2. CASE x \notin s
      BY <3>2
    <3> QED
      BY <3>1, <3>2
  <2>2. 1..k \subseteq 1..x /\ x \in 1..x
    OBVIOUS
  <2>3. A \subseteq C
    BY <2>2
  <2>4. ASSUME NEW s \in A PROVE s \cup {x} \in C
    BY <2>2
  <2>5. B \subseteq C
    BY <2>4
  <2> HIDE DEF A, B, C
  <2> QED
    BY <2>1, <2>3, <2>5
<1>9. A \cap B = {}
  BY <1>5
<1>10. Cardinality(C) = Cardinality(A) + Cardinality(B) - Cardinality({})
  BY <1>3, <1>7, <1>8, <1>9, FS_Union
<1>11. Cardinality(A) \in Nat
  BY <1>3, FS_CardinalityType
<1> HIDE DEF A, B, C
<1> QED
  BY <1>3, <1>4, <1>7, <1>10, <1>11, FS_EmptySet

\* Powers of two are positive.
LEMMA PowPositive ==
    ASSUME NEW k \in Nat
    PROVE  2^k \in Nat \ {0}
<1> DEFINE T == {n \in Nat : 2^n \in Nat \ {0}}
<1>1. 0 \in T
  <2>1. 2^0 = 1
    OBVIOUS
  <2> QED
    BY <2>1
<1>2. \A n \in T : n + 1 \in T
  BY Doubling
<1> HIDE DEF T
<1>3. T = Nat
  BY <1>1, <1>2, NatInd DEF T
<1> QED
  BY <1>3 DEF T

\* Block sizes double from one order to the next.
LEMMA BlockSizes ==
    ASSUME NEW k \in Nat
    PROVE  /\ BlockSize(k) \in Nat \ {0} /\ BlockSize(k) >= MIN_BLOCK_SIZE
           /\ BlockSize(k + 1) = 2 * BlockSize(k)
<1>1. 2^k \in Nat \ {0} /\ 2^(k + 1) = 2 * 2^k
  BY Doubling, PowPositive
<1> QED
  BY <1>1 DEF BlockSize, MIN_BLOCK_SIZE

\* A larger order has blocks at least twice as large, of whole smaller ones.
LEMMA SizeOrder ==
    ASSUME NEW j \in Nat, NEW k \in Nat, j <= k
    PROVE  /\ BlockSize(j) <= BlockSize(k)
           /\ BlockSize(k) % BlockSize(j) = 0
           /\ j < k => 2 * BlockSize(j) <= BlockSize(k)
<1> DEFINE s == BlockSize(j)
           T == {n \in Nat : /\ BlockSize(j + n) >= s
                             /\ BlockSize(j + n) % s = 0}
<1>1. s \in Nat \ {0}
  BY BlockSizes
<1>2. 0 \in T
  <2>1. s % s = 0
    BY <1>1, MultipleMod, s * 1 = s
  <2> QED
    BY <1>1, <2>1
<1>3. ASSUME NEW n \in T PROVE n + 1 \in T
  <2> DEFINE u == BlockSize(j + n)
  <2>1. u \in Nat \ {0} /\ BlockSize((j + n) + 1) = 2 * u
    BY BlockSizes
  <2>2. u >= s /\ u % s = 0
    OBVIOUS
  <2> HIDE DEF u
  <2>3. (u + u) % s = 0
    BY <1>1, <2>1, <2>2, ModSum
  <2>4. u + u = 2 * u /\ u + u >= s
    BY <1>1, <2>1, <2>2
  <2>5. (j + n) + 1 = j + (n + 1)
    OBVIOUS
  <2> QED
    BY <2>1, <2>3, <2>4, <2>5
<1> HIDE DEF T
<1>4. T = Nat
  BY <1>2, <1>3, NatInd DEF T
<1>5. \A n \in Nat : BlockSize(j + n) >= s /\ BlockSize(j + n) % s = 0
  BY <1>4 DEF T
<1>6. k - j \in Nat /\ j + (k - j) = k
  OBVIOUS
<1>7. ASSUME j < k PROVE 2 * s <= BlockSize(k)
  <2>1. (k - 1) - j \in Nat /\ j + ((k - 1) - j) = k - 1 /\ k - 1 \in Nat
    BY <1>7
  <2>2. BlockSize(k - 1) >= s
    BY <1>5, <2>1
  <2>3. BlockSize(k - 1) \in Nat /\ BlockSize((k - 1) + 1) = 2 * BlockSize(k - 1)
    BY <2>1, BlockSizes
  <2>4. (k - 1) + 1 = k
    OBVIOUS
  <2> QED
    BY <1>1, <2>2, <2>3, <2>4
<1>8. BlockSize(k) >= s /\ BlockSize(k) % s = 0
  BY <1>5, <1>6
<1>9. BlockSize(k) \in Nat
  BY BlockSizes
<1> QED
  BY <1>1, <1>7, <1>8, <1>9

\* The order is known from the size.
LEMMA SizeTells ==
    ASSUME NEW j \in Nat, NEW k \in Nat, BlockSize(j) <= BlockSize(k)
    PROVE  j <= k /\ (BlockSize(j) = BlockSize(k) => j = k)
<1>1. BlockSize(j) \in Nat \ {0} /\ BlockSize(k) \in Nat \ {0}
  BY BlockSizes
<1>2. ASSUME k < j PROVE FALSE
  <2>1. 2 * BlockSize(k) <= BlockSize(j)
    BY <1>2, SizeOrder
  <2> QED
    BY <1>1, <2>1
<1>3. ASSUME j < k, BlockSize(j) = BlockSize(k) PROVE FALSE
  <2>1. 2 * BlockSize(j) <= BlockSize(k)
    BY <1>3, SizeOrder
  <2> QED
    BY <1>1, <1>3, <2>1
<1> QED
  BY <1>2, <1>3

-----------------------------------------------------------------------------
\* A block of order k may start at x in a region that starts at z.
Placed(z, x, k) ==
    /\ x \in Nat /\ k \in Nat
    /\ z <= x /\ (x - z) % BlockSize(k) = 0

\* The byte lies in the block of order k at x.
In(x, k, byte) == x <= byte /\ byte < x + BlockSize(k)

\* block_at and get_buddy in a region that starts at z.
at(z, x, k) == x - ((x - z) % BlockSize(k))
bud(z, x, k) ==
    IF ((x - z) \div BlockSize(k)) % 2 = 0
    THEN x + BlockSize(k) ELSE x - BlockSize(k)

\* Two multiples are equal or a step apart.
LEMMA Multiples ==
    ASSUME NEW x \in Nat, NEW y \in Nat, NEW s \in Nat \ {0},
           x % s = 0, y % s = 0, x < y
    PROVE  x + s <= y
<1> DEFINE n == y - x
<1>1. n \in Nat /\ y = x + n /\ n # 0 /\ x <= y
  OBVIOUS
<1>2. n % s = 0
  BY <1>1, ModSum
<1> HIDE DEF n
<1>3. PICK p \in Nat : n = s * p
  BY <1>1, <1>2, Multiple
<1>4. p # 0
  BY <1>1, <1>3
<1>5. s * p >= s
  BY <1>4
<1> QED
  BY <1>1, <1>3, <1>5

\* The quotient of a multiple.
LEMMA Quotient ==
    ASSUME NEW q \in Nat, NEW s \in Nat \ {0}
    PROVE  (s * q) \div s = q
<1> DEFINE d == s * q
           r == d \div s
<1>1. d \in Nat /\ d % s = 0
  BY MultipleMod
<1>2. r \in Nat /\ d = s * r
  BY <1>1, ModFacts
<1>3. s * r = s * q
  BY <1>2
<1> HIDE DEF r
<1>4. ASSUME r < q PROVE FALSE
  <2>1. s * (r + 1) <= s * q
    BY <1>2, <1>4
  <2>2. s * (r + 1) = s * r + s
    BY <1>2
  <2> QED
    BY <1>2, <1>3, <2>1, <2>2
<1>5. ASSUME q < r PROVE FALSE
  <2>1. s * (q + 1) <= s * r
    BY <1>2, <1>5
  <2>2. s * (q + 1) = s * q + s
    OBVIOUS
  <2> QED
    BY <1>2, <1>3, <2>1, <2>2
<1> QED
  BY <1>2, <1>4, <1>5 DEF r

\* Of two blocks that share a byte the smaller is inside the larger.
LEMMA Nest ==
    ASSUME NEW z \in Nat, NEW x, NEW j, NEW y, NEW k, NEW byte \in Nat,
           Placed(z, x, j), Placed(z, y, k), j <= k,
           In(x, j, byte), In(y, k, byte)
    PROVE  /\ y <= x
           /\ x + BlockSize(j) <= y + BlockSize(k)
<1> DEFINE s == BlockSize(j)
           t == BlockSize(k)
           u == x - z
           v == y - z
<1>1. /\ x \in Nat /\ y \in Nat /\ j \in Nat /\ k \in Nat
      /\ z <= x /\ z <= y /\ u \in Nat /\ v \in Nat
      /\ u % s = 0 /\ v % t = 0
  BY DEF Placed
<1>2. s \in Nat \ {0} /\ t \in Nat \ {0} /\ t % s = 0
  BY <1>1, BlockSizes, SizeOrder
<1>3. x <= byte /\ byte < x + s /\ y <= byte /\ byte < y + t
  BY DEF In
<1> HIDE DEF s, t, u, v
<1>4. v % s = 0
  BY <1>1, <1>2, ModTrans
<1>5. (v + t) % s = 0
  BY <1>1, <1>2, <1>4, ModSum
<1>6. x = z + u /\ y = z + v
  BY <1>1 DEF u, v
<1>7. v <= u
  <2>1. u < v => u + s <= v
    BY <1>1, <1>2, <1>4, Multiples
  <2> QED
    BY <1>1, <1>2, <1>3, <1>6, <2>1
<1>8. u + s <= v + t
  <2>1. v + t \in Nat
    BY <1>1, <1>2
  <2>2. u < v + t => u + s <= v + t
    BY <1>1, <1>2, <1>5, <2>1, Multiples
  <2> QED
    BY <1>1, <1>2, <1>3, <1>6, <2>2
<1> QED
  BY <1>1, <1>2, <1>6, <1>7, <1>8 DEF s, t

\* The block of an order that an address lies in.
LEMMA AtFacts ==
    ASSUME NEW z \in Nat, NEW x \in Nat, NEW k \in Nat, z <= x
    PROVE  Placed(z, at(z, x, k), k) /\ In(at(z, x, k), k, x)
<1> DEFINE s == BlockSize(k)
           d == x - z
           r == d % s
<1>1. s \in Nat \ {0} /\ d \in Nat
  BY BlockSizes
<1>2. r \in Nat /\ r < s /\ r <= d /\ d = s * (d \div s) + r /\ d \div s \in Nat
  BY <1>1, ModFacts
<1>3. d - r = s * (d \div s)
  BY <1>1, <1>2
<1>4. (d - r) % s = 0
  BY <1>1, <1>2, <1>3, MultipleMod
<1>5. at(z, x, k) = x - r
  BY DEF at
<1> HIDE DEF s, r
<1>6. (x - r) - z = d - r
  BY <1>1, <1>2
<1> QED
  BY <1>1, <1>2, <1>4, <1>5, <1>6 DEF Placed, In, s

\* There is only one.
LEMMA AtUnique ==
    ASSUME NEW z \in Nat, NEW x \in Nat, NEW k, NEW p,
           Placed(z, p, k), In(p, k, x)
    PROVE  at(z, x, k) = p
<1>1. p \in Nat /\ k \in Nat /\ z <= p /\ p <= x
  BY DEF Placed, In
<1>2. Placed(z, at(z, x, k), k) /\ In(at(z, x, k), k, x)
  BY <1>1, AtFacts
<1>3. k <= k
  BY <1>1
<1>4. at(z, x, k) <= p /\ p <= at(z, x, k)
  BY <1>2, <1>3, Nest
<1> QED
  BY <1>1, <1>2, <1>4 DEF Placed

\* The blocks of two orders that an address lies in.
LEMMA Climb ==
    ASSUME NEW z \in Nat, NEW x \in Nat, NEW j \in Nat, NEW k \in Nat,
           z <= x, j <= k
    PROVE  at(z, at(z, x, j), k) = at(z, x, k)
<1> DEFINE p == at(z, x, j)
           q == at(z, x, k)
<1>1. Placed(z, p, j) /\ In(p, j, x) /\ Placed(z, q, k) /\ In(q, k, x)
  BY AtFacts
<1> HIDE DEF p, q
<1>2. q <= p /\ p + BlockSize(j) <= q + BlockSize(k)
  BY <1>1, Nest
<1>3. p \in Nat /\ q \in Nat /\ BlockSize(j) \in Nat \ {0} /\ BlockSize(k) \in Nat
  BY <1>1, BlockSizes DEF Placed
<1>4. In(q, k, p)
  BY <1>2, <1>3 DEF In
<1>5. at(z, p, k) = q
  BY <1>1, <1>3, <1>4, AtUnique
<1> QED
  BY <1>5 DEF p, q

\* The two halves of a block are each other's buddies.
LEMMA Parity ==
    ASSUME NEW z \in Nat, NEW k \in Nat, NEW p, Placed(z, p, k + 1)
    PROVE  /\ bud(z, p, k) = p + BlockSize(k)
           /\ bud(z, p + BlockSize(k), k) = p
           /\ Placed(z, p, k) /\ Placed(z, p + BlockSize(k), k)
<1> DEFINE s == BlockSize(k)
           d == p - z
<1>1. s \in Nat \ {0} /\ BlockSize(k + 1) = 2 * s
  BY BlockSizes
<1>2. p \in Nat /\ z <= p /\ d \in Nat /\ d % (2 * s) = 0
  BY <1>1 DEF Placed
<1> HIDE DEF s
<1>3. PICK h \in Nat : d = (2 * s) * h
  <2> DEFINE n == 2 * s
  <2>1. n \in Nat \ {0} /\ d % n = 0
    BY <1>1, <1>2
  <2> HIDE DEF n, d
  <2>2. \E h \in Nat : d = n * h
    BY <1>2, <2>1, Multiple
  <2> QED
    BY <2>2 DEF n
<1>4. d = s * (2 * h) /\ d + s = s * (2 * h + 1)
  BY <1>1, <1>3
<1>5. 2 * h \in Nat /\ 2 * h + 1 \in Nat
  OBVIOUS
<1>6. d \div s = 2 * h /\ (d + s) \div s = 2 * h + 1
  BY <1>1, <1>4, <1>5, Quotient
<1>7. (2 * h) % 2 = 0 /\ (2 * h + 1) % 2 = 1
  OBVIOUS
<1>8. d % s = 0 /\ (d + s) % s = 0
  BY <1>1, <1>4, <1>5, MultipleMod
<1>9. (p + s) - z = d + s /\ (p + s) - s = p
  BY <1>1, <1>2
<1> HIDE DEF d
<1>10. bud(z, p, k) = p + s
  BY <1>6, <1>7 DEF bud, d, s
<1>11. bud(z, p + s, k) = p
  BY <1>6, <1>7, <1>9 DEF bud, s
<1> QED
  BY <1>1, <1>2, <1>8, <1>9, <1>10, <1>11 DEF Placed, d, s

\* A block is where its first byte is.
LEMMA AtItself ==
    ASSUME NEW z \in Nat, NEW x, NEW k, Placed(z, x, k)
    PROVE  In(x, k, x) /\ at(z, x, k) = x
<1>1. x \in Nat /\ k \in Nat /\ BlockSize(k) \in Nat \ {0}
  BY BlockSizes DEF Placed
<1>2. In(x, k, x)
  BY <1>1 DEF In
<1> QED
  BY <1>1, <1>2, AtUnique

(***************************************************************************)
(* A block and its buddy are the halves of the block above.                *)
(***************************************************************************)
Paired(z, x, k, y, p) ==
    /\ Placed(z, y, k) /\ Placed(z, p, k + 1)
    /\ y # x /\ bud(z, y, k) = x
    /\ \A byte \in Nat : In(p, k + 1, byte) <=> In(x, k, byte) \/ In(y, k, byte)
    /\ \A byte \in Nat : In(x, k, byte) => ~In(y, k, byte)

\* get_buddy leads to the other half of the block above, and back.
LEMMA Pair ==
    ASSUME NEW z \in Nat, NEW x, NEW k, Placed(z, x, k)
    PROVE  Paired(z, x, k, bud(z, x, k), at(z, x, k + 1))
<1> DEFINE s == BlockSize(k)
           p == at(z, x, k + 1)
<1>1. /\ x \in Nat /\ k \in Nat /\ k + 1 \in Nat /\ z <= x
      /\ s \in Nat \ {0} /\ BlockSize(k + 1) = 2 * s
  BY BlockSizes DEF Placed
<1>2. Placed(z, p, k + 1) /\ In(p, k + 1, x)
  BY <1>1, AtFacts
<1> HIDE DEF p
<1>3. p \in Nat
  BY <1>2 DEF Placed
<1>4. /\ bud(z, p, k) = p + s /\ bud(z, p + s, k) = p
      /\ Placed(z, p, k) /\ Placed(z, p + s, k)
  BY <1>1, <1>2, Parity
<1>5. at(z, x, k) = x
  BY AtItself
<1>6. p <= x /\ x < p + 2 * s
  BY <1>1, <1>2 DEF In
<1>7. \/ x = p /\ bud(z, x, k) = p + s
      \/ x = p + s /\ bud(z, x, k) = p
  <2>1. CASE x < p + s
    <3>1. In(p, k, x)
      BY <1>6, <2>1 DEF In
    <3>2. at(z, x, k) = p
      BY <1>1, <1>4, <3>1, AtUnique
    <3> QED
      BY <1>4, <1>5, <3>2
  <2>2. CASE ~(x < p + s)
    <3>1. In(p + s, k, x)
      BY <1>1, <1>3, <1>6, <2>2 DEF In
    <3>2. at(z, x, k) = p + s
      BY <1>1, <1>4, <3>1, AtUnique
    <3> QED
      BY <1>4, <1>5, <3>2
  <2> QED
    BY <2>1, <2>2
<1>8. ASSUME NEW byte \in Nat
      PROVE  /\ In(p, k + 1, byte) <=> In(p, k, byte) \/ In(p + s, k, byte)
             /\ In(p, k, byte) => ~In(p + s, k, byte)
  BY <1>1, <1>3 DEF In
<1>9. p # p + s
  BY <1>1, <1>3
<1> QED
  BY <1>2, <1>4, <1>7, <1>8, <1>9 DEF Paired, p

(***************************************************************************)
(* What alloc_raw splits and free_raw merges: the block of order m around  *)
(* a block at x of order j is that block and the buddies at the orders     *)
(* from j to m - 1, all disjoint.                                          *)
(***************************************************************************)
passed(z, x, k) == bud(z, at(z, x, k), k)

Telescopes(z, x, j, m) ==
    \A byte \in Nat :
      In(at(z, x, m), m, byte) <=>
        In(x, j, byte) \/ (\E k \in j..(m - 1) : In(passed(z, x, k), k, byte))

\* One order up.
LEMMA OneUp ==
    ASSUME NEW z \in Nat, NEW x \in Nat, NEW k \in Nat, z <= x
    PROVE  Paired(z, at(z, x, k), k, passed(z, x, k), at(z, x, k + 1))
<1>1. Placed(z, at(z, x, k), k)
  BY AtFacts
<1>2. k + 1 \in Nat /\ k <= k + 1
  OBVIOUS
<1>3. at(z, at(z, x, k), k + 1) = at(z, x, k + 1)
  BY <1>2, Climb
<1> QED
  BY <1>1, <1>3, Pair DEF passed

\* The loops of alloc_raw and free_raw, by induction on their length.
LEMMA Telescope ==
    ASSUME NEW z \in Nat, NEW x, NEW j, NEW m \in Nat,
           Placed(z, x, j), j <= m
    PROVE  Telescopes(z, x, j, m)
<1> DEFINE T == {n \in Nat : Telescopes(z, x, j, j + n)}
<1>1. x \in Nat /\ j \in Nat /\ z <= x
  BY DEF Placed
<1>2. 0 \in T
  <2>1. at(z, x, j) = x /\ j + 0 = j /\ j..(j - 1) = {}
    BY <1>1, AtItself
  <2> QED
    BY <2>1 DEF Telescopes
<1>3. ASSUME NEW n \in T PROVE n + 1 \in T
  <2> DEFINE k == j + n
  <2>1. k \in Nat /\ j + (n + 1) = k + 1 /\ n + 1 \in Nat
    BY <1>1
  <2>2. Telescopes(z, x, j, k)
    OBVIOUS
  <2>3. Paired(z, at(z, x, k), k, passed(z, x, k), at(z, x, k + 1))
    BY <1>1, <2>1, OneUp
  <2>4. /\ \A i \in j..((k + 1) - 1) : i \in j..(k - 1) \/ i = k
        /\ k \in j..((k + 1) - 1)
        /\ \A i \in j..(k - 1) : i \in j..((k + 1) - 1)
    BY <1>1, <2>1
  <2> HIDE DEF k
  <2>5. Telescopes(z, x, j, k + 1)
    <3> SUFFICES ASSUME NEW byte \in Nat
                 PROVE  In(at(z, x, k + 1), k + 1, byte) <=>
                          \/ In(x, j, byte)
                          \/ \E i \in j..((k + 1) - 1) :
                               In(passed(z, x, i), i, byte)
      BY DEF Telescopes
    <3>1. In(at(z, x, k + 1), k + 1, byte) <=>
            In(at(z, x, k), k, byte) \/ In(passed(z, x, k), k, byte)
      BY <2>3 DEF Paired
    <3>2. In(at(z, x, k), k, byte) <=>
            In(x, j, byte) \/ (\E i \in j..(k - 1) : In(passed(z, x, i), i, byte))
      BY <2>2 DEF Telescopes
    <3> QED
      BY <2>4, <3>1, <3>2
  <2> QED
    BY <2>1, <2>5
<1> HIDE DEF T
<1>4. T = Nat
  BY <1>2, <1>3, NatInd DEF T
<1>5. m - j \in Nat /\ j + (m - j) = m
  BY <1>1
<1>6. m - j \in T
  BY <1>4, <1>5
<1>7. Telescopes(z, x, j, j + (m - j))
  BY <1>6 DEF T
<1> QED
  BY <1>5, <1>7

\* No byte is in two of the pieces.
LEMMA PassedApart ==
    ASSUME NEW z \in Nat, NEW x, NEW j, Placed(z, x, j), NEW byte \in Nat
    PROVE  /\ \A k \in Nat : j <= k /\ In(passed(z, x, k), k, byte) =>
                ~In(x, j, byte)
           /\ \A i, k \in Nat : j <= i /\ i < k /\ In(passed(z, x, k), k, byte) =>
                ~In(passed(z, x, i), i, byte)
<1>1. x \in Nat /\ j \in Nat /\ z <= x
  BY DEF Placed
<1>2. ASSUME NEW k \in Nat, j <= k, In(passed(z, x, k), k, byte)
      PROVE  ~In(x, j, byte) /\ \A i \in j..(k - 1) : ~In(passed(z, x, i), i, byte)
  <2>1. Paired(z, at(z, x, k), k, passed(z, x, k), at(z, x, k + 1))
    BY <1>1, OneUp
  <2>2. ~In(at(z, x, k), k, byte)
    BY <1>2, <2>1 DEF Paired
  <2>3. Telescopes(z, x, j, k)
    BY <1>2, Telescope
  <2> QED
    BY <2>2, <2>3 DEF Telescopes
<1>3. \A i, k \in Nat : j <= i /\ i < k => i \in j..(k - 1) /\ j <= k
  BY <1>1
<1> QED
  BY <1>2, <1>3

-----------------------------------------------------------------------------
Has(b, byte) == In(b[1], b[2], byte)

\* b is a block of the region that starts at z.
Block(z, b) == b \in Nat \X Nat /\ Placed(z, b[1], b[2])

Disjoint(B) == \A b, c \in B, byte \in Nat : Has(b, byte) /\ Has(c, byte) => b = c

\* The blocks of B make up the block of order M at z.
Laid(B, z, M) ==
    /\ \A b \in B : Block(z, b) /\ b[1] + BlockSize(b[2]) <= z + BlockSize(M)
    /\ Disjoint(B)
    /\ \A byte \in Nat : z <= byte /\ byte < z + BlockSize(M) =>
                         \E b \in B : Has(b, byte)

\* The blocks of N and of R have the same bytes.
SameBytes(N, R) ==
    \A byte \in Nat : (\E n \in N : Has(n, byte)) <=> (\E r \in R : Has(r, byte))

\* A block has a first and a last byte.
LEMMA BlockFacts ==
    ASSUME NEW z \in Nat, NEW b, Block(z, b)
    PROVE  /\ b[1] \in Nat /\ b[2] \in Nat /\ z <= b[1] /\ b = <<b[1], b[2]>>
           /\ Placed(z, b[1], b[2])
           /\ BlockSize(b[2]) \in Nat \ {0} /\ Has(b, b[1])
           /\ b[1] + BlockSize(b[2]) - 1 \in Nat
           /\ Has(b, b[1] + BlockSize(b[2]) - 1)
<1>1. b[1] \in Nat /\ b[2] \in Nat /\ z <= b[1] /\ Placed(z, b[1], b[2])
  BY DEF Block, Placed
<1>2. BlockSize(b[2]) \in Nat \ {0}
  BY <1>1, BlockSizes
<1>3. b = <<b[1], b[2]>>
  BY DEF Block
<1> QED
  BY <1>1, <1>2, <1>3 DEF Has, In

(***************************************************************************)
(* Blocks exchanged for others with the same bytes.                        *)
(***************************************************************************)
LEMMA Exchange ==
    ASSUME NEW z \in Nat, NEW M \in Nat, NEW B, NEW R, NEW N, NEW C,
           Laid(B, z, M), R \subseteq B, C = (B \ R) \cup N,
           \A n \in N : Block(z, n),
           Disjoint(N), SameBytes(N, R)
    PROVE  Laid(C, z, M)
<1>1. ASSUME NEW n \in N, NEW byte \in Nat, Has(n, byte)
      PROVE  \E r \in R : Has(r, byte)
  BY <1>1 DEF SameBytes
<1>2. BlockSize(M) \in Nat
  BY BlockSizes
<1>3. ASSUME NEW n \in N PROVE n[1] + BlockSize(n[2]) <= z + BlockSize(M)
  <2> DEFINE last == n[1] + BlockSize(n[2]) - 1
  <2>1. n[1] \in Nat /\ BlockSize(n[2]) \in Nat /\ last \in Nat /\ Has(n, last)
    BY BlockFacts
  <2>2. PICK r \in R : Has(r, last)
    BY <1>1, <2>1
  <2>3. /\ r[1] \in Nat /\ BlockSize(r[2]) \in Nat
        /\ r[1] + BlockSize(r[2]) <= z + BlockSize(M)
    BY BlockFacts DEF Laid
  <2>4. last < r[1] + BlockSize(r[2])
    BY <2>2 DEF Has, In
  <2> QED
    BY <1>2, <2>1, <2>3, <2>4
<1>4. \A c \in C : Block(z, c) /\ c[1] + BlockSize(c[2]) <= z + BlockSize(M)
  BY <1>3 DEF Laid
<1>5. ASSUME NEW n \in N, NEW b \in B \ R, NEW byte \in Nat,
             Has(n, byte), Has(b, byte)
      PROVE  FALSE
  <2>1. PICK r \in R : Has(r, byte)
    BY <1>1, <1>5
  <2> QED
    BY <1>5, <2>1 DEF Laid, Disjoint
<1>6. Disjoint(C)
  BY <1>5 DEF Disjoint, Laid
<1>7. ASSUME NEW byte \in Nat, NEW b \in B, Has(b, byte)
      PROVE  \E c \in C : Has(c, byte)
  BY <1>7 DEF SameBytes
<1> QED
  BY <1>4, <1>6, <1>7 DEF Laid

\* The buddies passed from order j to m, and the block at x they start from.
buddies(z, x, j, m) == {<<passed(z, x, k), k>> : k \in j..(m - 1)}
pieces(z, x, j, m) == {<<x, j>>} \cup buddies(z, x, j, m)

\* They are disjoint blocks that make up the block of order m around x.
LEMMA Pieces ==
    ASSUME NEW z \in Nat, NEW x, NEW j, NEW m \in Nat, Placed(z, x, j), j <= m
    PROVE  /\ \A n \in pieces(z, x, j, m) : Block(z, n)
           /\ Disjoint(pieces(z, x, j, m))
           /\ Block(z, <<at(z, x, m), m>>)
           /\ SameBytes(pieces(z, x, j, m), {<<at(z, x, m), m>>})
           /\ \A k \in j..(m - 1) : <<passed(z, x, k), k>> # <<x, j>>
<1> DEFINE N == pieces(z, x, j, m)
           bd(k) == <<passed(z, x, k), k>>
<1>1. x \in Nat /\ j \in Nat /\ z <= x
  BY DEF Placed
<1>2. \A k \in j..(m - 1) : k \in Nat /\ j <= k
  BY <1>1
<1>3. ASSUME NEW k \in j..(m - 1) PROVE Block(z, bd(k))
  <2>1. Paired(z, at(z, x, k), k, passed(z, x, k), at(z, x, k + 1))
    BY <1>1, <1>2, OneUp
  <2>2. Placed(z, passed(z, x, k), k)
    BY <2>1 DEF Paired
  <2> QED
    BY <1>2, <2>2 DEF Block, Placed
<1>4. Block(z, <<x, j>>)
  BY <1>1 DEF Block
<1>5. \A n \in N : n = <<x, j>> \/ \E k \in j..(m - 1) : n = bd(k)
  BY DEF pieces, buddies
<1>6. <<x, j>> \in N /\ \A k \in j..(m - 1) : bd(k) \in N
  BY DEF pieces, buddies
<1>7. \A byte : /\ Has(<<x, j>>, byte) <=> In(x, j, byte)
                /\ \A k : Has(bd(k), byte) <=> In(passed(z, x, k), k, byte)
  BY DEF Has
<1>8. \A n \in N : Block(z, n)
  BY <1>3, <1>4, <1>5
<1>9. Block(z, <<at(z, x, m), m>>)
  <2>1. Placed(z, at(z, x, m), m)
    BY <1>1, AtFacts
  <2> QED
    BY <2>1 DEF Block, Placed
<1>10. SameBytes(N, {<<at(z, x, m), m>>})
  <2>1. Telescopes(z, x, j, m)
    BY Telescope
  <2>2. \A byte : Has(<<at(z, x, m), m>>, byte) <=> In(at(z, x, m), m, byte)
    BY DEF Has
  <2> SUFFICES ASSUME NEW byte \in Nat
               PROVE  (\E n \in N : Has(n, byte)) <=> In(at(z, x, m), m, byte)
    BY <2>2 DEF SameBytes
  <2>3. In(at(z, x, m), m, byte) <=>
          In(x, j, byte) \/ (\E k \in j..(m - 1) : In(passed(z, x, k), k, byte))
    BY <2>1 DEF Telescopes
  <2>4. ASSUME NEW n \in N, Has(n, byte) PROVE In(at(z, x, m), m, byte)
    BY <1>5, <1>7, <2>3, <2>4
  <2>5. ASSUME In(at(z, x, m), m, byte) PROVE \E n \in N : Has(n, byte)
    BY <1>6, <1>7, <2>3, <2>5
  <2> QED
    BY <2>4, <2>5
<1>11. ASSUME NEW byte \in Nat
       PROVE  /\ \A k \in j..(m - 1) : Has(bd(k), byte) => ~Has(<<x, j>>, byte)
              /\ \A i, k \in j..(m - 1) :
                   Has(bd(i), byte) /\ Has(bd(k), byte) => i = k
  <2>1. /\ \A k \in Nat : j <= k /\ In(passed(z, x, k), k, byte) =>
             ~In(x, j, byte)
        /\ \A i, k \in Nat : j <= i /\ i < k /\ In(passed(z, x, k), k, byte) =>
             ~In(passed(z, x, i), i, byte)
    BY PassedApart
  <2>2. \A i, k \in Nat : i < k \/ k < i \/ i = k
    OBVIOUS
  <2> QED
    BY <1>2, <1>7, <2>1, <2>2
<1>12. Disjoint(N)
  <2> SUFFICES ASSUME NEW n \in N, NEW o \in N, NEW byte \in Nat,
                      Has(n, byte), Has(o, byte)
               PROVE  n = o
    BY DEF Disjoint
  <2> HIDE DEF N, bd
  <2> QED
    BY <1>5, <1>11
<1>13. ASSUME NEW k \in j..(m - 1) PROVE bd(k) # <<x, j>>
  <2>1. Has(<<x, j>>, x)
    BY <1>7, AtItself
  <2> HIDE DEF bd
  <2> QED
    BY <1>1, <1>11, <2>1
<1> QED
  BY <1>8, <1>9, <1>10, <1>12, <1>13

\* Where the buddies lie when the block starts a block of order m.
LEMMA RightHalves ==
    ASSUME NEW z \in Nat, NEW x, NEW m, Placed(z, x, m),
           NEW k \in Nat, k < m
    PROVE  /\ Placed(z, x, k) /\ passed(z, x, k) = x + BlockSize(k)
           /\ bud(z, x + BlockSize(k), k) = x
<1>1. x \in Nat /\ m \in Nat /\ z <= x /\ x - z \in Nat
  BY DEF Placed
<1>2. ASSUME NEW i \in Nat, i <= m PROVE Placed(z, x, i)
  <2>1. BlockSize(m) % BlockSize(i) = 0 /\ (x - z) % BlockSize(m) = 0
    BY <1>1, <1>2, SizeOrder DEF Placed
  <2>2. BlockSize(i) \in Nat \ {0} /\ BlockSize(m) \in Nat \ {0}
    BY <1>1, BlockSizes
  <2>3. (x - z) % BlockSize(i) = 0
    BY <1>1, <2>1, <2>2, ModTrans
  <2> QED
    BY <1>1, <2>3 DEF Placed
<1>3. Placed(z, x, k) /\ Placed(z, x, k + 1)
  BY <1>1, <1>2
<1>4. at(z, x, k) = x
  BY <1>3, AtItself
<1> QED
  BY <1>3, <1>4, Parity DEF passed

\* No block is larger than the region.
LEMMA OrderBound ==
    ASSUME NEW z \in Nat, NEW M \in Nat, NEW B, Laid(B, z, M), NEW b \in B
    PROVE  /\ Block(z, b) /\ b[2] <= M
           /\ b[2] = M => b = <<z, M>>
<1>1. Block(z, b) /\ b[1] + BlockSize(b[2]) <= z + BlockSize(M)
  BY DEF Laid
<1>2. /\ b[1] \in Nat /\ b[2] \in Nat /\ z <= b[1] /\ b = <<b[1], b[2]>>
      /\ BlockSize(b[2]) \in Nat
  BY <1>1, BlockFacts
<1>3. BlockSize(M) \in Nat
  BY BlockSizes
<1>4. BlockSize(b[2]) <= BlockSize(M)
  BY <1>1, <1>2, <1>3
<1>5. b[2] <= M
  BY <1>2, <1>4, SizeTells
<1>6. b[2] = M => b[1] = z
  BY <1>1, <1>2, <1>3
<1> QED
  BY <1>1, <1>2, <1>5, <1>6

(***************************************************************************)
(* The buddy that free_raw looks at, at whatever order it has reached, is  *)
(* the start of a block of that order or a smaller one.                    *)
(***************************************************************************)
LEMMA BuddyStarts ==
    ASSUME NEW z \in Nat, NEW M \in Nat, NEW B, Laid(B, z, M),
           NEW b \in B, NEW k \in Nat, b[2] <= k,
           passed(z, b[1], k) < z + BlockSize(M)
    PROVE  \E c \in B : c[1] = passed(z, b[1], k) /\ c[2] <= k
<1> DEFINE x == b[1]
           y == passed(z, x, k)
           p == at(z, x, k + 1)
<1>1. /\ x \in Nat /\ b[2] \in Nat /\ z <= x /\ Has(b, x)
  BY OrderBound, BlockFacts
<1>2. Paired(z, at(z, x, k), k, y, p)
  BY <1>1, OneUp
<1> HIDE DEF y
<1>3. Placed(z, y, k) /\ y \in Nat /\ z <= y /\ In(y, k, y) /\ Placed(z, p, k + 1)
  BY <1>2, AtItself DEF Paired, Placed
<1>4. In(p, k + 1, y)
  BY <1>2, <1>3 DEF Paired
<1>5. In(p, k + 1, x)
  BY <1>1, AtFacts
<1>6. PICK c \in B : Has(c, y)
  BY <1>3 DEF Laid, y
<1>7. /\ c[1] \in Nat /\ c[2] \in Nat /\ Placed(z, c[1], c[2]) /\ In(c[1], c[2], y)
      /\ BlockSize(c[2]) \in Nat /\ BlockSize(k + 1) \in Nat
  BY <1>6, OrderBound, BlockFacts, BlockSizes DEF Has
<1> HIDE DEF p
<1>8. ASSUME k < c[2] PROVE FALSE
  <2>1. k + 1 <= c[2]
    BY <1>7, <1>8
  <2>2. c[1] <= p /\ p + BlockSize(k + 1) <= c[1] + BlockSize(c[2])
    BY <1>3, <1>4, <1>7, <2>1, Nest
  <2>3. p \in Nat
    BY <1>3 DEF Placed
  <2>4. Has(c, x)
    BY <1>1, <1>5, <1>7, <2>2, <2>3 DEF Has, In
  <2>5. c = b
    BY <1>1, <2>4 DEF Laid, Disjoint
  <2> QED
    BY <1>1, <1>8, <2>5
<1>9. c[2] <= k
  BY <1>7, <1>8
<1>10. y <= c[1]
  <2>1. Placed(z, c[1], c[2]) /\ In(c[1], c[2], y) /\ Placed(z, y, k) /\ In(y, k, y)
    BY <1>3, <1>7
  <2>2. y \in Nat
    BY <2>1 DEF Placed
  <2> QED
    BY ONLY <1>9, <2>1, <2>2, Nest, z \in Nat
<1>11. c[1] <= y
  BY <1>7 DEF In
<1> QED
  BY <1>3, <1>7, <1>9, <1>10, <1>11 DEF y

(***************************************************************************)
(* Blocks of which no two are buddies are one block: the buddy of a        *)
(* smallest block would have to be there.                                  *)
(***************************************************************************)
LEMMA Whole ==
    ASSUME NEW z \in Nat, NEW M \in Nat, NEW B, Laid(B, z, M),
           \A b \in B : <<bud(z, b[1], b[2]), b[2]>> \notin B
    PROVE  B = {<<z, M>>}
<1>1. BlockSize(M) \in Nat \ {0}
  BY BlockSizes
<1>2. PICK first \in B : Has(first, z)
  BY <1>1 DEF Laid
<1>3. \A b \in B : b[2] \in Nat
  BY OrderBound, BlockFacts
<1>4. PICK b \in B : \A c \in B : b[2] <= c[2]
  <2> DEFINE T == {c[2] : c \in B}
  <2>1. T \in SUBSET Nat /\ first[2] \in T
    BY <1>3
  <2>2. \E n \in T : \A i \in T : n <= i
    BY <2>1, NatMin
  <2> QED
    BY <2>2
<1> DEFINE x == b[1]
           k == b[2]
<1>5. /\ Block(z, b) /\ b = <<x, k>> /\ k <= M /\ (k = M => b = <<z, M>>)
      /\ Placed(z, x, k) /\ x \in Nat /\ k \in Nat /\ z <= x /\ Has(b, x)
  BY OrderBound, BlockFacts
<1>6. CASE k = M
  <2>1. ASSUME NEW c \in B PROVE c = b
    <3>1. /\ c[1] \in Nat /\ Has(c, c[1]) /\ z <= c[1]
          /\ BlockSize(c[2]) \in Nat \ {0}
      BY OrderBound, BlockFacts
    <3>2. c[1] + BlockSize(c[2]) <= z + BlockSize(M)
      BY DEF Laid
    <3>3. Has(<<z, M>>, c[1])
      BY <1>1, <3>1, <3>2 DEF Has, In
    <3> QED
      BY <1>5, <1>6, <3>1, <3>3 DEF Laid, Disjoint
  <2> QED
    BY <1>5, <1>6, <2>1
<1>7. CASE k # M
  <2> DEFINE y == bud(z, x, k)
             p == at(z, x, k + 1)
  <2>1. k + 1 \in Nat /\ k + 1 <= M
    BY <1>5, <1>7
  <2>2. y = passed(z, x, k)
    BY <1>5, AtItself DEF passed
  <2>3. Paired(z, x, k, y, p)
    BY <1>5, Pair
  <2>4. Placed(z, p, k + 1) /\ In(p, k + 1, x) /\ p \in Nat
    BY <1>5, <2>1, AtFacts DEF Placed
  <2>5. Placed(z, z, M)
    <3>1. z - z = 0 /\ BlockSize(M) * 0 = 0
      BY <1>1
    <3>2. 0 % BlockSize(M) = 0
      BY <1>1, <3>1, MultipleMod
    <3> QED
      BY <3>1, <3>2 DEF Placed
  <2>6. In(z, M, x)
    <3>1. x + BlockSize(k) <= z + BlockSize(M) /\ BlockSize(k) \in Nat \ {0}
      BY <1>5, BlockSizes DEF Laid
    <3> QED
      BY <1>1, <1>5, <3>1 DEF In
  <2> HIDE DEF y, p, x, k
  <2>7. p + BlockSize(k + 1) <= z + BlockSize(M)
    BY <1>5, <2>1, <2>4, <2>5, <2>6, Nest
  <2>8. y \in Nat /\ In(y, k, y)
    BY <2>3, AtItself DEF Paired, Placed
  <2>9. y < p + BlockSize(k + 1)
    BY <2>3, <2>8 DEF Paired, In
  <2>10. BlockSize(k + 1) \in Nat
    BY <2>1, BlockSizes
  <2>11. y < z + BlockSize(M)
    BY <1>1, <2>4, <2>7, <2>8, <2>9, <2>10
  <2>12. PICK c \in B : c[1] = y /\ c[2] <= k
    BY <1>5, <2>2, <2>11, BuddyStarts DEF x, k
  <2>13. c = <<c[1], c[2]>> /\ c[2] \in Nat /\ k <= c[2]
    BY <1>4, OrderBound, BlockFacts DEF k
  <2>14. c = <<y, k>>
    BY <1>5, <2>12, <2>13
  <2> QED
    BY <2>14 DEF x, k, y
<1> QED
  BY <1>6, <1>7

\* The region as one block, as the constructor and clear leave it.
LEMMA OneBlock ==
    ASSUME NEW z \in Nat, NEW M \in Nat
    PROVE  /\ Laid({<<z, M>>}, z, M)
           /\ bud(z, z, M) = z + BlockSize(M)
<1> DEFINE s == BlockSize(M)
<1>1. s \in Nat \ {0}
  BY BlockSizes
<1>2. z - z = 0 /\ s * 0 = 0 /\ 0 \in Nat
  BY <1>1
<1>3. 0 % s = 0 /\ 0 \div s = 0
  BY <1>1, <1>2, MultipleMod, Quotient
<1>4. Placed(z, z, M) /\ Block(z, <<z, M>>)
  BY <1>2, <1>3 DEF Placed, Block
<1>5. \A byte \in Nat : z <= byte /\ byte < z + s => Has(<<z, M>>, byte)
  BY DEF Has, In
<1>6. bud(z, z, M) = z + s
  BY <1>2, <1>3 DEF bud
<1> QED
  BY <1>1, <1>4, <1>5, <1>6 DEF Laid, Disjoint

-----------------------------------------------------------------------------
\* The block behind an allocation, as its header in m says.
used(m, a) == <<a.ptr - m[a.ptr - header_size].offset,
                m[a.ptr - header_size].order>>
Used(m, l) == {used(m, a) : a \in l}

\* What is known of one allocation.
Owned(m, a) ==
    /\ a \in Allocation /\ a.size > 0 /\ a.align > 0 /\ a.ptr % a.align = 0
    /\ a.ptr - header_size \in DOMAIN m
    /\ used(m, a)[1] + header_size <= a.ptr
    /\ End(a) <= used(m, a)[1] + BlockSize(used(m, a)[2])

\* No block is in two hands: free, used and lost.
OneHand(F, U, o) == F \cap U = {} /\ (F \cup U) \cap o = {}

\* A block's header says what the block is.
Marked(F, B, m) ==
    \A b \in B : /\ b[1] \in DOMAIN m /\ m[b[1]].order = b[2]
                 /\ m[b[1]].free <=> b \in F

\* Nothing but a free block looks like one.
NoStray(F, m) == \A h \in DOMAIN m : m[h].free => <<h, m[h].order>> \in F

\* No two buddies are both free.
Unpaired(F, z) == \A b \in F : <<bud(z, b[1], b[2]), b[2]>> \notin F

\* The free blocks F, the headers m, the allocations l and the lost blocks o.
Heap(F, m, l, o, z, M) ==
    /\ Laid(F \cup Used(m, l) \cup o, z, M)
    /\ OneHand(F, Used(m, l), o)
    /\ \A a, b \in l : used(m, a) = used(m, b) => a = b
    /\ \A a \in l : Owned(m, a)
    /\ DOMAIN m \subseteq Nat
    /\ Marked(F, F \cup Used(m, l) \cup o, m)
    /\ NoStray(F, m)
    /\ Unpaired(F, z)

\* m2 is m but for the block of order n at w.
Agree(m, m2, w, n) ==
    \A h \in Nat : ~In(w, n, h) =>
      /\ h \in DOMAIN m <=> h \in DOMAIN m2
      /\ h \in DOMAIN m => m2[h] = m[h]

\* The header of an allocation lies in its block.
LEMMA OwnHeader ==
    ASSUME NEW z \in Nat, NEW m, NEW a, Owned(m, a), Block(z, used(m, a))
    PROVE  /\ a.ptr - header_size \in Nat
           /\ Has(used(m, a), a.ptr - header_size)
           /\ Has(used(m, a), a.ptr)
<1> DEFINE u == used(m, a)
<1>1. u[1] \in Nat /\ BlockSize(u[2]) \in Nat
  BY BlockFacts
<1>2. /\ a.ptr \in Nat /\ a.size \in Nat /\ a.size > 0
      /\ u[1] + header_size <= a.ptr /\ a.ptr + a.size <= u[1] + BlockSize(u[2])
  BY WordAssumption DEF Owned, Allocation, Word, End
<1> HIDE DEF u
<1>3. /\ a.ptr - header_size \in Nat
      /\ Has(u, a.ptr - header_size) /\ Has(u, a.ptr)
  BY <1>1, <1>2 DEF Has, In, header_size
<1> QED
  BY <1>3 DEF u

\* The blocks B but for R, and the allocations in them, have kept their headers.
Kept(B, R, l, m, m2) ==
    /\ \A b \in B \ R : b[1] \in DOMAIN m2 /\ m2[b[1]] = m[b[1]]
    /\ \A a \in l : used(m, a) \notin R =>
         used(m2, a) = used(m, a) /\ Owned(m2, a)

(***************************************************************************)
(* What alloc_raw and free_raw write into the bytes of the blocks R leaves *)
(* the headers of the other blocks and of their allocations alone.         *)
(***************************************************************************)
LEMMA Elsewhere ==
    ASSUME NEW z \in Nat, NEW M \in Nat, NEW F, NEW m, NEW l, NEW o,
           Heap(F, m, l, o, z, M),
           NEW R, R \subseteq F \cup Used(m, l) \cup o,
           NEW w, NEW n, SameBytes(R, {<<w, n>>}),
           NEW m2, Agree(m, m2, w, n)
    PROVE  Kept(F \cup Used(m, l) \cup o, R, l, m, m2)
<1> DEFINE B == F \cup Used(m, l) \cup o
<1>1. Laid(B, z, M) /\ Marked(F, B, m) /\ \A a \in l : Owned(m, a)
  BY DEF Heap
<1>2. \A a \in l : used(m, a) \in B
  BY DEF Used
<1> HIDE DEF B
<1>3. ASSUME NEW b \in B \ R, NEW byte \in Nat, Has(b, byte)
      PROVE  ~In(w, n, byte)
  <2> SUFFICES ASSUME In(w, n, byte) PROVE FALSE
    OBVIOUS
  <2>1. Has(<<w, n>>, byte)
    BY DEF Has
  <2>2. PICK r \in R : Has(r, byte)
    BY <2>1 DEF SameBytes
  <2>3. r \in B
    BY DEF B
  <2> QED
    BY <1>1, <1>3, <2>2, <2>3 DEF Laid, Disjoint
<1>4. \A b \in B : Block(z, b)
  BY <1>1 DEF Laid
<1>5. ASSUME NEW b \in B \ R PROVE b[1] \in DOMAIN m2 /\ m2[b[1]] = m[b[1]]
  <2>1. b[1] \in Nat /\ Has(b, b[1])
    BY <1>4, BlockFacts
  <2>2. b[1] \in DOMAIN m
    BY <1>1 DEF Marked
  <2> QED
    BY <1>3, <2>1, <2>2 DEF Agree
<1>6. ASSUME NEW a \in l, used(m, a) \notin R
      PROVE  used(m2, a) = used(m, a) /\ Owned(m2, a)
  <2> DEFINE h == a.ptr - header_size
  <2>1. Owned(m, a) /\ Block(z, used(m, a)) /\ used(m, a) \in B
    BY <1>1, <1>2, <1>4
  <2>2. h \in Nat /\ Has(used(m, a), h) /\ h \in DOMAIN m
    BY <2>1, OwnHeader DEF Owned
  <2>3. h \in DOMAIN m2 /\ m2[h] = m[h]
    BY <1>3, <1>6, <2>1, <2>2 DEF Agree
  <2>4. used(m2, a) = used(m, a)
    BY <2>3 DEF used
  <2> QED
    BY <2>1, <2>3, <2>4 DEF Owned
<1> QED
  BY <1>5, <1>6 DEF B, Kept

(***************************************************************************)
(* The headers of a block of order n at x that is split down to order t    *)
(* and whose left-most piece is popped.                                    *)
(***************************************************************************)
SplitMarks(m2, z, x, t, n) ==
    /\ DOMAIN m2 \subseteq Nat
    /\ x \in DOMAIN m2 /\ m2[x].order = t /\ ~m2[x].free
    /\ \A k \in t..(n - 1) : /\ passed(z, x, k) \in DOMAIN m2
                              /\ m2[passed(z, x, k)].order = k
                              /\ m2[passed(z, x, k)].free
    /\ \A h \in DOMAIN m2 : In(x, n, h) /\ m2[h].free =>
         \E k \in t..(n - 1) : h = passed(z, x, k)

\* What alloc_raw makes of the free blocks and headers, before the piece it
\* pops is handed out or lost.
Popped(F, F2, m2, l, U, o, piece, z, M) ==
    /\ Laid(F2 \cup U \cup o \cup {piece}, z, M)
    /\ OneHand(F2, U, o) /\ piece \notin F2 \cup U \cup o
    /\ \A a \in l : Owned(m2, a)
    /\ Used(m2, l) = U
    /\ Marked(F2, F2 \cup U \cup o \cup {piece}, m2)
    /\ NoStray(F2, m2)
    /\ Unpaired(F2, z)

\* The pop and the splits of alloc_raw.
LEMMA Pop ==
    ASSUME NEW z \in Nat, NEW M \in Nat, NEW F, NEW m, NEW l, NEW o,
           Heap(F, m, l, o, z, M),
           NEW x, NEW t \in Nat, NEW n \in Nat, t <= n, <<x, n>> \in F,
           NEW F2, F2 = (F \ {<<x, n>>}) \cup buddies(z, x, t, n),
           NEW m2, Agree(m, m2, x, n), SplitMarks(m2, z, x, t, n)
    PROVE  /\ Popped(F, F2, m2, l, Used(m, l), o, <<x, t>>, z, M)
           /\ \A a \in l : used(m2, a) = used(m, a)
<1> DEFINE U == Used(m, l)
           B == F \cup U \cup o
           W == <<x, n>>
           H == buddies(z, x, t, n)
           N == pieces(z, x, t, n)
           B2 == (B \ {W}) \cup N
<1>1. /\ Laid(B, z, M) /\ OneHand(F, U, o) /\ Marked(F, B, m) /\ NoStray(F, m)
      /\ Unpaired(F, z) /\ DOMAIN m \subseteq Nat
  BY DEF Heap
<1>2. W \in B /\ Block(z, W) /\ Has(W, x) /\ x \in Nat /\ Placed(z, x, n)
  <2>1. W \in B
    OBVIOUS
  <2>2. Block(z, W)
    BY <1>1, <2>1, OrderBound
  <2> QED
    BY <2>1, <2>2, BlockFacts
<1>3. ASSUME NEW k \in t..(n - 1)
      PROVE  /\ passed(z, x, k) = x + BlockSize(k) /\ k \in Nat
             /\ bud(z, passed(z, x, k), k) = x
  BY <1>2, RightHalves
<1>4. Placed(z, x, t)
  <2>1. CASE t = n
    BY <1>2, <2>1
  <2>2. CASE t # n
    BY <1>2, <2>2, RightHalves
  <2> QED
    BY <2>1, <2>2
<1>5. at(z, x, n) = x
  BY <1>2, AtItself
<1>6. /\ \A p \in N : Block(z, p)
      /\ Disjoint(N) /\ SameBytes(N, {W})
      /\ \A k \in t..(n - 1) : <<passed(z, x, k), k>> # <<x, t>>
  BY <1>4, <1>5, Pieces
<1>7. <<x, t>> \in N /\ H \subseteq N /\ N = H \cup {<<x, t>>} /\ <<x, t>> \notin H
  BY <1>6 DEF pieces, buddies
<1>8. \A h \in H : \E k \in t..(n - 1) : h = <<passed(z, x, k), k>>
  BY DEF buddies
<1>9. \A a \in l : used(m, a) \in U
  BY DEF Used
<1> HIDE DEF U, W, H, N
<1>10. Laid(B2, z, M)
  <2>1. {W} \subseteq B
    BY <1>2
  <2> HIDE DEF B
  <2> QED
    BY <1>1, <1>6, <2>1, Exchange
<1>11. \A p \in N : p \in B => p = W
  <2> SUFFICES ASSUME NEW p \in N, p \in B PROVE p = W
    OBVIOUS
  <2>1. p[1] \in Nat /\ Has(p, p[1])
    BY <1>6, BlockFacts
  <2>2. Has(W, p[1])
    BY <1>6, <2>1 DEF SameBytes
  <2> QED
    BY <1>1, <1>2, <2>1, <2>2 DEF Laid, Disjoint
<1>12. W \in F /\ W \notin U /\ W \notin o
  BY <1>1 DEF OneHand, W
<1>13. F2 = (F \ {W}) \cup H
  BY DEF H, W
<1>14. B2 = F2 \cup U \cup o \cup {<<x, t>>}
  BY <1>7, <1>12, <1>13
<1>15. /\ OneHand(F2, U, o) /\ <<x, t>> \notin F2 \cup U \cup o
  <2>1. \A p \in N : p \notin U /\ p \notin o /\ p \notin F \ {W}
    BY <1>11, <1>12
  <2> QED
    BY <1>1, <1>7, <1>13, <2>1 DEF OneHand
<1>16. /\ \A b \in B \ {W} : b[1] \in DOMAIN m2 /\ m2[b[1]] = m[b[1]]
       /\ \A a \in l : used(m2, a) = used(m, a) /\ Owned(m2, a)
  <2>1. SameBytes({W}, {<<x, n>>})
    BY DEF SameBytes, W
  <2>2. {W} \subseteq F \cup Used(m, l) \cup o
    BY <1>2 DEF U
  <2>3. \A a \in l : used(m, a) \notin {W}
    BY <1>9, <1>12
  <2>4. Kept(F \cup Used(m, l) \cup o, {W}, l, m, m2)
    BY <2>1, <2>2, Elsewhere
  <2> QED
    BY <2>3, <2>4 DEF Kept, U
<1>17. Used(m2, l) = U
  BY <1>16 DEF Used, U
<1>18. Marked(F2, B2, m2)
  <2> SUFFICES ASSUME NEW b \in B2
               PROVE  /\ b[1] \in DOMAIN m2 /\ m2[b[1]].order = b[2]
                      /\ m2[b[1]].free <=> b \in F2
    BY DEF Marked
  <2>1. CASE b \in B \ {W}
    <3>1. b \in F2 <=> b \in F
      BY <1>11, <1>7, <1>13, <2>1
    <3> QED
      BY <1>1, <1>16, <2>1, <3>1 DEF Marked
  <2>2. CASE b = <<x, t>>
    BY <1>15, <2>2 DEF SplitMarks
  <2>3. CASE b \in H
    BY <1>8, <1>13, <2>3 DEF SplitMarks
  <2> QED
    BY <1>7, <2>1, <2>2, <2>3
<1>19. NoStray(F2, m2)
  <2> SUFFICES ASSUME NEW h \in DOMAIN m2, m2[h].free
               PROVE  <<h, m2[h].order>> \in F2
    BY DEF NoStray
  <2>1. h \in Nat
    BY DEF SplitMarks
  <2>2. CASE In(x, n, h)
    <3>1. PICK k \in t..(n - 1) : h = passed(z, x, k)
      BY <2>2 DEF SplitMarks
    <3>2. m2[h].order = k
      BY <3>1 DEF SplitMarks
    <3> QED
      BY <1>13, <3>1, <3>2 DEF H, buddies
  <2>3. CASE ~In(x, n, h)
    <3>1. h \in DOMAIN m /\ m2[h] = m[h]
      BY <2>1, <2>3 DEF Agree
    <3>2. <<h, m[h].order>> \in F
      BY <1>1, <3>1 DEF NoStray
    <3>3. h # x
      BY <1>2, <2>3 DEF Has, W
    <3> QED
      BY <1>13, <3>1, <3>2, <3>3 DEF W
  <2> QED
    BY <2>2, <2>3
<1>20. ASSUME NEW k PROVE <<x, k>> \notin F2
  <2> SUFFICES ASSUME <<x, k>> \in F2 PROVE FALSE
    OBVIOUS
  <2>1. <<x, k>> \in B2 /\ <<x, t>> \in B2
    BY <1>14
  <2>2. Has(<<x, k>>, x) /\ Has(<<x, t>>, x)
    <3>1. Block(z, <<x, k>>) /\ Block(z, <<x, t>>)
      BY <1>10, <2>1 DEF Laid
    <3> QED
      BY <3>1, BlockFacts
  <2>3. <<x, k>> = <<x, t>>
    BY <1>2, <1>10, <2>1, <2>2 DEF Laid, Disjoint
  <2> QED
    BY <1>15, <2>3
<1>21. Unpaired(F2, z)
  <2> SUFFICES ASSUME NEW b \in F2, <<bud(z, b[1], b[2]), b[2]>> \in F2
               PROVE  FALSE
    BY DEF Unpaired
  <2> DEFINE c == <<bud(z, b[1], b[2]), b[2]>>
  <2>1. CASE b \in H
    <3>1. PICK k \in t..(n - 1) : b = <<passed(z, x, k), k>>
      BY <1>8, <2>1
    <3>2. c = <<x, k>>
      BY <1>3, <3>1
    <3> QED
      BY <1>20, <3>2
  <2>2. CASE b \in F /\ c \in H
    <3>1. PICK k \in t..(n - 1) : c = <<passed(z, x, k), k>>
      BY <1>8, <2>2
    <3>2. Block(z, b)
      BY <1>1, <2>2 DEF Laid
    <3>3. /\ b = <<b[1], b[2]>> /\ Placed(z, b[1], b[2])
      BY <3>2, BlockFacts
    <3>4. bud(z, bud(z, b[1], b[2]), b[2]) = b[1]
      BY <3>3, Pair DEF Paired
    <3>5. b[2] = k /\ bud(z, b[1], b[2]) = passed(z, x, k)
      BY <3>1
    <3>6. b[1] = x
      BY <1>3, <3>4, <3>5
    <3> QED
      BY <1>20, <3>3, <3>6
  <2>3. CASE b \in F /\ c \in F
    BY <1>1, <2>3 DEF Unpaired
  <2> QED
    BY <1>13, <2>1, <2>2, <2>3
<1> QED
  BY <1>10, <1>14, <1>15, <1>16, <1>17, <1>18, <1>19, <1>21 DEF Popped, U

\* alloc_raw hands the piece out.
LEMMA HandOut ==
    ASSUME NEW z \in Nat, NEW M \in Nat, NEW F, NEW m, NEW l, NEW o,
           Heap(F, m, l, o, z, M),
           NEW F2, NEW m2, NEW piece,
           Popped(F, F2, m2, l, Used(m, l), o, piece, z, M),
           \A b \in l : used(m2, b) = used(m, b), DOMAIN m2 \subseteq Nat,
           NEW a, used(m2, a) = piece, Owned(m2, a)
    PROVE  a \notin l /\ Heap(F2, m2, l \cup {a}, o, z, M)
<1> DEFINE U == Used(m, l)
           U2 == Used(m2, l \cup {a})
<1>1. Used(m2, l) = U /\ piece \notin F2 \cup U \cup o
  BY DEF Popped
<1>2. U2 = U \cup {piece}
  BY <1>1 DEF Used
<1>3. \A b \in l : used(m2, b) \in U
  BY <1>1 DEF Used
<1>4. a \notin l
  BY <1>1, <1>3
<1>5. \A b, c \in l \cup {a} : used(m2, b) = used(m2, c) => b = c
  BY <1>1, <1>3 DEF Heap
<1> HIDE DEF U, U2
<1>6. F2 \cup U2 \cup o = F2 \cup U \cup o \cup {piece}
  BY <1>2
<1>7. Laid(F2 \cup U2 \cup o, z, M) /\ Marked(F2, F2 \cup U2 \cup o, m2)
  BY <1>6 DEF Popped, U
<1>8. OneHand(F2, U2, o)
  BY <1>2 DEF Popped, OneHand, U
<1>9. \A b \in l \cup {a} : Owned(m2, b)
  BY DEF Popped
<1>10. NoStray(F2, m2) /\ Unpaired(F2, z)
  BY DEF Popped
<1> QED
  BY <1>4, <1>5, <1>7, <1>8, <1>9, <1>10 DEF Heap, U2

\* alloc_raw returns nullptr after the pop.
LEMMA Lose ==
    ASSUME NEW z \in Nat, NEW M \in Nat, NEW F, NEW m, NEW l, NEW o,
           Heap(F, m, l, o, z, M),
           NEW F2, NEW m2, NEW piece,
           Popped(F, F2, m2, l, Used(m, l), o, piece, z, M),
           \A b \in l : used(m2, b) = used(m, b), DOMAIN m2 \subseteq Nat
    PROVE  Heap(F2, m2, l, o \cup {piece}, z, M)
<1> DEFINE U == Used(m, l)
           o2 == o \cup {piece}
<1>1. Used(m2, l) = U
  BY DEF Popped
<1>2. \A b, c \in l : used(m2, b) = used(m2, c) => b = c
  BY DEF Heap
<1> HIDE DEF U
<1>3. F2 \cup U \cup o2 = F2 \cup U \cup o \cup {piece}
  OBVIOUS
<1>4. Laid(F2 \cup U \cup o2, z, M) /\ Marked(F2, F2 \cup U \cup o2, m2)
  BY <1>3 DEF Popped, U
<1>5. OneHand(F2, U, o2)
  BY DEF Popped, OneHand, U
<1>6. (\A b \in l : Owned(m2, b)) /\ NoStray(F2, m2) /\ Unpaired(F2, z)
  BY DEF Popped
<1> HIDE DEF o2
<1>7. Heap(F2, m2, l, o2, z, M)
  BY <1>1, <1>2, <1>4, <1>5, <1>6 DEF Heap
<1> QED
  BY <1>7 DEF o2

(***************************************************************************)
(* free_raw: the block of a and the buddies passed become one free block.  *)
(***************************************************************************)
LEMMA GiveBack ==
    ASSUME NEW z \in Nat, NEW M \in Nat, NEW F, NEW m, NEW l, NEW o,
           Heap(F, m, l, o, z, M),
           NEW a \in l, NEW x, NEW j, used(m, a) = <<x, j>>,
           NEW n \in Nat, j <= n, buddies(z, x, j, n) \subseteq F,
           NEW p, p = at(z, x, n), <<bud(z, p, n), n>> \notin F,
           NEW F2, F2 = (F \ buddies(z, x, j, n)) \cup {<<p, n>>},
           NEW m2, Agree(m, m2, p, n), DOMAIN m2 \subseteq Nat,
           p \in DOMAIN m2, m2[p].order = n, m2[p].free,
           \A h \in DOMAIN m2 : In(p, n, h) => h = p
    PROVE  Heap(F2, m2, l \ {a}, o, z, M)
<1> DEFINE U == Used(m, l)
           U2 == Used(m2, l \ {a})
           B == F \cup U \cup o
           H == buddies(z, x, j, n)
           R == pieces(z, x, j, n)
           P == <<p, n>>
           u == <<x, j>>
           B2 == (B \ R) \cup {P}
<1>1. /\ Laid(B, z, M) /\ OneHand(F, U, o) /\ Marked(F, B, m) /\ NoStray(F, m)
      /\ Unpaired(F, z) /\ DOMAIN m \subseteq Nat
      /\ \A b \in l : Owned(m, b)
      /\ \A b, c \in l : used(m, b) = used(m, c) => b = c
  BY DEF Heap
<1>2. \A b \in l : used(m, b) \in U
  BY DEF Used
<1>3. u \in U /\ u \in B
  BY <1>2
<1>4. Placed(z, x, j)
  BY <1>1, <1>3 DEF Laid, Block
<1>5. /\ Block(z, P) /\ SameBytes(R, {P})
  BY <1>4, Pieces
<1>6. R = H \cup {u} /\ H \subseteq F
  BY DEF pieces
<1> HIDE DEF U, H, R, P, u
<1>7. R \subseteq B
  BY <1>3, <1>6
<1>8. p \in Nat /\ Has(P, p)
  <2>1. P[1] = p
    BY DEF P
  <2> QED
    BY <1>5, <2>1, BlockFacts
<1>9. Laid(B2, z, M)
  <2>1. Disjoint({P}) /\ SameBytes({P}, R)
    BY <1>5 DEF Disjoint, SameBytes
  <2> HIDE DEF B
  <2> QED
    BY <1>1, <1>5, <1>7, <2>1, Exchange
<1>10. Kept(B, R, l, m, m2)
  BY <1>5, <1>7, Elsewhere DEF U, P
<1>11. \A b \in l \ {a} : used(m, b) \notin R
  <2>1. \A b \in l \ {a} : used(m, b) # u
    BY <1>1 DEF u
  <2>2. \A b \in l : used(m, b) \notin H
    BY <1>1, <1>2, <1>6 DEF OneHand
  <2> QED
    BY <1>6, <2>1, <2>2
<1>12. \A b \in l \ {a} : used(m2, b) = used(m, b) /\ Owned(m2, b)
  BY <1>10, <1>11 DEF Kept
<1>13. U2 = U \ {u}
  <2>1. ASSUME NEW v \in U2 PROVE v \in U \ {u}
    <3>1. PICK b \in l \ {a} : v = used(m2, b)
      BY DEF Used
    <3>2. v = used(m, b)
      BY <1>12, <3>1
    <3> QED
      BY <1>2, <1>6, <1>11, <3>2
  <2>2. ASSUME NEW v \in U \ {u} PROVE v \in U2
    <3>1. PICK b \in l : v = used(m, b)
      BY DEF Used, U
    <3>2. b # a
      BY <3>1 DEF u
    <3>3. v = used(m2, b)
      BY <1>12, <3>1, <3>2
    <3> QED
      BY <3>2, <3>3 DEF Used
  <2> HIDE DEF U2
  <2> QED
    BY <2>1, <2>2
<1> HIDE DEF U2
<1>14. F2 = (F \ H) \cup {P}
  BY DEF H, P
<1>15. \A b \in B \ R : b # P
  <2> SUFFICES ASSUME NEW b \in B \ R, b = P PROVE FALSE
    OBVIOUS
  <2>1. PICK r \in R : Has(r, p)
    BY <1>5, <1>8 DEF SameBytes
  <2>2. b = r
    BY <1>1, <1>7, <1>8, <2>1 DEF Laid, Disjoint
  <2> QED
    BY <2>2
<1>16. u \notin F /\ u \notin o /\ H \cap U = {} /\ H \cap o = {}
  BY <1>1, <1>3, <1>6 DEF OneHand
<1>17. B2 = F2 \cup U2 \cup o
  BY <1>6, <1>13, <1>14, <1>16
<1>18. OneHand(F2, U2, o)
  BY <1>1, <1>6, <1>13, <1>14, <1>15, <1>16 DEF OneHand
<1>19. Marked(F2, B2, m2)
  <2> SUFFICES ASSUME NEW b \in B2
               PROVE  /\ b[1] \in DOMAIN m2 /\ m2[b[1]].order = b[2]
                      /\ m2[b[1]].free <=> b \in F2
    BY DEF Marked
  <2>1. CASE b \in B \ R
    <3>1. b \in F2 <=> b \in F
      BY <1>6, <1>14, <1>15, <2>1
    <3>2. b[1] \in DOMAIN m2 /\ m2[b[1]] = m[b[1]]
      BY <1>10, <2>1 DEF Kept
    <3> QED
      BY <1>1, <2>1, <3>1, <3>2 DEF Marked
  <2>2. CASE b = P
    BY <1>14, <2>2 DEF P
  <2> QED
    BY <2>1, <2>2
<1>20. NoStray(F2, m2)
  <2> SUFFICES ASSUME NEW h \in DOMAIN m2, m2[h].free
               PROVE  <<h, m2[h].order>> \in F2
    BY DEF NoStray
  <2>1. h \in Nat
    OBVIOUS
  <2>2. CASE In(p, n, h)
    BY <1>14, <2>2 DEF P
  <2>3. CASE ~In(p, n, h)
    <3>1. h \in DOMAIN m /\ m2[h] = m[h]
      BY <2>1, <2>3 DEF Agree
    <3> DEFINE f == <<h, m[h].order>>
    <3>2. f \in F /\ f[1] = h
      BY <1>1, <3>1 DEF NoStray
    <3>3. f \notin H
      <4> SUFFICES ASSUME f \in H PROVE FALSE
        OBVIOUS
      <4>1. f \in R /\ Block(z, f)
        BY <1>1, <1>6, <3>2 DEF Laid
      <4>2. Has(f, h)
        BY <3>2, <4>1, BlockFacts
      <4>3. Has(P, h)
        BY <1>5, <2>1, <4>1, <4>2 DEF SameBytes
      <4> QED
        BY <2>3, <4>3 DEF Has, P
    <3> QED
      BY <1>14, <3>1, <3>2, <3>3
  <2> QED
    BY <2>2, <2>3
<1>21. Unpaired(F2, z)
  <2> SUFFICES ASSUME NEW b \in F2, <<bud(z, b[1], b[2]), b[2]>> \in F2
               PROVE  FALSE
    BY DEF Unpaired
  <2> DEFINE c == <<bud(z, b[1], b[2]), b[2]>>
  <2>1. Block(z, b)
    BY <1>9, <1>17 DEF Laid
  <2>2. /\ b = <<b[1], b[2]>> /\ Placed(z, b[1], b[2])
    BY <2>1, BlockFacts
  <2>3. bud(z, bud(z, b[1], b[2]), b[2]) = b[1] /\ bud(z, b[1], b[2]) # b[1]
    BY <2>2, Pair DEF Paired
  <2>4. CASE b = P
    <3>1. c = <<bud(z, p, n), n>> /\ b[1] = p /\ b[2] = n
      BY <2>4 DEF P
    <3>2. c # P
      BY <2>3, <3>1 DEF P
    <3> QED
      BY <1>14, <3>1, <3>2
  <2>5. CASE b \in F /\ c = P
    <3>1. b[2] = n /\ bud(z, b[1], b[2]) = p
      BY <2>5 DEF P
    <3>2. b = <<bud(z, p, n), n>>
      BY <2>2, <2>3, <3>1
    <3> QED
      BY <2>5, <3>2
  <2>6. CASE b \in F /\ c \in F
    BY <1>1, <2>6 DEF Unpaired
  <2> QED
    BY <1>14, <2>4, <2>5, <2>6
<1>22. \A b, c \in l \ {a} : used(m2, b) = used(m2, c) => b = c
  BY <1>1, <1>12
<1>23. /\ Laid(F2 \cup U2 \cup o, z, M) /\ Marked(F2, F2 \cup U2 \cup o, m2)
  BY <1>9, <1>17, <1>19
<1> QED
  BY <1>12, <1>18, <1>20, <1>21, <1>22, <1>23 DEF Heap, U2
-----------------------------------------------------------------------------
\* The least element of a set of numbers.
LEMMA MinIn ==
    ASSUME NEW T \in SUBSET Nat, T # {}
    PROVE  Min(T) \in T /\ \A y \in T : Min(T) <= y
<1>1. PICK n : n \in T
  OBVIOUS
<1>2. \E x \in T : \A y \in T : x <= y
  BY <1>1, NatMin
<1> QED
  BY <1>2 DEF Min

\* A list of blocks, none twice.
List(s) == s \in Seq(Word) /\ IsInjective(s)

\* The push of free_raw and split_block.
LEMMA Pushed ==
    ASSUME NEW s, List(s), NEW x \in Word, x \notin ToSet(s)
    PROVE  List(<<x>> \o s) /\ ToSet(<<x>> \o s) = ToSet(s) \cup {x}
<1> DEFINE g == <<x>> \o s
<1>1. s \in Seq(Word) /\ Len(s) \in Nat /\ DOMAIN s = 1..Len(s)
  BY DEF List
<1>2. g \in Seq(Word) /\ Len(g) = Len(s) + 1 /\ g[1] = x
  BY <1>1
<1>3. \A i \in 2..Len(g) : g[i] = s[i - 1]
  BY <1>1
<1> HIDE DEF g
<1>4. DOMAIN g = 1..Len(g)
  BY <1>2
<1>5. \A i \in 2..Len(g) : i - 1 \in 1..Len(s)
  BY <1>1, <1>2
<1>6. \A i \in 1..Len(s) : i + 1 \in 2..Len(g) /\ g[i + 1] = s[i]
  BY <1>1, <1>2, <1>3
<1>7. \A i \in 1..Len(g) : i = 1 \/ i \in 2..Len(g)
  BY <1>1, <1>2
<1>8. 1 \in 1..Len(g) /\ \A i \in 2..Len(g) : i \in 1..Len(g)
  BY <1>1, <1>2
<1>9. ToSet(g) = ToSet(s) \cup {x}
  <2>1. \A i \in 1..Len(g) : g[i] \in ToSet(s) \cup {x}
    BY <1>1, <1>2, <1>3, <1>5, <1>7 DEF ToSet
  <2>2. \A i \in 1..Len(s) : s[i] \in ToSet(g)
    BY <1>4, <1>6, <1>8 DEF ToSet
  <2>3. x \in ToSet(g)
    BY <1>2, <1>4, <1>8 DEF ToSet
  <2> QED
    BY <1>1, <1>4, <2>1, <2>2, <2>3 DEF ToSet
<1>10. IsInjective(g)
  <2> SUFFICES ASSUME NEW i \in 1..Len(g), NEW j \in 1..Len(g), g[i] = g[j]
               PROVE  i = j
    BY <1>4 DEF IsInjective
  <2>1. \A k \in 2..Len(g) : g[k] # x
    BY <1>1, <1>3, <1>5 DEF ToSet
  <2>2. CASE i \in 2..Len(g) /\ j \in 2..Len(g)
    <3>1. i - 1 = j - 1
      BY <1>1, <1>3, <1>5, <2>2 DEF List, IsInjective
    <3> QED
      BY <3>1, <1>2
  <2> QED
    BY <1>2, <1>7, <2>1, <2>2
<1> QED
  BY <1>2, <1>9, <1>10 DEF List, g

\* The pop of alloc_raw and split_block.
LEMMA Rest ==
    ASSUME NEW s, List(s), s # <<>>
    PROVE  /\ Head(s) \in ToSet(s) /\ Head(s) \in Word
           /\ List(Tail(s)) /\ ToSet(Tail(s)) = ToSet(s) \ {Head(s)}
<1> DEFINE g == Tail(s)
<1>1. /\ s \in Seq(Word) /\ Len(s) \in Nat \ {0} /\ DOMAIN s = 1..Len(s)
      /\ Head(s) = s[1]
  BY DEF List
<1>2. g \in Seq(Word) /\ Len(g) = Len(s) - 1
  BY <1>1
<1>3. \A i \in 1..Len(g) : g[i] = s[i + 1]
  BY <1>1
<1> HIDE DEF g
<1>4. DOMAIN g = 1..Len(g)
  BY <1>2
<1>5. 1 \in 1..Len(s) /\ \A i \in 1..Len(g) : i + 1 \in 1..Len(s) /\ i + 1 # 1
  BY <1>1, <1>2
<1>6. \A i \in 1..Len(s) : i = 1 \/ (i - 1 \in 1..Len(g) /\ g[i - 1] = s[i])
  BY <1>1, <1>2, <1>3
<1>7. \A i, j \in 1..Len(s) : s[i] = s[j] => i = j
  BY <1>1 DEF List, IsInjective
<1>8. ToSet(g) = ToSet(s) \ {s[1]}
  <2>1. \A i \in 1..Len(g) : g[i] \in ToSet(s) \ {s[1]}
    BY <1>1, <1>3, <1>5, <1>7 DEF ToSet
  <2>2. \A i \in 1..Len(s) : s[i] # s[1] => s[i] \in ToSet(g)
    BY <1>4, <1>6 DEF ToSet
  <2> QED
    BY <1>1, <1>4, <2>1, <2>2 DEF ToSet
<1>9. IsInjective(g)
  <2> SUFFICES ASSUME NEW i \in 1..Len(g), NEW j \in 1..Len(g), g[i] = g[j]
               PROVE  i = j
    BY <1>4 DEF IsInjective
  <2>1. i + 1 = j + 1
    BY <1>3, <1>5, <1>7
  <2> QED
    BY <2>1, <1>2
<1>10. Head(s) \in ToSet(s) /\ Head(s) \in Word
  BY <1>1, <1>5 DEF ToSet
<1> QED
  BY <1>1, <1>2, <1>8, <1>9, <1>10 DEF List, g

\* Two sequences end to end.
LEMMA Concat ==
    ASSUME NEW p \in Seq(Word), NEW q \in Seq(Word)
    PROVE  /\ p \o q \in Seq(Word) /\ Len(p \o q) = Len(p) + Len(q)
           /\ \A j \in 1..Len(p) : (p \o q)[j] = p[j]
           /\ \A j \in (Len(p) + 1)..(Len(p) + Len(q)) :
                (p \o q)[j] = q[j - Len(p)]
  OBVIOUS

\* The end of a sequence.
LEMMA Suffix ==
    ASSUME NEW s \in Seq(Word), NEW i \in 1..Len(s)
    PROVE  /\ SubSeq(s, i + 1, Len(s)) \in Seq(Word)
           /\ Len(SubSeq(s, i + 1, Len(s))) = Len(s) - i
           /\ \A j \in 1..(Len(s) - i) : SubSeq(s, i + 1, Len(s))[j] = s[j + i]
<1>1. Len(s) \in Nat /\ i \in Nat /\ i <= Len(s)
  OBVIOUS
<1>2. Len(SubSeq(s, i + 1, Len(s))) = Len(s) - i
  BY <1>1
<1>3. SubSeq(s, i + 1, Len(s)) \in Seq(Word)
  BY <1>1
<1>4. ASSUME NEW j \in 1..(Len(s) - i)
      PROVE  SubSeq(s, i + 1, Len(s))[j] = s[j + i]
  BY <1>1
<1> QED
  BY <1>2, <1>3, <1>4

\* "pop buddy" of free_raw: a block leaves the middle of its list.
LEMMA Removed ==
    ASSUME NEW s, List(s), NEW i \in 1..Len(s), NEW x, x = s[i]
    PROVE  List(RemoveAt(s, i)) /\ ToSet(RemoveAt(s, i)) = ToSet(s) \ {x}
<1> DEFINE p == SubSeq(s, 1, i - 1)
           q == SubSeq(s, i + 1, Len(s))
           g == p \o q
           from(j) == IF j < i THEN j ELSE j + 1
<1>1. s \in Seq(Word) /\ Len(s) \in Nat /\ DOMAIN s = 1..Len(s)
  BY DEF List
<1>2. RemoveAt(s, i) = g
  BY DEF RemoveAt
<1>3. i \in 1..Len(s) /\ s[i] = x
  OBVIOUS
<1>4. p \in Seq(Word) /\ Len(p) = i - 1 /\ \A j \in 1..(i - 1) : p[j] = s[j]
  BY <1>1
<1>5. /\ q \in Seq(Word) /\ Len(q) = Len(s) - i
      /\ \A j \in 1..Len(q) : q[j] = s[j + i]
  BY <1>1, Suffix
<1> HIDE DEF p, q
<1>6. /\ g \in Seq(Word) /\ Len(g) = Len(p) + Len(q)
      /\ \A j \in 1..Len(p) : g[j] = p[j]
      /\ \A j \in (Len(p) + 1)..(Len(p) + Len(q)) : g[j] = q[j - Len(p)]
  BY <1>4, <1>5, Concat
<1> HIDE DEF g
<1>7. g \in Seq(Word) /\ Len(g) = Len(s) - 1
  BY <1>1, <1>3, <1>4, <1>5, <1>6
<1>8. Len(p) \in Nat /\ Len(q) \in Nat /\ Len(s) - 1 = Len(p) + Len(q)
  BY <1>1, <1>3, <1>4, <1>5
<1>9. DOMAIN g = 1..Len(g)
  BY <1>7
<1>10. \A j \in 1..Len(g) : from(j) \in 1..Len(s) /\ from(j) # i /\ g[j] = s[from(j)]
  <2> SUFFICES ASSUME NEW j \in 1..Len(g)
               PROVE  from(j) \in 1..Len(s) /\ from(j) # i /\ g[j] = s[from(j)]
    OBVIOUS
  <2>1. CASE j < i
    <3>1. j \in 1..(i - 1) /\ j \in 1..Len(p) /\ j \in 1..Len(s) /\ from(j) = j
      BY <1>1, <1>3, <1>4, <1>7, <2>1
    <3> QED
      BY <1>4, <1>6, <2>1, <3>1
  <2>2. CASE j >= i
    <3>1. /\ j \in (Len(p) + 1)..(Len(p) + Len(q)) /\ from(j) = j + 1
          /\ j - Len(p) \in 1..Len(q) /\ (j - Len(p)) + i = j + 1
          /\ j + 1 \in 1..Len(s) /\ j + 1 # i
      BY <1>1, <1>3, <1>4, <1>7, <1>8, <2>2
    <3>2. g[j] = q[j - Len(p)]
      BY <1>6, <3>1
    <3>3. q[j - Len(p)] = s[(j - Len(p)) + i]
      BY <1>5, <3>1
    <3> QED
      BY <3>1, <3>2, <3>3
  <2> QED
    BY <1>1, <1>3, <1>7, <2>1, <2>2
<1>11. \A j, k \in 1..Len(g) : from(j) = from(k) => j = k
  BY <1>1, <1>3, <1>7
<1>12. \A j \in 1..Len(s) : j # i => \E k \in 1..Len(g) : from(k) = j
  <2> SUFFICES ASSUME NEW j \in 1..Len(s), j # i
               PROVE  \E k \in 1..Len(g) : from(k) = j
    OBVIOUS
  <2>1. CASE j < i
    <3>1. j \in 1..Len(g) /\ from(j) = j
      BY <1>1, <1>3, <1>7, <2>1
    <3> QED
      BY <3>1
  <2>2. CASE j > i
    <3>1. j - 1 \in 1..Len(g) /\ from(j - 1) = j
      BY <1>1, <1>3, <1>7, <2>2
    <3> QED
      BY <3>1
  <2> QED
    BY <1>1, <1>3, <2>1, <2>2
<1> HIDE DEF from
<1>13. \A j, k \in 1..Len(s) : s[j] = s[k] => j = k
  BY <1>1 DEF List, IsInjective
<1>14. IsInjective(g)
  BY <1>9, <1>10, <1>11, <1>13 DEF IsInjective
<1>15. ToSet(g) = ToSet(s) \ {x}
  <2>1. \A j \in 1..Len(g) : g[j] \in ToSet(s) \ {x}
    BY <1>1, <1>3, <1>10, <1>13 DEF ToSet
  <2>2. \A j \in 1..Len(s) : s[j] # x => s[j] \in ToSet(g)
    BY <1>3, <1>9, <1>10, <1>12 DEF ToSet
  <2> QED
    BY <1>1, <1>9, <2>1, <2>2 DEF ToSet
<1> QED
  BY <1>2, <1>7, <1>14, <1>15 DEF List

\* The first block with an address, found by the walk through the list.
LEMMA Unlinked ==
    ASSUME NEW s, List(s), NEW x, x \in ToSet(s)
    PROVE  List(RemoveFirst(s, x)) /\ ToSet(RemoveFirst(s, x)) = ToSet(s) \ {x}
<1> DEFINE I == {i \in 1..Len(s) : s[i] = x}
           i == Min(I)
<1>1. s \in Seq(Word) /\ Len(s) \in Nat /\ DOMAIN s = 1..Len(s)
  BY DEF List
<1>2. I # {} /\ I \in SUBSET Nat
  BY <1>1 DEF ToSet
<1>3. i \in I
  BY <1>2, MinIn
<1>4. RemoveFirst(s, x) = RemoveAt(s, i)
  <2>1. \E j \in 1..Len(s) : s[j] = x
    BY <1>2
  <2>2. SelectInSeq(s, LAMBDA v : v = x) = i
    BY <1>2 DEF SelectInSeq
  <2> QED
    BY <2>1, <2>2 DEF RemoveFirst
<1>5. i \in 1..Len(s) /\ s[i] = x
  BY <1>3
<1> HIDE DEF I, i
<1> QED
  BY <1>4, <1>5, Removed
-----------------------------------------------------------------------------
\* The lists, and the blocks they hold.
Lists(s) == s \in [Orders -> Seq(Word)] /\ \A k \in Orders : List(s[k])
Free(s) == UNION {{<<b, k>> : b \in ToSet(s[k])} : k \in Orders}

\* A block is in the lists if the list of its order has it.
LEMMA FreeIs ==
    ASSUME NEW s, Lists(s)
    PROVE  /\ \A b, k : <<b, k>> \in Free(s) <=> k \in Orders /\ b \in ToSet(s[k])
           /\ \A f \in Free(s) : /\ f = <<f[1], f[2]>> /\ f[1] \in Word
                                 /\ f[2] \in Orders /\ f[1] \in ToSet(s[f[2]])
<1>1. \A k \in Orders : ToSet(s[k]) \subseteq Word
  BY DEF Lists, List, ToSet
<1>2. \A b, k : <<b, k>> \in Free(s) <=> k \in Orders /\ b \in ToSet(s[k])
  BY DEF Free
<1>3. ASSUME NEW f \in Free(s)
      PROVE  /\ f = <<f[1], f[2]>> /\ f[1] \in Word
             /\ f[2] \in Orders /\ f[1] \in ToSet(s[f[2]])
  <2>1. PICK k \in Orders : \E b \in ToSet(s[k]) : f = <<b, k>>
    BY DEF Free
  <2> QED
    BY <1>1, <2>1
<1> QED
  BY <1>2, <1>3

\* Two sets of blocks of the lists are equal if they agree on every pair.
LEMMA SameFree ==
    ASSUME NEW s, Lists(s), NEW G, \A g \in G : g = <<g[1], g[2]>>,
           \A b, k : <<b, k>> \in Free(s) <=> <<b, k>> \in G
    PROVE  Free(s) = G
<1>1. \A f \in Free(s) : f = <<f[1], f[2]>>
  BY FreeIs
<1> QED
  BY <1>1

\* The lists of s after the splits of x from order n to t and its pop.
SplitTo(s, s2, x, t, n) ==
    s2 = [k \in Orders |->
            IF k = n THEN Tail(s[k])
            ELSE IF k >= t /\ k < n THEN <<x + BlockSize(k)>> \o s[k]
            ELSE s[k]]

\* The lists after the splits and the pop of alloc_raw.
LEMMA SplitFree ==
    ASSUME NEW z \in Nat, NEW s, Lists(s),
           NEW t \in Orders, NEW n \in Orders, t <= n, s[n] # <<>>,
           NEW x, x = Head(s[n]), Placed(z, x, n), x + BlockSize(n) <= SIZE_MAX,
           \A k \in t..(n - 1) : s[k] = <<>>,
           NEW s2, SplitTo(s, s2, x, t, n)
    PROVE  /\ Lists(s2)
           /\ Free(s2) = (Free(s) \ {<<x, n>>}) \cup buddies(z, x, t, n)
<1> USE DEF SplitTo
<1> DEFINE G == (Free(s) \ {<<x, n>>}) \cup buddies(z, x, t, n)
<1>1. t \in Nat /\ n \in Nat /\ x \in Nat /\ \A k \in Orders : k \in Nat
  BY DEF Orders, Placed
<1>2. \A k \in t..(n - 1) : k \in Orders /\ k \in Nat /\ k >= t /\ k < n /\ k # n
  BY <1>1, ArgAssumption DEF Orders
<1>3. ASSUME NEW k \in t..(n - 1)
      PROVE  /\ passed(z, x, k) = x + BlockSize(k) /\ x + BlockSize(k) \in Word
             /\ List(s2[k]) /\ ToSet(s2[k]) = {passed(z, x, k)}
             /\ ToSet(s[k]) = {}
  <2> DEFINE y == x + BlockSize(k)
  <2>1. passed(z, x, k) = y
    BY <1>1, <1>2, RightHalves
  <2>2. y \in Word
    <3>1. k \in Nat /\ k <= n
      BY <1>1, <1>2
    <3>2. BlockSize(k) \in Nat /\ BlockSize(n) \in Nat /\ BlockSize(k) <= BlockSize(n)
      BY <1>1, <3>1, BlockSizes, SizeOrder
    <3> QED
      BY <1>1, <3>2, WordAssumption DEF Word
  <2>3. s[k] = <<>> /\ s2[k] = <<y>> \o s[k] /\ List(s[k])
    BY <1>2 DEF Lists
  <2>4. ToSet(s[k]) = {}
    BY <2>3 DEF ToSet
  <2> HIDE DEF y
  <2>5. List(<<y>> \o s[k]) /\ ToSet(<<y>> \o s[k]) = {} \cup {y}
    BY <2>2, <2>3, <2>4, Pushed
  <2> QED
    BY <2>1, <2>2, <2>3, <2>4, <2>5 DEF y
<1>4. /\ x \in ToSet(s[n]) /\ List(s2[n])
      /\ ToSet(s2[n]) = ToSet(s[n]) \ {x}
  BY Rest DEF Lists
<1>5. ASSUME NEW k \in Orders, k # n, k \notin t..(n - 1)
      PROVE  s2[k] = s[k]
  BY <1>1, <1>5
<1>6. Lists(s2)
  <2>1. \A k \in Orders : List(s2[k])
    BY <1>3, <1>4, <1>5 DEF Lists
  <2>2. DOMAIN s2 = Orders /\ s2 = [k \in Orders |-> s2[k]]
    OBVIOUS
  <2> QED
    BY ONLY <2>1, <2>2 DEF Lists, List
<1>7. \A g \in G : g = <<g[1], g[2]>>
  BY FreeIs DEF buddies
<1>8. ASSUME NEW b, NEW k
      PROVE  <<b, k>> \in Free(s2) <=> <<b, k>> \in G
  <2>1. <<b, k>> \in buddies(z, x, t, n) <=> k \in t..(n - 1) /\ b = passed(z, x, k)
    BY DEF buddies
  <2>2. <<b, k>> \in Free(s2) <=> k \in Orders /\ b \in ToSet(s2[k])
    BY <1>6, FreeIs
  <2>3. <<b, k>> \in Free(s) <=> k \in Orders /\ b \in ToSet(s[k])
    BY FreeIs
  <2>4. CASE k \in t..(n - 1)
    <3>1. k \in Orders /\ ToSet(s2[k]) = {passed(z, x, k)} /\ ToSet(s[k]) = {}
      BY <1>2, <1>3, <2>4
    <3> QED
      BY ONLY <2>1, <2>2, <2>3, <2>4, <3>1 DEF G
  <2>5. CASE k = n
    BY <1>1, <1>2, <1>4, <2>1, <2>2, <2>3, <2>5
  <2>6. CASE k \notin t..(n - 1) /\ k # n
    BY <1>5, <2>1, <2>2, <2>3, <2>6
  <2> QED
    BY <2>4, <2>5, <2>6
<1> HIDE DEF G
<1>9. Free(s2) = G
  BY <1>6, <1>7, <1>8, SameFree
<1> QED
  BY <1>6, <1>9 DEF G

\* The lists of s when x, freed at order j, has merged into p of order n.
MergedTo(s, s2, z, x, j, p, n) ==
    s2 = [k \in Orders |->
            IF k = n THEN <<p>> \o s[k]
            ELSE IF k \in j..(n - 1) THEN RemoveFirst(s[k], passed(z, x, k))
            ELSE s[k]]

\* The lists after free_raw: the buddies unlinked, the merged block pushed.
LEMMA MergeFree ==
    ASSUME NEW z \in Nat, NEW s, Lists(s),
           NEW j \in Orders, NEW n \in Orders, j <= n, NEW x,
           buddies(z, x, j, n) \subseteq Free(s),
           NEW p \in Word, <<p, n>> \notin Free(s),
           NEW s2, MergedTo(s, s2, z, x, j, p, n)
    PROVE  /\ Lists(s2)
           /\ Free(s2) = (Free(s) \ buddies(z, x, j, n)) \cup {<<p, n>>}
<1> USE DEF MergedTo
<1> DEFINE G == (Free(s) \ buddies(z, x, j, n)) \cup {<<p, n>>}
<1>1. j \in Nat /\ n \in Nat /\ \A k \in Orders : k \in Nat
  BY DEF Orders
<1>2. \A k \in j..(n - 1) : k \in Orders /\ k # n
  BY <1>1, ArgAssumption DEF Orders
<1>3. ASSUME NEW k \in j..(n - 1)
      PROVE  /\ List(s2[k]) /\ ToSet(s2[k]) = ToSet(s[k]) \ {passed(z, x, k)}
  <2> DEFINE y == passed(z, x, k)
  <2>1. <<y, k>> \in Free(s)
    BY DEF buddies
  <2> HIDE DEF y
  <2>2. y \in ToSet(s[k]) /\ List(s[k])
    BY <1>2, <2>1, FreeIs DEF Lists
  <2>3. s2[k] = RemoveFirst(s[k], y)
    BY <1>2 DEF y
  <2> QED
    BY <2>2, <2>3, Unlinked DEF y
<1>4. List(s2[n]) /\ ToSet(s2[n]) = ToSet(s[n]) \cup {p}
  <2>1. p \notin ToSet(s[n]) /\ List(s[n])
    BY FreeIs DEF Lists
  <2>2. s2[n] = <<p>> \o s[n]
    OBVIOUS
  <2> QED
    BY <2>1, <2>2, Pushed
<1>5. ASSUME NEW k \in Orders, k # n, k \notin j..(n - 1)
      PROVE  s2[k] = s[k]
  BY <1>5
<1>6. Lists(s2)
  <2>1. \A k \in Orders : List(s2[k])
    BY <1>3, <1>4, <1>5 DEF Lists
  <2>2. DOMAIN s2 = Orders /\ s2 = [k \in Orders |-> s2[k]]
    OBVIOUS
  <2> QED
    BY ONLY <2>1, <2>2 DEF Lists, List
<1>7. \A g \in G : g = <<g[1], g[2]>>
  BY FreeIs
<1>8. ASSUME NEW b, NEW k
      PROVE  <<b, k>> \in Free(s2) <=> <<b, k>> \in G
  <2>1. <<b, k>> \in buddies(z, x, j, n) <=> k \in j..(n - 1) /\ b = passed(z, x, k)
    BY DEF buddies
  <2>2. <<b, k>> \in Free(s2) <=> k \in Orders /\ b \in ToSet(s2[k])
    BY <1>6, FreeIs
  <2>3. <<b, k>> \in Free(s) <=> k \in Orders /\ b \in ToSet(s[k])
    BY FreeIs
  <2>4. CASE k \in j..(n - 1)
    BY <1>2, <1>3, <2>1, <2>2, <2>3, <2>4
  <2>5. CASE k = n
    BY <1>1, <1>2, <1>4, <2>1, <2>2, <2>3, <2>5
  <2>6. CASE k \notin j..(n - 1) /\ k # n
    BY <1>5, <2>1, <2>2, <2>3, <2>6
  <2> QED
    BY <2>4, <2>5, <2>6
<1> HIDE DEF G
<1>9. Free(s2) = G
  BY <1>6, <1>7, <1>8, SameFree
<1> QED
  BY <1>6, <1>9 DEF G

-----------------------------------------------------------------------------
\* What a header may say in a region of total bytes.
Told(m, total) ==
    /\ DOMAIN m \subseteq Word
    /\ \A h \in DOMAIN m :
         /\ m[h] \in [free : BOOLEAN, order : Orders, offset : 0..OFFSET_MAX]
         /\ BlockSize(m[h].order) <= total

\* The headers after the splits: r are the right halves' orders by address.
Divided(m, m2, x, t, n, d, off) ==
    LET right == {x + BlockSize(k) : k \in t..(n - 1)}
        split == [h \in {h \in DOMAIN m : h < x \/ h >= x + BlockSize(n)}
                        \cup right \cup {x} |->
                    IF h = x THEN Header(FALSE, t, 0)
                    ELSE IF h \in right
                         THEN Header(TRUE, CHOOSE k \in t..(n - 1) :
                                             h = x + BlockSize(k), 0)
                    ELSE m[h]]
    IN m2 = [h \in DOMAIN split \cup {d} |->
               IF h = d THEN Header(FALSE, t, off) ELSE split[h]]

\* The headers that alloc_raw leaves are those of lemma Pop.
LEMMA SplitMem ==
    ASSUME NEW z \in Nat, NEW m, NEW total \in Nat, Told(m, total),
           NEW t \in Orders, NEW n \in Orders, t <= n,
           NEW x, Placed(z, x, n), x + BlockSize(n) <= SIZE_MAX,
           BlockSize(n) <= total,
           NEW d \in Nat, In(x, t, d), NEW off \in 0..OFFSET_MAX,
           NEW m2, Divided(m, m2, x, t, n, d, off)
    PROVE  /\ Agree(m, m2, x, n) /\ SplitMarks(m2, z, x, t, n)
           /\ d \in DOMAIN m2 /\ m2[d] = Header(FALSE, t, off)
           /\ Told(m2, total)
<1> DEFINE right == {x + BlockSize(k) : k \in t..(n - 1)}
           out == {h \in DOMAIN m : h < x \/ h >= x + BlockSize(n)}
           which(h) == CHOOSE k \in t..(n - 1) : h = x + BlockSize(k)
           split == [h \in out \cup right \cup {x} |->
                       IF h = x THEN Header(FALSE, t, 0)
                       ELSE IF h \in right THEN Header(TRUE, which(h), 0)
                       ELSE m[h]]
<1>1. m2 = [h \in DOMAIN split \cup {d} |->
              IF h = d THEN Header(FALSE, t, off) ELSE split[h]]
  BY DEF Divided
<1>2. /\ t \in Nat /\ n \in Nat /\ x \in Nat /\ SIZE_MAX \in Nat
      /\ DOMAIN m \subseteq Nat
  BY WordAssumption DEF Orders, Placed, Told, Word
<1>3. \A k \in t..(n - 1) : k \in Orders /\ k \in Nat /\ k >= t /\ k < n /\ k <= n
  BY <1>2, ArgAssumption DEF Orders
<1>4. /\ BlockSize(n) \in Nat \ {0} /\ BlockSize(t) \in Nat \ {0}
      /\ BlockSize(t) <= BlockSize(n)
  BY <1>2, BlockSizes, SizeOrder
<1>5. ASSUME NEW k \in t..(n - 1)
      PROVE  /\ BlockSize(k) \in Nat \ {0} /\ BlockSize(t) <= BlockSize(k)
             /\ BlockSize(k) < BlockSize(n)
             /\ x + BlockSize(k) \in right /\ which(x + BlockSize(k)) = k
             /\ passed(z, x, k) = x + BlockSize(k)
  <2>1. /\ BlockSize(k) \in Nat \ {0} /\ BlockSize(t) <= BlockSize(k)
        /\ 2 * BlockSize(k) <= BlockSize(n)
    BY <1>2, <1>3, BlockSizes, SizeOrder
  <2>2. ASSUME NEW i \in t..(n - 1), x + BlockSize(k) = x + BlockSize(i)
        PROVE  i = k
    <3>1. i \in Nat /\ k \in Nat /\ BlockSize(i) \in Nat
      BY <1>3, BlockSizes
    <3>2. BlockSize(i) = BlockSize(k) /\ BlockSize(i) <= BlockSize(k)
      BY <1>2, <2>1, <2>2, <3>1
    <3> QED
      BY <3>1, <3>2, SizeTells
  <2>3. which(x + BlockSize(k)) = k
    BY <2>2
  <2>4. passed(z, x, k) = x + BlockSize(k)
    BY <1>2, <1>3, RightHalves
  <2> QED
    BY <1>4, <2>1, <2>3, <2>4
<1>6. \A h \in right : \E k \in t..(n - 1) : h = x + BlockSize(k)
  OBVIOUS
<1>7. \A h \in right : h \in Nat /\ h > x /\ h # d /\ h \in Word /\ In(x, n, h)
  BY <1>2, <1>4, <1>5, <1>6 DEF In, Word
<1>8. In(x, n, x) /\ In(x, n, d) /\ x \in Word /\ d \in Word
  BY <1>2, <1>4 DEF In, Word
<1>9. \A h \in out : h \in DOMAIN m /\ h \in Nat /\ ~In(x, n, h)
  BY <1>2, <1>4 DEF In
<1>10. \A h \in Nat : h \in DOMAIN m /\ ~In(x, n, h) => h \in out
  BY <1>2, <1>4 DEF In
<1>11. DOMAIN m2 = out \cup right \cup {x} \cup {d}
  BY <1>1
<1>12. m2[d] = Header(FALSE, t, off)
  BY <1>1
<1>13. x # d => m2[x] = Header(FALSE, t, 0)
  BY <1>1
<1> HIDE DEF which
<1>14. ASSUME NEW h \in right PROVE m2[h] = Header(TRUE, which(h), 0)
  <2>1. h # d /\ h # x /\ h \in out \cup right \cup {x}
    BY <1>2, <1>7
  <2>2. split[h] = Header(TRUE, which(h), 0)
    BY <2>1
  <2> QED
    BY <1>1, <2>1, <2>2
<1>15. \A h \in out : m2[h] = m[h]
  BY <1>1, <1>7, <1>8, <1>9
<1> HIDE DEF out, right, split
<1>16. Agree(m, m2, x, n)
  BY <1>7, <1>8, <1>9, <1>10, <1>11, <1>15 DEF Agree
<1>17. SplitMarks(m2, z, x, t, n)
  <2>1. DOMAIN m2 \subseteq Nat
    BY <1>2, <1>7, <1>9, <1>11
  <2>2. x \in DOMAIN m2 /\ m2[x].order = t /\ ~m2[x].free
    BY <1>11, <1>12, <1>13 DEF Header
  <2>3. ASSUME NEW k \in t..(n - 1)
        PROVE  /\ passed(z, x, k) \in DOMAIN m2
               /\ m2[passed(z, x, k)].order = k
               /\ m2[passed(z, x, k)].free
    BY <1>5, <1>11, <1>14 DEF Header
  <2>4. ASSUME NEW h \in DOMAIN m2, In(x, n, h), m2[h].free
        PROVE  \E k \in t..(n - 1) : h = passed(z, x, k)
    <3>1. h # d
      BY <1>12, <2>4 DEF Header
    <3>2. h # x
      BY <1>13, <2>4, <3>1 DEF Header
    <3>3. h \in right
      BY <1>9, <1>11, <2>4, <3>1, <3>2
    <3> QED
      BY <1>5, <1>6, <3>3
  <2> QED
    BY <2>1, <2>2, <2>3, <2>4 DEF SplitMarks
<1>18. Told(m2, total)
  <2> DEFINE Rec == [free : BOOLEAN, order : Orders, offset : 0..OFFSET_MAX]
  <2>1. \A f \in BOOLEAN, o \in Orders, i \in 0..OFFSET_MAX :
          Header(f, o, i) \in Rec /\ Header(f, o, i).order = o
    BY DEF Header
  <2>2. 0 \in 0..OFFSET_MAX /\ TRUE \in BOOLEAN /\ FALSE \in BOOLEAN
    BY ArgAssumption
  <2>3. /\ DOMAIN m \subseteq Word
        /\ \A h \in DOMAIN m : m[h] \in Rec /\ BlockSize(m[h].order) <= total
    BY DEF Told
  <2> HIDE DEF Rec
  <2>4. BlockSize(t) <= total
    BY <1>4
  <2>5. \A h \in right : m2[h] \in Rec /\ BlockSize(m2[h].order) <= total
    <3> SUFFICES ASSUME NEW h \in right
                 PROVE  m2[h] \in Rec /\ BlockSize(m2[h].order) <= total
      OBVIOUS
    <3>1. PICK k \in t..(n - 1) : h = x + BlockSize(k)
      BY <1>6
    <3>2. m2[h] = Header(TRUE, k, 0)
      BY <1>5, <1>14, <3>1
    <3>3. BlockSize(k) <= total
      BY <1>4, <1>5
    <3> QED
      BY <1>3, <2>1, <2>2, <3>2, <3>3
  <2>6. m2[d] \in Rec /\ BlockSize(m2[d].order) <= total
    BY <1>12, <2>1, <2>2, <2>4
  <2>7. m2[x] \in Rec /\ BlockSize(m2[x].order) <= total
    <3>1. CASE x = d
      BY <2>6, <3>1
    <3>2. CASE x # d
      BY <1>13, <2>1, <2>2, <2>4, <3>2
    <3> QED
      BY <3>1, <3>2
  <2>8. \A h \in out : m2[h] \in Rec /\ BlockSize(m2[h].order) <= total
    BY <1>9, <1>15, <2>3
  <2>9. DOMAIN m2 \subseteq Word
    BY <1>7, <1>8, <1>9, <1>11, <2>3
  <2> QED
    BY <1>11, <2>5, <2>6, <2>7, <2>8, <2>9 DEF Told, Rec
<1> QED
  BY <1>11, <1>12, <1>16, <1>17, <1>18

-----------------------------------------------------------------------------
\* The powers of two from MIN_BLOCK_SIZE on are the block sizes.
LEMMA Powers ==
    ASSUME NEW k \in Nat
    PROVE  2^(k + 5) = BlockSize(k)
<1>1. 2^k \in Nat /\ 2^(k + 1) = 2 * 2^k
  BY Doubling
<1>2. 2^((k + 1) + 1) = 2 * 2^(k + 1) /\ (k + 1) + 1 = k + 2
  BY Doubling
<1>3. 2^((k + 2) + 1) = 2 * 2^(k + 2) /\ (k + 2) + 1 = k + 3
  BY Doubling
<1>4. 2^((k + 3) + 1) = 2 * 2^(k + 3) /\ (k + 3) + 1 = k + 4
  BY Doubling
<1>5. 2^((k + 4) + 1) = 2 * 2^(k + 4) /\ (k + 4) + 1 = k + 5
  BY Doubling
<1> DEFINE a == 2^k
           b == 2^(k + 1)
           c == 2^(k + 2)
           d == 2^(k + 3)
           e == 2^(k + 4)
           f == 2^(k + 5)
<1>6. a \in Nat /\ b = 2 * a /\ c = 2 * b /\ d = 2 * c /\ e = 2 * d /\ f = 2 * e
  BY <1>1, <1>2, <1>3, <1>4, <1>5
<1> HIDE DEF a, b, c, d, e, f
<1>7. f = 32 * a
  BY <1>6
<1> QED
  BY <1>7 DEF a, f, BlockSize, MIN_BLOCK_SIZE

\* A power of two that is not below MIN_BLOCK_SIZE is a block size.
LEMMA PowerBlock ==
    ASSUME NEW k \in Nat, 2^k >= MIN_BLOCK_SIZE
    PROVE  k - 5 \in Nat /\ 2^k = BlockSize(k - 5)
<1>1. 2^0 = 1
  OBVIOUS
<1>2. 2^1 = 2
  BY <1>1, Doubling, 0 + 1 = 1
<1>3. 2^2 = 4
  BY <1>2, Doubling, 1 + 1 = 2
<1>4. 2^3 = 8
  BY <1>3, Doubling, 2 + 1 = 3
<1>5. 2^4 = 16
  BY <1>4, Doubling, 3 + 1 = 4
<1>6. k \notin {0, 1, 2, 3, 4}
  <2> SUFFICES ASSUME k \in {0, 1, 2, 3, 4} PROVE FALSE
    OBVIOUS
  <2>1. 2^k \in {1, 2, 4, 8, 16}
    BY <1>1, <1>2, <1>3, <1>4, <1>5, Zenon
  <2> DEFINE p == 2^k
  <2>2. p \in {1, 2, 4, 8, 16} /\ p >= 32
    BY <2>1 DEF MIN_BLOCK_SIZE
  <2> HIDE DEF p
  <2> QED
    BY <2>2
<1>7. k - 5 \in Nat /\ (k - 5) + 5 = k
  BY <1>6
<1> QED
  BY <1>7, Powers

\* IsPow2 tells the powers of two.
LEMMA Pow2Power ==
    ASSUME NEW n \in Nat, IsPow2(n)
    PROVE  \E k \in Nat : n = 2^k
<1> DEFINE bad == {i \in Nat : IsPow2(i) /\ ~\E k \in Nat : i = 2^k}
<1> SUFFICES ASSUME n \in bad PROVE FALSE
  OBVIOUS
<1>1. PICK x \in bad : \A y \in bad : x <= y
  BY NatMin
<1>2. x \in Nat /\ IsPow2(x) /\ ~\E k \in Nat : x = 2^k
  OBVIOUS
<1>3. x # 1
  <2>1. 2^0 = 1 /\ 0 \in Nat
    OBVIOUS
  <2> QED
    BY <1>2, <2>1
<1>4. x > 1
  BY <1>2, <1>3 DEF IsPow2
<1>5. PICK h \in Nat \ {0} : x = 2 * h /\ h < x /\ IsPow2(h)
  BY <1>2, <1>4, HalfPow2
<1>6. PICK k \in Nat : h = 2^k
  BY <1>1, <1>2, <1>5
<1>7. x = 2^(k + 1) /\ k + 1 \in Nat
  BY <1>5, <1>6, Doubling
<1> QED
  BY <1>2, <1>7

\* The largest block is half of the address space.
LEMMA Half ==
    /\ TopOrder \in Nat /\ SIZE_MAX \in Nat /\ WORD_BITS - 1 \in Nat
    /\ BlockSize(TopOrder) = 2^(WORD_BITS - 1)
    /\ SIZE_MAX + 1 = 2 * BlockSize(TopOrder)
<1>1. /\ WORD_BITS \in Nat /\ SIZE_MAX \in Nat /\ SIZE_MAX + 1 = 2^WORD_BITS
      /\ WORD_BITS > 5
  BY WordAssumption, PageHoldsBlock
<1>2. /\ TopOrder \in Nat /\ WORD_BITS - 1 \in Nat
      /\ TopOrder + 5 = WORD_BITS - 1 /\ (WORD_BITS - 1) + 1 = WORD_BITS
  BY <1>1 DEF TopOrder
<1>3. BlockSize(TopOrder) = 2^(WORD_BITS - 1)
  BY <1>2, Powers
<1>4. 2^WORD_BITS = 2 * 2^(WORD_BITS - 1)
  BY <1>2, Doubling
<1> QED
  BY <1>1, <1>2, <1>3, <1>4

\* size_to_order below half of the address space.
LEMMA OrderOf ==
    ASSUME NEW size \in Nat, size + header_size <= BlockSize(TopOrder)
    PROVE  /\ size_to_order(size) \in 0..TopOrder
           /\ BlockSize(size_to_order(size)) >= size + header_size
<1> DEFINE need == Wrap(size + header_size)
           T == {k \in 0..TopOrder : BlockSize(k) >= need}
<1>1. TopOrder \in Nat /\ SIZE_MAX \in Nat /\ SIZE_MAX + 1 = 2 * BlockSize(TopOrder)
  BY Half
<1>2. BlockSize(TopOrder) \in Nat \ {0}
  BY <1>1, BlockSizes
<1>3. size + header_size \in Nat /\ size + header_size <= SIZE_MAX
  BY <1>1, <1>2 DEF header_size
<1>4. need = size + header_size
  BY <1>3, WrapFacts
<1>5. need <= BlockSize(TopOrder) /\ need \in Nat
  BY <1>3, <1>4
<1> HIDE DEF need
<1>6. TopOrder \in T /\ T \in SUBSET Nat
  BY <1>1, <1>2, <1>5
<1>7. Min(T) \in T
  BY <1>6, MinIn
<1>8. size_to_order(size) = Min(T)
  BY <1>2, <1>5 DEF size_to_order, need
<1> QED
  BY <1>4, <1>7, <1>8

-----------------------------------------------------------------------------
\* The region: none, or one block of the largest order in use.
Region(z, total) ==
    /\ z \in Word /\ total \in Word
    /\ z = NULL => total = 0
    /\ z # NULL => /\ max_order(total) \in Orders
                   /\ BlockSize(max_order(total)) = total
                   /\ z + total <= SIZE_MAX

\* Rounding a block size, or 1, up to a page gives one of the two.
LEMMA Rounded ==
    ASSUME PAGE_SIZE < BlockSize(TopOrder),
           NEW a \in Nat \ {0}, a <= BlockSize(TopOrder),
           a <= PAGE_SIZE \/ a % PAGE_SIZE = 0
    PROVE  align_up(a, PAGE_SIZE) \in {a, PAGE_SIZE}
<1> DEFINE r == align_up(a, PAGE_SIZE)
<1>1. PAGE_SIZE \in Nat \ {0} /\ PAGE_SIZE % PAGE_SIZE = 0 /\ 0 % PAGE_SIZE = 0
  <2>1. PAGE_SIZE \in Nat \ {0}
    BY PageAssumption
  <2> QED
    BY <2>1, MultipleMod, PAGE_SIZE * 1 = PAGE_SIZE, PAGE_SIZE * 0 = 0
<1>2. SIZE_MAX \in Nat /\ BlockSize(TopOrder) \in Nat /\ SIZE_MAX + 1 = 2 * BlockSize(TopOrder)
  BY Half, BlockSizes
<1>3. a + (PAGE_SIZE - 1) <= SIZE_MAX
  BY <1>1, <1>2
<1>4. r \in Nat /\ a <= r /\ r <= a + (PAGE_SIZE - 1) /\ r % PAGE_SIZE = 0
  BY <1>1, <1>3, AlignUpFits
<1> HIDE DEF r
<1>5. CASE a <= PAGE_SIZE
  <2>1. PAGE_SIZE <= r
    <3>1. 0 < r
      BY <1>4
    <3>2. 0 + PAGE_SIZE <= r
      BY <1>1, <1>4, <3>1, Multiples
    <3> QED
      BY <1>1, <1>4, <3>2
  <2>2. ASSUME PAGE_SIZE < r PROVE FALSE
    <3>1. PAGE_SIZE + PAGE_SIZE <= r
      BY <1>1, <1>4, <2>2, Multiples
    <3> QED
      BY <1>1, <1>4, <1>5, <3>1
  <2> QED
    BY <1>1, <1>4, <2>1, <2>2 DEF r
<1>6. CASE a % PAGE_SIZE = 0
  <2>1. ASSUME a < r PROVE FALSE
    <3>1. a + PAGE_SIZE <= r
      BY <1>1, <1>4, <1>6, <2>1, Multiples
    <3> QED
      BY <1>1, <1>4, <3>1
  <2> QED
    BY <1>1, <1>4, <2>1 DEF r
<1> QED
  BY <1>5, <1>6

\* max_order is the order of a block size.
LEMMA MaxOrder ==
    ASSUME NEW k \in 0..TopOrder
    PROVE  max_order(BlockSize(k)) = k
<1>1. k \in Nat /\ \A j \in 0..TopOrder : j \in Nat
  BY Half
<1>2. ASSUME NEW j \in 0..TopOrder, BlockSize(j) = BlockSize(k) PROVE j = k
  <2>1. BlockSize(j) <= BlockSize(k)
    BY <1>1, <1>2, BlockSizes
  <2> QED
    BY <1>1, <1>2, <2>1, SizeTells
<1>3. (CHOOSE j \in 0..TopOrder : BlockSize(j) = BlockSize(k)) = k
  BY <1>2
<1> QED
  BY <1>3 DEF max_order

\* What the constructor maps, if it maps anything, is one block.
LEMMA Capacity ==
    ASSUME InDomain, NEW size \in CtorSizes, NEW target \in bit_ceil(size),
           NEW total,
           total = IF size < MIN_BLOCK_SIZE THEN 0 ELSE capacity(target),
           NEW z \in os_alloc(total)
    PROVE  Region(z, IF z = NULL THEN 0 ELSE total)
<1>1. SIZE_MAX \in Nat /\ size \in Nat /\ PAGE_SIZE \in Nat \ {0}
  BY ArgAssumption, WordAssumption, PageAssumption DEF Word
<1>2. CASE z = NULL
  BY <1>1, <1>2 DEF Region, Word, NULL
<1>3. CASE z # NULL
  <2>1. z \in MapAddrs /\ total > 0 /\ z + total <= SIZE_MAX /\ z \in 1..SIZE_MAX
    BY <1>3, PageAssumption DEF os_alloc
  <2>2. size >= MIN_BLOCK_SIZE /\ total = capacity(target)
    BY <1>1, <2>1 DEF MIN_BLOCK_SIZE
  <2>3. /\ target # 0 /\ total = align_up(target, PAGE_SIZE)
        /\ ~(size_to_order(total) >= MAX_ORDER)
    BY <2>1, <2>2 DEF capacity
  <2>4. PICK q \in Nat : PAGE_SIZE = BlockSize(q)
    <3>1. PICK k \in Nat : PAGE_SIZE = 2^k
      BY <1>1, PageHoldsBlock, Pow2Power
    <3> QED
      BY <3>1, PageHoldsBlock, PowerBlock
  <2>5. /\ TopOrder \in Nat /\ BlockSize(TopOrder) \in Nat \ {0}
        /\ BlockSize(TopOrder) = 2^(WORD_BITS - 1) /\ WORD_BITS - 1 \in Nat
        /\ PAGE_SIZE < BlockSize(TopOrder) /\ BlockSize(TopOrder) # target
    BY Half, BlockSizes DEF InDomain
  <2>6. \E k \in Nat : total = BlockSize(k) /\ BlockSize(k) < BlockSize(TopOrder)
    <3>1. CASE size > 2^(WORD_BITS - 1)
      <4>1. target = 1
        BY <2>3, <3>1 DEF bit_ceil
      <4>2. 1 <= PAGE_SIZE /\ 1 <= BlockSize(TopOrder)
        BY <1>1, <2>5
      <4>3. total \in {1, PAGE_SIZE}
        BY <2>3, <2>5, <4>1, <4>2, Rounded
      <4>4. total % PAGE_SIZE = 0 /\ total \in Nat
        BY <1>1, <2>3, <4>1, <4>3, AlignUpMultiple
      <4>5. total # 1
        <5>1. PAGE_SIZE > 1 /\ 1 % PAGE_SIZE = 1
          BY <1>1, PageHoldsBlock DEF MIN_BLOCK_SIZE
        <5> QED
          BY <4>4, <5>1
      <4> QED
        BY <2>4, <2>5, <4>3, <4>5
    <3>2. CASE ~(size > 2^(WORD_BITS - 1))
      <4>1. PICK k \in 0..(WORD_BITS - 1) : target = 2^k /\ 2^k >= size
        BY <3>2 DEF bit_ceil
      <4>2. k \in Nat /\ 2^k \in Nat \ {0}
        BY <2>5, <4>1, PowPositive
      <4>3. 2^k >= MIN_BLOCK_SIZE
        BY <1>1, <2>2, <4>1, <4>2 DEF MIN_BLOCK_SIZE
      <4> DEFINE j == k - 5
      <4>4. j \in Nat /\ target = BlockSize(j)
        BY <4>1, <4>2, <4>3, PowerBlock
      <4>5. j <= TopOrder
        <5>1. WORD_BITS \in Nat /\ k <= WORD_BITS - 1
          BY <4>1, WordAssumption
        <5> QED
          BY <4>2, <5>1 DEF TopOrder
      <4> HIDE DEF j
      <4>6. /\ BlockSize(j) \in Nat \ {0} /\ BlockSize(j) <= BlockSize(TopOrder)
            /\ BlockSize(j) < BlockSize(TopOrder)
        <5>1. BlockSize(j) \in Nat \ {0} /\ BlockSize(j) <= BlockSize(TopOrder)
          BY <2>5, <4>4, <4>5, BlockSizes, SizeOrder
        <5> QED
          BY <2>5, <4>4, <5>1
      <4>7. BlockSize(j) <= PAGE_SIZE \/ BlockSize(j) % PAGE_SIZE = 0
        <5>1. CASE j <= q
          BY <2>4, <4>4, <5>1, SizeOrder
        <5>2. CASE q <= j
          BY <2>4, <4>4, <5>2, SizeOrder
        <5> QED
          BY <2>4, <4>4, <5>1, <5>2
      <4>8. total \in {BlockSize(j), PAGE_SIZE}
        BY <2>3, <2>5, <4>4, <4>6, <4>7, Rounded
      <4> QED
        BY <2>4, <2>5, <4>4, <4>6, <4>8
    <3> QED
      BY <3>1, <3>2
  <2>7. PICK k \in Nat : total = BlockSize(k) /\ BlockSize(k) < BlockSize(TopOrder)
    BY <2>6
  <2>8. BlockSize(k) \in Nat \ {0} /\ BlockSize(k) >= 32
    BY BlockSizes DEF MIN_BLOCK_SIZE
  <2>9. k < TopOrder
    <3>1. ASSUME TopOrder <= k PROVE FALSE
      <4>1. BlockSize(TopOrder) <= BlockSize(k)
        BY <2>5, <3>1, SizeOrder
      <4> QED
        BY <2>5, <2>7, <2>8, <4>1
    <3> QED
      BY <2>5, <3>1
  <2>10. BlockSize(k) + header_size <= BlockSize(TopOrder)
    <3>1. 2 * BlockSize(k) <= BlockSize(TopOrder)
      <4>1. k <= TopOrder
        BY <2>5, <2>9
      <4> QED
        BY <2>5, <2>9, <4>1, SizeOrder
    <3> QED
      BY <2>5, <2>8, <3>1 DEF header_size
  <2> DEFINE i == size_to_order(total)
  <2>11. i \in 0..TopOrder /\ BlockSize(i) >= BlockSize(k) + header_size
    BY <2>7, <2>8, <2>10, OrderOf
  <2>12. i < MAX_ORDER
    BY <2>3, <2>5, <2>11, ArgAssumption
  <2> HIDE DEF i
  <2>13. i \in Nat /\ BlockSize(i) \in Nat
    BY <2>5, <2>11, BlockSizes
  <2>14. k < i
    <3>1. ASSUME i <= k PROVE FALSE
      <4>1. BlockSize(i) <= BlockSize(k)
        BY <2>13, <3>1, SizeOrder
      <4> QED
        BY <2>8, <2>11, <2>13, <4>1 DEF header_size
    <3> QED
      BY <2>13, <3>1
  <2>15. k \in Orders
    BY <2>12, <2>13, <2>14, ArgAssumption DEF Orders
  <2>16. max_order(total) = k
    <3>1. k \in 0..TopOrder
      BY <2>5, <2>9
    <3> QED
      BY <2>7, <3>1, MaxOrder
  <2>17. z \in Word /\ total \in Word
    BY <1>1, <2>1, <2>7, <2>8 DEF Word
  <2> QED
    BY <1>3, <2>1, <2>7, <2>15, <2>16, <2>17 DEF Region
<1> QED
  BY <1>2, <1>3

-----------------------------------------------------------------------------
\* What the lists s and the headers m make of the region.
Holding(s, m, l, o, z, total) ==
    /\ z = NULL => Free(s) = {} /\ DOMAIN m = {} /\ l = {} /\ o = {}
    /\ z # NULL => Heap(Free(s), m, l, o, z, max_order(total))

(***************************************************************************)
(* The inductive invariant: while the object lives, the region is one      *)
(* block of the largest order, laid out as Heap says in free blocks, which *)
(* are the lists', used blocks and lost ones.                              *)
(***************************************************************************)
IndInv ==
    /\ TypeOK
    /\ alive => /\ Region(m_start_ptr, m_total_size)
                /\ Lists(m_free_lists)
                /\ Holding(m_free_lists, mem, live, lost, m_start_ptr, m_total_size)
    /\ ~alive => live = {}

\* clear() and the constructor: one block, and nobody has any of it.
LEMMA Fresh ==
    ASSUME NEW z, NEW total, Region(z, total),
           NEW s, s = one_block(z, total), NEW m, m = one_header(z, total)
    PROVE  Lists(s) /\ Told(m, total) /\ Holding(s, m, {}, {}, z, total)
<1> DEFINE M == max_order(total)
<1>1. s = [k \in Orders |-> IF z # NULL /\ k = M THEN <<z>> ELSE <<>>]
  BY DEF one_block
<1>2. m = [h \in {z} \ {NULL} |-> Header(TRUE, M, 0)]
  BY DEF one_header
<1>3. z \in Word /\ total \in Nat /\ z \in Nat
  BY WordAssumption DEF Region, Word
<1>4. List(<<>>) /\ ToSet(<<>>) = {}
  BY DEF List, IsInjective, ToSet
<1>5. List(<<z>>) /\ ToSet(<<z>>) = {z}
  <2>1. <<z>> \in Seq(Word) /\ DOMAIN <<z>> = {1} /\ <<z>>[1] = z
    BY <1>3
  <2> QED
    BY <2>1 DEF List, IsInjective, ToSet
<1> HIDE DEF M
<1>6. Lists(s)
  <2>1. \A k \in Orders : List(s[k])
    BY <1>1, <1>4, <1>5
  <2>2. DOMAIN s = Orders /\ s = [k \in Orders |-> s[k]]
    BY <1>1
  <2> QED
    BY ONLY <2>1, <2>2 DEF Lists, List
<1>7. CASE z = NULL
  <2>1. \A k \in Orders : ToSet(s[k]) = {}
    BY <1>1, <1>4, <1>7
  <2>2. Free(s) = {}
    <3>1. \A f \in Free(s) : f[2] \in Orders /\ f[1] \in ToSet(s[f[2]])
      BY <1>6, FreeIs
    <3> QED
      BY <2>1, <3>1
  <2>3. DOMAIN m = {}
    BY <1>2, <1>7
  <2> QED
    BY <1>6, <1>7, <2>2, <2>3 DEF Told, Holding
<1>8. CASE z # NULL
  <2>1. M \in Orders /\ BlockSize(M) = total /\ z + total <= SIZE_MAX /\ M \in Nat
    BY <1>8 DEF Region, M, Orders
  <2>2. Free(s) = {<<z, M>>}
    <3> DEFINE G == {<<z, M>>}
    <3>1. \A b, k : <<b, k>> \in Free(s) <=> <<b, k>> \in G
      <4> SUFFICES ASSUME NEW b, NEW k
                   PROVE  <<b, k>> \in Free(s) <=> <<b, k>> \in G
        OBVIOUS
      <4>1. <<b, k>> \in Free(s) <=> k \in Orders /\ b \in ToSet(s[k])
        BY <1>6, FreeIs
      <4>2. CASE k = M
        BY <1>1, <1>5, <1>8, <2>1, <4>1, <4>2
      <4>3. CASE k # M
        BY <1>1, <1>4, <4>1, <4>3
      <4> QED
        BY <4>2, <4>3
    <3>2. \A g \in G : g = <<g[1], g[2]>>
      OBVIOUS
    <3> HIDE DEF G
    <3>3. Free(s) = G
      BY <1>6, <3>1, <3>2, SameFree
    <3> QED
      BY <3>3 DEF G
  <2>3. DOMAIN m = {z} /\ m[z] = Header(TRUE, M, 0)
    BY <1>2, <1>8
  <2>4. m[z].free /\ m[z].order = M
    BY <2>3 DEF Header
  <2>5. Told(m, total)
    <3>1. 0 \in 0..OFFSET_MAX
      BY ArgAssumption
    <3>2. m[z] \in [free : BOOLEAN, order : Orders, offset : 0..OFFSET_MAX]
      BY <2>1, <2>3, <3>1 DEF Header
    <3>3. BlockSize(m[z].order) <= total
      BY <1>3, <2>1, <2>4
    <3> QED
      BY <1>3, <2>3, <3>2, <3>3, Zenon DEF Told
  <2> DEFINE F == {<<z, M>>}
  <2>6. Laid(F, z, M) /\ bud(z, z, M) = z + BlockSize(M)
    BY <1>3, <2>1, OneBlock
  <2>7. Used(m, {}) = {} /\ F \cup Used(m, {}) \cup {} = F
    BY DEF Used
  <2>8. Unpaired(F, z)
    <3>1. BlockSize(M) \in Nat \ {0}
      BY <2>1, BlockSizes
    <3>2. bud(z, z, M) # z
      BY <1>3, <2>6, <3>1
    <3> QED
      BY <3>2 DEF Unpaired
  <2>9. Marked(F, F, m) /\ NoStray(F, m)
    <3>1. \A b \in F : b \in F /\ b[1] = z /\ b[2] = M
      OBVIOUS
    <3>2. <<z, M>> \in F
      OBVIOUS
    <3> HIDE DEF F
    <3>3. Marked(F, F, m)
      BY <2>3, <2>4, <3>1, Zenon DEF Marked
    <3>4. NoStray(F, m)
      BY <2>3, <2>4, <3>2, Zenon DEF NoStray
    <3> QED
      BY <3>3, <3>4
  <2>10. DOMAIN m \subseteq Nat
    BY <1>3, <2>3
  <2>11. OneHand(F, {}, {})
    BY DEF OneHand
  <2> HIDE DEF F
  <2>12. Heap(F, m, {}, {}, z, M)
    BY <2>6, <2>7, <2>8, <2>9, <2>10, <2>11 DEF Heap
  <2> QED
    BY <1>6, <1>8, <2>2, <2>5, <2>12 DEF Holding, F, M
<1> QED
  BY <1>7, <1>8

\* The constructor, with a mapping or without, establishes the invariant.
LEMMA InitInv == ASSUME InDomain PROVE Init => IndInv
<1> SUFFICES ASSUME Init PROVE IndInv
  OBVIOUS
<1>1. /\ alive = TRUE /\ fault = FALSE /\ live = {} /\ lost = {}
      /\ m_free_lists = one_block(m_start_ptr, m_total_size)
      /\ mem = one_header(m_start_ptr, m_total_size)
  BY DEF Init
<1>2. PICK size \in CtorSizes : \E target \in bit_ceil(size) :
        LET total == IF size < MIN_BLOCK_SIZE THEN 0 ELSE capacity(target) IN
        /\ m_start_ptr \in os_alloc(total)
        /\ m_total_size = IF m_start_ptr = NULL THEN 0 ELSE total
  BY DEF Init
<1>3. PICK target \in bit_ceil(size) :
        LET total == IF size < MIN_BLOCK_SIZE THEN 0 ELSE capacity(target) IN
        /\ m_start_ptr \in os_alloc(total)
        /\ m_total_size = IF m_start_ptr = NULL THEN 0 ELSE total
  BY <1>2
<1>4. Region(m_start_ptr, m_total_size)
  BY <1>3, Capacity
<1>5. /\ Lists(m_free_lists) /\ Told(mem, m_total_size)
      /\ Holding(m_free_lists, mem, live, lost, m_start_ptr, m_total_size)
  BY <1>1, <1>4, Fresh
<1>6. alive \in BOOLEAN /\ fault \in BOOLEAN
  BY ONLY <1>1
<1>7. TypeOK
  BY <1>1, <1>4, <1>5, <1>6 DEF TypeOK, Told, Lists, Region
<1> QED
  BY <1>1, <1>4, <1>5, <1>7 DEF IndInv

\* clear() keeps the invariant.
LEMMA ClearInv ==
    ASSUME IndInv, alive, clear
    PROVE  IndInv'
<1>1. /\ m_free_lists' = one_block(m_start_ptr, m_total_size)
      /\ mem' = one_header(m_start_ptr, m_total_size)
      /\ live' = {} /\ lost' = {}
      /\ UNCHANGED <<alive, fault, m_start_ptr, m_total_size>>
  BY DEF clear, region
<1>2. TypeOK /\ Region(m_start_ptr, m_total_size)
  BY DEF IndInv
<1>3. /\ Lists(m_free_lists') /\ Told(mem', m_total_size)
      /\ Holding(m_free_lists', mem', {}, {}, m_start_ptr, m_total_size)
  BY <1>1, <1>2, Fresh
<1>4. TypeOK'
  BY <1>1, <1>2, <1>3 DEF TypeOK, Told, Lists
<1> QED
  BY <1>1, <1>2, <1>3, <1>4 DEF IndInv

-----------------------------------------------------------------------------
\* The data and their header in the s bytes from x on.
Fits(x, s, size, align, ptr) ==
    /\ ptr \in Word /\ ptr \in Nat /\ ptr % align = 0
    /\ x + header_size <= ptr /\ ptr + size <= x + s
    /\ ptr - header_size \in Nat
    /\ x <= ptr - header_size /\ ptr - header_size < x + s

\* The data of a request in a block of its order, shifted to its alignment.
LEMMA DataFits ==
    ASSUME NEW x \in Nat, NEW s \in Nat, NEW size \in Nat \ {0},
           NEW align \in Nat \ {0},
           size + align + 2 * header_size <= s, x + s <= SIZE_MAX,
           NEW ptr, ptr = data_ptr(x, align)
    PROVE  Fits(x, s, size, align, ptr)
<1>1. x + header_size \in Nat /\ SIZE_MAX \in Nat
  BY WordAssumption DEF header_size
<1>2. (x + header_size) + (align - 1) <= SIZE_MAX
  BY <1>1 DEF header_size
<1>3. /\ ptr \in Nat /\ x + header_size <= ptr
      /\ ptr <= (x + header_size) + (align - 1) /\ ptr % align = 0
  BY <1>1, <1>2, AlignUpFits DEF data_ptr
<1>4. ptr + size <= x + s
  BY <1>3 DEF header_size
<1>5. ptr \in Word
  BY <1>1, <1>3, <1>4 DEF Word
<1>6. /\ ptr - header_size \in Nat
      /\ x <= ptr - header_size /\ ptr - header_size < x + s
  BY <1>3, <1>4 DEF header_size
<1> QED
  BY <1>3, <1>4, <1>5, <1>6 DEF Fits

\* A region that is there, in numbers.
LEMMA RegionFacts ==
    ASSUME IndInv, alive, m_start_ptr # NULL,
           NEW M, M = max_order(m_total_size)
    PROVE  /\ m_start_ptr \in Nat /\ m_total_size \in Nat /\ SIZE_MAX \in Nat
           /\ M \in Orders /\ M \in Nat /\ BlockSize(M) = m_total_size
           /\ m_start_ptr + m_total_size <= SIZE_MAX
           /\ Lists(m_free_lists) /\ Told(mem, m_total_size)
           /\ Heap(Free(m_free_lists), mem, live, lost, m_start_ptr, M)
<1>1. /\ TypeOK /\ Region(m_start_ptr, m_total_size) /\ Lists(m_free_lists)
      /\ Holding(m_free_lists, mem, live, lost, m_start_ptr, m_total_size)
  BY DEF IndInv
<1>2. SIZE_MAX \in Nat /\ m_start_ptr \in Nat /\ m_total_size \in Nat
  BY <1>1, WordAssumption DEF Region, Word
<1>3. M \in Orders /\ BlockSize(M) = m_total_size /\ m_start_ptr + m_total_size <= SIZE_MAX
  BY <1>1 DEF Region
<1>4. M \in Nat
  BY <1>3 DEF Orders
<1>5. Told(mem, m_total_size)
  BY <1>1 DEF TypeOK, Told
<1>6. Heap(Free(m_free_lists), mem, live, lost, m_start_ptr, M)
  BY <1>1 DEF Holding
<1> QED
  BY <1>1, <1>2, <1>3, <1>4, <1>5, <1>6

\* The block that alloc_raw splits and what it is asked to hold.
Found(s, z, total, size, align, t, n, x) ==
    /\ size \in Nat \ {0} /\ align \in Nat \ {0}
    /\ t \in Orders /\ n \in Orders /\ t <= n
    /\ size + align + 2 * header_size <= BlockSize(t)
    /\ s[n] # <<>> /\ x = Head(s[n])
    /\ \A k \in t..(n - 1) : s[k] = <<>>
    /\ <<x, n>> \in Free(s) /\ Placed(z, x, n)
    /\ x + BlockSize(n) <= z + total

\* A request past the early returns finds such a block.
LEMMA Request ==
    ASSUME InDomain, IndInv, alive, NEW size \in Sizes, NEW align \in Aligns,
           well_formed(size, align), ~undefined(size, align),
           NEW t, t = target_order(size, align), available(t) # {},
           NEW n, n = Min(available(t)), NEW x, x = Head(m_free_lists[n])
    PROVE  /\ m_start_ptr # NULL
           /\ Found(m_free_lists, m_start_ptr, m_total_size, size, align, t, n, x)
<1> DEFINE s == m_free_lists
           z == m_start_ptr
           M == max_order(m_total_size)
<1>1. z # NULL /\ ~(t >= MAX_ORDER)
  BY DEF undefined
<1>2. /\ z \in Nat /\ m_total_size \in Nat /\ M \in Nat /\ BlockSize(M) = m_total_size
      /\ Lists(s) /\ Heap(Free(s), mem, live, lost, z, M)
  BY <1>1, RegionFacts
<1>3. /\ size \in Nat \ {0} /\ align \in Nat \ {0} /\ align \in Word /\ size \in Word
      /\ size <= SIZE_MAX - align - header_size
  BY GoodAlign, ArgAssumption, WordAssumption DEF well_formed, Word
<1>4. size + align + 2 * header_size <= BlockSize(TopOrder)
  BY <1>3 DEF InDomain
<1>5. /\ t = size_to_order(size + align + header_size)
      /\ size + align + header_size \in Nat
      /\ (size + align + header_size) + header_size = size + align + 2 * header_size
  BY <1>3 DEF target_order, header_size
<1>6. t \in 0..TopOrder /\ BlockSize(t) >= size + align + 2 * header_size
  BY <1>4, <1>5, OrderOf
<1>7. t \in Orders /\ t \in Nat
  BY <1>1, <1>6, Half, ArgAssumption DEF Orders
<1>8. available(t) \in SUBSET Nat
  BY DEF available, Orders
<1>9. n \in available(t) /\ \A y \in available(t) : n <= y
  BY <1>8, MinIn
<1>10. n \in Orders /\ t <= n /\ s[n] # <<>> /\ n \in Nat
  BY <1>7, <1>9 DEF available, Orders
<1>11. ASSUME NEW k \in t..(n - 1) PROVE s[k] = <<>>
  <2>1. k \in Orders /\ k >= t /\ ~(n <= k)
    BY <1>7, <1>10, ArgAssumption DEF Orders
  <2> QED
    BY <1>9, <2>1 DEF available
<1>12. <<x, n>> \in Free(s)
  <2>1. List(s[n])
    BY <1>2, <1>10 DEF Lists
  <2>2. x \in ToSet(s[n])
    BY <1>10, <2>1, Rest
  <2> QED
    BY <1>2, <1>10, <2>2, FreeIs
<1>13. Placed(z, x, n) /\ x + BlockSize(n) <= z + m_total_size
  BY <1>2, <1>12 DEF Heap, Laid, Block
<1>14. size + align + 2 * header_size <= BlockSize(t)
  BY <1>3, <1>6, <1>7, BlockSizes DEF header_size
<1> HIDE DEF s, z, M
<1> QED
  BY <1>1, <1>3, <1>7, <1>10, <1>11, <1>12, <1>13, <1>14 DEF Found, s, z

\* alloc_raw keeps the invariant, whether it serves or loses the block.
LEMMA AllocInv ==
    ASSUME InDomain, IndInv, alive, NEW size \in Sizes, NEW align \in Aligns,
           alloc_raw(size, align)
    PROVE  IndInv'
<1> DEFINE s == m_free_lists
           z == m_start_ptr
           M == max_order(m_total_size)
           F == Free(s)
           t == target_order(size, align)
           n == Min(available(t))
           x == Head(s[n])
           ptr == data_ptr(x, align)
           d == ptr - header_size
           off == IF ptr - x > OFFSET_MAX THEN 0 ELSE ptr - x
           a == [ptr |-> ptr, size |-> size, align |-> align]
           s2 == m_free_lists'
           m2 == mem'
<1>1. /\ well_formed(size, align) /\ ~undefined(size, align) /\ available(t) # {}
      /\ take(size, align)
      /\ UNCHANGED <<alive, fault, m_start_ptr, m_total_size>>
  BY DEF alloc_raw, region
<1>2. /\ z # NULL /\ Found(s, z, m_total_size, size, align, t, n, x)
  BY <1>1, Request
<1>3. SplitTo(s, s2, x, t, n)
  BY <1>1 DEF take, SplitLists, SplitTo
<1>4. Divided(mem, m2, x, t, n, d, off)
  BY <1>1 DEF take, SplitHeaders, Outside, Divided
<1>5. IF ptr - x > OFFSET_MAX
      THEN lost' = lost \cup {<<x, t>>} /\ live' = live
      ELSE live' = live \cup {a} /\ lost' = lost
  BY DEF alloc_raw
<1> HIDE DEF t, n, x, ptr, s2, m2
<1>6. /\ z \in Nat /\ m_total_size \in Nat /\ SIZE_MAX \in Nat
      /\ M \in Orders /\ M \in Nat /\ BlockSize(M) = m_total_size
      /\ z + m_total_size <= SIZE_MAX
      /\ Lists(s) /\ Told(mem, m_total_size) /\ Heap(F, mem, live, lost, z, M)
  BY <1>2, RegionFacts
<1> HIDE DEF s, z, M
<1>7. /\ size \in Nat \ {0} /\ align \in Nat \ {0}
      /\ t \in Orders /\ n \in Orders /\ t <= n /\ t \in Nat /\ n \in Nat
      /\ size + align + 2 * header_size <= BlockSize(t)
      /\ s[n] # <<>> /\ x = Head(s[n])
      /\ \A k \in t..(n - 1) : s[k] = <<>>
      /\ <<x, n>> \in F /\ Placed(z, x, n) /\ x \in Nat /\ z <= x
      /\ x + BlockSize(n) <= z + m_total_size
  BY <1>2 DEF Found, Placed, Orders
<1>8. /\ BlockSize(n) \in Nat \ {0} /\ BlockSize(t) \in Nat \ {0}
      /\ BlockSize(t) <= BlockSize(n)
  BY <1>7, BlockSizes, SizeOrder
<1>9. /\ x + BlockSize(n) <= SIZE_MAX /\ x + BlockSize(t) <= SIZE_MAX
      /\ BlockSize(n) <= m_total_size
  BY <1>6, <1>7, <1>8, SMTT(30)
<1>10. /\ ptr \in Word /\ ptr \in Nat /\ ptr % align = 0
       /\ x + header_size <= ptr /\ ptr + size <= x + BlockSize(t)
       /\ d \in Nat /\ In(x, t, d)
  <2>1. ptr = data_ptr(x, align)
    BY DEF ptr
  <2> DEFINE sz == BlockSize(t)
  <2>2. /\ sz \in Nat /\ x \in Nat /\ size \in Nat \ {0} /\ align \in Nat \ {0}
        /\ size + align + 2 * header_size <= sz /\ x + sz <= SIZE_MAX
    BY <1>7, <1>8, <1>9
  <2> HIDE DEF sz
  <2>3. Fits(x, sz, size, align, ptr)
    BY ONLY <2>1, <2>2, DataFits
  <2> QED
    BY <2>3 DEF Fits, In, sz
<1>11. Lists(s2) /\ Free(s2) = (F \ {<<x, n>>}) \cup buddies(z, x, t, n)
  BY ONLY <1>3, <1>6, <1>7, <1>9, SplitFree, SMTT(30) DEF F
<1>12. off \in 0..OFFSET_MAX
  <2>1. ptr \in Nat /\ x \in Nat /\ x + header_size <= ptr
    BY <1>7, <1>10
  <2>2. ptr - x \in Nat
    BY ONLY <2>1 DEF header_size
  <2>3. OFFSET_MAX \in Nat
    BY ArgAssumption
  <2> QED
    BY <2>2, <2>3
<1> HIDE DEF d, off, F
<1>13. /\ Agree(mem, m2, x, n) /\ SplitMarks(m2, z, x, t, n)
       /\ d \in DOMAIN m2 /\ m2[d] = Header(FALSE, t, off)
       /\ Told(m2, m_total_size)
  <2>1. z \in Nat /\ m_total_size \in Nat /\ Told(mem, m_total_size)
    BY <1>6
  <2>2. /\ t \in Orders /\ n \in Orders /\ t <= n /\ Placed(z, x, n)
        /\ d \in Nat /\ In(x, t, d)
    BY <1>7, <1>10
  <2> QED
    BY ONLY <1>4, <1>9, <1>12, <2>1, <2>2, SplitMem
<1> DEFINE F2 == Free(s2)
           piece == <<x, t>>
<1>14. /\ Popped(F, F2, m2, live, Used(mem, live), lost, piece, z, M)
       /\ \A b \in live : used(m2, b) = used(mem, b)
  <2>1. F2 = (F \ {<<x, n>>}) \cup buddies(z, x, t, n)
    BY <1>11
  <2>2. /\ z \in Nat /\ M \in Nat /\ t \in Nat /\ n \in Nat /\ t <= n
        /\ Heap(F, mem, live, lost, z, M) /\ <<x, n>> \in F
        /\ Agree(mem, m2, x, n) /\ SplitMarks(m2, z, x, t, n)
    BY <1>6, <1>7, <1>13
  <2> HIDE DEF F2
  <2> QED
    BY ONLY <2>1, <2>2, Pop DEF piece
<1> HIDE DEF F2, piece
<1>15. DOMAIN m2 \subseteq Nat
  BY <1>13 DEF SplitMarks
<1>16. /\ Heap(F2, m2, live', lost', z, M)
       /\ live' \subseteq Allocation /\ lost' \subseteq Word \X Orders
  <2>1. live \subseteq Allocation /\ lost \subseteq Word \X Orders
    BY DEF IndInv, TypeOK
  <2>2. CASE ptr - x > OFFSET_MAX
    <3>1. lost' = lost \cup {piece} /\ live' = live
      BY <1>5, <2>2 DEF piece
    <3>2. Heap(F2, m2, live, lost \cup {piece}, z, M)
      BY <1>6, <1>14, <1>15, Lose
    <3>3. piece \in Word \X Orders
      BY <1>6, <1>7, <1>8, <1>9, SMTT(30) DEF piece, Word
    <3> QED
      BY <2>1, <3>1, <3>2, <3>3
  <2>3. CASE ~(ptr - x > OFFSET_MAX)
    <3>1. lost' = lost /\ live' = live \cup {a}
      BY <1>5, <2>3
    <3>2. /\ a.ptr = ptr /\ a.size = size /\ a.align = align /\ a \in Allocation
      BY <1>10, ArgAssumption DEF Allocation
    <3> HIDE DEF a
    <3>3. off = ptr - x
      BY <2>3 DEF off
    <3>4. m2[d].offset = off /\ m2[d].order = t
      BY <1>13 DEF Header
    <3>5. used(m2, a) = piece
      <4>1. used(m2, a) = <<ptr - off, t>>
        BY <3>2, <3>4 DEF used, d
      <4>2. ptr - off = x
        BY <1>7, <1>10, <3>3
      <4> QED
        BY <4>1, <4>2 DEF piece
    <3>6. Owned(m2, a)
      <4>1. piece[1] = x /\ piece[2] = t
        BY DEF piece
      <4>2. a.ptr - header_size \in DOMAIN m2
        BY <1>13, <3>2 DEF d
      <4>3. End(a) = ptr + size
        BY <3>2 DEF End
      <4> QED
        BY <1>7, <1>10, <3>2, <3>5, <4>1, <4>2, <4>3 DEF Owned
    <3>7. Heap(F2, m2, live \cup {a}, lost, z, M)
      BY <1>6, <1>14, <1>15, <3>5, <3>6, HandOut
    <3> QED
      BY <2>1, <3>1, <3>2, <3>7
  <2> QED
    BY <2>2, <2>3
<1>17. TypeOK'
  BY <1>1, <1>11, <1>13, <1>16 DEF IndInv, TypeOK, Told, Lists, s2, m2
<1>18. Region(m_start_ptr, m_total_size)'
  BY <1>1 DEF IndInv, Region
<1>19. Holding(m_free_lists, mem, live, lost, m_start_ptr, m_total_size)'
  BY <1>1, <1>2, <1>16 DEF Holding, F2, s2, m2, z, M
<1> QED
  BY <1>1, <1>11, <1>17, <1>18, <1>19 DEF IndInv, s2

-----------------------------------------------------------------------------
\* Where free_raw's loop stops, and what it passes on the way.
LEMMA Merging ==
    ASSUME IndInv, alive, NEW a \in live,
           NEW x, x = block_of(a), NEW j, j = order_of(a),
           NEW n, n = merged_order(x, j),
           NEW z, z = m_start_ptr, NEW p, p = at(z, x, n),
           NEW F, F = Free(m_free_lists)
    PROVE  /\ z # NULL /\ used(mem, a) = <<x, j>>
           /\ j \in Orders /\ n \in Orders /\ j <= n
           /\ buddies(z, x, j, n) \subseteq F
           /\ <<bud(z, p, n), n>> \notin F /\ <<p, n>> \notin F
           /\ p \in Word
<1> DEFINE M == max_order(m_total_size)
           B == F \cup Used(mem, live) \cup lost
           T == {k \in j..(MAX_ORDER - 1) : ~merges(block_at(x, k), k)}
<1>1. z # NULL
  BY DEF IndInv, Holding
<1>2. /\ z \in Nat /\ m_total_size \in Nat /\ SIZE_MAX \in Nat
      /\ M \in Orders /\ M \in Nat /\ BlockSize(M) = m_total_size
      /\ z + m_total_size <= SIZE_MAX
      /\ Lists(m_free_lists) /\ Told(mem, m_total_size)
      /\ Heap(F, mem, live, lost, z, M)
  BY <1>1, RegionFacts
<1>3. used(mem, a) = <<x, j>>
  BY DEF used, block_of, order_of
<1>4. <<x, j>> \in Used(mem, live) /\ <<x, j>> \in B
  BY <1>3 DEF Used
<1>5. /\ Laid(B, z, M) /\ OneHand(F, Used(mem, live), lost)
      /\ Marked(F, B, mem) /\ NoStray(F, mem)
  BY <1>2 DEF Heap
<1> HIDE DEF M, B
<1>6. /\ Block(z, <<x, j>>) /\ Placed(z, x, j) /\ x \in Nat /\ j \in Nat /\ z <= x
      /\ x + BlockSize(j) <= z + BlockSize(M)
  BY <1>4, <1>5 DEF Laid, Block, Placed
<1>7. j \in Orders
  <2>1. j <= M
    BY <1>2, <1>4, <1>5, OrderBound
  <2> QED
    BY <1>2, <1>6, <2>1, ArgAssumption DEF Orders
<1>8. \A k \in Nat : get_buddy(block_at(x, k), k) = passed(z, x, k)
  BY DEF get_buddy, block_at, passed, bud, at
<1>9. MAX_ORDER - 1 \in T /\ T \in SUBSET Nat
  <2>1. MAX_ORDER - 1 \in j..(MAX_ORDER - 1)
    BY <1>7, ArgAssumption DEF Orders
  <2>2. ~merges(block_at(x, MAX_ORDER - 1), MAX_ORDER - 1)
    BY ArgAssumption DEF merges
  <2> QED
    BY <1>6, <2>1, <2>2
<1>10. n \in T /\ \A y \in T : n <= y
  BY <1>9, MinIn DEF merged_order
<1>11. n \in j..(MAX_ORDER - 1) /\ ~merges(block_at(x, n), n)
  BY <1>10
<1>12. n \in Nat /\ j <= n /\ n \in Orders
  BY <1>6, <1>7, <1>11 DEF Orders
<1>13. ASSUME NEW k \in j..(n - 1) PROVE <<passed(z, x, k), k>> \in F
  <2>1. k \in Nat /\ k \in j..(MAX_ORDER - 1) /\ ~(n <= k)
    BY <1>6, <1>11, <1>12, ArgAssumption
  <2>2. merges(block_at(x, k), k)
    BY <1>10, <2>1
  <2> DEFINE y == passed(z, x, k)
  <2>3. y \in DOMAIN mem /\ mem[y].free /\ mem[y].order = k
    BY <1>8, <2>1, <2>2 DEF merges
  <2> HIDE DEF y
  <2> QED
    BY <1>5, <2>3, Zenon DEF NoStray, y
<1>14. buddies(z, x, j, n) \subseteq F
  BY <1>13 DEF buddies
<1> DEFINE y == passed(z, x, n)
<1>15. bud(z, p, n) = y
  BY DEF passed
<1>16. Paired(z, p, n, y, at(z, x, n + 1))
  BY <1>2, <1>6, <1>12, OneUp
<1> HIDE DEF y
<1>17. ASSUME <<y, n>> \in F PROVE FALSE
  <2> DEFINE c == <<y, n>>
  <2>1. c \in B /\ c[1] = y /\ c[2] = n /\ c \in F
    BY <1>17 DEF B
  <2> HIDE DEF c
  <2>2. y \in DOMAIN mem /\ mem[y].order = n /\ mem[y].free
    BY <1>5, <2>1 DEF Marked
  <2>3. Block(z, c) /\ y + BlockSize(n) <= z + BlockSize(M)
    BY <1>5, <2>1 DEF Laid
  <2>4. y \in Nat /\ BlockSize(n) \in Nat \ {0} /\ BlockSize(M) \in Nat
    BY <1>2, <1>12, <2>1, <2>3, BlockSizes DEF Block, Placed
  <2>5. y < m_start_ptr + m_total_size
    BY <1>2, <2>3, <2>4
  <2>6. get_buddy(block_at(x, n), n) = y
    BY <1>8, <1>12 DEF y
  <2>7. ~(n < MAX_ORDER - 1)
    BY <1>11, <2>2, <2>5, <2>6 DEF merges
  <2>8. n <= M /\ (n = M => c = <<z, M>>)
    BY <1>2, <1>5, <2>1, OrderBound
  <2>9. n = M
    BY <1>2, <1>12, <2>7, <2>8, ArgAssumption DEF Orders
  <2>10. y = z
    BY <2>1, <2>8, <2>9
  <2>11. p = z
    <3>1. Placed(z, z, M)
      <4>1. 0 % BlockSize(M) = 0 /\ z - z = 0
        BY <1>2, <2>4, <2>9, MultipleMod, BlockSize(M) * 0 = 0
      <4> QED
        BY <1>2, <4>1 DEF Placed
    <3>2. In(z, M, x)
      <4>1. BlockSize(j) \in Nat \ {0}
        BY <1>6, BlockSizes
      <4> QED
        BY <1>2, <1>6, <2>4, <4>1 DEF In
    <3> QED
      BY <1>2, <1>6, <2>9, <3>1, <3>2, AtUnique
  <2> QED
    BY <1>16, <2>10, <2>11 DEF Paired
<1>18. Placed(z, p, n) /\ In(p, n, x)
  BY <1>2, <1>6, <1>12, AtFacts
<1>19. ASSUME <<p, n>> \in F PROVE FALSE
  <2> DEFINE c == <<p, n>>
             b == <<x, j>>
  <2>1. Has(c, x)
    BY <1>18 DEF Has
  <2>2. Has(b, x)
    BY <1>2, <1>6, AtItself DEF Has
  <2>3. c \in B /\ b \in B
    BY <1>4, <1>19 DEF B
  <2> HIDE DEF c, b
  <2>4. c = b
    BY <1>5, <1>6, <2>1, <2>2, <2>3 DEF Laid, Disjoint
  <2> QED
    BY <1>4, <1>5, <1>19, <2>4 DEF OneHand, c, b
<1>20. p \in Word
  <2>1. BlockSize(j) \in Nat \ {0} /\ BlockSize(n) \in Nat
    BY <1>6, <1>12, BlockSizes
  <2> QED
    BY <1>2, <1>6, <1>18, <2>1 DEF Placed, In, Word
<1> QED
  BY <1>1, <1>3, <1>7, <1>12, <1>14, <1>15, <1>17, <1>19, <1>20

\* The headers when the block p of order n is free.
MergedMem(m, m2, p, n) ==
    m2 = [h \in {h \in DOMAIN m : h < p \/ h >= p + BlockSize(n)} \cup {p} |->
            IF h = p THEN Header(TRUE, n, 0) ELSE m[h]]

\* They are those of lemma GiveBack.
LEMMA MergeMem ==
    ASSUME NEW m, NEW total \in Nat, Told(m, total),
           NEW n \in Orders, NEW p \in Word, NEW m2, MergedMem(m, m2, p, n)
    PROVE  /\ Agree(m, m2, p, n) /\ DOMAIN m2 \subseteq Nat
           /\ p \in DOMAIN m2 /\ m2[p].order = n /\ m2[p].free
           /\ \A h \in DOMAIN m2 : In(p, n, h) => h = p
           /\ BlockSize(n) <= total => Told(m2, total)
<1> DEFINE out == {h \in DOMAIN m : h < p \/ h >= p + BlockSize(n)}
<1>1. p \in Nat /\ n \in Nat /\ DOMAIN m \subseteq Nat /\ DOMAIN m \subseteq Word
  BY WordAssumption DEF Orders, Told, Word
<1>2. BlockSize(n) \in Nat \ {0}
  BY <1>1, BlockSizes
<1>3. \A h \in out : h \in DOMAIN m /\ h \in Nat /\ ~In(p, n, h)
  BY <1>1, <1>2 DEF In
<1>4. \A h \in Nat : h \in DOMAIN m /\ ~In(p, n, h) => h \in out
  BY <1>1, <1>2 DEF In
<1>5. In(p, n, p)
  BY <1>1, <1>2 DEF In
<1>6. DOMAIN m2 = out \cup {p} /\ m2[p] = Header(TRUE, n, 0)
  BY DEF MergedMem
<1>7. \A h \in out : m2[h] = m[h]
  BY <1>3, <1>5 DEF MergedMem
<1> HIDE DEF out
<1>8. m2[p].order = n /\ m2[p].free
  BY <1>6 DEF Header
<1>9. Agree(m, m2, p, n)
  BY <1>3, <1>4, <1>5, <1>6, <1>7 DEF Agree
<1>10. ASSUME BlockSize(n) <= total PROVE Told(m2, total)
  <2>1. 0 \in 0..OFFSET_MAX
    BY ArgAssumption
  <2>2. m2[p] \in [free : BOOLEAN, order : Orders, offset : 0..OFFSET_MAX]
    BY <1>6, <2>1 DEF Header
  <2>3. BlockSize(m2[p].order) <= total
    BY <1>8, <1>10
  <2>4. DOMAIN m2 \subseteq Word
    BY <1>1, <1>3, <1>6
  <2> QED
    BY <1>3, <1>6, <1>7, <2>2, <2>3, <2>4, Zenon DEF Told
<1> QED
  BY <1>1, <1>3, <1>6, <1>8, <1>9, <1>10

\* free_raw keeps the invariant.
LEMMA FreeInv ==
    ASSUME IndInv, alive, NEW a \in live, free_raw(a)
    PROVE  IndInv'
<1> DEFINE s == m_free_lists
           z == m_start_ptr
           M == max_order(m_total_size)
           F == Free(s)
           x == block_of(a)
           j == order_of(a)
           n == merged_order(x, j)
           p == at(z, x, n)
           s2 == m_free_lists'
           m2 == mem'
           F2 == Free(s2)
<1>1. p = block_at(x, n)
  BY DEF at, block_at
<1>2. \A k \in Nat : get_buddy(block_at(x, k), k) = passed(z, x, k)
  BY DEF get_buddy, block_at, passed, bud, at
<1>3. /\ s2 = [k \in Orders |->
                 IF k = n THEN <<block_at(x, n)>> \o s[k]
                 ELSE IF k \in j..(n - 1) THEN unlinked(x, k)
                 ELSE s[k]]
      /\ m2 = [h \in Outside(block_at(x, n), n) \cup {block_at(x, n)} |->
                 IF h = block_at(x, n) THEN Header(TRUE, n, 0) ELSE mem[h]]
      /\ live' = live \ {a}
      /\ UNCHANGED <<alive, fault, m_start_ptr, m_total_size, lost>>
  BY DEF free_raw, region
<1>4. /\ z # NULL /\ used(mem, a) = <<x, j>>
      /\ j \in Orders /\ n \in Orders /\ j <= n
      /\ buddies(z, x, j, n) \subseteq F
      /\ <<bud(z, p, n), n>> \notin F /\ <<p, n>> \notin F
      /\ p \in Word
  BY Merging
<1>5. /\ z \in Nat /\ m_total_size \in Nat /\ SIZE_MAX \in Nat
      /\ M \in Orders /\ M \in Nat /\ BlockSize(M) = m_total_size
      /\ z + m_total_size <= SIZE_MAX
      /\ Lists(s) /\ Told(mem, m_total_size) /\ Heap(F, mem, live, lost, z, M)
  BY <1>4, RegionFacts
<1>6. p = at(z, x, n) /\ F = Free(s)
  OBVIOUS
<1> HIDE DEF x, j, n, p, s2, m2, s, z, M
<1>7. MergedTo(s, s2, z, x, j, p, n)
  <2>1. \A k \in j..(n - 1) : k \in Nat
    BY <1>4 DEF Orders
  <2>2. ASSUME NEW k \in Orders
        PROVE  (IF k = n THEN <<block_at(x, n)>> \o s[k]
                ELSE IF k \in j..(n - 1) THEN unlinked(x, k)
                ELSE s[k]) =
               (IF k = n THEN <<p>> \o s[k]
                ELSE IF k \in j..(n - 1) THEN RemoveFirst(s[k], passed(z, x, k))
                ELSE s[k])
    BY <1>1, <1>2, <2>1 DEF unlinked, s
  <2> QED
    BY <1>3, <2>2 DEF MergedTo
<1>8. MergedMem(mem, m2, p, n)
  BY <1>1, <1>3 DEF MergedMem, Outside
<1> HIDE DEF F
<1>9. /\ Agree(mem, m2, p, n) /\ DOMAIN m2 \subseteq Nat
      /\ p \in DOMAIN m2 /\ m2[p].order = n /\ m2[p].free
      /\ \A h \in DOMAIN m2 : In(p, n, h) => h = p
      /\ BlockSize(n) <= m_total_size => Told(m2, m_total_size)
  BY ONLY <1>4, <1>5, <1>8, MergeMem
<1>10. Lists(s2) /\ F2 = (F \ buddies(z, x, j, n)) \cup {<<p, n>>}
  BY ONLY <1>4, <1>5, <1>6, <1>7, MergeFree
<1> HIDE DEF F2
<1>11. n \in Nat /\ j <= n
  BY <1>4 DEF Orders
<1>12. Heap(F2, m2, live \ {a}, lost, z, M)
  <2>1. z \in Nat /\ M \in Nat /\ Heap(F, mem, live, lost, z, M) /\ a \in live
    BY <1>5
  <2>2. /\ used(mem, a) = <<x, j>> /\ buddies(z, x, j, n) \subseteq F
        /\ p = at(z, x, n) /\ <<bud(z, p, n), n>> \notin F
        /\ F2 = (F \ buddies(z, x, j, n)) \cup {<<p, n>>}
    BY <1>4, <1>6, <1>10
  <2> QED
    BY ONLY <1>9, <1>11, <2>1, <2>2, GiveBack
<1>13. BlockSize(n) <= m_total_size
  <2> DEFINE c == <<p, n>>
             B == F2 \cup Used(m2, live \ {a}) \cup lost
  <2>1. c \in B /\ c[2] = n
    BY <1>10
  <2>2. Laid(B, z, M)
    BY <1>12 DEF Heap
  <2> HIDE DEF B, c
  <2>3. n <= M
    BY <1>5, <2>1, <2>2, OrderBound
  <2> QED
    BY <1>5, <1>11, <2>3, SizeOrder
<1>14. Told(m2, m_total_size)
  BY <1>9, <1>13
<1>15. TypeOK'
  BY <1>3, <1>10, <1>14 DEF IndInv, TypeOK, Told, Lists, s2, m2
<1>16. Region(m_start_ptr, m_total_size)'
  BY <1>3 DEF IndInv, Region
<1>17. Holding(m_free_lists, mem, live, lost, m_start_ptr, m_total_size)'
  BY <1>3, <1>4, <1>12 DEF Holding, F2, s2, m2, z, M
<1> QED
  BY <1>3, <1>10, <1>15, <1>16, <1>17 DEF IndInv, s2

\* The invariant is inductive.
LEMMA StepInv == ASSUME InDomain PROVE IndInv /\ [Next]_vars => IndInv'
<1> SUFFICES ASSUME IndInv, [Next]_vars PROVE IndInv'
  OBVIOUS
<1>1. ASSUME alive, NEW size \in Sizes, NEW align \in Aligns,
             alloc_raw(size, align)
      PROVE  IndInv'
  BY <1>1, AllocInv
<1>2. ASSUME NEW size \in Sizes, NEW align \in Aligns,
             alloc_undefined(size, align)
      PROVE  IndInv'
  <2>1. /\ fault' = TRUE
        /\ UNCHANGED <<alive, m_start_ptr, m_total_size, m_free_lists, mem, live, lost>>
    BY <1>2 DEF alloc_undefined, region
  <2>2. fault' \in BOOLEAN
    BY ONLY <2>1
  <2>3. TypeOK'
    BY <2>1, <2>2 DEF IndInv, TypeOK
  <2> QED
    BY <2>1, <2>3 DEF IndInv, Region, Lists, Holding
<1>3. ASSUME alive, NEW a \in live, free_raw(a)
      PROVE  IndInv'
  BY <1>3, FreeInv
<1>4. ASSUME alive, clear PROVE IndInv'
  BY <1>4, ClearInv
<1>5. CASE destructor
  <2>1. /\ alive' = FALSE /\ m_start_ptr' = NULL /\ mem' = <<>> /\ live' = {}
        /\ m_total_size' = IF m_start_ptr = NULL THEN m_total_size ELSE 0
        /\ UNCHANGED <<fault, m_free_lists, lost>>
    BY <1>5 DEF destructor
  <2>2. NULL \in Word /\ m_total_size' \in Word
    BY <2>1, WordAssumption DEF IndInv, TypeOK, Word, NULL
  <2>3. DOMAIN mem' = {}
    <3>1. DOMAIN <<>> = {}
      OBVIOUS
    <3> QED
      BY ONLY <2>1, <3>1
  <2>4. alive' \in BOOLEAN
    BY ONLY <2>1
  <2>5. TypeOK'
    BY <2>1, <2>2, <2>3, <2>4 DEF IndInv, TypeOK
  <2> QED
    BY <2>1, <2>5 DEF IndInv
<1>6. CASE UNCHANGED vars
  <2>1. UNCHANGED <<alive, fault, m_start_ptr, m_total_size, m_free_lists,
                    mem, live, lost>>
    BY <1>6 DEF vars, region
  <2> QED
    BY <2>1 DEF IndInv, TypeOK, Region, Lists, Holding
<1> QED
  BY <1>1, <1>2, <1>3, <1>4, <1>5, <1>6 DEF Next, alloc_null

-----------------------------------------------------------------------------
\* The blocks of the properties are those of the invariant.
LEMMA SameBlocks ==
    /\ FreeBlocks = Free(m_free_lists) /\ UsedBlocks = Used(mem, live)
    /\ Blocks = Free(m_free_lists) \cup Used(mem, live) \cup lost
    /\ \A a : used(mem, a) = <<block_of(a), order_of(a)>>
<1>1. FreeBlocks = Free(m_free_lists)
  BY DEF FreeBlocks, Free
<1>2. \A a : used(mem, a) = <<block_of(a), order_of(a)>>
  BY DEF used, block_of, order_of
<1>3. UsedBlocks = Used(mem, live)
  BY <1>2 DEF UsedBlocks, Used
<1> QED
  BY <1>1, <1>2, <1>3 DEF Blocks

\* Without a region there are no blocks.
LEMMA NoBlocks ==
    ASSUME IndInv, alive, m_start_ptr = NULL
    PROVE  /\ Free(m_free_lists) = {} /\ Used(mem, live) = {}
           /\ live = {} /\ lost = {} /\ m_total_size = 0 /\ m_start_ptr = 0
  BY DEF IndInv, Holding, Region, Used, NULL

\* Blocks that share no byte lie one before the other.
LEMMA Apart ==
    ASSUME NEW z \in Nat, NEW b, NEW c, Block(z, b), Block(z, c),
           \A byte \in Nat : ~(Has(b, byte) /\ Has(c, byte))
    PROVE  \/ b[1] + BlockSize(b[2]) <= c[1]
           \/ c[1] + BlockSize(c[2]) <= b[1]
<1>1. /\ b[1] \in Nat /\ c[1] \in Nat
      /\ BlockSize(b[2]) \in Nat \ {0} /\ BlockSize(c[2]) \in Nat \ {0}
  BY BlockFacts
<1>2. ~(Has(b, b[1]) /\ Has(c, b[1])) /\ ~(Has(b, c[1]) /\ Has(c, c[1]))
  BY <1>1
<1> QED
  BY <1>1, <1>2 DEF Has, In

(***************************************************************************)
(* Where size_to_order stays in its domain, the blocks tile the region:    *)
(* alloc_raw's splits and free_raw's merges exchange a block for its       *)
(* pieces, none overlaps another, none is lost unless refused late, and no *)
(* block is twice in a list or behind two allocations.                     *)
(***************************************************************************)
THEOREM BlocksTile ==
    ASSUME InDomain
    PROVE  Spec => []Partition
<1>1. IndInv => Partition
  <2> SUFFICES ASSUME IndInv PROVE Partition
    OBVIOUS
  <2> DEFINE z == m_start_ptr
             M == max_order(m_total_size)
             F == Free(m_free_lists)
             U == Used(mem, live)
             B == F \cup U \cup lost
             Tiles == /\ \A b \in B :
                           /\ (b[1] - z) % BlockSize(b[2]) = 0
                           /\ \A c \in B \ {b} :
                                \/ b[1] + BlockSize(b[2]) <= c[1]
                                \/ c[1] + BlockSize(c[2]) <= b[1]
                      /\ UNION {Bytes(b) : b \in B} = z..(z + m_total_size - 1)
                      /\ F \cap (U \cup lost) = {} /\ U \cap lost = {}
                      /\ \A a, b \in live : block_of(a) = block_of(b) => a = b
  <2>1. TypeOK /\ (alive => \A k \in Orders : IsInjective(m_free_lists[k]))
    BY DEF IndInv, Lists, List
  <2>2. ASSUME alive, z = NULL PROVE Tiles
    <3>1. F = {} /\ U = {} /\ live = {} /\ lost = {} /\ m_total_size = 0 /\ z = 0
      BY <2>2, NoBlocks
    <3>2. z..(z + m_total_size - 1) = {}
      BY <3>1
    <3>3. B = {}
      BY <3>1
    <3> HIDE DEF F, U, B, z
    <3>4. UNION {Bytes(b) : b \in B} = {}
      BY <3>3
    <3> QED
      BY <3>1, <3>2, <3>3, <3>4
  <2>3. ASSUME alive, z # NULL PROVE Tiles
    <3>1. /\ z \in Nat /\ M \in Nat /\ m_total_size \in Nat
          /\ BlockSize(M) = m_total_size /\ Heap(F, mem, live, lost, z, M)
      BY <2>3, RegionFacts
    <3>2. /\ Laid(B, z, M) /\ OneHand(F, U, lost)
          /\ \A a, b \in live : used(mem, a) = used(mem, b) => a = b
      BY <3>1 DEF Heap
    <3>3. \A a \in live : used(mem, a) \in B /\ used(mem, a)[1] = block_of(a)
      BY SameBlocks DEF Used
    <3> HIDE DEF F, U, B, z, M
    <3>4. ASSUME NEW b \in B
          PROVE  /\ Block(z, b) /\ b[1] \in Nat /\ z <= b[1]
                 /\ BlockSize(b[2]) \in Nat \ {0}
                 /\ b[1] + BlockSize(b[2]) <= z + m_total_size
                 /\ (b[1] - z) % BlockSize(b[2]) = 0
                 /\ Has(b, b[1])
      BY <3>1, <3>2, BlockFacts DEF Laid, Placed
    <3>5. ASSUME NEW b \in B, NEW c \in B \ {b}
          PROVE  \/ b[1] + BlockSize(b[2]) <= c[1]
                 \/ c[1] + BlockSize(c[2]) <= b[1]
      <4>1. \A byte \in Nat : ~(Has(b, byte) /\ Has(c, byte))
        BY <3>2 DEF Laid, Disjoint
      <4> QED
        BY <3>1, <3>4, <4>1, Apart
    <3>6. UNION {Bytes(b) : b \in B} = z..(z + m_total_size - 1)
      <4>1. ASSUME NEW b \in B
            PROVE  \A byte : byte \in Bytes(b) <=> byte \in Nat /\ Has(b, byte)
        BY <3>4 DEF Bytes, Has, In
      <4>2. \A byte : byte \in z..(z + m_total_size - 1) <=>
                      byte \in Nat /\ z <= byte /\ byte < z + m_total_size
        BY <3>1
      <4>3. ASSUME NEW b \in B, NEW byte \in Bytes(b)
            PROVE  byte \in z..(z + m_total_size - 1)
        BY <3>1, <3>4, <4>1, <4>2 DEF Has, In
      <4>4. ASSUME NEW byte \in z..(z + m_total_size - 1)
            PROVE  \E b \in B : byte \in Bytes(b)
        BY <3>1, <3>2, <4>1, <4>2 DEF Laid
      <4> QED
        BY <4>3, <4>4
    <3>7. ASSUME NEW a \in live, NEW b \in live, block_of(a) = block_of(b)
          PROVE  a = b
      <4>1. Has(used(mem, a), block_of(a)) /\ Has(used(mem, b), block_of(a))
        BY <3>3, <3>4, <3>7
      <4>2. block_of(a) \in Nat
        BY <3>3, <3>4
      <4>3. used(mem, a) = used(mem, b)
        BY <3>2, <3>3, <4>1, <4>2 DEF Laid, Disjoint
      <4> QED
        BY <3>2, <4>3
    <3>8. F \cap (U \cup lost) = {} /\ U \cap lost = {}
      BY <3>2 DEF OneHand
    <3> QED
      BY <3>4, <3>5, <3>6, <3>7, <3>8
  <2>4. alive => Tiles
    BY <2>2, <2>3
  <2> QED
    BY <2>1, <2>4, SameBlocks DEF Partition
<1>2. Spec => []IndInv
  BY InitInv, StepInv, PTL DEF Spec
<1> QED
  BY <1>1, <1>2, PTL

(***************************************************************************)
(* Where size_to_order stays in its domain, the header that free_raw's     *)
(* merge loop reads at a buddy's address is always a block's own, and says *)
(* truly whether the block is free and of which order.                     *)
(***************************************************************************)
THEOREM HeadersRead ==
    ASSUME InDomain
    PROVE  Spec => []HeadersTrue
<1>1. IndInv => HeadersTrue
  <2> SUFFICES ASSUME IndInv, alive
               PROVE  /\ \A b \in Blocks :
                           /\ b[1] \in DOMAIN mem
                           /\ mem[b[1]].order = b[2]
                           /\ mem[b[1]].free <=> b \in FreeBlocks
                      /\ \A a \in live :
                           \A k \in order_of(a)..merged_order(block_of(a), order_of(a)) :
                             \/ get_buddy(block_at(block_of(a), k), k)
                                  >= m_start_ptr + m_total_size
                             \/ \E b \in Blocks :
                                  b[1] = get_buddy(block_at(block_of(a), k), k)
    BY DEF HeadersTrue
  <2> DEFINE z == m_start_ptr
             M == max_order(m_total_size)
             F == Free(m_free_lists)
             B == F \cup Used(mem, live) \cup lost
  <2>1. F = FreeBlocks /\ B = Blocks
    BY SameBlocks
  <2>2. CASE z = NULL
    BY <2>1, <2>2, NoBlocks
  <2>3. CASE z # NULL
    <3>1. /\ z \in Nat /\ M \in Nat /\ m_total_size \in Nat
          /\ BlockSize(M) = m_total_size /\ Heap(F, mem, live, lost, z, M)
      BY <2>3, RegionFacts
    <3>2. Marked(F, B, mem) /\ Laid(B, z, M)
      BY <3>1 DEF Heap
    <3>3. ASSUME NEW a \in live,
                 NEW k \in order_of(a)..merged_order(block_of(a), order_of(a))
          PROVE  \/ get_buddy(block_at(block_of(a), k), k) >= z + m_total_size
                 \/ \E b \in B : b[1] = get_buddy(block_at(block_of(a), k), k)
      <4> DEFINE x == block_of(a)
                 j == order_of(a)
                 u == <<x, j>>
                 y == passed(z, x, k)
      <4>1. u = used(mem, a) /\ u \in B
        BY SameBlocks DEF Used
      <4>2. y = get_buddy(block_at(x, k), k)
        BY DEF get_buddy, block_at, passed, bud, at
      <4>3. j \in Orders /\ merged_order(x, j) \in Orders
        <5> DEFINE n == merged_order(x, j)
                   p == at(z, x, n)
        <5>1. /\ z # NULL /\ used(mem, a) = <<x, j>>
              /\ j \in Orders /\ n \in Orders /\ j <= n
              /\ buddies(z, x, j, n) \subseteq F
              /\ <<bud(z, p, n), n>> \notin F /\ <<p, n>> \notin F
              /\ p \in Word
          BY Merging
        <5> QED
          BY <5>1
      <4>4. k \in Nat /\ j <= k /\ u[1] = x /\ u[2] = j
        BY <4>3 DEF Orders
      <4>5. y \in Nat
        <5>1. Block(z, u)
          BY <3>2, <4>1 DEF Laid
        <5>2. x \in Nat /\ z <= x
          BY <4>4, <5>1 DEF Block, Placed
        <5>3. Paired(z, at(z, x, k), k, y, at(z, x, k + 1))
          BY <3>1, <4>4, <5>2, OneUp
        <5> QED
          BY <5>3 DEF Paired, Placed
      <4> HIDE DEF u, x, j, y, B, M
      <4>6. ASSUME y < z + BlockSize(M)
            PROVE  \E c \in B : c[1] = y /\ c[2] <= k
        <5>1. u[2] <= k /\ passed(z, u[1], k) < z + BlockSize(M)
          BY <4>4, <4>6 DEF y
        <5>2. \E c \in B : c[1] = passed(z, u[1], k) /\ c[2] <= k
          BY <3>1, <3>2, <4>1, <4>4, <5>1, BuddyStarts
        <5> QED
          BY <4>4, <5>2 DEF y
      <4> QED
        BY <3>1, <4>2, <4>5, <4>6 DEF x
    <3> QED
      BY <2>1, <3>2, <3>3 DEF Marked
  <2> QED
    BY <2>2, <2>3
<1>2. Spec => []IndInv
  BY InitInv, StepInv, PTL DEF Spec
<1> QED
  BY <1>1, <1>2, PTL

(***************************************************************************)
(* Where size_to_order stays in its domain, the block that alloc_raw       *)
(* chooses has room for the header, for shifting the data pointer to its   *)
(* alignment and for the data.                                             *)
(***************************************************************************)
THEOREM RoomForData ==
    ASSUME InDomain
    PROVE  Spec => []BlockHoldsData
<1>1. IndInv => BlockHoldsData
  <2> SUFFICES ASSUME IndInv, NEW a \in live
               PROVE  /\ block_of(a) + header_size <= a.ptr
                      /\ End(a) <= block_of(a) + BlockSize(order_of(a))
    BY DEF BlockHoldsData
  <2>1. alive /\ m_start_ptr # NULL
    BY DEF IndInv, Holding
  <2>2. Owned(mem, a)
    BY <2>1, RegionFacts DEF Heap
  <2>3. used(mem, a)[1] = block_of(a) /\ used(mem, a)[2] = order_of(a)
    BY SameBlocks
  <2> QED
    BY <2>2, <2>3 DEF Owned
<1>2. Spec => []IndInv
  BY InitInv, StepInv, PTL DEF Spec
<1> QED
  BY <1>1, <1>2, PTL

\* A list of no block and a list of one.
LEMMA ShortList ==
    ASSUME NEW s, List(s)
    PROVE  /\ ToSet(s) = {} => s = <<>>
           /\ \A y : ToSet(s) = {y} => s = <<y>>
<1>1. s \in Seq(Word) /\ Len(s) \in Nat /\ DOMAIN s = 1..Len(s)
  BY DEF List
<1>2. ASSUME ToSet(s) = {} PROVE s = <<>>
  <2>1. \A i \in 1..Len(s) : s[i] \in ToSet(s)
    BY <1>1 DEF ToSet
  <2>2. ~(1 \in 1..Len(s))
    BY <1>2, <2>1
  <2>3. Len(s) = 0
    BY <1>1, <2>2
  <2> QED
    BY <1>1, <2>3
<1>3. ASSUME NEW y, ToSet(s) = {y} PROVE s = <<y>>
  <2>1. \A i \in 1..Len(s) : s[i] = y
    BY <1>1, <1>3 DEF ToSet
  <2>2. Len(s) # 0
    BY <1>1, <1>3 DEF ToSet
  <2>3. 1 \in 1..Len(s) /\ Len(s) \in 1..Len(s)
    BY <1>1, <2>2
  <2>4. Len(s) = 1
    BY <1>1, <2>1, <2>3 DEF List, IsInjective
  <2>5. s[1] = y
    BY <2>1, <2>3
  <2> QED
    BY <1>1, <2>4, <2>5
<1> QED
  BY <1>2, <1>3

(***************************************************************************)
(* Where size_to_order stays in its domain, free_raw merges completely: no *)
(* two buddies of one order are both free, and once all is freed, in any   *)
(* order, the lists are as after clear().                                  *)
(***************************************************************************)
THEOREM MergesAll ==
    ASSUME InDomain
    PROVE  Spec => []MergesFully
<1>1. IndInv => MergesFully
  <2> SUFFICES ASSUME IndInv, alive
               PROVE  /\ \A b \in FreeBlocks :
                           <<get_buddy(b[1], b[2]), b[2]>> \notin FreeBlocks
                      /\ live = {} /\ lost = {} =>
                           m_free_lists = one_block(m_start_ptr, m_total_size)
    BY DEF MergesFully
  <2> DEFINE s == m_free_lists
             z == m_start_ptr
             M == max_order(m_total_size)
             F == Free(s)
             first == one_block(z, m_total_size)
  <2>1. F = FreeBlocks /\ Lists(s)
    BY SameBlocks DEF IndInv
  <2>2. \A b : get_buddy(b[1], b[2]) = bud(z, b[1], b[2])
    BY DEF get_buddy, bud
  <2>3. first = [k \in Orders |-> IF z # NULL /\ k = M THEN <<z>> ELSE <<>>]
    BY DEF one_block
  <2>4. DOMAIN s = Orders /\ s = [k \in Orders |-> s[k]] /\ \A k \in Orders : List(s[k])
    BY <2>1 DEF Lists
  <2>5. \A b, k : <<b, k>> \in F <=> k \in Orders /\ b \in ToSet(s[k])
    BY <2>1, FreeIs
  <2> HIDE DEF s, M, first
  <2>6. CASE z = NULL
    <3>1. F = {}
      BY <2>6, NoBlocks DEF s
    <3>2. \A k \in Orders : s[k] = <<>>
      <4> SUFFICES ASSUME NEW k \in Orders PROVE s[k] = <<>>
        OBVIOUS
      <4>1. ToSet(s[k]) = {}
        BY <2>5, <3>1
      <4> QED
        BY <2>4, <4>1, ShortList
    <3>3. s = first
      BY <2>3, <2>4, <2>6, <3>2
    <3> QED
      BY <2>1, <3>1, <3>3 DEF s, first
  <2>7. CASE z # NULL
    <3>1. z \in Nat /\ M \in Nat /\ M \in Orders /\ Heap(F, mem, live, lost, z, M)
      BY <2>7, RegionFacts DEF s, M
    <3>2. Unpaired(F, z) /\ Laid(F \cup Used(mem, live) \cup lost, z, M)
      BY <3>1 DEF Heap
    <3>3. \A b \in F : <<bud(z, b[1], b[2]), b[2]>> \notin F
      BY <3>2 DEF Unpaired
    <3>4. ASSUME live = {}, lost = {} PROVE s = first
      <4>1. Laid(F, z, M)
        <5>1. F \cup Used(mem, live) \cup lost = F
          BY <3>4 DEF Used
        <5> QED
          BY <3>2, <5>1
      <4> HIDE DEF F
      <4>2. F = {<<z, M>>}
        BY <3>1, <3>3, <4>1, Whole
      <4>3. ASSUME NEW k \in Orders
            PROVE  s[k] = IF k = M THEN <<z>> ELSE <<>>
        <5>1. CASE k = M
          <6>1. \A b : b \in ToSet(s[k]) <=> b = z
            BY <2>5, <4>2, <5>1
          <6>2. ToSet(s[k]) = {z}
            BY <6>1
          <6> QED
            BY <2>4, <5>1, <6>2, ShortList
        <5>2. CASE k # M
          <6>1. ToSet(s[k]) = {}
            BY <2>5, <4>2, <5>2
          <6> QED
            BY <2>4, <5>2, <6>1, ShortList
        <5> QED
          BY <5>1, <5>2
      <4> QED
        BY <2>3, <2>4, <2>7, <4>3
    <3> QED
      BY <2>1, <2>2, <3>3, <3>4 DEF s, first
  <2> QED
    BY <2>6, <2>7
<1>2. Spec => []IndInv
  BY InitInv, StepInv, PTL DEF Spec
<1> QED
  BY <1>1, <1>2, PTL

\* The live allocations lie apart in the region, at their alignments.
Promised ==
    \A a \in live :
      /\ a.size > 0 /\ a.align > 0 /\ a.ptr % a.align = 0
      /\ a.ptr >= m_start_ptr /\ End(a) <= m_start_ptr + m_total_size
      /\ \A b \in live \ {a} : ~Overlap(a, b)

\* So the invariant says.
LEMMA LiveApart == IndInv => Promised
<1> SUFFICES ASSUME IndInv, NEW a \in live
             PROVE  /\ a.size > 0 /\ a.align > 0 /\ a.ptr % a.align = 0
                    /\ a.ptr >= m_start_ptr /\ End(a) <= m_start_ptr + m_total_size
                    /\ \A b \in live \ {a} : ~Overlap(a, b)
  BY DEF Promised
<1> DEFINE z == m_start_ptr
           M == max_order(m_total_size)
           F == Free(m_free_lists)
           B == F \cup Used(mem, live) \cup lost
<1>1. alive /\ z # NULL
  BY DEF IndInv, Holding
<1>2. /\ z \in Nat /\ M \in Nat /\ m_total_size \in Nat
      /\ BlockSize(M) = m_total_size /\ Heap(F, mem, live, lost, z, M)
  BY <1>1, RegionFacts
<1>3. /\ Laid(B, z, M) /\ \A b \in live : Owned(mem, b)
      /\ \A b, c \in live : used(mem, b) = used(mem, c) => b = c
  BY <1>2 DEF Heap
<1>4. \A b \in live : used(mem, b) \in B
  BY DEF Used
<1> HIDE DEF z, M, F, B
<1>5. ASSUME NEW b \in live
      PROVE  /\ Block(z, used(mem, b)) /\ used(mem, b)[1] \in Nat
             /\ z <= used(mem, b)[1]
             /\ used(mem, b)[1] + BlockSize(used(mem, b)[2]) <= z + m_total_size
             /\ BlockSize(used(mem, b)[2]) \in Nat
             /\ b.ptr \in Nat /\ b.size \in Nat /\ b.size > 0
             /\ b.align > 0 /\ b.ptr % b.align = 0
             /\ used(mem, b)[1] <= b.ptr
             /\ b.ptr + b.size <= used(mem, b)[1] + BlockSize(used(mem, b)[2])
  <2> DEFINE u == used(mem, b)
  <2>1. Block(z, u) /\ u[1] + BlockSize(u[2]) <= z + m_total_size
    BY <1>2, <1>3, <1>4 DEF Laid
  <2>2. u[1] \in Nat /\ z <= u[1] /\ BlockSize(u[2]) \in Nat
    BY <1>2, <2>1, BlockFacts
  <2>3. /\ b \in Allocation /\ b.size > 0 /\ b.align > 0 /\ b.ptr % b.align = 0
        /\ u[1] + header_size <= b.ptr /\ b.ptr + b.size <= u[1] + BlockSize(u[2])
    BY <1>3 DEF Owned, End
  <2>4. b.ptr \in Nat /\ b.size \in Nat
    BY <2>3, WordAssumption DEF Allocation, Word
  <2> HIDE DEF u
  <2>5. u[1] <= b.ptr
    BY <2>2, <2>3, <2>4 DEF header_size
  <2> QED
    BY <2>1, <2>2, <2>3, <2>4, <2>5 DEF u
<1>6. ASSUME NEW b \in live \ {a} PROVE ~Overlap(a, b)
  <2> DEFINE u == used(mem, a)
             v == used(mem, b)
  <2>1. u # v /\ u \in B /\ v \in B
    BY <1>3, <1>4
  <2>2. \A byte \in Nat : ~(Has(u, byte) /\ Has(v, byte))
    BY <1>3, <2>1 DEF Laid, Disjoint
  <2>3. Block(z, u) /\ Block(z, v)
    BY <1>5
  <2>4. /\ u[1] \in Nat /\ BlockSize(u[2]) \in Nat
        /\ v[1] \in Nat /\ BlockSize(v[2]) \in Nat
        /\ a.ptr \in Nat /\ a.size \in Nat /\ b.ptr \in Nat /\ b.size \in Nat
        /\ u[1] <= a.ptr /\ a.ptr + a.size <= u[1] + BlockSize(u[2])
        /\ v[1] <= b.ptr /\ b.ptr + b.size <= v[1] + BlockSize(v[2])
    BY <1>5
  <2> HIDE DEF u, v
  <2>5. u[1] + BlockSize(u[2]) <= v[1] \/ v[1] + BlockSize(v[2]) <= u[1]
    BY <1>2, <2>2, <2>3, Apart
  <2> QED
    BY <2>4, <2>5 DEF Overlap, End
<1>7. a.ptr >= z /\ End(a) <= z + m_total_size
  BY <1>2, <1>5 DEF End
<1> QED
  BY <1>2, <1>5, <1>6, <1>7 DEF z

(***************************************************************************)
(* Where size_to_order stays in its domain, the buddy allocator keeps the  *)
(* promise of IAllocator: what alloc_raw returns is aligned, lies in the   *)
(* region and overlaps no live allocation; a late refusal changes nothing  *)
(* that a client sees.                                                     *)
(***************************************************************************)
THEOREM Refinement ==
    ASSUME InDomain
    PROVE  Spec => ContractSpec
<1>1. Init => Contract!Init
  BY DEF Init, Contract!Init
<1>2. Promised' /\ [Next]_vars => [Contract!Next]_Contract!vars
  <2> SUFFICES ASSUME Promised', [Next]_vars
               PROVE  [Contract!Next]_Contract!vars
    OBVIOUS
  <2>1. ASSUME NEW size \in Sizes, NEW align \in Aligns, alloc_raw(size, align)
        PROVE  Contract!alloc_raw \/ UNCHANGED Contract!vars
    <3>1. UNCHANGED <<m_start_ptr, m_total_size>>
      BY <2>1 DEF alloc_raw, region
    <3>2. live' = live \/ \E a : live' = live \cup {a}
      BY <2>1 DEF alloc_raw
    <3>3. ASSUME NEW a, live' = live \cup {a}, a \notin live
          PROVE  Contract!alloc_raw
      <4>1. a \in live' /\ \A b \in live : b \in live' /\ b # a
        BY <3>3
      <4>2. /\ a.size > 0 /\ a.align > 0 /\ a.ptr % a.align = 0
            /\ a.ptr >= m_start_ptr' /\ End(a) <= m_start_ptr' + m_total_size'
            /\ \A b \in live' \ {a} : ~Overlap(a, b)
        BY <4>1 DEF Promised
      <4>3. /\ a.size > 0 /\ a.align > 0 /\ a.ptr % a.align = 0
            /\ a.ptr >= m_start_ptr /\ End(a) <= m_start_ptr + m_total_size
            /\ \A b \in live : ~Overlap(a, b)
        BY <3>1, <4>1, <4>2
      <4> QED
        BY <3>1, <3>3, <4>1, <4>3
           DEF Contract!alloc_raw, Contract!Inside, Contract!End, End,
               Contract!Overlap, Overlap
    <3>4. ASSUME live' = live PROVE UNCHANGED Contract!vars
      BY <3>1, <3>4 DEF Contract!vars
    <3> QED
      BY <3>2, <3>3, <3>4
  <2>2. ASSUME NEW a \in live, free_raw(a)
        PROVE  Contract!free_raw
    BY <2>2 DEF free_raw, region, Contract!free_raw, Contract!Released
  <2>3. CASE clear
    BY <2>3 DEF clear, region, Contract!clear, Contract!Next
  <2>4. CASE destructor
    BY <2>4 DEF destructor, Contract!destructor, Contract!Next, Contract!NULL, NULL
  <2>5. ASSUME NEW size \in Sizes, NEW align \in Aligns,
               alloc_undefined(size, align)
        PROVE  UNCHANGED Contract!vars
    BY <2>5 DEF alloc_undefined, region, Contract!vars
  <2>6. CASE UNCHANGED vars
    BY <2>6 DEF vars, region, Contract!vars
  <2> QED
    BY <2>1, <2>2, <2>3, <2>4, <2>5, <2>6
       DEF Next, alloc_null, vars, Contract!Next, Contract!vars
<1>3. Spec => []IndInv
  BY InitInv, StepInv, PTL DEF Spec
<1>4. Spec => []Promised
  BY <1>3, LiveApart, PTL
<1> QED
  BY <1>1, <1>2, <1>4, PTL DEF Spec, ContractSpec, Contract!Spec

=============================================================================
