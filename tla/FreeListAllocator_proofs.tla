---------------------- MODULE FreeListAllocator_proofs ----------------------
(***************************************************************************)
(* The free list and the headers of the free list allocator for every      *)
(* region and set of requests.  What is in the list and what is in use are *)
(* compared byte by byte: an allocation takes the bytes of one block out   *)
(* of the list, a free puts them back, and neither moves any other byte.   *)
(* Only two lemmas, Splice and Coalesced, look at the list's positions.    *)
(***************************************************************************)
EXTENDS FreeListAllocator, Utils_proofs

Stop(block) == block.addr + block.size

\* A block as it may lie in the region from start of total bytes.
Sits(block, start, total) ==
    /\ block.addr \in Nat /\ block.size \in Nat
    /\ start <= block.addr /\ Stop(block) <= start + total
    /\ block.addr % block_align = 0
    /\ block.size >= block_size

\* The list s in address order, no two of its blocks touching.
Spaced(s) ==
    \A i, j \in 1..Len(s) : i < j => Stop(s[i]) < s[j].addr

\* SortedAndCoalesced of the list s.
Ordered(s, start, total) ==
    /\ s \in Seq(FreeBlock)
    /\ \A i \in 1..Len(s) : Sits(s[i], start, total)
    /\ Spaced(s)

\* The block of an allocation, as the header in front of it in m says.
used(m, a) ==
    [addr |-> (a.ptr - header_size) - m[a.ptr - header_size].pad,
     size |-> m[a.ptr - header_size].size]

\* HeadersIntact of one allocation, and what the client was promised.
Owned(m, a, start, total) ==
    /\ a \in Allocation /\ a.size > 0 /\ a.align > 0 /\ a.ptr % a.align = 0
    /\ a.ptr - header_size \in DOMAIN m
    /\ Sits(used(m, a), start, total)
    /\ used(m, a).addr + header_size <= a.ptr
    /\ End(a) <= Stop(used(m, a))

Listed(s, byte) == \E i \in 1..Len(s) : Holds(s[i], byte)

\* No byte is in two hands.
Parted(s, m, l) ==
    /\ \A a \in l, byte \in Nat : Holds(used(m, a), byte) => ~Listed(s, byte)
    /\ \A a, b \in l, byte \in Nat :
         Holds(used(m, a), byte) /\ Holds(used(m, b), byte) => a = b

\* No byte is lost.
Full(s, m, l, start, total) ==
    \A byte \in Nat :
      start <= byte /\ byte < start + total =>
        Listed(s, byte) \/ \E a \in l : Holds(used(m, a), byte)

\* The region as the constructor leaves it, and nothing without one.
Region ==
    /\ m_start_ptr = NULL => m_total_size = 0
    /\ m_start_ptr # NULL =>
         /\ m_start_ptr + m_total_size <= SIZE_MAX
         /\ m_start_ptr % block_align = 0
         /\ m_total_size >= block_size

Heap ==
    /\ Ordered(free_list, m_start_ptr, m_total_size)
    /\ \A a \in live : Owned(mem, a, m_start_ptr, m_total_size)
    /\ Parted(free_list, mem, live)
    /\ Full(free_list, mem, live, m_start_ptr, m_total_size)

IndInv ==
    /\ TypeOK
    /\ alive => Region /\ Heap
    /\ ~alive => live = {}

-----------------------------------------------------------------------------
\* The list s with everything between lo and hi replaced by one block.
Spliced(s, lo, block, hi) ==
    SubSeq(s, 1, lo) \o <<block>> \o SubSeq(s, hi, Len(s))

SplicedAs(g, s, lo, block, hi) ==
    /\ g \in Seq(FreeBlock)
    /\ Len(g) = Len(s) + lo + 2 - hi
    /\ \A j \in 1..lo : g[j] = s[j]
    /\ g[lo + 1] = block
    /\ \A j \in (lo + 2)..Len(g) : g[j] = s[j - lo - 2 + hi]

SplicedByte(s, lo, block, hi, byte) ==
    \/ Holds(block, byte)
    \/ \E j \in 1..lo : Holds(s[j], byte)
    \/ \E j \in hi..Len(s) : Holds(s[j], byte)

\* Two lists one after the other.
LEMMA Concat ==
    ASSUME NEW p \in Seq(FreeBlock), NEW q \in Seq(FreeBlock)
    PROVE  /\ p \o q \in Seq(FreeBlock)
           /\ Len(p \o q) = Len(p) + Len(q)
           /\ \A j \in 1..Len(p) : (p \o q)[j] = p[j]
           /\ \A j \in (Len(p) + 1)..(Len(p) + Len(q)) :
                (p \o q)[j] = q[j - Len(p)]
  OBVIOUS

\* What Spliced holds, position by position.
LEMMA Splice ==
    ASSUME NEW s \in Seq(FreeBlock), NEW block \in FreeBlock,
           NEW lo \in 0..Len(s), NEW hi \in (lo + 1)..(Len(s) + 1),
           NEW g, g = Spliced(s, lo, block, hi)
    PROVE  SplicedAs(g, s, lo, block, hi)
<1> DEFINE p == SubSeq(s, 1, lo)
           q == SubSeq(s, hi, Len(s))
           pb == p \o <<block>>
<1>1. /\ p \in Seq(FreeBlock) /\ Len(p) = lo
      /\ \A j \in 1..lo : p[j] = s[j]
  OBVIOUS
<1>2. /\ q \in Seq(FreeBlock) /\ Len(q) = Len(s) - hi + 1
      /\ \A j \in 1..Len(q) : q[j] = s[j + hi - 1]
  OBVIOUS
<1> HIDE DEF p, q
<1>3. /\ pb \in Seq(FreeBlock) /\ Len(pb) = lo + 1
      /\ \A j \in 1..lo : pb[j] = p[j]
      /\ pb[lo + 1] = block
  BY <1>1
<1> HIDE DEF pb
<1>4. g = pb \o q
  BY DEF Spliced, p, q, pb
<1> DEFINE pbq == pb \o q
<1>5. /\ pbq \in Seq(FreeBlock) /\ Len(pbq) = Len(pb) + Len(q)
      /\ \A j \in 1..Len(pb) : pbq[j] = pb[j]
      /\ \A j \in (Len(pb) + 1)..(Len(pb) + Len(q)) :
           pbq[j] = q[j - Len(pb)]
  BY <1>2, <1>3, Concat
<1> HIDE DEF pbq
<1>8. SplicedAs(pbq, s, lo, block, hi)
  BY <1>1, <1>2, <1>3, <1>5 DEF SplicedAs
<1> QED
  BY <1>4, <1>8 DEF pbq

\* A block that fits between its new neighbours keeps the list in order.
LEMMA SplicedOrdered ==
    ASSUME NEW start \in Nat, NEW total \in Nat,
           NEW s, Ordered(s, start, total),
           NEW block \in FreeBlock, Sits(block, start, total),
           NEW lo \in 0..Len(s), NEW hi \in (lo + 1)..(Len(s) + 1),
           \A j \in 1..lo : Stop(s[j]) < block.addr,
           \A j \in hi..Len(s) : Stop(block) < s[j].addr,
           NEW g, SplicedAs(g, s, lo, block, hi)
    PROVE  /\ Ordered(g, start, total)
           /\ \A byte \in Nat :
                Listed(g, byte) <=> SplicedByte(s, lo, block, hi, byte)
<1> DEFINE from(j) == j - lo - 2 + hi
<1>1. s \in Seq(FreeBlock) /\ Len(s) \in Nat
  BY DEF Ordered
<1>2. /\ g \in Seq(FreeBlock)
      /\ Len(g) = Len(s) + lo + 2 - hi
      /\ \A j \in 1..lo : g[j] = s[j]
      /\ g[lo + 1] = block
      /\ \A j \in (lo + 2)..Len(g) : g[j] = s[from(j)]
  BY DEF SplicedAs
<1>3. \A j \in 1..Len(g) : Sits(g[j], start, total)
  <2> SUFFICES ASSUME NEW j \in 1..Len(g) PROVE Sits(g[j], start, total)
    OBVIOUS
  <2>1. CASE j <= lo
    <3>1. j \in 1..lo /\ j \in 1..Len(s) /\ g[j] = s[j]
      BY <1>1, <1>2, <2>1
    <3> QED
      BY <3>1 DEF Ordered
  <2>2. CASE j = lo + 1
    BY <1>2, <2>2
  <2>3. CASE j > lo + 1
    <3>1. j \in (lo + 2)..Len(g) /\ from(j) \in 1..Len(s)
      BY <1>1, <1>2, <2>3
    <3> QED
      BY <1>2, <3>1 DEF Ordered
  <2> QED
    BY <1>1, <1>2, <2>1, <2>2, <2>3
<1>4. Spaced(g)
  <2> SUFFICES ASSUME NEW i \in 1..Len(g), NEW j \in 1..Len(g), i < j
               PROVE  Stop(g[i]) < g[j].addr
    BY DEF Spaced
  <2>1. \A k, l \in 1..Len(s) : k < l => Stop(s[k]) < s[l].addr
    BY DEF Ordered, Spaced
  <2>2. CASE i <= lo /\ j <= lo
    <3>1. /\ i \in 1..lo /\ i \in 1..Len(s) /\ g[i] = s[i]
          /\ j \in 1..lo /\ j \in 1..Len(s) /\ g[j] = s[j]
      BY <1>1, <1>2, <2>2
    <3> QED
      BY <2>1, <3>1
  <2>3. CASE i <= lo /\ j = lo + 1
    BY <1>1, <1>2, <2>3
  <2>4. CASE i <= lo /\ j > lo + 1
    <3>1. j \in (lo + 2)..Len(g) /\ from(j) \in 1..Len(s) /\ i < from(j)
      BY <1>1, <1>2, <2>4
    <3>2. g[i] = s[i] /\ g[j] = s[from(j)] /\ i \in 1..Len(s)
      BY <1>1, <1>2, <2>4, <3>1
    <3> QED
      BY <2>1, <3>1, <3>2
  <2>5. CASE i = lo + 1
    <3>1. j \in (lo + 2)..Len(g) /\ from(j) \in hi..Len(s)
      BY <1>1, <1>2, <2>5
    <3> QED
      BY <1>2, <2>5, <3>1
  <2>6. CASE i > lo + 1
    <3>1. /\ i \in (lo + 2)..Len(g) /\ from(i) \in 1..Len(s)
          /\ j \in (lo + 2)..Len(g) /\ from(j) \in 1..Len(s)
          /\ from(i) < from(j)
      BY <1>1, <1>2, <2>6
    <3>2. g[i] = s[from(i)] /\ g[j] = s[from(j)]
      BY <1>2, <3>1
    <3> QED
      BY <2>1, <3>1, <3>2
  <2> QED
    BY <1>1, <1>2, <2>2, <2>3, <2>4, <2>5, <2>6
<1>5. ASSUME NEW byte \in Nat
      PROVE  Listed(g, byte) <=> SplicedByte(s, lo, block, hi, byte)
  <2>1. ASSUME NEW j \in 1..Len(g), Holds(g[j], byte)
        PROVE  SplicedByte(s, lo, block, hi, byte)
    <3>1. CASE j <= lo
      <4>1. j \in 1..lo /\ g[j] = s[j]
        BY <1>2, <3>1
      <4> QED
        BY <2>1, <4>1 DEF SplicedByte
    <3>2. CASE j = lo + 1
      BY <1>2, <2>1, <3>2 DEF SplicedByte
    <3>3. CASE j > lo + 1
      <4>1. j \in (lo + 2)..Len(g) /\ from(j) \in hi..Len(s)
        BY <1>1, <1>2, <3>3
      <4> QED
        BY <1>2, <2>1, <4>1 DEF SplicedByte
    <3> QED
      BY <1>1, <1>2, <3>1, <3>2, <3>3
  <2>2. ASSUME Holds(block, byte) PROVE Listed(g, byte)
    <3>1. lo + 1 \in 1..Len(g)
      BY <1>1, <1>2
    <3> QED
      BY <1>2, <2>2, <3>1 DEF Listed
  <2>3. ASSUME NEW k \in 1..lo, Holds(s[k], byte) PROVE Listed(g, byte)
    <3>1. k \in 1..Len(g) /\ g[k] = s[k]
      BY <1>1, <1>2
    <3> QED
      BY <2>3, <3>1 DEF Listed
  <2>4. ASSUME NEW k \in hi..Len(s), Holds(s[k], byte) PROVE Listed(g, byte)
    <3> DEFINE j == k + lo + 2 - hi
    <3>1. j \in (lo + 2)..Len(g) /\ j \in 1..Len(g) /\ from(j) = k
      BY <1>1, <1>2
    <3>2. g[j] = s[k]
      BY <1>2, <3>1
    <3> QED
      BY <2>4, <3>1, <3>2 DEF Listed
  <2> QED
    BY <2>1, <2>2, <2>3, <2>4 DEF Listed, SplicedByte
<1> QED
  BY <1>2, <1>3, <1>4, <1>5 DEF Ordered

\* Taking a block out of the list.
LEMMA Removed ==
    ASSUME NEW start \in Nat, NEW total \in Nat,
           NEW s, Ordered(s, start, total), NEW i \in 1..Len(s),
           NEW g, g = RemoveAt(s, i)
    PROVE  /\ Ordered(g, start, total)
           /\ \A byte \in Nat :
                Listed(g, byte) <=>
                  \E j \in 1..Len(s) : j # i /\ Holds(s[j], byte)
<1> DEFINE p == SubSeq(s, 1, i - 1)
           q == SubSeq(s, i + 1, Len(s))
           pq == p \o q
           from(j) == IF j < i THEN j ELSE j + 1
<1>1. s \in Seq(FreeBlock) /\ Len(s) \in Nat
  BY DEF Ordered
<1>2. /\ p \in Seq(FreeBlock) /\ Len(p) = i - 1
      /\ \A j \in 1..(i - 1) : p[j] = s[j]
  BY <1>1
<1>3. /\ q \in Seq(FreeBlock) /\ Len(q) = Len(s) - i
      /\ \A j \in 1..Len(q) : q[j] = s[j + i]
  BY <1>1
<1>4. g = pq
  BY DEF RemoveAt
<1> HIDE DEF p, q
<1>5. /\ pq \in Seq(FreeBlock) /\ Len(pq) = Len(p) + Len(q)
      /\ \A j \in 1..Len(p) : pq[j] = p[j]
      /\ \A j \in (Len(p) + 1)..(Len(p) + Len(q)) : pq[j] = q[j - Len(p)]
  BY <1>2, <1>3, Concat
<1> HIDE DEF pq
<1>6. /\ pq \in Seq(FreeBlock) /\ Len(pq) = Len(s) - 1
      /\ \A j \in 1..Len(pq) : from(j) \in 1..Len(s) /\ pq[j] = s[from(j)]
  <2>1. pq \in Seq(FreeBlock) /\ Len(pq) = Len(s) - 1
    BY <1>1, <1>2, <1>3, <1>5
  <2> SUFFICES ASSUME NEW j \in 1..Len(pq)
               PROVE  from(j) \in 1..Len(s) /\ pq[j] = s[from(j)]
    BY <2>1
  <2>2. CASE j < i
    <3>1. j \in 1..(i - 1) /\ j \in 1..Len(p) /\ from(j) = j
      BY <1>2, <2>2
    <3> QED
      BY <1>1, <1>2, <1>5, <3>1
  <2>3. CASE j >= i
    <3>1. /\ j \in (Len(p) + 1)..(Len(p) + Len(q)) /\ from(j) = j + 1
          /\ j - Len(p) \in 1..Len(q) /\ (j - Len(p)) + i = j + 1
          /\ j + 1 \in 1..Len(s)
      BY <1>1, <1>2, <1>3, <2>1, <2>3
    <3>2. pq[j] = q[j - Len(p)]
      BY <1>5, <3>1
    <3>3. q[j - Len(p)] = s[(j - Len(p)) + i]
      BY <1>3, <3>1
    <3> QED
      BY <3>1, <3>2, <3>3
  <2> QED
    BY <2>2, <2>3
<1>7. \A j, k \in 1..Len(pq) : j < k => from(j) < from(k)
  BY <1>1, <1>6
<1>8. \A j \in 1..Len(s) : j # i => \E k \in 1..Len(pq) : from(k) = j
  <2> SUFFICES ASSUME NEW j \in 1..Len(s), j # i
               PROVE  \E k \in 1..Len(pq) : from(k) = j
    OBVIOUS
  <2>1. CASE j < i
    BY <1>1, <1>6, <2>1
  <2>2. CASE j > i
    <3>1. j - 1 \in 1..Len(pq) /\ from(j - 1) = j
      BY <1>1, <1>6, <2>2
    <3> QED
      BY <3>1
  <2> QED
    BY <1>1, <2>1, <2>2
<1>9. \A j \in 1..Len(pq) : from(j) # i
  BY <1>1, <1>6
<1> HIDE DEF from
<1>10. Spaced(pq)
  <2> SUFFICES ASSUME NEW j \in 1..Len(pq), NEW k \in 1..Len(pq), j < k
               PROVE  Stop(pq[j]) < pq[k].addr
    BY DEF Spaced
  <2>1. Stop(s[from(j)]) < s[from(k)].addr
    BY <1>6, <1>7 DEF Ordered, Spaced
  <2> QED
    BY <1>6, <2>1
<1>11. Ordered(pq, start, total)
  BY <1>6, <1>10 DEF Ordered
<1>12. ASSUME NEW byte \in Nat
       PROVE  Listed(pq, byte) <=>
                \E j \in 1..Len(s) : j # i /\ Holds(s[j], byte)
  BY <1>6, <1>8, <1>9 DEF Listed
<1> QED
  BY <1>4, <1>11, <1>12

\* A block in a region below SIZE_MAX is a FreeBlock.
LEMMA SitsWord ==
    ASSUME NEW start \in Nat, NEW total \in Nat, start + total <= SIZE_MAX,
           NEW addr, NEW size,
           Sits([addr |-> addr, size |-> size], start, total)
    PROVE  [addr |-> addr, size |-> size] \in FreeBlock
  BY WordAssumption DEF Sits, Stop, FreeBlock, Word, block_size

\* A block that grows by n bytes.
LEMMA Grow ==
    ASSUME NEW block \in FreeBlock, NEW n
    PROVE  /\ [block EXCEPT !.size = @ + n]
                = [addr |-> block.addr, size |-> block.size + n]
           /\ block = [addr |-> block.addr, size |-> block.size]
  BY DEF FreeBlock

\* The ends of the two halves of a list.
LEMMA Halves ==
    ASSUME NEW s \in Seq(FreeBlock), NEW k \in 0..Len(s)
    PROVE  /\ SubSeq(s, 1, k) # <<>> <=> k > 0
           /\ SubSeq(s, k + 1, Len(s)) # <<>> <=> k < Len(s)
           /\ k > 0 => /\ Front(SubSeq(s, 1, k)) = SubSeq(s, 1, k - 1)
                       /\ Last(SubSeq(s, 1, k)) = s[k]
           /\ k < Len(s) =>
                /\ Head(SubSeq(s, k + 1, Len(s))) = s[k + 1]
                /\ Tail(SubSeq(s, k + 1, Len(s))) = SubSeq(s, k + 2, Len(s))
<1>1. /\ SubSeq(s, 1, k) # <<>> <=> k > 0
      /\ SubSeq(s, k + 1, Len(s)) # <<>> <=> k < Len(s)
  <2>1. \A p \in Seq(FreeBlock) : p # <<>> <=> Len(p) > 0
    OBVIOUS
  <2>2. SubSeq(s, 1, k) \in Seq(FreeBlock) /\ Len(SubSeq(s, 1, k)) = k
    OBVIOUS
  <2>3. /\ SubSeq(s, k + 1, Len(s)) \in Seq(FreeBlock)
        /\ Len(SubSeq(s, k + 1, Len(s))) = Len(s) - k
    OBVIOUS
  <2>4. SubSeq(s, 1, k) # <<>> <=> k > 0
    BY <2>1, <2>2
  <2>5. SubSeq(s, k + 1, Len(s)) # <<>> <=> k < Len(s)
    <3> DEFINE q == SubSeq(s, k + 1, Len(s))
    <3>1. q \in Seq(FreeBlock) /\ Len(q) = Len(s) - k
      BY <2>3
    <3> HIDE DEF q
    <3>2. q # <<>> <=> k < Len(s)
      BY <2>1, <3>1
    <3> QED
      BY <3>2 DEF q
  <2> QED
    BY <2>4, <2>5
<1>2. k > 0 => Front(SubSeq(s, 1, k)) = SubSeq(s, 1, k - 1)
  BY DEF Front
<1>3. k > 0 => Last(SubSeq(s, 1, k)) = s[k]
  <2> SUFFICES ASSUME k > 0 PROVE Last(SubSeq(s, 1, k)) = s[k]
    OBVIOUS
  <2>1. Len(SubSeq(s, 1, k)) = k /\ SubSeq(s, 1, k)[k] = s[k]
    OBVIOUS
  <2> QED
    BY <2>1 DEF Last
<1>4. k < Len(s) => Head(SubSeq(s, k + 1, Len(s))) = s[k + 1]
  OBVIOUS
<1>5. k < Len(s) =>
        Tail(SubSeq(s, k + 1, Len(s))) = SubSeq(s, k + 2, Len(s))
  OBVIOUS
<1> QED
  BY <1>1, <1>2, <1>3, <1>4, <1>5

-----------------------------------------------------------------------------
\* The list t is the list s with the bytes of a block.
Joined(s, t, block, start, total) ==
    /\ Ordered(t, start, total)
    /\ \A byte \in Nat :
         Listed(t, byte) <=> Listed(s, byte) \/ Holds(block, byte)

(***************************************************************************)
(* coalesce: the list gains the bytes of the block and nothing else, and   *)
(* stays without touching blocks, whichever neighbours it merges with.     *)
(***************************************************************************)
LEMMA Coalesced ==
    ASSUME NEW start \in Nat, NEW total \in Nat, start + total <= SIZE_MAX,
           NEW s, Ordered(s, start, total),
           NEW block \in FreeBlock, Sits(block, start, total),
           \A byte \in Nat : Holds(block, byte) => ~Listed(s, byte),
           NEW k \in 0..Len(s),
           \A j \in 1..k : s[j].addr < block.addr,
           \A j \in (k + 1)..Len(s) : block.addr <= s[j].addr,
           NEW g, g = coalesce(SubSeq(s, 1, k), block,
                               SubSeq(s, k + 1, Len(s)))
    PROVE  Joined(s, g, block, start, total)
<1> DEFINE before == SubSeq(s, 1, k)
           after == SubSeq(s, k + 1, Len(s))
           right == k < Len(s) /\ Stop(block) = s[k + 1].addr
           left == k > 0 /\ Stop(s[k]) = block.addr
           lo == IF left THEN k - 1 ELSE k
           hi == IF right THEN k + 2 ELSE k + 1
           addr == IF left THEN s[k].addr ELSE block.addr
           grown == IF right THEN block.size + s[k + 1].size ELSE block.size
           size == IF left THEN s[k].size + grown ELSE grown
           merged == [addr |-> addr, size |-> size]
<1>1. s \in Seq(FreeBlock) /\ Len(s) \in Nat
  BY DEF Ordered
<1>2. /\ block.addr \in Nat /\ block.size \in Nat
      /\ start <= block.addr /\ Stop(block) <= start + total
      /\ block.addr % block_align = 0 /\ block.size >= block_size
  BY DEF Sits
<1>3. \A j \in 1..Len(s) :
        /\ s[j].addr \in Nat /\ s[j].size \in Nat
        /\ start <= s[j].addr /\ Stop(s[j]) <= start + total
        /\ s[j].addr % block_align = 0 /\ s[j].size >= block_size
        /\ s[j] \in FreeBlock
  BY <1>1 DEF Ordered, Sits
<1>4. \A i, j \in 1..Len(s) : i < j => Stop(s[i]) < s[j].addr
  BY DEF Ordered, Spaced
<1>5. \A j \in 1..k : Stop(s[j]) <= block.addr
  <2> SUFFICES ASSUME NEW j \in 1..k, ~(Stop(s[j]) <= block.addr) PROVE FALSE
    OBVIOUS
  <2>1. j \in 1..Len(s) /\ s[j].addr < block.addr
    BY <1>1
  <2>2. Holds(s[j], block.addr) /\ Holds(block, block.addr)
    BY <1>2, <1>3, <2>1, SMTT(20) DEF Holds, Stop, block_size
  <2> QED
    BY <1>2, <2>1, <2>2 DEF Listed
<1>6. \A j \in (k + 1)..Len(s) : Stop(block) <= s[j].addr
  <2> SUFFICES ASSUME NEW j \in (k + 1)..Len(s), ~(Stop(block) <= s[j].addr)
               PROVE  FALSE
    OBVIOUS
  <2>1. j \in 1..Len(s) /\ block.addr <= s[j].addr
    BY <1>1
  <2>2. Holds(s[j], s[j].addr) /\ Holds(block, s[j].addr)
    BY <1>2, <1>3, <2>1 DEF Holds, Stop, block_size
  <2> QED
    BY <1>3, <2>1, <2>2 DEF Listed
<1>7. k > 0 => k \in 1..Len(s) /\ s[k] \in FreeBlock
  BY <1>1, <1>3
<1>8. k < Len(s) => k + 1 \in 1..Len(s) /\ s[k + 1] \in FreeBlock
  BY <1>1, <1>3
<1>9. /\ before # <<>> <=> k > 0
      /\ after # <<>> <=> k < Len(s)
      /\ k > 0 => Front(before) = SubSeq(s, 1, k - 1) /\ Last(before) = s[k]
      /\ k < Len(s) => /\ Head(after) = s[k + 1]
                       /\ Tail(after) = SubSeq(s, k + 2, Len(s))
  BY <1>1, Halves
<1>10. coalesce(before, block, after) = Spliced(s, lo, merged, hi)
  <2> DEFINE r == after # <<>> /\ block.addr + block.size = Head(after).addr
             b == IF r THEN [block EXCEPT !.size = @ + Head(after).size]
                       ELSE block
             rest == IF r THEN Tail(after) ELSE after
             l == /\ before # <<>>
                  /\ Last(before).addr + Last(before).size = b.addr
  <2>1. coalesce(before, block, after)
          = IF l THEN Front(before)
                        \o <<[Last(before) EXCEPT !.size = @ + b.size]>> \o rest
                 ELSE before \o <<b>> \o rest
    BY DEF coalesce
  <2>2. r <=> right
    BY <1>9 DEF Stop
  <2>3. b = [addr |-> block.addr, size |-> grown]
    <3>1. block = [addr |-> block.addr, size |-> block.size]
      BY Grow
    <3>2. ASSUME right
          PROVE  [block EXCEPT !.size = @ + s[k + 1].size]
                   = [addr |-> block.addr, size |-> block.size + s[k + 1].size]
      BY Grow
    <3> QED
      BY <1>9, <2>2, <3>1, <3>2
  <2>4. rest = SubSeq(s, hi, Len(s))
    BY <1>9, <2>2
  <2>5. b.addr = block.addr /\ b.size = grown
    BY <2>3
  <2>6. l <=> left
    BY <1>9, <2>5 DEF Stop
  <2> HIDE DEF r, b, rest, l
  <2>7. CASE left
    <3>1. Front(before) = SubSeq(s, 1, lo) /\ Last(before) = s[k]
      BY <1>9, <2>7
    <3>2. [s[k] EXCEPT !.size = @ + b.size] = merged
      <4>1. [s[k] EXCEPT !.size = @ + b.size]
              = [addr |-> s[k].addr, size |-> s[k].size + b.size]
        BY <1>7, <2>7, Grow
      <4> QED
        BY <2>5, <2>7, <4>1
    <3> HIDE DEF merged, lo, hi, before, after
    <3> QED
      BY <2>1, <2>4, <2>6, <2>7, <3>1, <3>2 DEF Spliced
  <2>8. CASE ~left
    <3>1. before = SubSeq(s, 1, lo) /\ b = merged
      BY <2>3, <2>8
    <3> HIDE DEF merged, lo, hi, before, after
    <3> QED
      BY <2>1, <2>4, <2>6, <2>8, <3>1 DEF Spliced
  <2> QED
    BY <2>7, <2>8
<1>11. /\ merged.addr = addr /\ merged.size = size
       /\ lo \in 0..Len(s) /\ hi \in (lo + 1)..(Len(s) + 1)
  BY <1>1
<1>12. /\ addr \in Nat /\ size \in Nat /\ addr % block_align = 0
       /\ start <= addr /\ size >= block_size
       /\ addr + size = IF right THEN Stop(s[k + 1]) ELSE Stop(block)
  <2>1. /\ grown \in Nat /\ grown >= block_size
        /\ block.addr + grown = IF right THEN Stop(s[k + 1]) ELSE Stop(block)
    <3>1. CASE right
      BY <1>2, <1>3, <1>8, <3>1, SMTT(20) DEF Stop, block_size
    <3>2. CASE ~right
      BY <1>2, <3>2 DEF Stop, block_size
    <3> QED
      BY <3>1, <3>2
  <2> HIDE DEF grown, right
  <2>2. CASE left
    <3>1. /\ s[k].addr \in Nat /\ s[k].size \in Nat /\ start <= s[k].addr
          /\ s[k].addr % block_align = 0
      BY <1>3, <1>7, <2>2
    <3>2. s[k].addr + s[k].size = block.addr
      BY <2>2 DEF Stop
    <3>3. addr = s[k].addr /\ size = s[k].size + grown
      BY <2>2
    <3>4. s[k].addr + (s[k].size + grown) = (s[k].addr + s[k].size) + grown
      BY <2>1, <3>1
    <3> HIDE DEF left, addr, size
    <3>5. addr + size = block.addr + grown
      BY ONLY <3>2, <3>3, <3>4
    <3>6. /\ addr \in Nat /\ size \in Nat /\ addr % block_align = 0
          /\ start <= addr /\ size >= block_size
      BY <2>1, <3>1, <3>3, SMTT(20) DEF block_size
    <3> QED
      BY ONLY <2>1, <3>5, <3>6
  <2>3. CASE ~left
    BY <1>2, <2>1, <2>3
  <2> QED
    BY <2>2, <2>3
<1>13. addr + size <= start + total
  BY <1>2, <1>3, <1>8, <1>12
<1>14. Sits(merged, start, total)
  BY <1>11, <1>12, <1>13 DEF Sits, Stop
<1>15. merged \in FreeBlock
  BY <1>14, SitsWord
<1>16. \A j \in 1..lo : Stop(s[j]) < merged.addr
  <2> SUFFICES ASSUME NEW j \in 1..lo PROVE Stop(s[j]) < addr
    BY <1>11
  <2>1. j \in 1..k /\ j \in 1..Len(s) /\ Stop(s[j]) \in Nat
    BY <1>1, <1>3 DEF Stop
  <2>2. CASE left
    BY <1>4, <1>7, <2>1, <2>2
  <2>3. CASE ~left
    <3>1. Stop(s[j]) <= block.addr
      BY <1>5, <2>1
    <3>2. CASE j = k
      BY <1>2, <2>1, <2>3, <3>1, <3>2
    <3>3. CASE j # k
      <4>1. Stop(s[j]) < s[k].addr /\ s[k].addr \in Nat /\ s[k].addr < block.addr
        BY <1>3, <1>4, <1>7, <2>1, <3>3
      <4> QED
        BY <1>2, <2>1, <2>3, <4>1
    <3> QED
      BY <3>2, <3>3
  <2> QED
    BY <2>2, <2>3
<1>17. \A j \in hi..Len(s) : Stop(merged) < s[j].addr
  <2> SUFFICES ASSUME NEW j \in hi..Len(s) PROVE addr + size < s[j].addr
    BY <1>11 DEF Stop
  <2>1. /\ j \in (k + 1)..Len(s) /\ j \in 1..Len(s) /\ s[j].addr \in Nat
        /\ k < Len(s)
    BY <1>1, <1>3
  <2>2. CASE right
    BY <1>4, <1>8, <1>12, <2>1, <2>2
  <2>3. CASE ~right
    <3>1. Stop(block) <= s[j].addr /\ Stop(block) \in Nat
      BY <1>2, <1>6, <2>1 DEF Stop
    <3>2. CASE j = k + 1
      BY <1>12, <2>1, <2>3, <3>1, <3>2
    <3>3. CASE j # k + 1
      <4>1. /\ s[k + 1].addr \in Nat /\ Stop(block) <= s[k + 1].addr
            /\ s[k + 1].size \in Nat /\ Stop(s[k + 1]) < s[j].addr
        BY <1>3, <1>4, <1>6, <1>8, <2>1, <3>3
      <4>2. Stop(s[k + 1]) \in Nat /\ s[k + 1].addr <= Stop(s[k + 1])
        BY <4>1 DEF Stop
      <4> QED
        BY <1>12, <2>1, <2>3, <3>1, <4>1, <4>2
    <3> QED
      BY <3>2, <3>3
  <2> QED
    BY <2>2, <2>3
<1> HIDE DEF merged, lo, hi
<1>18. SplicedAs(g, s, lo, merged, hi)
  BY <1>1, <1>10, <1>11, <1>15, Splice
<1>19. /\ Ordered(g, start, total)
       /\ \A byte \in Nat :
            Listed(g, byte) <=> SplicedByte(s, lo, merged, hi, byte)
  BY <1>11, <1>14, <1>15, <1>16, <1>17, <1>18, SplicedOrdered
<1>20. ASSUME NEW byte \in Nat
       PROVE  SplicedByte(s, lo, merged, hi, byte)
                <=> Listed(s, byte) \/ Holds(block, byte)
  <2> DEFINE joined == \/ Holds(block, byte)
                       \/ (left /\ Holds(s[k], byte))
                       \/ (right /\ Holds(s[k + 1], byte))
  <2>1. Holds(merged, byte) <=> joined
    <3>1. Holds(merged, byte) <=> addr <= byte /\ byte < addr + size
      BY <1>11 DEF Holds
    <3>2. /\ Holds(block, byte) <=> block.addr <= byte /\ byte < Stop(block)
          /\ Holds(s[k], byte) <=> s[k].addr <= byte /\ byte < Stop(s[k])
          /\ Holds(s[k + 1], byte)
               <=> s[k + 1].addr <= byte /\ byte < Stop(s[k + 1])
      BY DEF Holds, Stop
    <3>3. /\ Stop(block) \in Nat /\ block.addr <= Stop(block)
          /\ \A j \in 1..Len(s) : Stop(s[j]) \in Nat /\ s[j].addr <= Stop(s[j])
      BY <1>2, <1>3 DEF Stop
    <3>4. ASSUME left
          PROVE  /\ s[k].addr \in Nat /\ s[k].addr <= block.addr
                 /\ Stop(s[k]) = block.addr /\ addr = s[k].addr
      BY <1>3, <1>7, <3>3, <3>4
    <3>5. ASSUME right
          PROVE  /\ Stop(s[k + 1]) \in Nat /\ Stop(block) <= Stop(s[k + 1])
                 /\ s[k + 1].addr = Stop(block) /\ addr + size = Stop(s[k + 1])
      BY <1>3, <1>8, <1>12, <3>3, <3>5
    <3>6. ~left => addr = block.addr
      OBVIOUS
    <3>7. ~right => addr + size = Stop(block)
      BY <1>12
    <3> HIDE DEF left, right, addr, size
    <3>8. block.addr \in Nat
      BY <1>2
    <3>9. addr \in Nat /\ addr + size \in Nat
      BY <3>3, <3>4, <3>5, <3>6, <3>7, <3>8
    <3>10. CASE left /\ right
      BY ONLY byte \in Nat, <3>1, <3>2, <3>3, <3>4, <3>5, <3>8, <3>9, <3>10
           DEF joined
    <3>11. CASE left /\ ~right
      BY ONLY byte \in Nat, <3>1, <3>2, <3>3, <3>4, <3>7, <3>8, <3>9, <3>11
           DEF joined
    <3>12. CASE ~left /\ right
      BY ONLY byte \in Nat, <3>1, <3>2, <3>3, <3>5, <3>6, <3>8, <3>9, <3>12
           DEF joined
    <3>13. CASE ~left /\ ~right
      BY ONLY byte \in Nat, <3>1, <3>2, <3>3, <3>6, <3>7, <3>8, <3>9, <3>13
           DEF joined
    <3> QED
      BY <3>10, <3>11, <3>12, <3>13
  <2>2. ASSUME NEW j \in 1..Len(s), Holds(s[j], byte)
        PROVE  SplicedByte(s, lo, merged, hi, byte)
    <3>1. \/ j \in 1..lo \/ j \in hi..Len(s)
          \/ (left /\ j = k) \/ (right /\ j = k + 1)
      BY <1>1 DEF lo, hi
    <3> QED
      BY <2>1, <2>2, <3>1 DEF SplicedByte
  <2>3. 1..lo \subseteq 1..Len(s) /\ hi..Len(s) \subseteq 1..Len(s)
    BY <1>1, <1>11
  <2> QED
    BY <1>7, <1>8, <2>1, <2>2, <2>3 DEF SplicedByte, Listed
<1> QED
  BY <1>19, <1>20 DEF Joined

-----------------------------------------------------------------------------
(***************************************************************************)
(* The list t is the list s without the bytes of a block.                  *)
(***************************************************************************)
TakenOut(s, t, block, start, total) ==
    /\ Ordered(t, start, total)
    /\ \A byte \in Nat :
         /\ Listed(s, byte) <=> Listed(t, byte) \/ Holds(block, byte)
         /\ Holds(block, byte) => ~Listed(t, byte)

\* A block is handed out whole.
LEMMA TakeWhole ==
    ASSUME NEW start \in Nat, NEW total \in Nat,
           NEW s, Ordered(s, start, total), NEW i \in 1..Len(s),
           NEW t, t = RemoveAt(s, i)
    PROVE  TakenOut(s, t, s[i], start, total)
<1>1. /\ Ordered(t, start, total)
      /\ \A byte \in Nat :
           Listed(t, byte) <=>
             \E j \in 1..Len(s) : j # i /\ Holds(s[j], byte)
  BY Removed
<1>2. ASSUME NEW byte \in Nat, NEW j \in 1..Len(s), j # i
      PROVE  ~(Holds(s[i], byte) /\ Holds(s[j], byte))
  <2>1. /\ i < j => Stop(s[i]) < s[j].addr
        /\ j < i => Stop(s[j]) < s[i].addr
    BY DEF Ordered, Spaced
  <2>2. /\ s[i].addr \in Nat /\ Stop(s[i]) \in Nat
        /\ s[j].addr \in Nat /\ Stop(s[j]) \in Nat
    BY DEF Ordered, Sits, Stop
  <2>3. i < j \/ j < i
    BY <1>2 DEF Ordered
  <2>4. \A x : Holds(x, byte) <=> x.addr <= byte /\ byte < Stop(x)
    BY DEF Holds, Stop
  <2> QED
    BY <2>1, <2>2, <2>3, <2>4
<1>3. ASSUME NEW byte \in Nat
      PROVE  /\ Listed(s, byte) <=> Listed(t, byte) \/ Holds(s[i], byte)
             /\ Holds(s[i], byte) => ~Listed(t, byte)
  <2>1. Listed(t, byte) <=> \E j \in 1..Len(s) : j # i /\ Holds(s[j], byte)
    BY <1>1
  <2> QED
    BY <1>2, <2>1 DEF Listed
<1> QED
  BY <1>1, <1>3 DEF TakenOut

\* The front of a block is handed out and its rest stays in the list.
LEMMA TakeFront ==
    ASSUME NEW start \in Nat, NEW total \in Nat,
           NEW s, Ordered(s, start, total), NEW i \in 1..Len(s),
           NEW rest \in FreeBlock, Sits(rest, start, total),
           s[i].addr <= rest.addr, Stop(rest) = Stop(s[i]),
           NEW block, block.addr = s[i].addr, Stop(block) = rest.addr,
           NEW t, t = ReplaceAt(s, i, rest)
    PROVE  TakenOut(s, t, block, start, total)
<1>1. s \in Seq(FreeBlock) /\ Len(s) \in Nat
  BY DEF Ordered
<1>2. \A j \in 1..Len(s) : /\ s[j].addr \in Nat /\ Stop(s[j]) \in Nat
                           /\ s[j].addr <= Stop(s[j])
  BY DEF Ordered, Sits, Stop
<1>3. \A j, k \in 1..Len(s) : j < k => Stop(s[j]) < s[k].addr
  BY DEF Ordered, Spaced
<1>4. rest.addr \in Nat /\ rest.addr <= Stop(s[i])
  BY DEF Sits, Stop
<1>9. i - 1 \in 0..Len(s) /\ i + 1 \in ((i - 1) + 1)..(Len(s) + 1)
  BY <1>1
<1>10. SplicedAs(t, s, i - 1, rest, i + 1)
  <2> DEFINE r == [s EXCEPT ![i] = rest]
  <2>1. r \in Seq(FreeBlock) /\ Len(r) = Len(s)
    BY <1>1
  <2>2. \A j \in 1..Len(s) : r[j] = IF j = i THEN rest ELSE s[j]
    BY <1>1
  <2>3. t = r
    BY DEF ReplaceAt
  <2> HIDE DEF r
  <2>4. SplicedAs(r, s, i - 1, rest, i + 1)
    <3>1. Len(r) = Len(s) + (i - 1) + 2 - (i + 1)
      BY <1>1, <2>1
    <3>2. \A j \in 1..(i - 1) : r[j] = s[j]
      BY <1>1, <2>2
    <3>3. (i - 1) + 1 = i /\ r[i] = rest
      BY <2>2
    <3>4. \A j \in ((i - 1) + 2)..Len(r) :
            /\ j - (i - 1) - 2 + (i + 1) = j
            /\ r[j] = s[j]
      BY <1>1, <2>1, <2>2
    <3> QED
      BY <2>1, <3>1, <3>2, <3>3, <3>4 DEF SplicedAs
  <2> QED
    BY <2>3, <2>4
<1>11. \A j \in 1..(i - 1) : Stop(s[j]) < rest.addr
  <2> SUFFICES ASSUME NEW j \in 1..(i - 1) PROVE Stop(s[j]) < rest.addr
    OBVIOUS
  <2>1. j \in 1..Len(s) /\ j < i
    BY <1>1
  <2> QED
    BY <1>2, <1>3, <1>4, <2>1
<1>12. \A j \in (i + 1)..Len(s) : Stop(rest) < s[j].addr
  BY <1>1, <1>3
<1>13. /\ Ordered(t, start, total)
       /\ \A byte \in Nat :
            Listed(t, byte) <=> SplicedByte(s, i - 1, rest, i + 1, byte)
  BY <1>9, <1>10, <1>11, <1>12, SplicedOrdered
<1>14. ASSUME NEW byte \in Nat
       PROVE  /\ Listed(s, byte) <=> Listed(t, byte) \/ Holds(block, byte)
              /\ Holds(block, byte) => ~Listed(t, byte)
  <2>1. \A x : Holds(x, byte) <=> x.addr <= byte /\ byte < Stop(x)
    BY DEF Holds, Stop
  <2>2. Holds(s[i], byte) <=> Holds(block, byte) \/ Holds(rest, byte)
    BY <1>2, <1>4, <2>1
  <2>3. Holds(block, byte) => ~Holds(rest, byte)
    BY <1>2, <1>4, <2>1
  <2>4. ASSUME NEW j \in 1..Len(s), j # i
        PROVE  Holds(block, byte) => ~Holds(s[j], byte)
    <3>1. j < i \/ i < j
      BY <1>1, <2>4
    <3>2. Stop(s[j]) < s[i].addr \/ Stop(s[i]) < s[j].addr
      BY <1>3, <3>1
    <3> QED
      BY <1>2, <1>4, <2>1, <3>2
  <2>5. /\ 1..(i - 1) \subseteq 1..Len(s) \ {i}
        /\ (i + 1)..Len(s) \subseteq 1..Len(s) \ {i}
        /\ \A j \in 1..Len(s) : \/ j = i \/ j \in 1..(i - 1)
                                \/ j \in (i + 1)..Len(s)
    BY <1>1
  <2>6. Listed(t, byte) <=> SplicedByte(s, i - 1, rest, i + 1, byte)
    BY <1>13
  <2>7. Listed(s, byte) <=>
          Holds(block, byte) \/ SplicedByte(s, i - 1, rest, i + 1, byte)
    BY <2>2, <2>5 DEF Listed, SplicedByte
  <2>8. Holds(block, byte) => ~SplicedByte(s, i - 1, rest, i + 1, byte)
    BY <2>3, <2>4, <2>5 DEF SplicedByte
  <2> QED
    BY <2>6, <2>7, <2>8
<1> QED
  BY <1>13, <1>14 DEF TakenOut

\* An allocation turns bytes of the list into bytes of its own block.
LEMMA HandOut ==
    ASSUME NEW start \in Nat, NEW total \in Nat, NEW s, NEW t, NEW m, NEW n,
           NEW l, NEW x, Parted(s, m, l), Full(s, m, l, start, total),
           TakenOut(s, t, used(n, x), start, total),
           \A b \in l : used(n, b) = used(m, b)
    PROVE  Parted(t, n, l \cup {x}) /\ Full(t, n, l \cup {x}, start, total)
<1>1. \A byte \in Nat :
        /\ Listed(s, byte) <=> Listed(t, byte) \/ Holds(used(n, x), byte)
        /\ Holds(used(n, x), byte) => ~Listed(t, byte)
  BY DEF TakenOut
<1>2. \A b \in l, byte \in Nat : Holds(used(n, b), byte) => ~Listed(s, byte)
  BY DEF Parted
<1>3. \A a, b \in l, byte \in Nat :
        Holds(used(n, a), byte) /\ Holds(used(n, b), byte) => a = b
  BY DEF Parted
<1>4. ASSUME NEW byte \in Nat, start <= byte, byte < start + total
      PROVE  Listed(s, byte) \/ \E a \in l : Holds(used(n, a), byte)
  BY <1>4 DEF Full
<1> HIDE DEF used
<1>5. Parted(t, n, l \cup {x})
  BY <1>1, <1>2, <1>3 DEF Parted
<1>6. Full(t, n, l \cup {x}, start, total)
  BY <1>1, <1>4 DEF Full
<1> QED
  BY <1>5, <1>6

\* A free turns the bytes of its block into bytes of the list.
LEMMA GiveBack ==
    ASSUME NEW start \in Nat, NEW total \in Nat, NEW s, NEW t, NEW m, NEW n,
           NEW l, NEW x \in l, Parted(s, m, l), Full(s, m, l, start, total),
           \A byte \in Nat :
             Listed(t, byte) <=> Listed(s, byte) \/ Holds(used(m, x), byte),
           \A b \in l \ {x} : used(n, b) = used(m, b)
    PROVE  Parted(t, n, l \ {x}) /\ Full(t, n, l \ {x}, start, total)
<1>1. \A b \in l, byte \in Nat : Holds(used(m, b), byte) => ~Listed(s, byte)
  BY DEF Parted
<1>2. \A a, b \in l, byte \in Nat :
        Holds(used(m, a), byte) /\ Holds(used(m, b), byte) => a = b
  BY DEF Parted
<1>3. ASSUME NEW byte \in Nat, start <= byte, byte < start + total
      PROVE  Listed(s, byte) \/ \E a \in l : Holds(used(m, a), byte)
  BY <1>3 DEF Full
<1> HIDE DEF used
<1>4. Parted(t, n, l \ {x})
  BY <1>1, <1>2 DEF Parted
<1>5. Full(t, n, l \ {x}, start, total)
  BY <1>3 DEF Full
<1> QED
  BY <1>4, <1>5

-----------------------------------------------------------------------------
(***************************************************************************)
(* What a request takes out of a block, when nothing wraps.  The early     *)
(* return leaves room for the alignment; a block is aligned to 8, so its   *)
(* padding falls short of the alignment by 8, or there is none.            *)
(***************************************************************************)
LEMMA Request ==
    ASSUME NoWrap, NEW size \in Sizes, NEW align \in Aligns,
           ~BadAlign(align), size <= SIZE_MAX - align - header_size,
           NEW block, block.addr \in Nat, block.addr % block_align = 0
    PROVE  /\ block_pad(block, align) \in Nat
           /\ (block.addr + header_size + block_pad(block, align)) % align = 0
           /\ required_size(block, size, align) \in Nat
           /\ required_size(block, size, align) % block_align = 0
           /\ size + header_size + block_pad(block, align)
                <= required_size(block, size, align)
<1> DEFINE ptr == block.addr + header_size
           pad == block_pad(block, align)
           need == size + header_size + pad
<1>1. /\ align \in Nat \ {0} /\ IsPow2(align) /\ size \in Nat
      /\ SIZE_MAX \in Nat
  BY ArgAssumption, WordAssumption DEF BadAlign, Word
<1>2. ptr \in Nat /\ ptr % 8 = 0
  BY DEF header_size, block_align
<1> HIDE DEF ptr
<1>3. pad \in Nat /\ pad < align /\ (ptr + pad) % align = 0
  BY <1>1, <1>2, CalcPad DEF block_pad, ptr
<1> HIDE DEF pad
<1>4. need + (block_align - 1) <= SIZE_MAX
  <2>1. CASE align <= 8
    <3>1. 8 % align = 0
      BY <1>1, <2>1, Eight, Pow2Divides
    <3>2. ptr % align = 0
      BY <1>1, <1>2, <3>1, ModTrans
    <3>3. ptr + pad \in Nat /\ ptr <= ptr + pad /\ (ptr + pad) - ptr = pad
      BY <1>2, <1>3
    <3>4. ((ptr + pad) - ptr) % align = 0
      BY <1>1, <1>2, <1>3, <3>2, <3>3, ModSum
    <3>5. pad = 0
      <4>1. pad % align = 0
        BY <3>3, <3>4
      <4>2. PICK q \in Nat : pad = align * q
        BY <1>1, <1>3, <4>1, Multiple
      <4>3. q = 0
        <5> SUFFICES ASSUME q >= 1 PROVE FALSE
          OBVIOUS
        <5>1. align * q = align + align * (q - 1) /\ align * (q - 1) \in Nat
          BY <1>1
        <5> QED
          BY <1>1, <1>3, <4>2, <5>1
      <4> QED
        BY <1>1, <4>2, <4>3
    <3>6. size + header_size + (block_align - 1) <= SIZE_MAX
      BY DEF NoWrap
    <3> QED
      BY <1>1, <3>5, <3>6 DEF header_size, block_align
  <2>2. CASE align > 8
    <3>1. align % 8 = 0
      BY <1>1, <2>2, Eight, Pow2Divides
    <3>2. ptr + pad \in Nat /\ (ptr + pad) % 8 = 0
      <4> DEFINE x == ptr + pad
      <4>1. x \in Nat /\ x % align = 0 /\ 8 \in Nat \ {0}
        BY <1>2, <1>3
      <4> HIDE DEF x
      <4>2. x % 8 = 0
        BY ONLY <1>1, <3>1, <4>1, ModTrans
      <4> QED
        BY <4>1, <4>2 DEF x
    <3>3. pad % 8 = 0
      <4>1. ptr <= ptr + pad /\ (ptr + pad) - ptr = pad
        BY <1>2, <1>3
      <4> DEFINE x == ptr + pad
      <4>2. x \in Nat /\ x % 8 = 0 /\ ptr <= x /\ x - ptr = pad
        BY <3>2, <4>1
      <4> HIDE DEF x
      <4>3. 8 \in Nat \ {0}
        OBVIOUS
      <4>4. (x - ptr) % 8 = 0
        BY ONLY <1>2, <4>2, <4>3, ModSum
      <4> QED
        BY <4>2, <4>4
    <3>4. align - pad >= 8
      <4>1. (align - pad) % 8 = 0 /\ align - pad \in Nat \ {0}
        BY <1>1, <1>3, <3>1, <3>3, ModSum
      <4> QED
        BY <4>1
    <3> QED
      BY <1>1, <1>3, <3>4 DEF header_size, block_align
  <2> QED
    BY <1>1, <2>1, <2>2
<1>5. need \in Nat /\ block_align \in Nat \ {0}
  BY <1>1, <1>3 DEF header_size, block_align
<1>6. required_size(block, size, align) = align_up(need, block_align)
  BY DEF required_size, pad
<1> HIDE DEF need
<1>7. /\ align_up(need, block_align) \in Nat
      /\ need <= align_up(need, block_align)
      /\ align_up(need, block_align) % block_align = 0
  BY <1>4, <1>5, AlignUpFits
<1> QED
  BY <1>3, <1>6, <1>7 DEF need, pad, ptr

\* Two blocks without a common byte lie one behind the other.
LEMMA Apart ==
    ASSUME NEW start \in Nat, NEW total \in Nat, NEW x, NEW y,
           Sits(x, start, total), Sits(y, start, total),
           \A byte \in Nat : ~(Holds(x, byte) /\ Holds(y, byte))
    PROVE  Stop(x) <= y.addr \/ Stop(y) <= x.addr
<1>1. /\ x.addr \in Nat /\ Stop(x) \in Nat /\ x.addr < Stop(x)
      /\ y.addr \in Nat /\ Stop(y) \in Nat /\ y.addr < Stop(y)
  BY DEF Sits, Stop, block_size
<1>2. \A byte \in Nat : ~( /\ x.addr <= byte /\ byte < Stop(x)
                           /\ y.addr <= byte /\ byte < Stop(y))
  BY DEF Holds, Stop
<1>3. CASE x.addr <= y.addr
  BY <1>1, <1>2, <1>3
<1>4. CASE y.addr < x.addr
  BY <1>1, <1>2, <1>4
<1> QED
  BY <1>1, <1>3, <1>4

\* A header that a write leaves in place still says the same.
LEMMA SameBlock ==
    ASSUME NEW m, NEW n, NEW b, n[b.ptr - header_size] = m[b.ptr - header_size]
    PROVE  used(n, b) = used(m, b)
  BY DEF used

\* The least element of a set of positions.
LEMMA MinIn ==
    ASSUME NEW T \in SUBSET Nat, T # {}
    PROVE  Min(T) \in T /\ \A y \in T : Min(T) <= y
<1>1. PICK n : n \in T
  OBVIOUS
<1>2. \E x \in T : \A y \in T : x <= y
  BY <1>1, NatMin
<1> QED
  BY <1>2 DEF Min

\* A region that is there lies below SIZE_MAX, in numbers.
LEMMA RegionFacts ==
    ASSUME IndInv, alive
    PROVE  /\ m_start_ptr \in Nat /\ m_total_size \in Nat /\ SIZE_MAX \in Nat
           /\ m_start_ptr + m_total_size <= SIZE_MAX
           /\ Ordered(free_list, m_start_ptr, m_total_size)
           /\ free_list \in Seq(FreeBlock) /\ Len(free_list) \in Nat
           /\ DOMAIN free_list = 1..Len(free_list)
           /\ \A b \in live : Owned(mem, b, m_start_ptr, m_total_size)
<1>1. TypeOK /\ Region /\ Heap
  BY DEF IndInv
<1>2. m_start_ptr \in Nat /\ m_total_size \in Nat /\ SIZE_MAX \in Nat
  BY <1>1, WordAssumption DEF TypeOK, Word
<1>3. m_start_ptr + m_total_size <= SIZE_MAX
  BY <1>1, <1>2 DEF Region, NULL
<1>4. Ordered(free_list, m_start_ptr, m_total_size)
  BY <1>1 DEF Heap
<1>5. free_list \in Seq(FreeBlock)
  BY <1>4 DEF Ordered
<1>6. Len(free_list) \in Nat /\ DOMAIN free_list = 1..Len(free_list)
  BY <1>5
<1> QED
  BY <1>1, <1>2, <1>3, <1>4, <1>5, <1>6 DEF Heap

\* What is known of an allocation, in numbers.
LEMMA OwnedFacts ==
    ASSUME NEW start \in Nat, NEW total \in Nat, NEW m, NEW b,
           Owned(m, b, start, total)
    PROVE  /\ b.ptr \in Nat /\ b.size \in Nat /\ b.size > 0
           /\ b.align \in Nat /\ b.align > 0 /\ b.ptr % b.align = 0
           /\ b.ptr - header_size \in DOMAIN m
           /\ Sits(used(m, b), start, total)
           /\ used(m, b).addr \in Nat /\ Stop(used(m, b)) \in Nat
           /\ used(m, b).addr + header_size <= b.ptr
           /\ b.ptr + b.size <= Stop(used(m, b))
<1>1. b \in Allocation /\ Sits(used(m, b), start, total)
  BY DEF Owned
<1>2. b.ptr \in Nat /\ b.size \in Nat /\ b.align \in Nat
  BY <1>1, WordAssumption DEF Allocation, Word
<1>3. used(m, b).addr \in Nat /\ Stop(used(m, b)) \in Nat
  <2> HIDE DEF used
  <2> QED
    BY <1>1 DEF Sits, Stop
<1> QED
  BY <1>1, <1>2, <1>3 DEF Owned, End

-----------------------------------------------------------------------------
(***************************************************************************)
(* A request that is served: its block comes out of the list, the header   *)
(* in front of the data describes it, and the other headers are intact.    *)
(***************************************************************************)
Served(ptr, size, align) ==
    LET new == [ptr |-> ptr, size |-> size, align |-> align] IN
    /\ live' = live \cup {new}
    /\ Owned(mem', new, m_start_ptr, m_total_size)
    /\ TakenOut(free_list, free_list', used(mem', new),
                m_start_ptr, m_total_size)
    /\ \A b \in live : /\ b.ptr - header_size \in DOMAIN mem'
                       /\ mem'[b.ptr - header_size] = mem[b.ptr - header_size]

\* alloc_raw serves the request from one block of the list.
LEMMA AllocFacts ==
    ASSUME NoWrap, IndInv, alive, NEW size \in Sizes, NEW align \in Aligns,
           alloc_raw(size, align)
    PROVE  /\ \E ptr \in Word : Served(ptr, size, align)
           /\ DOMAIN mem' \subseteq Word
           /\ \A h \in DOMAIN mem' : mem'[h] \in AllocHeader
           /\ UNCHANGED <<alive, m_start_ptr, m_total_size>>
<1> DEFINE start == m_start_ptr
           total == m_total_size
           i == Min(fitting(size, align))
           curr == free_list[i]
           required == required_size(curr, size, align)
           pad == block_pad(curr, align)
           rest == [addr |-> curr.addr + required, size |-> curr.size - required]
           split == splits(curr, required)
           header_ptr == curr.addr + pad
           held == IF split THEN required ELSE curr.size
           header == [size |-> held, pad |-> pad]
           data_ptr == header_ptr + header_size
           rest_end == IF split THEN rest.addr + block_size ELSE rest.addr
           kept == Untouched(header_ptr, data_ptr + size)
                     \cap Untouched(rest.addr, rest_end)
           new == [ptr |-> data_ptr, size |-> size, align |-> align]
           block == [addr |-> curr.addr, size |-> held]
<1>1. /\ fits(size, align)
      /\ free_list' = IF split THEN ReplaceAt(free_list, i, rest)
                               ELSE RemoveAt(free_list, i)
      /\ mem' = [h \in kept \cup {header_ptr} |->
                   IF h = header_ptr THEN header ELSE mem[h]]
      /\ live' = live \cup {new}
      /\ UNCHANGED <<alive, m_start_ptr, m_total_size>>
  BY DEF alloc_raw
<1>2. /\ start \in Nat /\ total \in Nat /\ SIZE_MAX \in Nat
      /\ start + total <= SIZE_MAX
      /\ Ordered(free_list, start, total)
      /\ free_list \in Seq(FreeBlock) /\ Len(free_list) \in Nat
      /\ DOMAIN free_list = 1..Len(free_list)
      /\ \A b \in live : Owned(mem, b, start, total)
  BY RegionFacts
<1>3. /\ ~BadAlign(align) /\ size > 0 /\ align > 0
      /\ size <= SIZE_MAX - align - header_size
      /\ size \in Word /\ align \in Word /\ size \in Nat /\ align \in Nat
  BY <1>1, ArgAssumption, WordAssumption DEF fits, BadAlign, IsPow2, Word
<1>4. i \in 1..Len(free_list) /\ curr.size >= required
  <2>1. fitting(size, align) \subseteq 1..Len(free_list)
    BY <1>2 DEF fitting
  <2>2. fitting(size, align) # {}
    BY <1>1 DEF fits
  <2>3. i \in fitting(size, align)
    BY <2>1, <2>2, MinIn
  <2> QED
    BY <2>1, <2>3 DEF fitting
<1> HIDE DEF i
<1>5. Sits(curr, start, total) /\ curr \in FreeBlock
  BY <1>2, <1>4 DEF Ordered
<1> HIDE DEF curr
<1>6. /\ curr.addr \in Nat /\ curr.size \in Nat /\ start <= curr.addr
      /\ curr.addr + curr.size <= start + total
      /\ curr.addr % block_align = 0 /\ curr.size >= block_size
  BY <1>5 DEF Sits, Stop
<1>7. /\ pad \in Nat /\ (curr.addr + header_size + pad) % align = 0
      /\ required \in Nat /\ required % block_align = 0
      /\ size + header_size + pad <= required
  BY <1>3, <1>6, Request
<1> HIDE DEF required, pad
<1>8. split <=> curr.size - required >= block_size
  BY DEF splits
<1> HIDE DEF split
<1>9. /\ held \in Nat /\ size + header_size + pad <= held /\ held <= curr.size
  <2>1. CASE split
    BY <1>3, <1>4, <1>6, <1>7, <2>1 DEF header_size
  <2>2. CASE ~split
    BY <1>3, <1>4, <1>6, <1>7, <2>2 DEF header_size
  <2> QED
    BY <2>1, <2>2
<1>10. /\ header_ptr \in Nat /\ data_ptr \in Nat
       /\ data_ptr - header_size = header_ptr /\ header_ptr - pad = curr.addr
       /\ data_ptr = curr.addr + header_size + pad
  BY <1>6, <1>7 DEF header_size
<1>11. /\ curr.addr <= header_ptr /\ header_ptr < curr.addr + curr.size
       /\ curr.addr + header_size <= data_ptr
       /\ data_ptr + size \in Nat /\ data_ptr + size <= curr.addr + held
       /\ data_ptr + size <= curr.addr + curr.size
       /\ curr.addr + curr.size <= SIZE_MAX
  <2> HIDE DEF held
  <2>1. curr.addr <= header_ptr /\ curr.addr + header_size <= data_ptr
    BY <1>6, <1>7 DEF header_size
  <2>2. header_ptr < curr.addr + curr.size
    BY <1>3, <1>6, <1>7, <1>9 DEF header_size
  <2>3. data_ptr + size \in Nat /\ data_ptr + size <= curr.addr + held
    BY <1>3, <1>6, <1>7, <1>9 DEF header_size
  <2>4. data_ptr + size <= curr.addr + curr.size
    BY <1>3, <1>6, <1>7, <1>9 DEF header_size
  <2>5. curr.addr + curr.size <= SIZE_MAX
    BY <1>2, <1>6
  <2> QED
    BY <2>1, <2>2, <2>3, <2>4, <2>5
<1> HIDE DEF held, header_ptr, data_ptr
<1>12. /\ new.ptr = data_ptr /\ new.size = size /\ new.align = align
       /\ header.size = held /\ header.pad = pad
       /\ block.addr = curr.addr /\ block.size = held
       /\ rest.addr = curr.addr + required /\ rest.size = curr.size - required
  OBVIOUS
<1> HIDE DEF new, block, header
<1>13. used(mem', new) = block /\ Sits(block, start, total)
  <2>1. new.ptr - header_size = header_ptr
    BY <1>10, <1>12
  <2>2. mem'[header_ptr] = header
    BY <1>1
  <2>3. used(mem', new) = [addr |-> header_ptr - header.pad, size |-> header.size]
    BY ONLY <2>1, <2>2 DEF used
  <2>4. header_ptr - header.pad = curr.addr /\ header.size = held
    BY <1>10, <1>12
  <2>5. used(mem', new) = block
    BY ONLY <2>3, <2>4 DEF block
  <2>6. /\ held >= block_size /\ curr.addr + held <= start + total
    BY <1>2, <1>3, <1>6, <1>7, <1>9 DEF header_size, block_size
  <2>7. Sits(block, start, total)
    BY <1>6, <1>9, <1>12, <2>6 DEF Sits, Stop
  <2> QED
    BY <2>5, <2>7
<1>14. TakenOut(free_list, free_list', block, start, total)
  <2>1. CASE split
    <3>1. /\ rest.addr \in Nat /\ rest.size \in Nat /\ rest.size >= block_size
          /\ curr.addr <= rest.addr /\ rest.addr + rest.size = curr.addr + curr.size
          /\ block.addr + block.size = rest.addr
      BY <1>4, <1>6, <1>7, <1>8, <1>12, <2>1 DEF held
    <3>2. rest.addr % block_align = 0
      BY <1>6, <1>7, <1>12, ModSum DEF block_align
    <3>3. Sits(rest, start, total)
      BY <1>2, <1>6, <3>1, <3>2 DEF Sits, Stop
    <3>4. rest \in FreeBlock
      BY <1>2, <3>3, SitsWord
    <3>5. free_list' = ReplaceAt(free_list, i, rest)
      BY <1>1, <2>1
    <3> HIDE DEF rest
    <3>6. /\ free_list[i].addr <= rest.addr /\ Stop(rest) = Stop(free_list[i])
          /\ block.addr = free_list[i].addr /\ Stop(block) = rest.addr
      BY <1>12, <3>1 DEF Stop, curr
    <3> QED
      BY ONLY <1>2, <1>4, <3>3, <3>4, <3>5, <3>6, TakeFront
  <2>2. CASE ~split
    <3>1. free_list' = RemoveAt(free_list, i)
      BY <1>1, <2>2
    <3>2. block = free_list[i]
      <4>1. curr = [addr |-> curr.addr, size |-> curr.size]
        BY <1>5, Grow
      <4> QED
        BY <2>2, <4>1 DEF curr, held, block
    <3>3. TakenOut(free_list, free_list', free_list[i], start, total)
      BY ONLY <1>2, <1>4, <3>1, TakeWhole
    <3> QED
      BY <3>2, <3>3
  <2> QED
    BY <2>1, <2>2
<1>15. header_ptr \in Word /\ data_ptr \in Word /\ header \in AllocHeader
  <2>1. held <= SIZE_MAX /\ pad <= SIZE_MAX
    <3>1. curr.size <= SIZE_MAX
      BY <1>2, <1>6, <1>11
    <3> QED
      BY <1>2, <1>3, <1>6, <1>7, <1>9, <3>1, SMTT(20) DEF header_size
  <2>2. header_ptr <= SIZE_MAX /\ data_ptr <= SIZE_MAX
    BY <1>2, <1>3, <1>6, <1>10, <1>11, SMTT(20)
  <2>3. header \in AllocHeader
    BY <1>2, <1>7, <1>9, <2>1 DEF AllocHeader, header, Word
  <2> QED
    BY <1>2, <1>10, <2>2, <2>3 DEF Word
<1>16. Owned(mem', new, start, total)
  <2>1. new \in Allocation
    BY <1>3, <1>15 DEF Allocation, new
  <2>2. new.ptr - header_size \in DOMAIN mem'
    BY <1>1, <1>10, <1>12
  <2>3. new.ptr % new.align = 0
    BY <1>7, <1>10, <1>12
  <2>4. used(mem', new).addr + header_size <= new.ptr
    BY <1>11, <1>12, <1>13
  <2>5. End(new) <= Stop(used(mem', new))
    BY <1>11, <1>12, <1>13 DEF End, Stop
  <2> QED
    BY <1>3, <1>12, <1>13, <2>1, <2>2, <2>3, <2>4, <2>5 DEF Owned
<1>17. /\ rest_end \in Nat /\ rest.addr \in Nat /\ curr.addr <= rest.addr
       /\ rest_end <= curr.addr + curr.size
  <2>1. CASE split
    BY <1>4, <1>6, <1>7, <1>8, <2>1, SMTT(20) DEF block_size
  <2>2. CASE ~split
    BY <1>4, <1>6, <1>7, <2>2
  <2> QED
    BY <2>1, <2>2
<1> HIDE DEF rest, rest_end
<1>18. ASSUME NEW b \in live
       PROVE  /\ b.ptr - header_size \in DOMAIN mem'
              /\ mem'[b.ptr - header_size] = mem[b.ptr - header_size]
  <2> DEFINE hb == b.ptr - header_size
             its == used(mem, b)
  <2>1. /\ b.ptr \in Nat /\ b.size \in Nat /\ b.size > 0 /\ hb \in DOMAIN mem
        /\ Sits(its, start, total) /\ its.addr \in Nat /\ Stop(its) \in Nat
        /\ its.addr + header_size <= b.ptr /\ b.ptr + b.size <= Stop(its)
    BY <1>2, OwnedFacts
  <2>2. ASSUME NEW byte \in Nat
        PROVE  ~(Holds(its, byte) /\ Holds(curr, byte))
    <3>1. Holds(its, byte) => ~Listed(free_list, byte)
      BY DEF IndInv, Heap, Parted
    <3>2. Holds(curr, byte) => Listed(free_list, byte)
      BY <1>4 DEF Listed, curr
    <3> QED
      BY <3>1, <3>2
  <2> HIDE DEF its
  <2>3. Stop(its) <= curr.addr \/ Stop(curr) <= its.addr
    BY ONLY <1>2, <1>5, <2>1, <2>2, Apart
  <2>4. /\ hb \in Nat /\ its.addr <= hb /\ hb + header_size < Stop(its)
    BY <2>1 DEF header_size
  <2> HIDE DEF hb
  <2>5. hb + header_size <= curr.addr \/ curr.addr + curr.size <= hb
    BY <1>6, <2>1, <2>3, <2>4 DEF Stop, header_size
  <2>6. hb \in Untouched(header_ptr, data_ptr + size)
    BY <1>6, <1>10, <1>11, <2>1, <2>4, <2>5 DEF Untouched, header_size
  <2>7. hb \in Untouched(rest.addr, rest_end)
    BY <1>6, <1>17, <2>1, <2>4, <2>5 DEF Untouched, header_size
  <2>8. hb # header_ptr
    BY <1>6, <1>10, <1>11, <2>4, <2>5 DEF header_size
  <2> HIDE DEF kept
  <2>9. hb \in kept
    BY <2>6, <2>7 DEF kept
  <2>10. hb \in DOMAIN mem' /\ mem'[hb] = mem[hb]
    BY <1>1, <2>8, <2>9
  <2> QED
    BY <2>10 DEF hb
<1>19. Served(data_ptr, size, align)
  BY <1>1, <1>13, <1>14, <1>16, <1>18 DEF Served, new
<1>20. kept \subseteq DOMAIN mem
  BY DEF Untouched
<1>21. DOMAIN mem \subseteq Word /\ \A h \in DOMAIN mem : mem[h] \in AllocHeader
  BY DEF IndInv, TypeOK
<1> HIDE DEF kept
<1>22. /\ DOMAIN mem' \subseteq Word
       /\ \A h \in DOMAIN mem' : mem'[h] \in AllocHeader
  BY <1>1, <1>15, <1>20, <1>21
<1> QED
  BY <1>1, <1>15, <1>19, <1>22

\* A header that is still there describes the same block.
LEMMA StillOwned ==
    ASSUME NEW start, NEW total, NEW m, NEW n, NEW b,
           Owned(m, b, start, total), b.ptr - header_size \in DOMAIN n,
           used(n, b) = used(m, b)
    PROVE  Owned(n, b, start, total)
<1> HIDE DEF used
<1> QED
  BY DEF Owned

\* alloc_raw keeps the invariant.
LEMMA AllocInv ==
    ASSUME NoWrap, IndInv, alive, NEW size \in Sizes, NEW align \in Aligns,
           alloc_raw(size, align)
    PROVE  IndInv'
<1>1. PICK ptr \in Word : Served(ptr, size, align)
  BY AllocFacts
<1>2. /\ DOMAIN mem' \subseteq Word
      /\ \A h \in DOMAIN mem' : mem'[h] \in AllocHeader
      /\ UNCHANGED <<alive, m_start_ptr, m_total_size>>
  BY AllocFacts
<1> DEFINE new == [ptr |-> ptr, size |-> size, align |-> align]
           start == m_start_ptr
           total == m_total_size
<1>3. /\ live' = live \cup {new}
      /\ Owned(mem', new, start, total)
      /\ TakenOut(free_list, free_list', used(mem', new), start, total)
      /\ \A b \in live : /\ b.ptr - header_size \in DOMAIN mem'
                         /\ mem'[b.ptr - header_size] = mem[b.ptr - header_size]
  BY <1>1 DEF Served
<1> HIDE DEF new
<1>4. start \in Nat /\ total \in Nat
  BY RegionFacts
<1>5. \A b \in live : used(mem', b) = used(mem, b)
  BY <1>3, SameBlock
<1>6. \A b \in live : Owned(mem', b, start, total)
  BY <1>3, <1>5, RegionFacts, StillOwned
<1>7. Parted(free_list, mem, live) /\ Full(free_list, mem, live, start, total)
  BY DEF IndInv, Heap
<1>8. /\ Parted(free_list', mem', live \cup {new})
      /\ Full(free_list', mem', live \cup {new}, start, total)
  BY ONLY <1>3, <1>4, <1>5, <1>7, HandOut
<1>9. Ordered(free_list', start, total)
  BY <1>3 DEF TakenOut
<1>10. Heap'
  BY <1>2, <1>3, <1>6, <1>8, <1>9 DEF Heap
<1>11. TypeOK'
  <2>1. free_list' \in Seq(FreeBlock)
    BY <1>9 DEF Ordered
  <2>2. live' \subseteq Allocation
    BY <1>3 DEF IndInv, TypeOK, Owned
  <2> QED
    BY <1>2, <2>1, <2>2 DEF IndInv, TypeOK
<1>12. Region'
  BY <1>2 DEF IndInv, Region
<1> QED
  BY <1>2, <1>10, <1>11, <1>12 DEF IndInv

-----------------------------------------------------------------------------
\* Where the walk stops, everything before is below and nothing behind is.
LEMMA Position ==
    ASSUME NEW start \in Nat, NEW total \in Nat,
           Ordered(free_list, start, total), NEW addr \in Nat
    PROVE  /\ position(addr) - 1 \in 0..Len(free_list)
           /\ \A j \in 1..(position(addr) - 1) : free_list[j].addr < addr
           /\ \A j \in position(addr)..Len(free_list) : addr <= free_list[j].addr
<1> DEFINE T == {i \in DOMAIN free_list : free_list[i].addr >= addr}
                  \cup {Len(free_list) + 1}
           i == position(addr)
<1>1. /\ free_list \in Seq(FreeBlock) /\ Len(free_list) \in Nat
      /\ DOMAIN free_list = 1..Len(free_list)
  BY DEF Ordered
<1>2. \A j \in 1..Len(free_list) :
        free_list[j].addr \in Nat /\ Stop(free_list[j]) \in Nat
          /\ free_list[j].addr <= Stop(free_list[j])
  BY DEF Ordered, Sits, Stop
<1>3. \A j, k \in 1..Len(free_list) :
        j < k => Stop(free_list[j]) < free_list[k].addr
  BY DEF Ordered, Spaced
<1>4. T \in SUBSET Nat /\ T # {}
  BY <1>1
<1>5. i \in T /\ \A y \in T : i <= y
  BY <1>4, MinIn DEF position
<1> HIDE DEF i
<1>6. i \in 1..(Len(free_list) + 1)
  BY <1>1, <1>5
<1>7. ASSUME NEW j \in 1..(i - 1) PROVE free_list[j].addr < addr
  <2>1. j \in 1..Len(free_list) /\ ~(i <= j)
    BY <1>1, <1>6
  <2>2. j \notin T
    BY <1>5, <2>1
  <2> QED
    BY <1>1, <1>2, <2>1, <2>2
<1>8. ASSUME NEW j \in i..Len(free_list) PROVE addr <= free_list[j].addr
  <2>1. i \in 1..Len(free_list) /\ j \in 1..Len(free_list)
    BY <1>1, <1>6
  <2>2. free_list[i].addr >= addr
    BY <1>1, <1>5, <2>1
  <2>3. j = i \/ i < j
    BY <1>1, <1>6
  <2> QED
    BY <1>2, <1>3, <2>1, <2>2, <2>3
<1> QED
  BY <1>1, <1>6, <1>7, <1>8 DEF i

\* free_raw keeps the invariant, insertion and coalescing included.
LEMMA FreeInv ==
    ASSUME IndInv, alive, NEW a \in live, free_raw(a)
    PROVE  IndInv'
<1> DEFINE start == m_start_ptr
           total == m_total_size
           new == origin(a.ptr - header_size)
           i == position(new.addr)
           k == i - 1
           kept == Untouched(new.addr, new.addr + block_size)
<1>1. /\ free_list' = coalesce(SubSeq(free_list, 1, i - 1), new,
                               SubSeq(free_list, i, Len(free_list)))
      /\ mem' = [h \in kept |-> mem[h]]
      /\ live' = live \ {a}
      /\ UNCHANGED <<alive, m_start_ptr, m_total_size>>
  BY DEF free_raw
<1>2. new = used(mem, a)
  BY DEF origin, used
<1>3. /\ start \in Nat /\ total \in Nat /\ start + total <= SIZE_MAX
      /\ Ordered(free_list, start, total)
      /\ Len(free_list) \in Nat
      /\ \A b \in live : Owned(mem, b, start, total)
  BY RegionFacts
<1>4. Sits(new, start, total)
  BY <1>2, <1>3 DEF Owned
<1>5. new \in FreeBlock
  BY <1>3, <1>4, SitsWord DEF origin
<1>6. new.addr \in Nat /\ new.addr + block_size <= Stop(new) /\ Stop(new) \in Nat
  <2> HIDE DEF new
  <2> QED
    BY <1>4 DEF Sits, Stop, block_size
<1> HIDE DEF new
<1>7. /\ k \in 0..Len(free_list)
      /\ \A j \in 1..k : free_list[j].addr < new.addr
      /\ \A j \in i..Len(free_list) : new.addr <= free_list[j].addr
  BY <1>3, <1>6, Position
<1>8. i = k + 1
  <2>1. i \in Nat
    <3> DEFINE T == {x \in DOMAIN free_list : free_list[x].addr >= new.addr}
                      \cup {Len(free_list) + 1}
    <3>1. T \in SUBSET Nat /\ T # {}
      BY <1>3, RegionFacts
    <3> QED
      BY <3>1, MinIn DEF position
  <2> QED
    BY <2>1
<1> HIDE DEF i
<1>9. \A byte \in Nat : Holds(new, byte) => ~Listed(free_list, byte)
  BY <1>2 DEF IndInv, Heap, Parted
<1>10. free_list' = coalesce(SubSeq(free_list, 1, k), new,
                             SubSeq(free_list, k + 1, Len(free_list)))
  BY <1>1, <1>8
<1>11. \A j \in (k + 1)..Len(free_list) : new.addr <= free_list[j].addr
  BY <1>7, <1>8
<1> HIDE DEF k
<1>12. /\ Ordered(free_list', start, total)
       /\ \A byte \in Nat : Listed(free_list', byte) <=>
                               Listed(free_list, byte) \/ Holds(new, byte)
  <2>1. \A j \in 1..k : free_list[j].addr < new.addr
    BY <1>7
  <2>2. k \in 0..Len(free_list)
    BY <1>7
  <2>3. Joined(free_list, free_list', new, start, total)
    BY ONLY <1>3, <1>4, <1>5, <1>9, <1>10, <1>11, <2>1, <2>2, Coalesced
  <2> QED
    BY <2>3 DEF Joined
<1>13. ASSUME NEW b \in live \ {a}
       PROVE  /\ b.ptr - header_size \in DOMAIN mem'
              /\ mem'[b.ptr - header_size] = mem[b.ptr - header_size]
  <2> DEFINE hb == b.ptr - header_size
             its == used(mem, b)
  <2>1. /\ b.ptr \in Nat /\ b.size \in Nat /\ b.size > 0 /\ hb \in DOMAIN mem
        /\ Sits(its, start, total) /\ its.addr \in Nat /\ Stop(its) \in Nat
        /\ its.addr + header_size <= b.ptr /\ b.ptr + b.size <= Stop(its)
    BY <1>3, OwnedFacts
  <2>2. ASSUME NEW byte \in Nat
        PROVE  ~(Holds(its, byte) /\ Holds(new, byte))
    BY <1>2 DEF IndInv, Heap, Parted
  <2> HIDE DEF its
  <2>3. Stop(its) <= new.addr \/ Stop(new) <= its.addr
    BY ONLY <1>3, <1>4, <2>1, <2>2, Apart
  <2>4. /\ hb \in Nat /\ its.addr <= hb /\ hb + header_size < Stop(its)
    BY <2>1 DEF header_size
  <2> HIDE DEF hb
  <2>5. hb + header_size <= new.addr \/ new.addr + block_size <= hb
    BY <1>6, <2>1, <2>3, <2>4 DEF header_size, block_size
  <2>6. hb \in kept
    BY <1>6, <2>1, <2>4, <2>5 DEF Untouched, block_size
  <2> HIDE DEF kept
  <2>7. hb \in DOMAIN mem' /\ mem'[hb] = mem[hb]
    BY <1>1, <2>6
  <2> QED
    BY <2>7 DEF hb
<1>14. \A b \in live \ {a} : used(mem', b) = used(mem, b)
  BY <1>13, SameBlock
<1>15. \A b \in live \ {a} : Owned(mem', b, start, total)
  BY <1>3, <1>13, <1>14, StillOwned
<1>16. Parted(free_list, mem, live) /\ Full(free_list, mem, live, start, total)
  BY DEF IndInv, Heap
<1>17. \A byte \in Nat : Listed(free_list', byte) <=>
                           Listed(free_list, byte) \/ Holds(used(mem, a), byte)
  BY <1>2, <1>12
<1>18. /\ Parted(free_list', mem', live \ {a})
       /\ Full(free_list', mem', live \ {a}, start, total)
  BY ONLY <1>3, <1>14, <1>16, <1>17, a \in live, GiveBack
<1>19. Heap'
  BY <1>1, <1>12, <1>15, <1>18 DEF Heap
<1>20. TypeOK'
  <2>1. free_list' \in Seq(FreeBlock)
    BY <1>12 DEF Ordered
  <2>2. kept \subseteq DOMAIN mem
    BY DEF Untouched
  <2>3. DOMAIN mem \subseteq Word /\ \A h \in DOMAIN mem : mem[h] \in AllocHeader
    BY DEF IndInv, TypeOK
  <2> HIDE DEF kept
  <2>4. /\ DOMAIN mem' \subseteq Word
        /\ \A h \in DOMAIN mem' : mem'[h] \in AllocHeader
    BY <1>1, <2>2, <2>3
  <2> QED
    BY <1>1, <2>1, <2>4 DEF IndInv, TypeOK
<1>21. Region'
  BY <1>1 DEF IndInv, Region
<1> QED
  BY <1>1, <1>19, <1>20, <1>21 DEF IndInv

-----------------------------------------------------------------------------
\* clear() and the constructor: one block, and nobody has any of it.
LEMMA OneBlock ==
    ASSUME Region, m_start_ptr \in Nat, m_total_size \in Nat,
           NEW s, s = one_block(m_start_ptr, m_total_size), NEW m
    PROVE  /\ Ordered(s, m_start_ptr, m_total_size)
           /\ Parted(s, m, {})
           /\ Full(s, m, {}, m_start_ptr, m_total_size)
<1> DEFINE start == m_start_ptr
           total == m_total_size
           all == [addr |-> start, size |-> total]
<1>1. Parted(s, m, {})
  BY DEF Parted
<1>2. CASE m_start_ptr = NULL
  <2>1. s = <<>> /\ total = 0
    BY <1>2 DEF one_block, Region
  <2>2. s \in Seq(FreeBlock) /\ 1..Len(s) = {}
    BY <2>1
  <2>3. Ordered(s, start, total)
    BY <2>2 DEF Ordered, Spaced
  <2>4. Full(s, m, {}, start, total)
    BY <1>2, <2>1 DEF Full, NULL
  <2> QED
    BY <1>1, <2>3, <2>4
<1>3. CASE m_start_ptr # NULL
  <2>1. s = <<all>>
    BY <1>3 DEF one_block
  <2>2. Sits(all, start, total)
    BY <1>3 DEF Region, Sits, Stop
  <2>3. all \in FreeBlock
    BY <1>3, <2>2, SitsWord DEF Region
  <2>4. ASSUME NEW byte \in Nat, start <= byte, byte < start + total
        PROVE  Holds(all, byte)
    BY <2>4 DEF Holds
  <2> HIDE DEF all
  <2>5. s \in Seq(FreeBlock) /\ 1..Len(s) = {1} /\ s[1] = all
    BY <2>1, <2>3
  <2>6. Ordered(s, start, total)
    BY <2>2, <2>5 DEF Ordered, Spaced
  <2>7. Full(s, m, {}, start, total)
    BY <2>4, <2>5 DEF Full, Listed
  <2> QED
    BY <1>1, <2>6, <2>7
<1> QED
  BY <1>2, <1>3

\* The constructor, with a mapping or without, establishes the invariant.
LEMMA InitInv == Init => IndInv
<1> SUFFICES ASSUME Init PROVE IndInv
  OBVIOUS
<1>1. /\ alive = TRUE /\ live = {} /\ mem = <<>>
      /\ free_list = one_block(m_start_ptr, m_total_size)
  BY DEF Init
<1>2. PICK size \in CtorSizes :
        /\ m_start_ptr \in (IF size = 0 THEN {NULL}
                            ELSE os_alloc(align_up(size, PAGE_SIZE)))
        /\ m_total_size = IF m_start_ptr = NULL THEN 0
                          ELSE align_up(size, PAGE_SIZE)
  BY DEF Init
<1> DEFINE total == align_up(size, PAGE_SIZE)
<1>3. size \in Nat /\ PAGE_SIZE \in Nat \ {0} /\ SIZE_MAX \in Nat
  BY ArgAssumption, WordAssumption, PageAssumption DEF Word
<1>4. total \in Word /\ total % PAGE_SIZE = 0 /\ total \in Nat
  BY <1>3, AlignUpWord, AlignUpMultiple, WordAssumption DEF Word
<1> HIDE DEF total
<1>5. m_start_ptr \in Word /\ m_total_size \in Word
  <2>1. NULL \in Word /\ 0 \in Word
    BY <1>3 DEF Word, NULL
  <2>2. size # 0 => m_start_ptr \in Word
    BY <1>2, <1>4, OsAlloc DEF total
  <2>3. size = 0 => m_start_ptr = NULL
    BY <1>2
  <2>4. m_total_size \in {0, total}
    BY <1>2 DEF total
  <2> QED
    BY <1>4, <2>1, <2>2, <2>3, <2>4
<1>6. Region
  <2>1. CASE m_start_ptr = NULL
    BY <1>2, <2>1 DEF Region
  <2>2. CASE m_start_ptr # NULL
    <3>1. /\ m_start_ptr \in MapAddrs /\ total > 0 /\ m_total_size = total
          /\ m_start_ptr + total <= SIZE_MAX
      BY <1>2, <2>2 DEF os_alloc, total
    <3>2. total >= PAGE_SIZE
      <4>1. PICK q \in Nat : total = PAGE_SIZE * q
        BY <1>3, <1>4, Multiple
      <4>2. q # 0
        BY <1>3, <3>1, <4>1
      <4>3. PAGE_SIZE * q >= PAGE_SIZE
        BY <1>3, <4>2
      <4> QED
        BY <4>1, <4>3
    <3>3. m_start_ptr % block_align = 0
      <4>1. m_start_ptr \in Nat /\ m_start_ptr % PAGE_SIZE = 0
        BY <1>3, <3>1, PageAssumption
      <4>2. PAGE_SIZE % block_align = 0 /\ block_align \in Nat \ {0}
        BY PageHoldsBlock DEF block_align
      <4> QED
        BY <1>3, <4>1, <4>2, ModTrans
    <3>4. total >= block_size
      BY <1>3, <1>4, <3>2, PageHoldsBlock DEF block_size
    <3> QED
      BY <2>2, <3>1, <3>3, <3>4 DEF Region
  <2> QED
    BY <2>1, <2>2
<1>7. m_start_ptr \in Nat /\ m_total_size \in Nat
  BY <1>3, <1>5 DEF Word
<1>8. /\ Ordered(free_list, m_start_ptr, m_total_size)
      /\ Parted(free_list, mem, {})
      /\ Full(free_list, mem, {}, m_start_ptr, m_total_size)
  BY <1>1, <1>6, <1>7, OneBlock
<1>9. Heap
  BY <1>1, <1>8 DEF Heap
<1>10. TypeOK
  <2>1. DOMAIN mem = {} /\ alive \in BOOLEAN
    BY <1>1
  <2> QED
    BY <1>1, <1>5, <1>8, <2>1 DEF TypeOK, Ordered
<1> QED
  BY <1>1, <1>6, <1>9, <1>10 DEF IndInv

\* clear() keeps the invariant.
LEMMA ClearInv ==
    ASSUME IndInv, alive, clear
    PROVE  IndInv'
<1> DEFINE kept == Untouched(m_start_ptr, m_start_ptr + block_size)
<1>1. /\ free_list' = one_block(m_start_ptr, m_total_size)
      /\ mem' = [h \in kept |-> mem[h]] /\ live' = {}
      /\ UNCHANGED <<alive, m_start_ptr, m_total_size>>
  BY DEF clear
<1>2. TypeOK /\ Region /\ m_start_ptr \in Nat /\ m_total_size \in Nat
  BY RegionFacts DEF IndInv
<1>3. /\ Ordered(free_list', m_start_ptr, m_total_size)
      /\ Parted(free_list', mem', {})
      /\ Full(free_list', mem', {}, m_start_ptr, m_total_size)
  BY <1>1, <1>2, OneBlock
<1>4. Heap'
  BY <1>1, <1>3 DEF Heap
<1>5. kept \subseteq DOMAIN mem
  BY DEF Untouched
<1> HIDE DEF kept
<1>6. /\ DOMAIN mem' \subseteq Word
      /\ \A h \in DOMAIN mem' : mem'[h] \in AllocHeader
  BY <1>1, <1>2, <1>5 DEF TypeOK
<1>7. TypeOK'
  BY <1>1, <1>2, <1>3, <1>6 DEF TypeOK, Ordered
<1>8. Region'
  BY <1>1, <1>2 DEF Region
<1> QED
  BY <1>1, <1>4, <1>7, <1>8 DEF IndInv

\* The invariant is inductive.
LEMMA StepInv == ASSUME NoWrap PROVE IndInv /\ [Next]_vars => IndInv'
<1> SUFFICES ASSUME IndInv, [Next]_vars PROVE IndInv'
  OBVIOUS
<1>1. ASSUME alive, NEW size \in Sizes, NEW align \in Aligns,
             alloc_raw(size, align)
      PROVE  IndInv'
  BY <1>1, AllocInv
<1>2. ASSUME alive, NEW a \in live, free_raw(a)
      PROVE  IndInv'
  BY <1>2, FreeInv
<1>3. ASSUME alive, clear PROVE IndInv'
  BY <1>3, ClearInv
<1>4. CASE destructor
  <2>1. /\ alive' = FALSE /\ m_start_ptr' = NULL /\ mem' = <<>> /\ live' = {}
        /\ UNCHANGED <<m_total_size, free_list>>
    BY <1>4 DEF destructor
  <2>2. NULL \in Word
    BY WordAssumption DEF Word, NULL
  <2>3. DOMAIN mem' = {}
    <3>1. DOMAIN <<>> = {}
      OBVIOUS
    <3> QED
      BY ONLY <2>1, <3>1
  <2>4. alive' \in BOOLEAN
    BY ONLY <2>1
  <2>5. TypeOK'
    BY <2>1, <2>2, <2>3, <2>4 DEF IndInv, TypeOK
  <2> QED
    BY <2>1, <2>5 DEF IndInv
<1>5. CASE UNCHANGED vars
  <2>1. UNCHANGED <<alive, m_start_ptr, m_total_size, free_list, mem, live>>
    BY <1>5 DEF vars
  <2> QED
    BY <2>1 DEF IndInv, TypeOK, Region, Heap
<1> QED
  BY <1>1, <1>2, <1>3, <1>4, <1>5 DEF Next, alloc_null

-----------------------------------------------------------------------------
(***************************************************************************)
(* Where no size wraps, the list stays in address order and fully          *)
(* coalesced: splitting in place keeps the order, and free_raw's walk and  *)
(* coalesce leave no two blocks touching.                                  *)
(***************************************************************************)
THEOREM FreeListOrdered ==
    ASSUME NoWrap
    PROVE  Spec => []SortedAndCoalesced
<1>1. IndInv => SortedAndCoalesced
  <2> SUFFICES ASSUME IndInv PROVE SortedAndCoalesced
    OBVIOUS
  <2>1. TypeOK
    BY DEF IndInv
  <2>2. ASSUME alive, NEW i \in DOMAIN free_list
        PROVE  /\ free_list[i].addr >= m_start_ptr
               /\ free_list[i].addr + free_list[i].size
                    <= m_start_ptr + m_total_size
               /\ free_list[i].addr % block_align = 0
               /\ free_list[i].size >= block_size
               /\ \A j \in DOMAIN free_list :
                    i < j => free_list[i].addr + free_list[i].size
                               < free_list[j].addr
    <3>1. /\ Ordered(free_list, m_start_ptr, m_total_size)
          /\ DOMAIN free_list = 1..Len(free_list) /\ m_start_ptr \in Nat
      BY <2>2, RegionFacts
    <3>2. Sits(free_list[i], m_start_ptr, m_total_size)
      BY <3>1 DEF Ordered
    <3>3. \A j \in DOMAIN free_list :
            i < j => Stop(free_list[i]) < free_list[j].addr
      BY <3>1 DEF Ordered, Spaced
    <3> QED
      BY <3>1, <3>2, <3>3 DEF Sits, Stop
  <2> QED
    BY <2>1, <2>2 DEF SortedAndCoalesced
<1>2. Spec => []IndInv
  BY InitInv, StepInv, PTL DEF Spec
<1> QED
  BY <1>1, <1>2, PTL

(***************************************************************************)
(* Where no size wraps, the header in front of every live allocation is    *)
(* the one alloc_raw wrote, and its block encloses header and data.        *)
(***************************************************************************)
THEOREM Headers ==
    ASSUME NoWrap
    PROVE  Spec => []HeadersIntact
<1>1. IndInv => HeadersIntact
  <2> SUFFICES ASSUME IndInv, NEW a \in live
               PROVE  /\ a.ptr - header_size \in DOMAIN mem
                      /\ origin(a.ptr - header_size).addr <= a.ptr - header_size
                      /\ End(a) <= origin(a.ptr - header_size).addr
                                    + origin(a.ptr - header_size).size
    BY DEF HeadersIntact
  <2>1. alive
    BY DEF IndInv
  <2>2. origin(a.ptr - header_size) = used(mem, a)
    BY DEF origin, used
  <2>3. /\ a.ptr \in Nat /\ a.ptr - header_size \in DOMAIN mem
        /\ used(mem, a).addr \in Nat /\ used(mem, a).addr + header_size <= a.ptr
        /\ a.ptr + a.size <= Stop(used(mem, a))
    BY <2>1, RegionFacts, OwnedFacts
  <2> HIDE DEF used
  <2>4. used(mem, a).addr <= a.ptr - header_size
    BY <2>3 DEF header_size
  <2> QED
    BY <2>2, <2>3, <2>4 DEF End, Stop
<1>2. Spec => []IndInv
  BY InitInv, StepInv, PTL DEF Spec
<1> QED
  BY <1>1, <1>2, PTL

(***************************************************************************)
(* Where no size wraps, free blocks and used blocks tile the region:       *)
(* alloc_raw and free_raw move bytes between the two, none is lost and     *)
(* none is in two hands.                                                   *)
(***************************************************************************)
THEOREM NoByteLost ==
    ASSUME NoWrap
    PROVE  Spec => []Tiled
<1>1. IndInv => Tiled
  <2> SUFFICES ASSUME IndInv, alive,
                      NEW byte \in m_start_ptr..(m_start_ptr + m_total_size - 1)
               PROVE  \/ /\ \E f \in FreeBlocks : Holds(f, byte)
                         /\ \A a \in live : ~Holds(origin(a.ptr - header_size), byte)
                      \/ /\ \A f \in FreeBlocks : ~Holds(f, byte)
                         /\ \E a \in live :
                              \A b \in live :
                                Holds(origin(b.ptr - header_size), byte) <=> b = a
    BY DEF Tiled
  <2>1. /\ m_start_ptr \in Nat /\ m_total_size \in Nat
        /\ DOMAIN free_list = 1..Len(free_list)
    BY RegionFacts
  <2>2. /\ byte \in Nat /\ m_start_ptr <= byte
        /\ byte < m_start_ptr + m_total_size
    BY <2>1
  <2>3. (\E f \in FreeBlocks : Holds(f, byte)) <=> Listed(free_list, byte)
    BY <2>1 DEF FreeBlocks, Listed
  <2>4. \A a \in live : origin(a.ptr - header_size) = used(mem, a)
    BY DEF origin, used
  <2>5. /\ Parted(free_list, mem, live)
        /\ Full(free_list, mem, live, m_start_ptr, m_total_size)
    BY DEF IndInv, Heap
  <2>6. \A a \in live : Holds(used(mem, a), byte) => ~Listed(free_list, byte)
    BY <2>2, <2>5 DEF Parted
  <2>7. \A a, b \in live :
          Holds(used(mem, a), byte) /\ Holds(used(mem, b), byte) => a = b
    BY <2>2, <2>5 DEF Parted
  <2>8. Listed(free_list, byte) \/ \E a \in live : Holds(used(mem, a), byte)
    BY <2>2, <2>5 DEF Full
  <2> HIDE DEF used, FreeBlocks
  <2> QED
    BY <2>3, <2>4, <2>6, <2>7, <2>8
<1>2. Spec => []IndInv
  BY InitInv, StepInv, PTL DEF Spec
<1> QED
  BY <1>1, <1>2, PTL

(***************************************************************************)
(* Where no size wraps, the free list allocator keeps the promise of       *)
(* IAllocator: what alloc_raw returns is aligned, lies in the region and   *)
(* overlaps no live allocation.                                            *)
(***************************************************************************)
THEOREM Refinement ==
    ASSUME NoWrap
    PROVE  Spec => ContractSpec
<1>1. Init => Contract!Init
  BY DEF Init, Contract!Init
<1>2. IndInv /\ [Next]_vars => [Contract!Next]_Contract!vars
  <2> SUFFICES ASSUME IndInv, [Next]_vars
               PROVE  [Contract!Next]_Contract!vars
    OBVIOUS
  <2>1. ASSUME alive, NEW size \in Sizes, NEW align \in Aligns,
               alloc_raw(size, align)
        PROVE  Contract!alloc_raw
    <3> DEFINE start == m_start_ptr
               total == m_total_size
    <3>1. PICK ptr \in Word : Served(ptr, size, align)
      BY <2>1, AllocFacts
    <3>2. UNCHANGED <<m_start_ptr, m_total_size>>
      BY <2>1, AllocFacts
    <3> DEFINE new == [ptr |-> ptr, size |-> size, align |-> align]
    <3>3. /\ live' = live \cup {new} /\ Owned(mem', new, start, total)
          /\ TakenOut(free_list, free_list', used(mem', new), start, total)
      BY <3>1 DEF Served
    <3> HIDE DEF new
    <3> DEFINE its == used(mem', new)
    <3>4. start \in Nat /\ total \in Nat
      BY <2>1, RegionFacts
    <3>5. /\ new.ptr \in Nat /\ new.size \in Nat /\ new.size > 0
          /\ new.align > 0 /\ new.ptr % new.align = 0
          /\ Sits(its, start, total)
          /\ its.addr \in Nat /\ Stop(its) \in Nat
          /\ its.addr + header_size <= new.ptr
          /\ new.ptr + new.size <= Stop(its)
      BY <3>3, <3>4, OwnedFacts
    <3>6. \A byte \in Nat : Holds(its, byte) => Listed(free_list, byte)
      BY <3>3 DEF TakenOut
    <3> HIDE DEF its
    <3>7. Contract!Inside(new)
      BY <3>4, <3>5 DEF Sits, Contract!Inside, Contract!End, header_size
    <3>8. ASSUME NEW b \in live
          PROVE  /\ b.ptr \in Nat /\ b.size \in Nat /\ b.size > 0
                 /\ b.ptr + b.size <= new.ptr \/ new.ptr + new.size <= b.ptr
      <4> DEFINE old == used(mem, b)
      <4>1. /\ b.ptr \in Nat /\ b.size \in Nat /\ b.size > 0
            /\ Sits(old, start, total) /\ old.addr \in Nat /\ Stop(old) \in Nat
            /\ old.addr + header_size <= b.ptr /\ b.ptr + b.size <= Stop(old)
        BY <2>1, <3>4, RegionFacts, OwnedFacts
      <4>2. \A byte \in Nat : ~(Holds(its, byte) /\ Holds(old, byte))
        BY <2>1, <3>6 DEF IndInv, Heap, Parted
      <4> HIDE DEF old
      <4>3. Stop(its) <= old.addr \/ Stop(old) <= its.addr
        BY ONLY <3>4, <3>5, <4>1, <4>2, Apart
      <4> QED
        BY <3>5, <4>1, <4>3 DEF header_size
    <3>9. new \notin live
      BY <3>5, <3>8
    <3>10. \A b \in live : ~Contract!Overlap(new, b)
      BY <3>5, <3>8 DEF Contract!Overlap, Contract!End
    <3> QED
      BY <3>2, <3>3, <3>5, <3>7, <3>9, <3>10 DEF Contract!alloc_raw
  <2>2. ASSUME NEW a \in live, free_raw(a)
        PROVE  Contract!free_raw
    BY <2>2 DEF free_raw, Contract!free_raw, Contract!Released
  <2>3. CASE clear
    BY <2>3 DEF clear, Contract!clear, Contract!Next
  <2>4. CASE destructor
    BY <2>4 DEF destructor, Contract!destructor, Contract!Next, Contract!NULL, NULL
  <2>5. CASE UNCHANGED vars
    BY <2>5 DEF vars, Contract!vars
  <2> QED
    BY <2>1, <2>2, <2>3, <2>4, <2>5
       DEF Next, alloc_null, vars, Contract!Next, Contract!vars
<1>3. Spec => []IndInv
  BY InitInv, StepInv, PTL DEF Spec
<1> QED
  BY <1>1, <1>2, <1>3, PTL DEF Spec, ContractSpec, Contract!Spec
=============================================================================
