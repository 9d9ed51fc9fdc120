---------------------- MODULE FreeTreeAllocator_proofs ----------------------
(***************************************************************************)
(* The boundary tags, the tree and the back pointers of the free-tree      *)
(* allocator for every region and set of requests.  Two lemmas about the   *)
(* tags alone carry the proof: MergeTiling, a run of blocks turned into    *)
(* one, and SplitTiling, one block turned into two.  Every operation does  *)
(* one of the two.                                                         *)
(***************************************************************************)
EXTENDS FreeTreeAllocator, Utils_proofs

\* A whole number of words, which leaves the bits of the flag alone.
Whole(n) == n % word_size = 0

\* The blocks between the fake tags of a tag map t, and where they end.
BlocksOf(t, hi) == {h \in DOMAIN t : h - word_size \in DOMAIN t /\ h # hi}
EndOf(t, h) == footer_of(h, t[h].size)

\* The prologue and the epilogue.
fake_tag == [size |-> 0, allocated |-> TRUE]

(***************************************************************************)
(* Tiled for any tag map between lo and hi, with the clause that makes it  *)
(* inductive: every tag is one of the two fake ones or an end of a block.  *)
(***************************************************************************)
TiledBy(t, lo, hi) ==
    /\ lo \in DOMAIN t /\ lo + word_size \in BlocksOf(t, hi)
    /\ hi \in DOMAIN t /\ hi - word_size \in DOMAIN t
    /\ t[lo] = fake_tag /\ t[hi] = fake_tag
    /\ \A x \in DOMAIN t : /\ x \in Nat /\ lo <= x /\ x <= hi
                           /\ t[x] \in [size : Nat, allocated : BOOLEAN]
    /\ \A h \in BlocksOf(t, hi) :
         /\ t[h].size >= node_size /\ Whole(t[h].size)
         /\ EndOf(t, h) \in DOMAIN t /\ t[EndOf(t, h)] = t[h]
         /\ EndOf(t, h) + word_size \in DOMAIN t
         /\ \A x \in DOMAIN t : x <= h \/ x >= EndOf(t, h)
    /\ \A x \in DOMAIN t : \/ x = lo \/ x = hi \/ x \in BlocksOf(t, hi)
                           \/ \E h \in BlocksOf(t, hi) : x = EndOf(t, h)

\* A size that is a multiple of 8 and its flag share a word without loss.
LEMMA TagExact ==
    ASSUME NEW size \in Nat, Whole(size)
    PROVE  /\ Tag(size, TRUE) = [size |-> size, allocated |-> TRUE]
           /\ Tag(size, FALSE) = [size |-> size, allocated |-> FALSE]
<1>1. size % 8 = 0 /\ size % 2 = 0
  BY DEF Whole, word_size
<1>2. size - (size % 8) = size
  BY <1>1
<1>3. (TRUE \/ size % 2 = 1) = TRUE /\ (FALSE \/ size % 2 = 1) = FALSE
  BY <1>1
<1> QED
  BY <1>2, <1>3 DEF Tag

\* The fake tags say: nothing, in use.
LEMMA FakeTag == Tag(0, TRUE) = fake_tag
<1>1. Whole(0)
  BY DEF Whole, word_size
<1> QED
  BY <1>1, TagExact DEF fake_tag

\* Blocks in address order keep clear of each other's tags.
LEMMA Spacing ==
    ASSUME NEW t, NEW lo \in Nat, NEW hi \in Nat, TiledBy(t, lo, hi),
           NEW g \in BlocksOf(t, hi), NEW h \in BlocksOf(t, hi), g < h
    PROVE  EndOf(t, g) + word_size <= h
<1> USE DEF word_size, node_size, footer_of
<1>1. /\ g \in Nat /\ h \in Nat /\ t[g].size \in Nat /\ t[g].size >= 40
      /\ h \in DOMAIN t /\ h - 8 \in DOMAIN t /\ h - 8 \in Nat
      /\ \A x \in DOMAIN t : x <= g \/ x >= EndOf(t, g)
  BY DEF TiledBy, BlocksOf
<1>2. EndOf(t, g) = g + 8 + t[g].size
  BY DEF EndOf
<1>3. h >= EndOf(t, g)
  BY <1>1
<1>4. h - 8 > g
  BY <1>1, <1>2, <1>3
<1>5. h - 8 >= EndOf(t, g)
  BY <1>1, <1>4
<1> QED
  BY <1>1, <1>2, <1>5

\* What stands to the left of a block: the prologue, or the footer of the
\* block that left_of computes.
LEMMA LeftTag ==
    ASSUME NEW t, NEW lo \in Nat, NEW hi \in Nat, TiledBy(t, lo, hi),
           NEW h \in BlocksOf(t, hi) \cup {hi}
    PROVE  /\ h - word_size \in DOMAIN t
           /\ \/ h - word_size = lo
              \/ LET p == h - 2 * word_size - t[h - word_size].size IN
                 /\ p \in BlocksOf(t, hi) /\ p < h
                 /\ EndOf(t, p) = h - word_size /\ t[h - word_size] = t[p]
<1> USE DEF word_size, node_size, footer_of
<1>1. h \in DOMAIN t /\ h - 8 \in DOMAIN t /\ h \in Nat /\ h - 8 \in Nat
  BY DEF TiledBy, BlocksOf
<1>2. h <= hi
  BY <1>1 DEF TiledBy
<1>3. h - 8 # hi
  BY <1>1, <1>2
<1>4. h - 8 \notin BlocksOf(t, hi)
  <2> SUFFICES ASSUME h - 8 \in BlocksOf(t, hi) PROVE FALSE
    OBVIOUS
  <2>1. /\ t[h - 8].size \in Nat /\ t[h - 8].size >= 40
        /\ h <= h - 8 \/ h >= EndOf(t, h - 8)
    BY <1>1 DEF TiledBy
  <2> QED
    BY <1>1, <2>1 DEF EndOf
<1>5. ASSUME NEW p \in BlocksOf(t, hi), h - 8 = EndOf(t, p)
      PROVE  /\ p = h - 16 - t[h - 8].size /\ p < h /\ t[h - 8] = t[p]
  <2>1. p \in Nat /\ t[p].size \in Nat /\ t[EndOf(t, p)] = t[p]
    BY DEF TiledBy, BlocksOf
  <2> QED
    BY <1>1, <1>5, <2>1 DEF EndOf
<1>6. h - 8 = lo \/ \E p \in BlocksOf(t, hi) : h - 8 = EndOf(t, p)
  BY <1>1, <1>3, <1>4 DEF TiledBy
<1> QED
  BY <1>1, <1>5, <1>6

\* A block's place between its neighbours and the fake tags.
LEMMA BlockPlace ==
    ASSUME NEW t, NEW lo \in Nat, NEW hi \in Nat, TiledBy(t, lo, hi),
           NEW h \in BlocksOf(t, hi)
    PROVE  /\ h \in Nat /\ h \in DOMAIN t /\ h - word_size \in DOMAIN t
           /\ lo + word_size <= h /\ EndOf(t, h) + word_size <= hi
           /\ t[h].size \in Nat /\ t[h].size >= node_size
           /\ Whole(t[h].size) /\ t[h].allocated \in BOOLEAN
           /\ EndOf(t, h) = h + word_size + t[h].size
           /\ EndOf(t, h) + word_size \in BlocksOf(t, hi) \cup {hi}
<1> USE DEF word_size, node_size, footer_of
<1>1. /\ h \in Nat /\ h \in DOMAIN t /\ h - 8 \in DOMAIN t
      /\ h - 8 >= lo /\ h - 8 \in Nat
  BY DEF TiledBy, BlocksOf
<1>2. /\ EndOf(t, h) \in DOMAIN t /\ EndOf(t, h) + 8 \in DOMAIN t
      /\ EndOf(t, h) \in Nat /\ EndOf(t, h) + 8 <= hi
  BY DEF TiledBy
<1>3. t[h] \in [size : Nat, allocated : BOOLEAN]
  BY <1>1 DEF TiledBy
<1>4. t[h].size >= 40 /\ Whole(t[h].size)
  BY DEF TiledBy
<1>5. (EndOf(t, h) + 8) - 8 = EndOf(t, h)
  BY <1>2
<1>6. EndOf(t, h) + 8 \in BlocksOf(t, hi) \cup {hi}
  BY <1>2, <1>5 DEF BlocksOf
<1> QED
  BY <1>1, <1>2, <1>3, <1>4, <1>6 DEF EndOf

(***************************************************************************)
(* The blocks from m to g of t are one block of u, the others as before.   *)
(***************************************************************************)
Merged(t, u, m, g, size, flag, lo, hi) ==
    /\ TiledBy(u, lo, hi)
    /\ BlocksOf(u, hi) = {h \in BlocksOf(t, hi) : h <= m \/ h > g}
    /\ u[m] = [size |-> size, allocated |-> flag]
    /\ \A h \in BlocksOf(u, hi) \ {m} : u[h] = t[h]

\* update_block over a run of blocks merges them.
LEMMA MergeTiling ==
    ASSUME NEW t, NEW lo \in Nat, NEW hi \in Nat, TiledBy(t, lo, hi),
           NEW m \in BlocksOf(t, hi), NEW g \in BlocksOf(t, hi), m <= g,
           NEW size \in Nat, Whole(size),
           m + word_size + size = EndOf(t, g), NEW flag \in BOOLEAN
    PROVE  Merged(t, update_block(t, m, size, flag), m, g, size, flag, lo, hi)
<1> USE DEF word_size, node_size
<1> DEFINE u == update_block(t, m, size, flag)
           f == EndOf(t, g)
<1>1. /\ f \in Nat /\ f \in DOMAIN t /\ f + 8 \in DOMAIN t /\ f + 8 <= hi
      /\ g + 48 <= f /\ g \in Nat /\ m \in Nat /\ m \in DOMAIN t
      /\ m - 8 \in DOMAIN t /\ lo + 8 <= m
  <2>1. m \in Nat /\ m \in DOMAIN t /\ m - 8 \in DOMAIN t /\ lo + 8 <= m
    BY BlockPlace
  <2>2. f \in DOMAIN t /\ f + 8 \in DOMAIN t
    BY DEF TiledBy
  <2>3. /\ g \in Nat /\ f + 8 <= hi /\ t[g].size \in Nat
        /\ t[g].size >= 40 /\ f = g + 8 + t[g].size
    BY BlockPlace
  <2> QED
    BY <2>1, <2>2, <2>3
<1>2. footer_of(m, size) = f
  BY DEF footer_of
<1>3. size >= 40
  BY <1>1
<1> HIDE DEF f
<1>4. /\ \A x : x \in DOMAIN u <=> (x \in DOMAIN t /\ (x < m \/ x > f)) \/ x = m \/ x = f
      /\ u[m] = [size |-> size, allocated |-> flag] /\ u[f] = u[m]
      /\ \A x \in DOMAIN u : x # m /\ x # f => x \in DOMAIN t /\ u[x] = t[x]
  <2>1. Tag(size, flag) = [size |-> size, allocated |-> flag]
    BY TagExact
  <2>2. u = [a \in {b \in DOMAIN t : b < m \/ b > f} \cup {m, f} |->
               IF a \in {m, f} THEN Tag(size, flag) ELSE t[a]]
    BY <1>2 DEF update_block
  <2> HIDE DEF u
  <2> QED
    BY <2>1, <2>2
<1> HIDE DEF u
<1>5. \A x \in DOMAIN u : x \in DOMAIN t /\ x \in Nat /\ lo <= x /\ x <= hi
  BY <1>1, <1>4 DEF TiledBy
<1>6. f - 8 \notin DOMAIN u
  BY <1>1, <1>3, <1>4
<1>7. \A h \in BlocksOf(t, hi) : h > g => h >= f + 8 /\ h \in Nat
  <2> SUFFICES ASSUME NEW h \in BlocksOf(t, hi), h > g
               PROVE  h >= f + 8 /\ h \in Nat
    OBVIOUS
  <2>1. h \in Nat
    BY BlockPlace
  <2>2. f + 8 <= h
    BY <1>1, <2>1, Spacing DEF f
  <2> QED
    BY <1>1, <2>1, <2>2
<1>8. \A h \in BlocksOf(t, hi) : h < m => EndOf(t, h) + 8 <= m /\ h \in Nat
  BY Spacing, BlockPlace
<1>9. BlocksOf(u, hi) = {h \in BlocksOf(t, hi) : h <= m \/ h > g}
  <2>1. ASSUME NEW x \in BlocksOf(u, hi)
        PROVE  x \in BlocksOf(t, hi) /\ (x <= m \/ x > g)
    <3>1. x \in DOMAIN u /\ x - 8 \in DOMAIN u /\ x # hi /\ x \in Nat
      BY <1>5 DEF BlocksOf
    <3>2. x # f
      BY <1>6, <3>1
    <3>3. x \in BlocksOf(t, hi)
      BY <1>5, <3>1 DEF BlocksOf
    <3> QED
      BY <1>1, <1>4, <3>1, <3>2, <3>3
  <2>2. ASSUME NEW h \in BlocksOf(t, hi), h <= m \/ h > g
        PROVE  h \in BlocksOf(u, hi)
    <3>1. h \in DOMAIN t /\ h - 8 \in DOMAIN t /\ h # hi /\ h \in Nat
          /\ h - 8 \in Nat
      BY DEF BlocksOf, TiledBy
    <3>2. h \in DOMAIN u /\ h - 8 \in DOMAIN u
      BY <1>1, <1>4, <1>7, <2>2, <3>1
    <3> QED
      BY <3>1, <3>2 DEF BlocksOf
  <2> QED
    BY <2>1, <2>2
<1>10. \A h \in BlocksOf(u, hi) \ {m} : h \in BlocksOf(t, hi) /\ u[h] = t[h]
  <2> SUFFICES ASSUME NEW h \in BlocksOf(u, hi) \ {m}
               PROVE  h \in BlocksOf(t, hi) /\ u[h] = t[h]
    OBVIOUS
  <2>1. h \in DOMAIN u /\ h - 8 \in DOMAIN u
    BY DEF BlocksOf
  <2>2. h # f
    BY <1>6, <2>1
  <2> QED
    BY <1>4, <1>9, <2>1, <2>2
<1>11. ASSUME NEW h \in BlocksOf(u, hi)
       PROVE  /\ u[h].size >= 40 /\ Whole(u[h].size)
              /\ EndOf(u, h) \in DOMAIN u /\ u[EndOf(u, h)] = u[h]
              /\ EndOf(u, h) + 8 \in DOMAIN u
              /\ \A x \in DOMAIN u : x <= h \/ x >= EndOf(u, h)
  <2>1. CASE h = m
    <3>1. u[h].size = size
      BY <1>4, <2>1
    <3>2. EndOf(u, h) = f
      BY <1>2, <2>1, <3>1 DEF EndOf
    <3> QED
      BY <1>1, <1>3, <1>4, <1>5, <2>1, <3>1, <3>2
  <2>2. CASE h # m
    <3>1. h \in BlocksOf(t, hi) /\ u[h] = t[h] /\ (h < m \/ h >= f + 8)
      <4>1. h \in BlocksOf(t, hi) /\ u[h] = t[h] /\ (h <= m \/ h > g)
        BY <1>9, <1>10, <2>2
      <4>2. h \in Nat
        BY <4>1, BlockPlace
      <4> QED
        BY <1>1, <1>7, <2>2, <4>1, <4>2
    <3>2. EndOf(u, h) = EndOf(t, h)
      BY <3>1 DEF EndOf
    <3>3. /\ t[h].size >= 40 /\ Whole(t[h].size)
          /\ EndOf(t, h) \in DOMAIN t /\ t[EndOf(t, h)] = t[h]
          /\ EndOf(t, h) + 8 \in DOMAIN t
          /\ \A x \in DOMAIN t : x <= h \/ x >= EndOf(t, h)
      BY <3>1 DEF TiledBy
    <3>4. h \in Nat /\ EndOf(t, h) \in Nat /\ EndOf(t, h) > h
      BY <3>1, BlockPlace
    <3>5. EndOf(t, h) + 8 <= m \/ EndOf(t, h) > f
      BY <1>1, <1>8, <3>1, <3>4
    <3>6. EndOf(t, h) \in DOMAIN u /\ EndOf(t, h) + 8 \in DOMAIN u
      BY <1>1, <1>4, <3>3, <3>4, <3>5
    <3>7. EndOf(t, h) # m /\ EndOf(t, h) # f
      BY <1>1, <3>4, <3>5
    <3>8. u[EndOf(t, h)] = u[h]
      BY <1>4, <3>1, <3>3, <3>6, <3>7
    <3> QED
      BY <1>5, <3>1, <3>2, <3>3, <3>6, <3>8
  <2> QED
    BY <2>1, <2>2
<1>12. ASSUME NEW x \in DOMAIN u
       PROVE  \/ x = lo \/ x = hi \/ x \in BlocksOf(u, hi)
              \/ \E h \in BlocksOf(u, hi) : x = EndOf(u, h)
  <2>1. CASE x = m \/ x = f
    <3>1. m \in BlocksOf(u, hi) /\ EndOf(u, m) = f
      BY <1>1, <1>2, <1>4, <1>9 DEF EndOf
    <3> QED
      BY <2>1, <3>1
  <2>2. CASE x # m /\ x # f
    <3>1. x \in DOMAIN t /\ (x < m \/ x > f) /\ x \in Nat
      BY <1>4, <1>5, <2>2
    <3>2. CASE x \in BlocksOf(t, hi)
      BY <1>1, <1>9, <3>1, <3>2
    <3>3. ASSUME NEW h \in BlocksOf(t, hi), x = EndOf(t, h)
          PROVE  \E k \in BlocksOf(u, hi) : x = EndOf(u, k)
      <4>1. h \in Nat /\ EndOf(t, h) > h
        <5>1. h \in Nat /\ t[h].size \in Nat /\ EndOf(t, h) = h + 8 + t[h].size
          BY BlockPlace
        <5> QED
          BY <5>1
      <4>2. h < m \/ h > g
        <5> SUFFICES ASSUME m <= h, h <= g PROVE FALSE
          BY <1>1, <4>1
        <5>1. CASE h = g
          <6>1. x = f
            BY <3>3, <5>1 DEF f
          <6> QED
            BY <2>2, <6>1
        <5>2. CASE h < g
          BY <1>1, <3>1, <3>3, <4>1, <5>2, Spacing
        <5> QED
          BY <1>1, <4>1, <5>1, <5>2
      <4>3. h \in BlocksOf(u, hi) /\ h # m
        BY <1>1, <1>9, <4>1, <4>2
      <4>4. EndOf(u, h) = EndOf(t, h)
        BY <1>10, <4>3 DEF EndOf
      <4> QED
        BY <3>3, <4>3, <4>4
    <3> QED
      BY <3>1, <3>2, <3>3 DEF TiledBy
  <2> QED
    BY <2>1, <2>2
<1>13. /\ lo \in DOMAIN u /\ lo + 8 \in BlocksOf(u, hi)
       /\ hi \in DOMAIN u /\ hi - 8 \in DOMAIN u
       /\ u[lo] = fake_tag /\ u[hi] = fake_tag
  <2>1. lo \in DOMAIN t /\ hi \in DOMAIN t /\ hi - 8 \in DOMAIN t
        /\ lo + 8 \in BlocksOf(t, hi) /\ t[lo] = fake_tag
        /\ t[hi] = fake_tag
    BY DEF TiledBy
  <2>2. lo < m /\ hi > f /\ hi # m
    BY <1>1
  <2>3. lo \in DOMAIN u /\ hi \in DOMAIN u /\ lo # f
    BY <1>1, <1>4, <2>1, <2>2
  <2>4. hi - 8 >= f /\ hi - 8 \in DOMAIN u
    BY <1>1, <1>4, <2>1
  <2>5. lo + 8 \in BlocksOf(u, hi)
    BY <1>1, <1>9, <2>1
  <2>6. u[lo] = t[lo] /\ u[hi] = t[hi]
    BY <1>1, <1>4, <2>2, <2>3
  <2> QED
    BY <2>1, <2>3, <2>4, <2>5, <2>6
<1>14. \A x \in DOMAIN u : u[x] \in [size : Nat, allocated : BOOLEAN]
  BY <1>4, <1>5 DEF TiledBy
<1>15. TiledBy(u, lo, hi)
  BY <1>5, <1>11, <1>12, <1>13, <1>14 DEF TiledBy
<1> QED
  BY <1>4, <1>9, <1>10, <1>15 DEF u, Merged
(***************************************************************************)
(* The block m of t is two blocks of u: s bytes in use, and the free rest  *)
(* behind them.                                                            *)
(***************************************************************************)
Divided(t, u, m, s, rest, rs, lo, hi) ==
    /\ TiledBy(u, lo, hi)
    /\ rest \notin BlocksOf(t, hi)
    /\ BlocksOf(u, hi) = BlocksOf(t, hi) \cup {rest}
    /\ u[m] = [size |-> s, allocated |-> TRUE]
    /\ u[rest] = [size |-> rs, allocated |-> FALSE]
    /\ \A h \in BlocksOf(t, hi) \ {m} : u[h] = t[h]

\* update_block on both parts of a block divides it.
LEMMA SplitTiling ==
    ASSUME NEW t, NEW lo \in Nat, NEW hi \in Nat, TiledBy(t, lo, hi),
           NEW m \in BlocksOf(t, hi), NEW s \in Nat, Whole(s), s >= node_size,
           NEW rs \in Nat, Whole(rs), rs >= node_size,
           t[m].size = s + 2 * word_size + rs,
           NEW rest, rest = m + 2 * word_size + s
    PROVE  Divided(t, update_block(update_block(t, m, s, TRUE),
                                   rest, rs, FALSE),
                   m, s, rest, rs, lo, hi)
<1> USE DEF word_size, node_size
<1> DEFINE e == m + 8 + s
           f == m + 24 + s + rs
           v == update_block(t, m, s, TRUE)
           u == update_block(v, rest, rs, FALSE)
<1>1. /\ m \in Nat /\ m \in DOMAIN t /\ m - 8 \in DOMAIN t /\ lo + 8 <= m
      /\ f = EndOf(t, m) /\ f + 8 <= hi
  BY BlockPlace
<1>2. /\ e \in Nat /\ rest \in Nat /\ f \in Nat
      /\ m + 48 <= e /\ rest = e + 8 /\ rest + 48 <= f
  BY <1>1
<1>3. /\ f \in DOMAIN t /\ f + 8 \in DOMAIN t
      /\ \A x \in DOMAIN t : x <= m \/ x >= f
  <2>1. /\ EndOf(t, m) \in DOMAIN t /\ EndOf(t, m) + 8 \in DOMAIN t
        /\ \A x \in DOMAIN t : x <= m \/ x >= EndOf(t, m)
    BY DEF TiledBy
  <2> HIDE DEF f
  <2> QED
    BY <1>1, <2>1
<1>4. footer_of(m, s) = e /\ footer_of(rest, rs) = f
  BY <1>1 DEF footer_of
<1> HIDE DEF e, f, v, u
<1>5. \A x \in DOMAIN t : x \in Nat /\ lo <= x /\ x <= hi
  BY DEF TiledBy
<1>6. /\ DOMAIN v = {b \in DOMAIN t : b < m \/ b > e} \cup {m, e}
      /\ v[m] = [size |-> s, allocated |-> TRUE] /\ v[e] = v[m]
      /\ \A x \in DOMAIN v : x # m /\ x # e => x \in DOMAIN t /\ v[x] = t[x]
  <2>1. Tag(s, TRUE) = [size |-> s, allocated |-> TRUE]
    BY TagExact
  <2>2. v = [a \in {b \in DOMAIN t : b < m \/ b > e} \cup {m, e} |->
               IF a \in {m, e} THEN Tag(s, TRUE) ELSE t[a]]
    BY <1>4 DEF v, update_block
  <2> QED
    BY <2>1, <2>2
<1>7. /\ DOMAIN u = {b \in DOMAIN v : b < rest \/ b > f} \cup {rest, f}
      /\ u[rest] = [size |-> rs, allocated |-> FALSE] /\ u[f] = u[rest]
      /\ \A x \in DOMAIN u : x # rest /\ x # f => x \in DOMAIN v /\ u[x] = v[x]
  <2>1. Tag(rs, FALSE) = [size |-> rs, allocated |-> FALSE]
    BY TagExact
  <2>2. u = [a \in {b \in DOMAIN v : b < rest \/ b > f} \cup {rest, f} |->
               IF a \in {rest, f} THEN Tag(rs, FALSE) ELSE v[a]]
    BY <1>4 DEF u, update_block
  <2> QED
    BY <2>1, <2>2
<1>8. \A x : x \in DOMAIN u <=> x \in DOMAIN t \/ x = e \/ x = rest
  <2>1. \A x : x \in DOMAIN v <=> x \in DOMAIN t \/ x = e
    BY <1>1, <1>2, <1>3, <1>5, <1>6
  <2> QED
    BY <1>1, <1>2, <1>3, <1>5, <1>7, <2>1
<1>9. e \notin DOMAIN t /\ rest \notin DOMAIN t
  BY <1>1, <1>2, <1>3
<1>10. /\ u[m] = [size |-> s, allocated |-> TRUE] /\ u[e] = u[m]
       /\ \A x \in DOMAIN t : x # m /\ x # f => u[x] = t[x]
  <2>1. m \in DOMAIN u /\ e \in DOMAIN u /\ m # rest /\ m # f /\ e # rest /\ e # f
    BY <1>1, <1>2, <1>8
  <2>2. u[m] = v[m] /\ u[e] = v[e]
    BY <1>7, <2>1
  <2>3. ASSUME NEW x \in DOMAIN t, x # m, x # f PROVE u[x] = t[x]
    <3>1. x \in DOMAIN u /\ x # rest /\ x # e
      BY <1>8, <1>9
    <3> QED
      BY <1>6, <1>7, <2>3, <3>1
  <2> QED
    BY <1>6, <2>2, <2>3
<1>11. \A x \in DOMAIN u : x \in Nat /\ lo <= x /\ x <= hi
  BY <1>1, <1>2, <1>5, <1>8
<1>12. BlocksOf(u, hi) = BlocksOf(t, hi) \cup {rest}
  <2>1. ASSUME NEW x \in BlocksOf(u, hi), x # rest PROVE x \in BlocksOf(t, hi)
    <3>1. x \in DOMAIN u /\ x - 8 \in DOMAIN u /\ x # hi /\ x \in Nat
      BY <1>11 DEF BlocksOf
    <3>2. x - 8 # e
      BY <1>2, <2>1, <3>1
    <3>3. x # e
      BY <1>1, <1>2, <1>3, <1>8, <3>1
    <3>4. x - 8 # rest
      BY <1>1, <1>2, <1>3, <1>8, <3>1
    <3> QED
      BY <1>8, <2>1, <3>1, <3>2, <3>3, <3>4 DEF BlocksOf
  <2>2. BlocksOf(t, hi) \subseteq BlocksOf(u, hi)
    BY <1>8 DEF BlocksOf
  <2>3. rest \in BlocksOf(u, hi)
    BY <1>1, <1>2, <1>8 DEF BlocksOf
  <2> QED
    BY <2>1, <2>2, <2>3
<1>13. \A h \in BlocksOf(t, hi) : h \in DOMAIN t /\ h # f
  <2>1. f - 8 \notin DOMAIN t
    BY <1>1, <1>2, <1>3
  <2> QED
    BY <2>1 DEF BlocksOf
<1>14. \A h \in BlocksOf(t, hi) \ {m} : u[h] = t[h]
  BY <1>10, <1>13
<1>15. EndOf(u, m) = e /\ EndOf(u, rest) = f
  BY <1>4, <1>7, <1>10 DEF EndOf
<1>16. ASSUME NEW h \in BlocksOf(t, hi) \ {m}
       PROVE  /\ EndOf(u, h) = EndOf(t, h) /\ EndOf(t, h) # m /\ EndOf(t, h) # f
              /\ h \in Nat /\ EndOf(t, h) \in Nat
              /\ EndOf(t, h) < m \/ h > f
  <2>1. EndOf(u, h) = EndOf(t, h)
    BY <1>14 DEF EndOf
  <2>2. h \in Nat /\ EndOf(t, h) \in Nat /\ h < EndOf(t, h)
    <3>1. h \in Nat /\ t[h].size \in Nat /\ EndOf(t, h) = h + 8 + t[h].size
      BY BlockPlace
    <3> QED
      BY <3>1
  <2>3. CASE h < m
    <3>1. EndOf(t, h) + 8 <= m
      BY <2>3, Spacing
    <3> QED
      BY <1>1, <1>2, <2>1, <2>2, <3>1
  <2>4. CASE h > m
    <3>1. EndOf(t, m) + 8 <= h
      BY <2>4, Spacing
    <3> QED
      BY <1>1, <1>2, <2>1, <2>2, <3>1
  <2> QED
    BY <1>1, <2>2, <2>3, <2>4
<1>17. ASSUME NEW h \in BlocksOf(u, hi)
       PROVE  /\ u[h].size >= 40 /\ Whole(u[h].size)
              /\ EndOf(u, h) \in DOMAIN u /\ u[EndOf(u, h)] = u[h]
              /\ EndOf(u, h) + 8 \in DOMAIN u
              /\ \A x \in DOMAIN u : x <= h \/ x >= EndOf(u, h)
  <2>1. CASE h = m
    <3>1. \A x \in DOMAIN u : x <= m \/ x >= e
      BY <1>1, <1>2, <1>3, <1>5, <1>8
    <3> QED
      BY <1>2, <1>8, <1>10, <1>15, <2>1, <3>1
  <2>2. CASE h = rest
    <3>1. \A x \in DOMAIN u : x <= rest \/ x >= f
      BY <1>1, <1>2, <1>3, <1>5, <1>8
    <3>2. u[rest].size = rs /\ u[f] = u[rest]
      BY <1>7
    <3>3. f \in DOMAIN u /\ f + 8 \in DOMAIN u
      BY <1>3, <1>8
    <3> QED
      BY <1>15, <2>2, <3>1, <3>2, <3>3
  <2>3. CASE h # m /\ h # rest
    <3>1. h \in BlocksOf(t, hi) \ {m}
      BY <1>12, <2>3
    <3>2. /\ t[h].size >= 40 /\ Whole(t[h].size)
          /\ EndOf(t, h) \in DOMAIN t /\ t[EndOf(t, h)] = t[h]
          /\ EndOf(t, h) + 8 \in DOMAIN t
          /\ \A x \in DOMAIN t : x <= h \/ x >= EndOf(t, h)
      BY <3>1 DEF TiledBy
    <3>3. u[h] = t[h] /\ u[EndOf(t, h)] = t[EndOf(t, h)]
      BY <1>10, <1>14, <1>16, <3>1, <3>2
    <3>4. /\ e <= h \/ e >= EndOf(t, h)
          /\ rest <= h \/ rest >= EndOf(t, h)
      BY <1>1, <1>2, <1>16, <3>1
    <3> QED
      BY <1>8, <1>16, <3>1, <3>2, <3>3, <3>4
  <2> QED
    BY <2>1, <2>2, <2>3
<1>18. ASSUME NEW x \in DOMAIN u
       PROVE  \/ x = lo \/ x = hi \/ x \in BlocksOf(u, hi)
              \/ \E h \in BlocksOf(u, hi) : x = EndOf(u, h)
  <2>1. CASE x = e
    BY <1>12, <1>15, <2>1
  <2>2. CASE x = rest
    BY <1>12, <2>2
  <2>3. CASE x \in DOMAIN t
    <3>1. ASSUME NEW h \in BlocksOf(t, hi), x = EndOf(t, h)
          PROVE  \E k \in BlocksOf(u, hi) : x = EndOf(u, k)
      <4>1. CASE h = m
        BY <1>1, <1>12, <1>15, <3>1, <4>1
      <4>2. CASE h # m
        BY <1>12, <1>16, <3>1, <4>2
      <4> QED
        BY <4>1, <4>2
    <3> QED
      BY <1>12, <2>3, <3>1 DEF TiledBy
  <2> QED
    BY <1>8, <2>1, <2>2, <2>3
<1>19. /\ lo \in DOMAIN u /\ lo + 8 \in BlocksOf(u, hi)
       /\ hi \in DOMAIN u /\ hi - 8 \in DOMAIN u
       /\ u[lo] = fake_tag /\ u[hi] = fake_tag
  <2>1. lo \in DOMAIN t /\ hi \in DOMAIN t /\ hi - 8 \in DOMAIN t
        /\ lo + 8 \in BlocksOf(t, hi) /\ t[lo] = fake_tag
        /\ t[hi] = fake_tag
    BY DEF TiledBy
  <2>2. lo # m /\ lo # f /\ hi # m /\ hi # f
    BY <1>1, <1>2
  <2> QED
    BY <1>8, <1>10, <1>12, <2>1, <2>2
<1>20. \A x \in DOMAIN u : u[x] \in [size : Nat, allocated : BOOLEAN]
  <2>1. \A x \in DOMAIN t : t[x] \in [size : Nat, allocated : BOOLEAN]
    BY DEF TiledBy
  <2>2. /\ [size |-> s, allocated |-> TRUE] \in [size : Nat, allocated : BOOLEAN]
        /\ [size |-> rs, allocated |-> FALSE] \in [size : Nat, allocated : BOOLEAN]
    OBVIOUS
  <2> QED
    BY <1>7, <1>8, <1>10, <2>1, <2>2
<1>21. TiledBy(u, lo, hi)
  BY <1>11, <1>17, <1>18, <1>19, <1>20 DEF TiledBy
<1>22. rest \notin BlocksOf(t, hi)
  BY <1>9 DEF BlocksOf
<1> QED
  BY <1>7, <1>10, <1>12, <1>14, <1>21, <1>22 DEF u, v, Divided
-----------------------------------------------------------------------------
\* The blocks in use and the free ones.
Used(t, hi) == {h \in BlocksOf(t, hi) : t[h].allocated}
FreeOf(t, hi) == {h \in BlocksOf(t, hi) : ~t[h].allocated}

(***************************************************************************)
(* Tiled, TreeIsFree and NoFreeNeighbours for any tags t and tree tr.      *)
(***************************************************************************)
Kept(t, tr, lo, hi) ==
    /\ TiledBy(t, lo, hi)
    /\ DOMAIN tr = {node_of(h) : h \in FreeOf(t, hi)}
    /\ \A h \in FreeOf(t, hi) : /\ tr[node_of(h)] = t[h].size
                                /\ t[EndOf(t, h) + word_size].allocated

(***************************************************************************)
(* The block h of t has been handed out, search bytes of it at least.      *)
(***************************************************************************)
HandedOut(t, u, w, h, search, lo, hi) ==
    /\ Kept(u, w, lo, hi)
    /\ Used(u, hi) = Used(t, hi) \cup {h}
    /\ \A x \in Used(t, hi) : u[x] = t[x]
    /\ h + word_size + search <= EndOf(u, h) /\ EndOf(u, h) <= EndOf(t, h)

\* A free block handed out whole.
LEMMA WholeKept ==
    ASSUME NEW t, NEW tr, NEW lo \in Nat, NEW hi \in Nat, Kept(t, tr, lo, hi),
           NEW h \in FreeOf(t, hi), NEW s \in Nat, s <= t[h].size
    PROVE  HandedOut(t, update_block(t, h, t[h].size, TRUE),
                     Tree!removed(tr, node_of(h)), h, s, lo, hi)
<1> DEFINE u == update_block(t, h, t[h].size, TRUE)
           w == Tree!removed(tr, node_of(h))
<1>1. TiledBy(t, lo, hi) /\ h \in BlocksOf(t, hi) /\ ~t[h].allocated
  BY DEF Kept, FreeOf
<1>2. /\ h \in Nat /\ t[h].size \in Nat /\ Whole(t[h].size)
      /\ h + word_size + t[h].size = EndOf(t, h) /\ h <= h
  BY <1>1, BlockPlace
<1>3. Merged(t, u, h, h, t[h].size, TRUE, lo, hi)
  BY <1>1, <1>2, MergeTiling, TRUE \in BOOLEAN
<1> USE DEF word_size, node_size
<1>4. \A x \in BlocksOf(t, hi) : x \in Nat
  BY <1>1, BlockPlace
<1>5. DOMAIN w = DOMAIN tr \ {node_of(h)} /\ \A n \in DOMAIN w : w[n] = tr[n]
  BY DEF Tree!removed
<1> HIDE DEF u, w
<1>6. BlocksOf(u, hi) = BlocksOf(t, hi)
  BY <1>2, <1>3, <1>4 DEF Merged
<1>7. u[h].allocated /\ u[h].size = t[h].size
  BY <1>3 DEF Merged
<1>8. \A x \in BlocksOf(t, hi) : x # h => u[x] = t[x]
  BY <1>3, <1>6 DEF Merged
<1>9. Used(u, hi) = Used(t, hi) \cup {h}
  BY <1>1, <1>6, <1>7, <1>8 DEF Used
<1>10. FreeOf(u, hi) = FreeOf(t, hi) \ {h}
  BY <1>1, <1>6, <1>7, <1>8 DEF FreeOf
<1>11. \A x \in FreeOf(u, hi) :
         x \in FreeOf(t, hi) /\ x # h /\ u[x] = t[x] /\ x \in Nat
  BY <1>4, <1>8, <1>10 DEF FreeOf
<1>12. DOMAIN w = {node_of(x) : x \in FreeOf(u, hi)}
  <2>1. DOMAIN tr = {node_of(x) : x \in FreeOf(t, hi)}
    BY DEF Kept
  <2>2. \A x \in FreeOf(t, hi) : node_of(x) = node_of(h) => x = h
    BY <1>1, <1>4 DEF FreeOf, node_of
  <2> QED
    BY <1>5, <1>10, <2>1, <2>2
<1>13. ASSUME NEW x \in FreeOf(u, hi)
       PROVE  w[node_of(x)] = u[x].size /\ u[EndOf(u, x) + 8].allocated
  <2>1. w[node_of(x)] = tr[node_of(x)]
    BY <1>5, <1>12
  <2>2. tr[node_of(x)] = t[x].size /\ t[EndOf(t, x) + 8].allocated
    BY <1>11 DEF Kept
  <2>3. EndOf(u, x) = EndOf(t, x)
    BY <1>11 DEF EndOf
  <2>4. EndOf(t, x) + 8 \in BlocksOf(t, hi) \cup {hi}
    BY <1>1, <1>11, BlockPlace DEF FreeOf
  <2>5. t[hi] = u[hi]
    BY <1>1, <1>3 DEF Merged, TiledBy
  <2> QED
    BY <1>7, <1>8, <1>11, <2>1, <2>2, <2>3, <2>4, <2>5
<1>14. Kept(u, w, lo, hi)
  BY <1>3, <1>12, <1>13 DEF Kept, Merged
<1>15. \A x \in Used(t, hi) : u[x] = t[x]
  BY <1>1, <1>8 DEF Used
<1>16. EndOf(u, h) = EndOf(t, h)
  BY <1>7 DEF EndOf
<1>17. h + 8 + s <= EndOf(t, h) /\ EndOf(t, h) <= EndOf(t, h)
  BY <1>2
<1> QED
  BY <1>9, <1>14, <1>15, <1>16, <1>17 DEF u, w, HandedOut

\* A free block handed out in part, its rest entered into the tree.
LEMMA SplitKept ==
    ASSUME NEW t, NEW tr, NEW lo \in Nat, NEW hi \in Nat, Kept(t, tr, lo, hi),
           NEW h \in FreeOf(t, hi), NEW s \in Nat, Whole(s), s >= node_size,
           NEW rs \in Nat, Whole(rs), rs >= node_size,
           t[h].size = s + 2 * word_size + rs,
           NEW rest, rest = h + 2 * word_size + s
    PROVE  HandedOut(t, update_block(update_block(t, h, s, TRUE),
                                     rest, rs, FALSE),
                     Tree!inserted(Tree!removed(tr, node_of(h)),
                                   node_of(rest), rs),
                     h, s, lo, hi)
<1> DEFINE u == update_block(update_block(t, h, s, TRUE), rest, rs, FALSE)
           w == Tree!inserted(Tree!removed(tr, node_of(h)), node_of(rest), rs)
<1>1. TiledBy(t, lo, hi) /\ h \in BlocksOf(t, hi) /\ ~t[h].allocated
  BY DEF Kept, FreeOf
<1>2. h \in Nat /\ EndOf(t, h) = h + word_size + t[h].size
  BY <1>1 DEF TiledBy, BlocksOf, EndOf, footer_of
<1>3. Divided(t, u, h, s, rest, rs, lo, hi)
  BY <1>1, SplitTiling
<1> USE DEF word_size, node_size
<1>4. rest \in Nat /\ rest # h /\ rest + 8 + rs = EndOf(t, h)
  BY <1>2
<1>5. \A x \in BlocksOf(t, hi) : x \in Nat
  BY <1>1, BlockPlace
<1>6. /\ DOMAIN w = (DOMAIN tr \ {node_of(h)}) \cup {node_of(rest)}
      /\ w[node_of(rest)] = rs
      /\ \A n \in DOMAIN tr : n # node_of(h) /\ n # node_of(rest) => w[n] = tr[n]
  BY DEF Tree!inserted, Tree!removed
<1> HIDE DEF u, w
<1> USE DEF Divided
<1>7. /\ u[h].allocated /\ u[h].size = s
      /\ ~u[rest].allocated /\ u[rest].size = rs
  BY <1>3
<1>8. Used(u, hi) = Used(t, hi) \cup {h}
  BY <1>1, <1>3, <1>7 DEF Used
<1>9. FreeOf(u, hi) = (FreeOf(t, hi) \ {h}) \cup {rest}
  BY <1>1, <1>4, <1>3, <1>7 DEF FreeOf
<1>10. \A x, y \in BlocksOf(u, hi) : node_of(x) = node_of(y) => x = y
  BY <1>4, <1>3, <1>5 DEF node_of
<1>11. DOMAIN w = {node_of(x) : x \in FreeOf(u, hi)}
  <2>1. DOMAIN tr = {node_of(x) : x \in FreeOf(t, hi)}
    BY DEF Kept
  <2>2. \A x \in FreeOf(t, hi) : node_of(x) = node_of(h) => x = h
    BY <1>1, <1>3, <1>10 DEF FreeOf
  <2> QED
    BY <1>6, <1>9, <2>1, <2>2
<1>12. t[EndOf(t, h) + 8].allocated /\ t[hi] = u[hi]
  BY <1>1, <1>3 DEF Kept, TiledBy
<1>13. ASSUME NEW x \in BlocksOf(t, hi), t[EndOf(t, x) + 8].allocated
       PROVE  u[EndOf(t, x) + 8].allocated
  <2>1. EndOf(t, x) + 8 \in BlocksOf(t, hi) \cup {hi}
    BY <1>1, BlockPlace
  <2> QED
    BY <1>1, <1>3, <1>12, <1>13, <2>1
<1>14. ASSUME NEW x \in FreeOf(u, hi)
       PROVE  w[node_of(x)] = u[x].size /\ u[EndOf(u, x) + 8].allocated
  <2>1. CASE x = rest
    <3>1. EndOf(u, rest) = EndOf(t, h)
      BY <1>4, <1>7 DEF EndOf, footer_of
    <3> QED
      BY <1>1, <1>6, <1>7, <1>12, <1>13, <2>1, <3>1
  <2>2. CASE x # rest
    <3>1. x \in FreeOf(t, hi) /\ x \in BlocksOf(t, hi) /\ x # h /\ u[x] = t[x]
      BY <1>3, <1>9, <2>2 DEF FreeOf
    <3>2. tr[node_of(x)] = t[x].size /\ t[EndOf(t, x) + 8].allocated
      BY <3>1 DEF Kept
    <3>3. EndOf(u, x) = EndOf(t, x)
      BY <3>1 DEF EndOf
    <3>4. node_of(x) # node_of(h) /\ node_of(x) # node_of(rest)
      BY <1>1, <1>3, <1>10, <2>2, <3>1
    <3>5. node_of(x) \in DOMAIN tr
      BY <3>1 DEF Kept
    <3> QED
      BY <1>6, <1>13, <3>1, <3>2, <3>3, <3>4, <3>5
  <2> QED
    BY <2>1, <2>2
<1>15. Kept(u, w, lo, hi)
  BY <1>3, <1>11, <1>14 DEF Kept
<1>16. \A x \in Used(t, hi) : u[x] = t[x]
  BY <1>1, <1>3 DEF Used
<1>17. EndOf(u, h) = h + 8 + s
  BY <1>7 DEF EndOf, footer_of
<1>18. h + 8 + s <= EndOf(t, h) /\ h + 8 + s <= h + 8 + s
  BY <1>2, <1>4
<1> QED
  BY <1>8, <1>15, <1>16, <1>17, <1>18 DEF u, w, HandedOut
-----------------------------------------------------------------------------
\* The block h of t has been given back.
GivenBack(t, u, w, h, lo, hi) ==
    /\ Kept(u, w, lo, hi)
    /\ Used(u, hi) = Used(t, hi) \ {h}
    /\ \A x \in Used(u, hi) : u[x] = t[x]

\* A sum or difference of whole words is one.
LEMMA WholeSum ==
    ASSUME NEW x \in Nat, NEW y \in Nat, Whole(x), Whole(y)
    PROVE  Whole(x + y) /\ (y <= x => Whole(x - y))
  BY ModSum DEF Whole, word_size

(***************************************************************************)
(* coalesce and the update that follows it: whichever neighbours are free, *)
(* they and the block become one free block, which no free block touches.  *)
(***************************************************************************)
LEMMA ReleasedKept ==
    ASSUME NEW lo \in Nat, NEW hi \in Nat, Kept(tags, m_free_tree, lo, hi),
           NEW h \in Used(tags, hi)
    PROVE  GivenBack(tags, released(h).tags, released(h).tree, h, lo, hi)
<1> DEFINE t == tags
           r == right_of(h)
           l == left_of(h)
           R == ~t[r].allocated
           L == ~t[h - word_size].allocated
           m == IF L THEN l ELSE h
           g == IF R THEN r ELSE h
           size == coalesced_size(h)
           u == update_block(t, m, size, FALSE)
           gone == {node_of(x) : x \in neighbours(h)}
           without == [n \in DOMAIN m_free_tree \ gone |-> m_free_tree[n]]
           w == Tree!inserted(without, node_of(m), size)
<1>1. TiledBy(t, lo, hi) /\ h \in BlocksOf(t, hi) /\ t[h].allocated
  BY DEF Kept, Used
<1>2. /\ h \in Nat /\ t[h].size \in Nat /\ Whole(t[h].size)
      /\ EndOf(t, h) = h + word_size + t[h].size
      /\ EndOf(t, h) + word_size \in BlocksOf(t, hi) \cup {hi}
  BY <1>1, BlockPlace
<1>3. r = EndOf(t, h) + word_size
  BY DEF right_of, next_of, EndOf
<1>4. r \in Nat /\ r > h
  BY <1>2, <1>3 DEF word_size
<1>5. r = hi \/ r \in BlocksOf(t, hi)
  BY <1>2, <1>3
<1>6. R => r \in FreeOf(t, hi)
  <2>1. t[hi].allocated
    BY <1>1 DEF TiledBy, fake_tag
  <2> QED
    BY <1>5, <2>1 DEF FreeOf
<1>7. l < h /\ (L => /\ l \in FreeOf(t, hi) /\ EndOf(t, l) = h - word_size
                     /\ t[h - word_size] = t[l])
  <2>1. /\ h - word_size \in DOMAIN t
        /\ \/ h - word_size = lo
           \/ /\ l \in BlocksOf(t, hi) /\ l < h
              /\ EndOf(t, l) = h - word_size /\ t[h - word_size] = t[l]
    BY <1>1, LeftTag DEF left_of
  <2>2. CASE h - word_size = lo
    <3>1. t[lo].allocated /\ t[lo].size = 0
      BY <1>1 DEF TiledBy, fake_tag
    <3>2. l = h - 2 * word_size - 0
      BY <2>2, <3>1 DEF left_of
    <3> QED
      BY <1>2, <2>2, <3>1, <3>2 DEF word_size
  <2>3. CASE h - word_size # lo
    BY <2>1, <2>3 DEF FreeOf
  <2> QED
    BY <2>2, <2>3
<1>8. \A x : x \in neighbours(h) <=> (R /\ x = r) \/ (L /\ x = l)
  BY DEF neighbours
<1>9. l # r /\ (r \in neighbours(h) <=> R) /\ (l \in neighbours(h) <=> L)
  <2>1. l # r
    BY <1>2, <1>4, <1>7
  <2> HIDE DEF l, r, L, R
  <2> QED
    BY <1>8, <2>1
<1> DEFINE a == IF R THEN t[r].size + 2 * word_size ELSE 0
           b == IF L THEN t[l].size + 2 * word_size ELSE 0
<1>10. size = t[h].size + a + b
  <2>1. gain(h, r) = a /\ gain(h, l) = b
    BY <1>9 DEF gain
  <2> QED
    BY <2>1 DEF coalesced_size
<1> HIDE DEF r, l, L, R, size
<1>11. Whole(0) /\ Whole(16)
  BY DEF Whole, word_size
<1>12. /\ g \in BlocksOf(t, hi) /\ g >= h /\ g \in Nat
       /\ a \in Nat /\ Whole(a) /\ EndOf(t, g) = EndOf(t, h) + a
  <2>1. CASE R
    <3>1. r \in BlocksOf(t, hi)
      BY <1>6, <2>1 DEF FreeOf
    <3>2. t[r].size \in Nat /\ Whole(t[r].size) /\ EndOf(t, r) = r + word_size + t[r].size
      BY <1>1, <3>1, BlockPlace
    <3>3. Whole(t[r].size + 16)
      BY <1>11, <3>2, WholeSum
    <3> QED
      BY <1>2, <1>3, <1>4, <2>1, <3>1, <3>2, <3>3 DEF word_size
  <2>2. CASE ~R
    BY <1>1, <1>2, <1>11, <2>2 DEF word_size
  <2> QED
    BY <2>1, <2>2
<1>13. /\ m \in BlocksOf(t, hi) /\ m <= h /\ m \in Nat
       /\ b \in Nat /\ Whole(b) /\ h = m + b
  <2>1. CASE L
    <3>1. l \in BlocksOf(t, hi) /\ EndOf(t, l) = h - word_size
      BY <1>7, <2>1 DEF FreeOf
    <3>2. l \in Nat /\ t[l].size \in Nat /\ Whole(t[l].size) /\ EndOf(t, l) = l + word_size + t[l].size
      BY <1>1, <3>1, BlockPlace
    <3>3. Whole(t[l].size + 16)
      BY <1>11, <3>2, WholeSum
    <3>4. h = l + (t[l].size + 16)
      BY <1>2, <3>1, <3>2 DEF word_size
    <3> QED
      BY <2>1, <3>1, <3>2, <3>3, <3>4 DEF word_size
  <2>2. CASE ~L
    BY <1>1, <1>2, <1>11, <2>2
  <2> QED
    BY <2>1, <2>2
<1> HIDE DEF a, b, m, g
<1>14. size \in Nat /\ Whole(size)
  <2>1. Whole(t[h].size + a) /\ t[h].size + a \in Nat
    BY <1>2, <1>12, WholeSum
  <2> QED
    BY <1>10, <1>13, <2>1, WholeSum
<1>15. m + word_size + size = EndOf(t, g) /\ m <= g
  BY <1>2, <1>10, <1>12, <1>13 DEF word_size
<1>16. Merged(t, u, m, g, size, FALSE, lo, hi)
  BY <1>1, <1>12, <1>13, <1>14, <1>15, MergeTiling, FALSE \in BOOLEAN
<1> HIDE DEF u
<1>17. /\ TiledBy(u, lo, hi)
       /\ \A x : x \in BlocksOf(u, hi) <=> x \in BlocksOf(t, hi) /\ (x <= m \/ x > g)
       /\ u[m].size = size /\ ~u[m].allocated
       /\ \A x \in BlocksOf(u, hi) : x # m => u[x] = t[x]
  BY <1>16 DEF Merged
<1>18. \A x \in BlocksOf(t, hi) : x \in Nat
  BY <1>1, BlockPlace
<1>19. m = h \/ (L /\ m = l)
  BY DEF m
<1>20. (g = h /\ ~R) \/ (g = r /\ R)
  BY DEF g
<1>21. ASSUME NEW x \in BlocksOf(t, hi), x # m
       PROVE  x \in BlocksOf(u, hi) <=> x # h /\ ~(R /\ x = r)
  <2>1. x \in Nat
    BY <1>18
  <2>2. x < h => x <= m
    <3> SUFFICES ASSUME x < h, m < x PROVE FALSE
      BY <1>13, <2>1
    <3>1. m # h /\ m = l /\ L
      BY <1>2, <1>19, <2>1
    <3>2. EndOf(t, m) = h - word_size
      BY <1>7, <3>1
    <3>3. EndOf(t, m) + word_size <= x
      BY <1>1, <1>13, Spacing
    <3> QED
      BY <1>2, <2>1, <3>2, <3>3 DEF word_size
  <2>3. x > h => x >= r
    BY <1>1, <1>3, Spacing
  <2> QED
    BY <1>2, <1>4, <1>12, <1>13, <1>17, <1>20, <1>21, <2>1, <2>2, <2>3
<1>22. h # m => h \notin BlocksOf(u, hi)
  BY <1>1, <1>21
<1>23. m \in BlocksOf(u, hi)
  BY <1>13, <1>17
<1>24. \A x \in BlocksOf(u, hi) : x \in BlocksOf(t, hi)
  BY <1>17
<1>25. m \notin Used(u, hi) /\ (m # h => m \in FreeOf(t, hi))
  BY <1>7, <1>17, <1>19 DEF Used
<1>26. Used(u, hi) = Used(t, hi) \ {h}
  <2>1. ASSUME NEW x \in Used(u, hi) PROVE x \in Used(t, hi) /\ x # h
    BY <1>17, <1>22, <1>24, <1>25 DEF Used
  <2>2. ASSUME NEW x \in Used(t, hi), x # h PROVE x \in Used(u, hi)
    <3>1. x \in BlocksOf(t, hi) /\ t[x].allocated /\ x # m /\ ~(R /\ x = r)
      BY <1>6, <1>25, <2>2 DEF Used, FreeOf
    <3> QED
      BY <1>17, <1>21, <2>2, <3>1 DEF Used
  <2> QED
    BY <2>1, <2>2
<1>27. \A x : x \in FreeOf(u, hi) <=>
                x = m \/ (x \in FreeOf(t, hi) /\ x \notin neighbours(h))
  <2>1. ASSUME NEW x \in FreeOf(u, hi), x # m
        PROVE  x \in FreeOf(t, hi) /\ x \notin neighbours(h)
    <3>1. x \in BlocksOf(t, hi) /\ x # h /\ ~(R /\ x = r) /\ ~t[x].allocated
      BY <1>17, <1>21, <1>24, <2>1 DEF FreeOf
    <3>2. L => m = l
      BY DEF m
    <3> QED
      BY <1>8, <2>1, <3>1, <3>2 DEF FreeOf
  <2>2. ASSUME NEW x \in FreeOf(t, hi), x \notin neighbours(h), x # m
        PROVE  x \in FreeOf(u, hi)
    <3>1. x \in BlocksOf(t, hi) /\ ~t[x].allocated /\ x # h /\ ~(R /\ x = r)
      BY <1>1, <1>8, <2>2 DEF FreeOf
    <3> QED
      BY <1>17, <1>21, <2>2, <3>1 DEF FreeOf
  <2>3. m \in FreeOf(u, hi)
    BY <1>17, <1>23 DEF FreeOf
  <2> QED
    BY <2>1, <2>2, <2>3
<1>28. /\ DOMAIN w = (DOMAIN m_free_tree \ gone) \cup {node_of(m)}
       /\ w[node_of(m)] = size
       /\ \A n \in DOMAIN w : n # node_of(m) => w[n] = m_free_tree[n]
  BY DEF Tree!inserted
<1> HIDE DEF w, without
<1>29. \A x, y \in BlocksOf(t, hi) : node_of(x) = node_of(y) => x = y
  BY <1>18 DEF node_of, word_size
<1>30. neighbours(h) \subseteq BlocksOf(t, hi)
  BY <1>6, <1>7, <1>8 DEF FreeOf
<1>31. DOMAIN w = {node_of(x) : x \in FreeOf(u, hi)}
  <2>1. DOMAIN m_free_tree = {node_of(x) : x \in FreeOf(t, hi)}
    BY DEF Kept
  <2>2. ASSUME NEW x \in FreeOf(t, hi)
        PROVE  node_of(x) \in gone <=> x \in neighbours(h)
    BY <1>29, <1>30 DEF FreeOf
  <2> HIDE DEF gone
  <2> QED
    BY <1>27, <1>28, <2>1, <2>2
<1>32. ASSUME NEW x \in FreeOf(u, hi)
       PROVE  w[node_of(x)] = u[x].size
  <2>1. CASE x = m
    BY <1>17, <1>28, <2>1
  <2>2. CASE x # m
    <3>1. x \in FreeOf(t, hi) /\ x \in BlocksOf(t, hi) /\ u[x] = t[x]
      BY <1>17, <1>27, <2>2 DEF FreeOf
    <3>2. node_of(x) # node_of(m) /\ node_of(x) \in DOMAIN w
      BY <1>13, <1>29, <1>31, <2>2, <3>1
    <3> QED
      BY <1>28, <3>1, <3>2 DEF Kept
  <2> QED
    BY <2>1, <2>2
<1>33. u[hi] = t[hi] /\ t[hi].allocated
  BY <1>1, <1>17 DEF TiledBy, fake_tag
<1>34. ASSUME NEW x \in FreeOf(u, hi)
       PROVE  u[EndOf(u, x) + word_size].allocated
  <2> DEFINE n == EndOf(u, x) + word_size
  <2>1. n \in BlocksOf(u, hi) \cup {hi}
    BY <1>17, BlockPlace DEF FreeOf
  <2>2. n # m
    <3>1. CASE x = m
      <4>1. x \in Nat /\ EndOf(u, x) = x + word_size + u[x].size /\ u[x].size \in Nat
        BY <1>17, BlockPlace DEF FreeOf
      <4> QED
        BY <3>1, <4>1 DEF word_size
    <3>2. CASE x # m
      <4>1. x \in FreeOf(t, hi) /\ x \in BlocksOf(t, hi) /\ u[x] = t[x]
        BY <1>17, <1>27, <3>2 DEF FreeOf
      <4>2. n = EndOf(t, x) + word_size
        BY <4>1 DEF EndOf
      <4>3. t[n].allocated
        BY <4>1, <4>2 DEF Kept
      <4>4. m # h => n # m
        BY <1>25, <4>3 DEF FreeOf
      <4>5. n = h => ~L
        <5> SUFFICES ASSUME n = h, L PROVE FALSE
          OBVIOUS
        <5>1. EndOf(t, x) \in Nat /\ EndOf(t, x) = h - word_size
          <6>1. x \in Nat /\ t[x].size \in Nat
            BY <1>1, <4>1, BlockPlace
          <6> QED
            BY <4>2, <6>1 DEF EndOf, footer_of, word_size
        <5>2. t[EndOf(t, x)] = t[x]
          BY <1>1, <4>1 DEF TiledBy
        <5>3. l \in BlocksOf(t, hi) /\ EndOf(t, l) = h - word_size
          BY <1>7 DEF FreeOf
        <5>4. x = l
          <6>1. /\ x \in Nat /\ t[x].size \in Nat /\ l \in Nat /\ t[l].size \in Nat
            BY <1>1, <4>1, <5>3, BlockPlace
          <6>2. t[x] = t[l]
            BY <1>7, <5>1, <5>2
          <6> QED
            BY <5>1, <5>3, <6>1, <6>2 DEF EndOf, footer_of, word_size
        <5> QED
          BY <1>9, <1>27, <3>2, <5>4
      <4>6. n = h => t[h - word_size] = t[x]
        <5> SUFFICES ASSUME n = h PROVE t[h - word_size] = t[x]
          OBVIOUS
        <5>1. x \in Nat /\ t[x].size \in Nat
          BY <1>1, <4>1, BlockPlace
        <5>2. EndOf(t, x) = h - word_size
          BY <4>2, <5>1 DEF EndOf, footer_of, word_size
        <5>3. t[EndOf(t, x)] = t[x]
          BY <1>1, <4>1 DEF TiledBy
        <5> QED
          BY <5>2, <5>3
      <4>7. n # h
        BY <4>1, <4>5, <4>6 DEF L, FreeOf
      <4> QED
        BY <4>4, <4>7
    <3> QED
      BY <3>1, <3>2
  <2>3. t[n].allocated
    <3>1. CASE x = m
      <4>1. n = EndOf(t, g) + word_size
        BY <1>15, <1>17, <3>1 DEF EndOf, footer_of
      <4>2. CASE R
        BY <1>6, <1>20, <4>1, <4>2 DEF Kept
      <4>3. CASE ~R
        BY <1>3, <1>20, <4>1, <4>3 DEF R
      <4> QED
        BY <4>2, <4>3
    <3>2. CASE x # m
      <4>1. x \in FreeOf(t, hi) /\ u[x] = t[x]
        BY <1>17, <1>27, <3>2 DEF FreeOf
      <4> QED
        BY <4>1 DEF Kept, EndOf
    <3> QED
      BY <3>1, <3>2
  <2> QED
    BY <1>17, <1>33, <2>1, <2>2, <2>3
<1>35. Kept(u, w, lo, hi)
  BY <1>17, <1>31, <1>32, <1>34 DEF Kept
<1>36. \A x \in Used(u, hi) : u[x] = t[x]
  BY <1>17, <1>25 DEF Used
<1>37. released(h).tags = u /\ released(h).tree = w
  <2>1. (IF left_of(h) \in neighbours(h) THEN left_of(h) ELSE h) = m
    BY <1>9 DEF m, l
  <2> QED
    BY <2>1 DEF released, u, w, without, size
<1> QED
  BY <1>26, <1>35, <1>36, <1>37 DEF GivenBack
(***************************************************************************)
(* A free block that fits is handed out, whole or in part.                 *)
(***************************************************************************)
LEMMA TakenKept ==
    ASSUME NEW lo \in Nat, NEW hi \in Nat, Kept(tags, m_free_tree, lo, hi),
           NEW node \in DOMAIN m_free_tree, NEW search \in Nat, Whole(search),
           search >= node_size, m_free_tree[node] >= search
    PROVE  /\ node - word_size \in FreeOf(tags, hi)
           /\ HandedOut(tags, taken(node, search).tags,
                        taken(node, search).tree, node - word_size,
                        search, lo, hi)
<1>1. PICK h \in FreeOf(tags, hi) : node = node_of(h)
  BY DEF Kept
<1>2. TiledBy(tags, lo, hi) /\ h \in BlocksOf(tags, hi)
  BY DEF Kept, FreeOf
<1>3. h \in Nat /\ tags[h].size \in Nat /\ Whole(tags[h].size)
  BY <1>2, BlockPlace
<1>4. node - word_size = h
  BY <1>1, <1>3 DEF node_of, word_size
<1>5. m_free_tree[node] = tags[h].size
  BY <1>1 DEF Kept
<1> DEFINE orig == tags[h].size
           rest == next_of(h, search)
           rs == orig - search - 2 * word_size
<1>6. CASE splits(orig, search)
  <2>1. orig - search >= 56
    BY <1>6 DEF splits, min_split_size, word_size, node_size
  <2>2. /\ rs \in Nat /\ rs >= node_size /\ orig = search + 2 * word_size + rs
        /\ orig - search \in Nat /\ search <= orig /\ 16 <= orig - search
    BY <1>3, <2>1 DEF word_size, node_size
  <2>3. Whole(orig - search)
    BY <1>3, <2>2, WholeSum
  <2>4. Whole(16) /\ rs = (orig - search) - 16
    BY DEF Whole, word_size
  <2>5. Whole(rs)
    BY <2>2, <2>3, <2>4, WholeSum
  <2>6. rest = h + 2 * word_size + search
    BY <1>3 DEF next_of, footer_of, word_size
  <2>7. /\ taken(node, search).tags
             = update_block(update_block(tags, h, search, TRUE), rest, rs, FALSE)
        /\ taken(node, search).tree
             = Tree!inserted(Tree!removed(m_free_tree, node_of(h)),
                             node_of(rest), rs)
    BY <1>1, <1>4, <1>5, <1>6 DEF taken
  <2> HIDE DEF rest, rs
  <2>8. HandedOut(tags, taken(node, search).tags, taken(node, search).tree,
                  h, search, lo, hi)
    BY <2>2, <2>5, <2>6, <2>7, SplitKept
  <2> QED
    BY <1>4, <2>8
<1>7. CASE ~splits(orig, search)
  <2>1. /\ taken(node, search).tags = update_block(tags, h, tags[h].size, TRUE)
        /\ taken(node, search).tree = Tree!removed(m_free_tree, node_of(h))
    BY <1>1, <1>4, <1>5, <1>7 DEF taken
  <2>2. search <= tags[h].size
    BY <1>3, <1>5
  <2>3. HandedOut(tags, taken(node, search).tags, taken(node, search).tree,
                  h, search, lo, hi)
    BY <2>1, <2>2, WholeKept
  <2> QED
    BY <1>4, <2>3
<1> QED
  BY <1>6, <1>7

(***************************************************************************)
(* What clear() writes is one free block between the fake tags.            *)
(***************************************************************************)
LEMMA ClearedKept ==
    ASSUME NEW start \in Nat, NEW total \in Nat, Whole(total),
           total >= tree_size + 4 * word_size + node_size
    PROVE  LET lo == prologue(start)
               hi == epilogue(start, total)
               c == cleared(start, total)
           IN  Kept(c.tags, c.tree, lo, hi) /\ Used(c.tags, hi) = {}
<1> USE DEF word_size, node_size, tree_size
<1> DEFINE lo == prologue(start)
           hi == epilogue(start, total)
           h == first_block(start)
           size == hi - h - 2 * 8
           f == footer_of(h, size)
           ends == [a \in {lo, hi} |-> Tag(0, TRUE)]
           u == update_block(ends, h, size, FALSE)
           w == [n \in {node_of(h)} |-> size]
<1>1. /\ lo \in Nat /\ h = lo + 8 /\ h \in Nat /\ size = total - 80
      /\ hi = h + 16 + size /\ f = h + 8 + size /\ hi \in Nat
      /\ size \in Nat /\ size >= 40
  BY DEF prologue, epilogue, first_block, footer_of
<1>2. Whole(size)
  <2>1. Whole(80)
    BY DEF Whole
  <2> QED
    BY <1>1, <2>1, WholeSum
<1>3. Tag(size, FALSE) = [size |-> size, allocated |-> FALSE]
  BY <1>1, <1>2, TagExact
<1>4. ends = [a \in {lo, hi} |-> fake_tag]
  BY FakeTag
<1>5. u = [a \in {b \in {lo, hi} : b < h \/ b > f} \cup {h, f} |->
             IF a \in {h, f} THEN Tag(size, FALSE) ELSE ends[a]]
  BY DEF update_block
<1>6. cleared(start, total).tags = u /\ cleared(start, total).tree = w
  BY DEF cleared
<1>7. DOMAIN w = {node_of(h)} /\ w[node_of(h)] = size
  OBVIOUS
<1> HIDE DEF lo, hi, h, size, f, ends, u, w
<1>8. /\ DOMAIN u = {lo, hi, h, f}
      /\ u[lo] = fake_tag /\ u[hi] = fake_tag
      /\ u[h] = [size |-> size, allocated |-> FALSE] /\ u[f] = u[h]
  <2>1. /\ lo # h /\ lo # f /\ hi # h /\ hi # f /\ lo < h /\ hi > f
    BY <1>1
  <2> QED
    BY <1>3, <1>4, <1>5, <2>1
<1>9. BlocksOf(u, hi) = {h}
  BY <1>1, <1>8 DEF BlocksOf
<1>10. u[h].size = size /\ ~u[h].allocated
  BY <1>8
<1>11. EndOf(u, h) = f
  BY <1>10 DEF EndOf, f
<1>12. TiledBy(u, lo, hi)
  <2>1. \A x \in DOMAIN u : x \in Nat /\ lo <= x /\ x <= hi
    BY <1>1, <1>8
  <2>2. \A x \in DOMAIN u : u[x] \in [size : Nat, allocated : BOOLEAN]
    <3>1. fake_tag \in [size : Nat, allocated : BOOLEAN]
      BY DEF fake_tag
    <3>2. [size |-> size, allocated |-> FALSE] \in [size : Nat, allocated : BOOLEAN]
      BY <1>1
    <3> QED
      BY <1>8, <3>1, <3>2
  <2>3. /\ u[h].size >= 40 /\ Whole(u[h].size)
        /\ f \in DOMAIN u /\ u[f] = u[h] /\ f + 8 \in DOMAIN u
        /\ \A x \in DOMAIN u : x <= h \/ x >= f
    <3>1. f + 8 = hi
      BY <1>1
    <3>2. \A x \in DOMAIN u : x <= h \/ x >= f
      BY <1>1, <1>8
    <3> QED
      BY <1>1, <1>2, <1>8, <1>10, <3>1, <3>2
  <2>4. lo + 8 \in BlocksOf(u, hi) /\ hi - 8 \in DOMAIN u
    BY <1>1, <1>8, <1>9
  <2> QED
    BY <1>8, <1>9, <1>11, <2>1, <2>2, <2>3, <2>4 DEF TiledBy
<1>13. FreeOf(u, hi) = {h} /\ Used(u, hi) = {}
  BY <1>9, <1>10 DEF FreeOf, Used
<1>14. u[EndOf(u, h) + 8].allocated
  <2>1. f + 8 = hi
    BY <1>1
  <2> QED
    BY <1>8, <1>11, <2>1 DEF fake_tag
<1>15. Kept(u, w, lo, hi)
  BY <1>7, <1>10, <1>12, <1>13, <1>14 DEF Kept
<1> QED
  BY <1>6, <1>13, <1>15 DEF lo, hi
-----------------------------------------------------------------------------
(***************************************************************************)
(* Every allocation lies in a block in use of its own, behind the back     *)
(* pointer, and every block in use is that of an allocation.               *)
(***************************************************************************)
Held(t, bk, lv, hi) ==
    /\ \A a \in lv : /\ bk[a.ptr] \in Used(t, hi)
                     /\ bk[a.ptr] + 2 * word_size <= a.ptr
                     /\ a.size > 0 /\ End(a) <= EndOf(t, bk[a.ptr])
    /\ \A a, b \in lv : bk[a.ptr] = bk[b.ptr] => a = b
    /\ \A h \in Used(t, hi) : \E a \in lv : bk[a.ptr] = h

Lo == prologue(m_start_ptr)
Hi == epilogue(m_start_ptr, m_total_size)

Typed ==
    /\ alive \in BOOLEAN /\ fault \in BOOLEAN
    /\ m_start_ptr \in Word /\ m_total_size \in Word
    /\ live \subseteq Allocation
    /\ DOMAIN back = {a.ptr : a \in live}

\* Without a region there is nothing to keep.
NoRegion ==
    m_start_ptr = NULL =>
      DOMAIN m_free_tree = {} /\ DOMAIN tags = {} /\ live = {}

\* A region has room for a block, and only a lack of one leads to a fault.
Region ==
    m_start_ptr # NULL =>
      /\ ~fault /\ Whole(m_total_size)
      /\ m_total_size >= tree_size + 4 * word_size + node_size
      /\ m_start_ptr + m_total_size <= SIZE_MAX

HeapKept ==
    m_start_ptr # NULL =>
      Kept(tags, m_free_tree, Lo, Hi) /\ Held(tags, back, live, Hi)

IndInv == Typed /\ NoRegion /\ Region /\ HeapKept

\* The alignment that alloc_raw works with.
LEMMA LeastAlign ==
    ASSUME NEW align \in Word, ~BadAlign(align)
    PROVE  /\ least_align(align) \in Nat \ {0}
           /\ least_align(align) % align = 0 /\ align \in Nat \ {0}
<1>1. align \in Nat \ {0} /\ IsPow2(align)
  BY WordAssumption DEF BadAlign, Word
<1>2. IsPow2(8)
  BY Eight
<1>3. least_align(align) \in {align, 8} /\ align <= least_align(align)
  BY <1>1 DEF least_align, MaxOf, word_size
<1>4. least_align(align) \in Nat \ {0} /\ IsPow2(least_align(align))
  BY <1>1, <1>2, <1>3
<1> QED
  BY <1>1, <1>3, <1>4, Pow2Divides

\* search_size is what the request takes in the worst case.
LEMMA SearchSize ==
    ASSUME NoWrap, NEW size \in Sizes, NEW align \in Aligns,
           well_formed(size, align)
    PROVE  /\ search_size(size, align) \in Nat
           /\ Whole(search_size(size, align))
           /\ search_size(size, align) >= node_size
           /\ search_size(size, align)
                >= size + (least_align(align) - 1) + word_size
<1> DEFINE la == least_align(align)
           need == size + (la - 1) + word_size
           up == align_up(need, word_size)
<1>1. size \in Nat /\ la \in Nat \ {0}
  BY ArgAssumption, WordAssumption, LeastAlign DEF well_formed, Word
<1>2. size + (la - 1) + 2 * word_size - 1 <= SIZE_MAX
  BY DEF NoWrap
<1> HIDE DEF la
<1>3. need \in Nat /\ need + (word_size - 1) <= SIZE_MAX /\ word_size \in Nat \ {0}
  BY <1>1, <1>2, WordAssumption DEF word_size
<1> HIDE DEF need
<1>4. up \in Nat /\ need <= up /\ up % word_size = 0
  BY <1>3, AlignUpFits
<1>5. search_size(size, align) = MaxOf(up, node_size)
  BY DEF search_size, la, need
<1> HIDE DEF up
<1>6. Whole(node_size) /\ node_size \in Nat
  BY DEF Whole, node_size, word_size
<1> QED
  BY <1>3, <1>4, <1>5, <1>6 DEF MaxOf, Whole, need, la

\* Where align_ptr puts the data of a block.
LEMMA AlignPtr ==
    ASSUME NEW node \in Nat, NEW align \in Word, ~BadAlign(align),
           node + word_size + (least_align(align) - 1) <= SIZE_MAX
    PROVE  /\ align_ptr(node, align) \in Nat
           /\ node + word_size <= align_ptr(node, align)
           /\ align_ptr(node, align)
                <= node + word_size + (least_align(align) - 1)
           /\ align_ptr(node, align) % align = 0
<1> DEFINE la == least_align(align)
           ptr == align_up(node + word_size, la)
<1>1. la \in Nat \ {0} /\ la % align = 0 /\ align \in Nat \ {0}
  BY LeastAlign
<1>2. node + word_size \in Nat
  BY DEF word_size
<1>3. /\ ptr \in Nat /\ node + word_size <= ptr
      /\ ptr <= node + word_size + (la - 1) /\ ptr % la = 0
  BY <1>1, <1>2, AlignUpFits
<1> HIDE DEF la, ptr
<1>4. ptr % align = 0
  BY <1>1, <1>3, ModTrans
<1>5. align_ptr(node, align) = ptr
  BY DEF align_ptr, ptr, la
<1> QED
  BY <1>3, <1>4, <1>5 DEF la

(***************************************************************************)
(* What a request that is served does: the data lies in the block that was *)
(* handed out, at a multiple of its alignment.                             *)
(***************************************************************************)
LEMMA AllocFacts ==
    ASSUME NoWrap, IndInv, NEW size \in Sizes, NEW align \in Aligns,
           alloc_raw(size, align)
    PROVE  \E ptr \in Word, h \in FreeOf(tags, Hi), search \in Nat :
             /\ HandedOut(tags, tags', m_free_tree', h, search, Lo, Hi)
             /\ h + 2 * word_size <= ptr /\ ptr + size <= EndOf(tags', h)
             /\ size > 0 /\ align > 0 /\ ptr % align = 0
             /\ back' = [p \in DOMAIN back \cup {ptr} |->
                           IF p = ptr THEN h ELSE back[p]]
             /\ live' = live \cup {[ptr |-> ptr, size |-> size, align |-> align]}
             /\ fault' = FALSE
<1> DEFINE search == search_size(size, align)
           la == least_align(align)
<1>1. PICK node \in Tree!find_best(m_free_tree, search) :
        /\ Becomes(taken(node, search))
        /\ back' = [p \in DOMAIN back \cup {align_ptr(node, align)} |->
                      IF p = align_ptr(node, align)
                      THEN node - word_size ELSE back[p]]
        /\ live' = live \cup {[ptr |-> align_ptr(node, align),
                               size |-> size, align |-> align]}
        /\ fault' = (align_ptr(node, align) + size
                       > footer_of(node - word_size,
                           taken(node, search).tags[node - word_size].size))
  BY DEF alloc_raw
<1>2. well_formed(size, align) /\ m_start_ptr # NULL
  BY DEF alloc_raw
<1>3. /\ size \in Nat /\ align \in Word /\ ~BadAlign(align) /\ size > 0
      /\ la \in Nat \ {0} /\ align \in Nat \ {0}
  BY <1>2, ArgAssumption, WordAssumption, LeastAlign DEF well_formed, Word
<1>4. /\ m_start_ptr \in Nat /\ m_total_size \in Nat /\ m_total_size >= 120
      /\ m_start_ptr + m_total_size <= SIZE_MAX
      /\ Kept(tags, m_free_tree, Lo, Hi)
  BY <1>2, WordAssumption
     DEF IndInv, Typed, Region, HeapKept, Word, tree_size, word_size, node_size
<1>5. Lo \in Nat /\ Hi \in Nat /\ Hi < SIZE_MAX
  BY <1>4, WordAssumption DEF Lo, Hi, prologue, epilogue, word_size, tree_size
<1>6. node \in DOMAIN m_free_tree /\ m_free_tree[node] >= search
  BY DEF Tree!find_best, Tree!fitting
<1>7. /\ search \in Nat /\ Whole(search) /\ search >= node_size
      /\ search >= size + (la - 1) + word_size
  BY <1>2, SearchSize
<1> DEFINE h == node - word_size
           ptr == align_ptr(node, align)
<1> HIDE DEF search, la
<1>8. tags' = taken(node, search).tags /\ m_free_tree' = taken(node, search).tree
  BY <1>1 DEF Becomes
<1>9. /\ h \in FreeOf(tags, Hi)
      /\ HandedOut(tags, tags', m_free_tree', h, search, Lo, Hi)
  BY <1>4, <1>5, <1>6, <1>7, <1>8, TakenKept
<1>10. h \in BlocksOf(tags, Hi) /\ TiledBy(tags, Lo, Hi)
  BY <1>4, <1>9 DEF FreeOf, Kept
<1>11. h \in Nat /\ EndOf(tags, h) + word_size <= Hi /\ EndOf(tags, h) \in Nat
  <2>1. /\ h \in Nat /\ EndOf(tags, h) + word_size <= Hi
        /\ tags[h].size \in Nat /\ EndOf(tags, h) = h + word_size + tags[h].size
    BY <1>5, <1>10, BlockPlace
  <2> QED
    BY <2>1 DEF word_size
<1>12. node = h + word_size
  <2>1. PICK x \in FreeOf(tags, Hi) : node = node_of(x)
    BY <1>4, <1>6 DEF Kept
  <2>2. x \in Nat
    BY <1>4, <1>5, BlockPlace DEF FreeOf, Kept
  <2> QED
    BY <2>1, <2>2 DEF node_of, word_size
<1>13. /\ h + word_size + search <= EndOf(tags', h)
       /\ EndOf(tags', h) <= EndOf(tags, h)
  BY <1>9 DEF HandedOut
<1>14. EndOf(tags', h) \in Nat
  <2>1. h \in BlocksOf(tags', Hi) /\ TiledBy(tags', Lo, Hi)
    BY <1>9 DEF HandedOut, Kept, Used
  <2>2. /\ tags'[h].size \in Nat /\ EndOf(tags', h) = h + word_size + tags'[h].size
    BY <1>5, <2>1, BlockPlace
  <2> QED
    BY <1>11, <2>2 DEF word_size
<1> HIDE DEF h
<1>15. node \in Nat /\ node + word_size + (la - 1) <= SIZE_MAX
  BY <1>3, <1>5, <1>7, <1>11, <1>12, <1>13, <1>14, WordAssumption DEF word_size
<1>16. /\ ptr \in Nat /\ node + word_size <= ptr
       /\ ptr <= node + word_size + (la - 1) /\ ptr % align = 0
  BY <1>3, <1>15, AlignPtr DEF la
<1> HIDE DEF ptr
<1>17. h + 2 * word_size <= ptr /\ ptr + size <= EndOf(tags', h)
  BY <1>3, <1>7, <1>11, <1>12, <1>13, <1>14, <1>16 DEF word_size
<1>18. ptr \in Word
  BY <1>3, <1>5, <1>11, <1>13, <1>14, <1>16, <1>17, WordAssumption
     DEF Word, word_size
<1>19. fault' = FALSE
  <2> DEFINE past == ptr + size > footer_of(h, taken(node, search).tags[h].size)
  <2>1. fault' = past
    BY <1>1 DEF ptr, h
  <2>2. EndOf(tags', h) = footer_of(h, taken(node, search).tags[h].size)
    BY <1>8 DEF EndOf
  <2>3. past = FALSE
    BY <1>3, <1>14, <1>16, <1>17, <2>2
  <2> HIDE DEF past
  <2> QED
    BY <2>1, <2>3
<1>20. /\ back' = [p \in DOMAIN back \cup {ptr} |->
                     IF p = ptr THEN h ELSE back[p]]
       /\ live' = live \cup {[ptr |-> ptr, size |-> size, align |-> align]}
  BY <1>1 DEF ptr, h
<1> QED
  BY <1>3, <1>7, <1>9, <1>16, <1>17, <1>18, <1>19, <1>20

\* Data in two blocks does not overlap.
LEMMA Apart ==
    ASSUME NEW t, NEW lo \in Nat, NEW hi \in Nat, TiledBy(t, lo, hi),
           NEW g \in BlocksOf(t, hi), NEW h \in BlocksOf(t, hi), g # h,
           NEW p \in Nat, NEW n \in Nat, g <= p, p + n <= EndOf(t, g),
           NEW q \in Nat, NEW k \in Nat, h <= q, q + k <= EndOf(t, h)
    PROVE  p + n <= q \/ q + k <= p
<1>1. g \in Nat /\ h \in Nat
  BY BlockPlace
<1>2. EndOf(t, g) \in Nat /\ EndOf(t, h) \in Nat
  BY DEF TiledBy
<1>3. CASE g < h
  <2>1. EndOf(t, g) + word_size <= h
    BY <1>3, Spacing
  <2> QED
    BY <1>1, <1>2, <2>1 DEF word_size
<1>4. CASE h < g
  <2>1. EndOf(t, h) + word_size <= g
    BY <1>4, Spacing
  <2> QED
    BY <1>1, <1>2, <2>1 DEF word_size
<1> QED
  BY <1>1, <1>3, <1>4

\* The bounds of a region, as naturals.
LEMMA RegionFacts ==
    ASSUME IndInv, m_start_ptr # NULL
    PROVE  /\ m_start_ptr \in Nat /\ m_total_size \in Nat
           /\ m_total_size >= 120 /\ m_start_ptr + m_total_size <= SIZE_MAX
           /\ Lo \in Nat /\ Hi \in Nat /\ m_start_ptr <= Lo
           /\ Hi < m_start_ptr + m_total_size
           /\ Kept(tags, m_free_tree, Lo, Hi) /\ TiledBy(tags, Lo, Hi)
           /\ Held(tags, back, live, Hi)
<1>1. m_start_ptr \in Nat /\ m_total_size \in Nat
  BY WordAssumption DEF IndInv, Typed, Word
<1>2. m_total_size >= 120 /\ m_start_ptr + m_total_size <= SIZE_MAX
  BY DEF IndInv, Region, tree_size, word_size, node_size
<1>3. /\ Kept(tags, m_free_tree, Lo, Hi) /\ TiledBy(tags, Lo, Hi)
      /\ Held(tags, back, live, Hi)
  BY DEF IndInv, HeapKept, Kept
<1> QED
  BY <1>1, <1>2, <1>3 DEF Lo, Hi, prologue, epilogue, tree_size, word_size

\* What is known of an allocation.
LEMMA LiveFacts ==
    ASSUME IndInv, m_start_ptr # NULL, NEW a \in live
    PROVE  /\ a \in Allocation /\ a.ptr \in Nat /\ a.size \in Nat
           /\ back[a.ptr] \in Used(tags, Hi)
           /\ back[a.ptr] \in BlocksOf(tags, Hi) /\ back[a.ptr] \in Nat
           /\ back[a.ptr] + 2 * word_size <= a.ptr /\ a.size > 0
           /\ a.ptr + a.size <= EndOf(tags, back[a.ptr])
<1>1. a \in Allocation /\ a.ptr \in Nat /\ a.size \in Nat
  BY WordAssumption DEF IndInv, Typed, Allocation, Word
<1>2. /\ back[a.ptr] \in Used(tags, Hi) /\ a.size > 0
      /\ back[a.ptr] + 2 * word_size <= a.ptr
      /\ a.ptr + a.size <= EndOf(tags, back[a.ptr])
  BY RegionFacts DEF Held, End
<1>3. back[a.ptr] \in BlocksOf(tags, Hi)
  BY <1>2 DEF Used
<1>4. back[a.ptr] \in Nat
  BY <1>3, RegionFacts, BlockPlace
<1> QED
  BY <1>1, <1>2, <1>3, <1>4

\* A served request keeps the invariant.
LEMMA AllocInv ==
    ASSUME NoWrap, IndInv, NEW size \in Sizes, NEW align \in Aligns,
           alloc_raw(size, align)
    PROVE  IndInv'
<1>1. m_start_ptr # NULL /\ UNCHANGED <<alive, m_start_ptr, m_total_size>>
  BY DEF alloc_raw, region
<1>2. PICK ptr \in Word, h \in FreeOf(tags, Hi), search \in Nat :
        /\ HandedOut(tags, tags', m_free_tree', h, search, Lo, Hi)
        /\ h + 2 * word_size <= ptr /\ ptr + size <= EndOf(tags', h)
        /\ size > 0 /\ align > 0 /\ ptr % align = 0
        /\ back' = [p \in DOMAIN back \cup {ptr} |->
                      IF p = ptr THEN h ELSE back[p]]
        /\ live' = live \cup {[ptr |-> ptr, size |-> size, align |-> align]}
        /\ fault' = FALSE
  BY AllocFacts
<1>3. size \in Word /\ align \in Word /\ ptr \in Nat /\ size \in Nat
  BY ArgAssumption, WordAssumption DEF Word
<1> DEFINE new == [ptr |-> ptr, size |-> size, align |-> align]
<1>4. /\ new \in Allocation /\ new.ptr = ptr /\ new.size = size
      /\ live' = live \cup {new}
  BY <1>2, <1>3 DEF Allocation
<1> HIDE DEF new
<1>5. /\ DOMAIN back' = DOMAIN back \cup {ptr} /\ back'[ptr] = h
      /\ \A p \in DOMAIN back : p # ptr => back'[p] = back[p]
  BY <1>2
<1>6. Typed'
  <2>1. DOMAIN back' = {a.ptr : a \in live'}
    BY <1>4, <1>5 DEF IndInv, Typed
  <2>2. live' \subseteq Allocation
    BY <1>4 DEF IndInv, Typed
  <2>3. fault' \in BOOLEAN /\ alive' \in BOOLEAN
    BY <1>1, <1>2 DEF IndInv, Typed
  <2> QED
    BY <1>1, <2>1, <2>2, <2>3 DEF IndInv, Typed
<1>7. NoRegion' /\ Region'
  BY <1>1, <1>2 DEF IndInv, NoRegion, Region
<1>8. Lo' = Lo /\ Hi' = Hi
  BY <1>1 DEF Lo, Hi
<1>9. /\ Kept(tags', m_free_tree', Lo, Hi) /\ TiledBy(tags', Lo, Hi)
      /\ Used(tags', Hi) = Used(tags, Hi) \cup {h}
      /\ \A x \in Used(tags, Hi) : tags'[x] = tags[x]
  BY <1>2 DEF HandedOut, Kept
<1>10. h \in BlocksOf(tags', Hi) /\ h \notin Used(tags, Hi) /\ h \in Nat
  <2>1. h \in BlocksOf(tags', Hi) /\ h \notin Used(tags, Hi)
    BY <1>9 DEF Used, FreeOf
  <2> QED
    BY <1>1, <1>9, <2>1, RegionFacts, BlockPlace
<1>11. ASSUME NEW a \in live
       PROVE  /\ back'[a.ptr] = back[a.ptr] /\ back[a.ptr] # h
              /\ back[a.ptr] \in Used(tags', Hi)
              /\ back[a.ptr] + 2 * word_size <= a.ptr
              /\ a.size > 0 /\ End(a) <= EndOf(tags', back[a.ptr])
  <2>1. /\ a.ptr \in Nat /\ a.size \in Nat /\ back[a.ptr] \in Used(tags, Hi)
        /\ back[a.ptr] + 2 * word_size <= a.ptr /\ a.size > 0
        /\ a.ptr + a.size <= EndOf(tags, back[a.ptr]) /\ back[a.ptr] \in Nat
    BY <1>1, LiveFacts
  <2>2. back[a.ptr] # h /\ back[a.ptr] \in Used(tags', Hi)
    BY <1>9, <1>10, <2>1
  <2>3. EndOf(tags', back[a.ptr]) = EndOf(tags, back[a.ptr])
    BY <1>9, <2>1 DEF EndOf
  <2>4. back[a.ptr] \in BlocksOf(tags', Hi)
    BY <2>2 DEF Used
  <2>5. h <= ptr /\ back[a.ptr] <= a.ptr
    BY <1>2, <1>3, <1>10, <2>1 DEF word_size
  <2>6. a.ptr + a.size <= ptr \/ ptr + size <= a.ptr
    <3>1. Lo \in Nat /\ Hi \in Nat /\ TiledBy(tags', Lo, Hi)
      BY <1>1, <1>9, RegionFacts
    <3>2. a.ptr + a.size <= EndOf(tags', back[a.ptr])
      BY <2>1, <2>3
    <3>3. ptr + size <= EndOf(tags', h) /\ ptr \in Nat /\ size \in Nat
          /\ a.ptr \in Nat /\ a.size \in Nat
      BY <1>2, <1>3, <2>1
    <3> QED
      BY ONLY <1>10, <2>2, <2>4, <2>5, <3>1, <3>2, <3>3, Apart
  <2>7. a.ptr # ptr
    BY <1>2, <1>3, <2>1, <2>6
  <2>8. a.ptr \in DOMAIN back
    BY DEF IndInv, Typed
  <2> QED
    BY <1>5, <2>1, <2>2, <2>3, <2>7, <2>8 DEF End
<1>12. /\ back'[new.ptr] = h /\ h \in Used(tags', Hi)
       /\ h + 2 * word_size <= new.ptr /\ new.size > 0
       /\ End(new) <= EndOf(tags', h)
  BY <1>2, <1>4, <1>5, <1>9 DEF End
<1>13. Held(tags', back', live', Hi)
  <2>1. \A a \in live' : /\ back'[a.ptr] \in Used(tags', Hi)
                         /\ back'[a.ptr] + 2 * word_size <= a.ptr
                         /\ a.size > 0 /\ End(a) <= EndOf(tags', back'[a.ptr])
    BY <1>4, <1>11, <1>12
  <2>2. ASSUME NEW a \in live', NEW b \in live', back'[a.ptr] = back'[b.ptr]
        PROVE  a = b
    <3>1. \A x, y \in live : back[x.ptr] = back[y.ptr] => x = y
      BY <1>1, RegionFacts DEF Held
    <3> QED
      BY <1>4, <1>11, <1>12, <2>2, <3>1
  <2>3. ASSUME NEW g \in Used(tags', Hi)
        PROVE  \E a \in live' : back'[a.ptr] = g
    <3>1. CASE g = h
      BY <1>4, <1>12, <3>1
    <3>2. CASE g # h
      <4>1. PICK a \in live : back[a.ptr] = g
        BY <1>1, <1>9, <3>2, RegionFacts DEF Held
      <4> QED
        BY <1>4, <1>11, <4>1
    <3> QED
      BY <3>1, <3>2
  <2> QED
    BY <2>1, <2>2, <2>3 DEF Held
<1>14. HeapKept'
  BY <1>8, <1>9, <1>13 DEF HeapKept
<1> QED
  BY <1>6, <1>7, <1>14 DEF IndInv

\* free_raw keeps it.
LEMMA FreeInv ==
    ASSUME IndInv, NEW a \in live, free_raw(a)
    PROVE  IndInv'
<1> DEFINE h == back[a.ptr]
<1>1. /\ tags' = released(h).tags /\ m_free_tree' = released(h).tree
      /\ back' = [p \in DOMAIN back \ {a.ptr} |-> back[p]]
      /\ live' = live \ {a}
      /\ UNCHANGED <<alive, fault, m_start_ptr, m_total_size>>
  BY DEF free_raw, Becomes, region
<1>2. m_start_ptr # NULL
  BY DEF IndInv, NoRegion
<1>3. h \in Used(tags, Hi)
  BY <1>2, LiveFacts
<1>4. GivenBack(tags, tags', m_free_tree', h, Lo, Hi)
  <2>1. GivenBack(tags, released(h).tags, released(h).tree, h, Lo, Hi)
    BY <1>2, <1>3, RegionFacts, ReleasedKept
  <2> QED
    BY <1>1, <2>1
<1>5. /\ DOMAIN back = {b.ptr : b \in live}
      /\ DOMAIN back' = DOMAIN back \ {a.ptr}
      /\ \A p \in DOMAIN back' : back'[p] = back[p]
  BY <1>1 DEF IndInv, Typed
<1>6. /\ \A b, c \in live : back[b.ptr] = back[c.ptr] => b = c
      /\ \A g \in Used(tags, Hi) : \E b \in live : back[b.ptr] = g
  BY <1>2, RegionFacts DEF Held
<1>7. \A b \in live' : b \in live /\ b.ptr # a.ptr /\ b.ptr \in DOMAIN back'
                       /\ back'[b.ptr] = back[b.ptr] /\ back[b.ptr] # h
  BY <1>1, <1>5, <1>6
<1>8. DOMAIN back' = {b.ptr : b \in live'}
  <2>1. \A b \in live : b.ptr # a.ptr => b \in live'
    BY <1>1
  <2> QED
    BY <1>5, <1>7, <2>1
<1>9. Typed'
  BY <1>1, <1>8 DEF IndInv, Typed
<1>10. NoRegion' /\ Region'
  BY <1>1, <1>2 DEF IndInv, NoRegion, Region
<1>11. Lo' = Lo /\ Hi' = Hi
  BY <1>1 DEF Lo, Hi
<1>12. /\ Kept(tags', m_free_tree', Lo, Hi)
       /\ Used(tags', Hi) = Used(tags, Hi) \ {h}
       /\ \A x \in Used(tags', Hi) : tags'[x] = tags[x]
  BY <1>4 DEF GivenBack
<1> HIDE DEF h
<1>13. Held(tags', back', live', Hi)
  <2>1. ASSUME NEW b \in live'
        PROVE  /\ back'[b.ptr] \in Used(tags', Hi)
               /\ back'[b.ptr] + 2 * word_size <= b.ptr
               /\ b.size > 0 /\ End(b) <= EndOf(tags', back'[b.ptr])
    <3>1. b \in live /\ back'[b.ptr] = back[b.ptr] /\ back[b.ptr] # h
      BY <1>7
    <3>2. /\ back[b.ptr] \in Used(tags, Hi) /\ b.size > 0
          /\ back[b.ptr] + 2 * word_size <= b.ptr
          /\ End(b) <= EndOf(tags, back[b.ptr])
      BY <1>2, <3>1, RegionFacts DEF Held
    <3>3. back[b.ptr] \in Used(tags', Hi) /\ tags'[back[b.ptr]] = tags[back[b.ptr]]
      BY <1>12, <3>1, <3>2
    <3> QED
      BY <3>1, <3>2, <3>3 DEF EndOf
  <2>2. \A b, c \in live' : back'[b.ptr] = back'[c.ptr] => b = c
    BY <1>6, <1>7
  <2>3. ASSUME NEW g \in Used(tags', Hi)
        PROVE  \E b \in live' : back'[b.ptr] = g
    <3>1. PICK b \in live : back[b.ptr] = g
      BY <1>6, <1>12
    <3>2. b # a
      BY <1>12, <3>1 DEF h
    <3> QED
      BY <1>1, <1>7, <3>1, <3>2
  <2> QED
    BY <2>1, <2>2, <2>3 DEF Held
<1>14. HeapKept'
  BY <1>11, <1>12, <1>13 DEF HeapKept
<1> QED
  BY <1>9, <1>10, <1>14 DEF IndInv

\* The constructor establishes the invariant.
LEMMA InitInv == Init => IndInv
<1> SUFFICES ASSUME Init PROVE IndInv
  OBVIOUS
<1>1. /\ alive = TRUE /\ fault = FALSE /\ live = {} /\ back = <<>>
      /\ m_free_tree = IF m_start_ptr = NULL THEN <<>>
                       ELSE cleared(m_start_ptr, m_total_size).tree
      /\ tags = IF m_start_ptr = NULL THEN <<>>
                ELSE cleared(m_start_ptr, m_total_size).tags
  BY DEF Init
<1>2. PICK size \in CtorSizes :
        /\ m_start_ptr \in os_alloc(align_up(size, PAGE_SIZE))
        /\ m_total_size = IF m_start_ptr = NULL THEN 0
                          ELSE align_up(size, PAGE_SIZE)
  BY DEF Init
<1> DEFINE total == align_up(size, PAGE_SIZE)
<1>3. size \in Nat /\ PAGE_SIZE \in Nat \ {0}
  BY ArgAssumption, WordAssumption, PageAssumption DEF Word
<1>4. total \in Word /\ total % PAGE_SIZE = 0 /\ total \in Nat
  BY <1>3, AlignUpWord, AlignUpMultiple, WordAssumption DEF Word
<1> HIDE DEF total
<1>5. m_start_ptr \in Word /\ (m_start_ptr # NULL => m_start_ptr + total <= SIZE_MAX)
  BY <1>2, <1>4, OsAlloc DEF total
<1>6. m_total_size \in Word
  BY <1>2, <1>4, WordAssumption DEF total, Word
<1>7. Typed
  <2>1. DOMAIN back = {a.ptr : a \in live} /\ live \subseteq Allocation
    BY <1>1
  <2>2. alive \in BOOLEAN /\ fault \in BOOLEAN
    BY <1>1
  <2> QED
    BY <1>5, <1>6, <2>1, <2>2 DEF Typed
<1>8. NoRegion
  BY <1>1 DEF NoRegion
<1>9. CASE m_start_ptr = NULL
  BY <1>7, <1>8, <1>9 DEF IndInv, Region, HeapKept
<1>10. CASE m_start_ptr # NULL
  <2>1. total > 0 /\ m_total_size = total
    BY <1>2, <1>10 DEF os_alloc, total
  <2>2. total >= PAGE_SIZE
    <3>1. PICK q \in Nat : total = PAGE_SIZE * q
      BY <1>3, <1>4, Multiple
    <3>2. q # 0
      BY <1>3, <2>1, <3>1
    <3>3. PAGE_SIZE * q >= PAGE_SIZE
      BY <1>3, <3>2
    <3> QED
      BY <3>1, <3>3
  <2>3. total >= tree_size + 4 * word_size + node_size
    BY <1>3, <1>4, <2>2, PageHoldsBlock DEF tree_size, word_size, node_size
  <2>4. Whole(total)
    <3>1. PAGE_SIZE % word_size = 0 /\ word_size \in Nat \ {0}
      BY PageHoldsBlock DEF word_size
    <3>2. total % word_size = 0
      BY <1>3, <1>4, <3>1, ModTrans
    <3> QED
      BY <3>2 DEF Whole
  <2>5. Region
    BY <1>1, <1>5, <1>10, <2>1, <2>3, <2>4 DEF Region
  <2>6. m_start_ptr \in Nat
    BY <1>5, WordAssumption DEF Word
  <2>7. Kept(tags, m_free_tree, Lo, Hi) /\ Used(tags, Hi) = {}
    BY <1>1, <1>4, <1>10, <2>1, <2>3, <2>4, <2>6, ClearedKept DEF Lo, Hi
  <2>8. HeapKept
    BY <1>1, <2>7 DEF HeapKept, Held
  <2> QED
    BY <1>7, <1>8, <2>5, <2>8 DEF IndInv
<1> QED
  BY <1>9, <1>10

\* clear() keeps it.
LEMMA ClearInv == ASSUME IndInv, clear PROVE IndInv'
<1>1. /\ back' = <<>> /\ live' = {}
      /\ UNCHANGED <<alive, m_start_ptr, m_total_size>>
  BY DEF clear, region
<1>2. CASE m_start_ptr = NULL
  <2>1. fault' = TRUE /\ UNCHANGED <<m_free_tree, tags>>
    BY <1>2 DEF clear, heap
  <2>2. Typed'
    BY <1>1, <2>1 DEF IndInv, Typed
  <2> QED
    BY <1>1, <1>2, <2>1, <2>2 DEF IndInv, NoRegion, Region, HeapKept
<1>3. CASE m_start_ptr # NULL
  <2>1. /\ tags' = cleared(m_start_ptr, m_total_size).tags
        /\ m_free_tree' = cleared(m_start_ptr, m_total_size).tree
        /\ UNCHANGED fault
    BY <1>3 DEF clear, Becomes
  <2>2. Typed'
    BY <1>1, <2>1 DEF IndInv, Typed
  <2>3. NoRegion' /\ Region'
    BY <1>1, <1>3, <2>1 DEF IndInv, NoRegion, Region
  <2>4. /\ m_start_ptr \in Nat /\ m_total_size \in Nat /\ Whole(m_total_size)
        /\ m_total_size >= tree_size + 4 * word_size + node_size
    BY <1>3, RegionFacts DEF IndInv, Region
  <2>5. Lo' = Lo /\ Hi' = Hi
    BY <1>1 DEF Lo, Hi
  <2>6. Kept(tags', m_free_tree', Lo, Hi) /\ Used(tags', Hi) = {}
    BY <2>1, <2>4, ClearedKept DEF Lo, Hi
  <2>7. HeapKept'
    BY <1>1, <2>5, <2>6 DEF HeapKept, Held
  <2> QED
    BY <2>2, <2>3, <2>7 DEF IndInv
<1> QED
  BY <1>2, <1>3

(***************************************************************************)
(* Every step keeps the invariant, where no search size wraps.             *)
(***************************************************************************)
LEMMA StepInv == ASSUME NoWrap PROVE IndInv /\ [Next]_vars => IndInv'
<1> SUFFICES ASSUME IndInv, [Next]_vars PROVE IndInv'
  OBVIOUS
<1>1. ASSUME NEW size \in Sizes, NEW align \in Aligns, alloc_raw(size, align)
      PROVE  IndInv'
  BY <1>1, AllocInv
<1>2. ASSUME NEW size \in Sizes, NEW align \in Aligns, alloc_undefined(size, align)
      PROVE  IndInv'
  BY <1>2 DEF alloc_undefined, region, heap, IndInv, Typed, NoRegion, Region,
              HeapKept
<1>3. ASSUME NEW a \in live, free_raw(a)
      PROVE  IndInv'
  BY <1>3, FreeInv
<1>4. CASE clear
  BY <1>4, ClearInv
<1>5. CASE destructor
  <2>1. /\ alive' = FALSE /\ m_start_ptr' = NULL /\ m_free_tree' = <<>>
        /\ tags' = <<>> /\ back' = <<>> /\ live' = {}
        /\ UNCHANGED <<fault, m_total_size>>
    BY <1>5 DEF destructor
  <2>2. NULL \in Word
    BY WordAssumption DEF Word, NULL
  <2>3. DOMAIN back' = {a.ptr : a \in live'} /\ live' \subseteq Allocation
    BY <2>1
  <2>4. alive' \in BOOLEAN /\ fault' \in BOOLEAN /\ m_total_size' \in Word
    BY <2>1 DEF IndInv, Typed
  <2>5. Typed'
    BY <2>1, <2>2, <2>3, <2>4 DEF Typed
  <2> QED
    BY <2>1, <2>5 DEF IndInv, NoRegion, Region, HeapKept
<1>6. CASE UNCHANGED vars
  BY <1>6 DEF vars, region, heap, IndInv, Typed, NoRegion, Region, HeapKept,
              Lo, Hi
<1> QED
  BY <1>1, <1>2, <1>3, <1>4, <1>5, <1>6 DEF Next, alloc_null

-----------------------------------------------------------------------------
\* The blocks of the specification are those of the invariant.
LEMMA BlocksAre ==
    /\ Blocks = BlocksOf(tags, Hi)
    /\ \A h : block_end(h) = EndOf(tags, h)
  BY DEF Blocks, Headers, BlocksOf, Hi, block_end, EndOf

\* The invariant types the state.
LEMMA InvTypes == IndInv => TypeOK
<1> SUFFICES ASSUME IndInv PROVE TypeOK
  OBVIOUS
<1>1. CASE m_start_ptr = NULL
  BY <1>1 DEF IndInv, Typed, NoRegion, TypeOK
<1>2. CASE m_start_ptr # NULL
  <2>1. /\ m_start_ptr \in Nat /\ m_total_size \in Nat
        /\ m_start_ptr + m_total_size <= SIZE_MAX
        /\ Lo \in Nat /\ Hi \in Nat /\ m_start_ptr <= Lo
        /\ Hi < m_start_ptr + m_total_size
        /\ Kept(tags, m_free_tree, Lo, Hi) /\ TiledBy(tags, Lo, Hi)
    BY <1>2, RegionFacts
  <2>2. \A x \in DOMAIN tags : x \in Word
    BY <2>1, WordAssumption DEF TiledBy, Word
  <2>3. ASSUME NEW h \in BlocksOf(tags, Hi)
        PROVE  /\ tags[h].size \in node_size..m_total_size
               /\ tags[h].size % 8 = 0 /\ h + word_size \in Word
               /\ tags[h] \in [size : 0..m_total_size, allocated : BOOLEAN]
    <3>1. /\ h \in Nat /\ Lo + word_size <= h /\ h \in DOMAIN tags
          /\ tags[h].size \in Nat /\ tags[h].size >= node_size
          /\ Whole(tags[h].size)
      BY <2>1, BlockPlace
    <3>2. h + word_size + tags[h].size + word_size <= Hi
      BY <2>1, BlockPlace
    <3>3. tags[h].size <= m_total_size /\ h + word_size <= SIZE_MAX
      BY <2>1, <3>1, <3>2, WordAssumption DEF word_size
    <3>4. tags[h] \in [size : Nat, allocated : BOOLEAN]
      BY <2>1, <3>1 DEF TiledBy
    <3> QED
      BY <2>1, <3>1, <3>3, <3>4, WordAssumption
         DEF Whole, word_size, node_size, Word
  <2>4. DOMAIN m_free_tree \subseteq Word
    BY <2>1, <2>3 DEF Kept, FreeOf, node_of
  <2>5. \A n \in DOMAIN m_free_tree :
          m_free_tree[n] \in node_size..m_total_size /\ m_free_tree[n] % 8 = 0
    BY <2>1, <2>3 DEF Kept, FreeOf
  <2>6. ASSUME NEW x \in DOMAIN tags
        PROVE  tags[x] \in [size : 0..m_total_size, allocated : BOOLEAN]
    <3>1. fake_tag \in [size : 0..m_total_size, allocated : BOOLEAN]
      BY <2>1 DEF fake_tag
    <3>2. \/ tags[x] = fake_tag
          \/ \E h \in BlocksOf(tags, Hi) : tags[x] = tags[h]
      BY <2>1 DEF TiledBy
    <3> QED
      BY <2>3, <3>1, <3>2
  <2> QED
    BY <2>2, <2>4, <2>5, <2>6 DEF IndInv, Typed, TypeOK
<1> QED
  BY <1>1, <1>2

(***************************************************************************)
(* The tags by which coalesce finds its neighbours, and which it uses      *)
(* without looking for the ends of the region, are true in every reachable *)
(* state: from the prologue to the epilogue each block ends where the next *)
(* begins, and its footer says what its header says.                       *)
(***************************************************************************)
THEOREM Tags ==
    ASSUME NoWrap
    PROVE  Spec => []TagsTrue
<1>1. IndInv => TagsTrue
  <2> SUFFICES ASSUME IndInv, Sound PROVE
        /\ {first_block(m_start_ptr), epilogue(m_start_ptr, m_total_size)}
             \subseteq Headers
        /\ tags[prologue(m_start_ptr)] = Tag(0, TRUE)
        /\ tags[epilogue(m_start_ptr, m_total_size)] = Tag(0, TRUE)
        /\ \A h \in Blocks :
             /\ tags[h].size >= node_size
             /\ block_end(h) \in DOMAIN tags /\ tags[block_end(h)] = tags[h]
             /\ block_end(h) + word_size \in Headers
             /\ \A t \in DOMAIN tags : t <= h \/ t >= block_end(h)
    BY InvTypes DEF TagsTrue, Tiled
  <2>1. TiledBy(tags, Lo, Hi)
    BY RegionFacts DEF Sound
  <2>2. /\ tags[Lo] = Tag(0, TRUE) /\ tags[Hi] = Tag(0, TRUE)
        /\ first_block(m_start_ptr) \in Headers /\ Hi \in Headers
    BY <2>1, FakeTag DEF TiledBy, BlocksOf, Headers, first_block, Lo
  <2>3. ASSUME NEW h \in BlocksOf(tags, Hi)
        PROVE  /\ tags[h].size >= node_size
               /\ EndOf(tags, h) \in DOMAIN tags
               /\ tags[EndOf(tags, h)] = tags[h]
               /\ EndOf(tags, h) + word_size \in Headers
               /\ \A t \in DOMAIN tags : t <= h \/ t >= EndOf(tags, h)
    <3>1. /\ tags[h].size >= node_size
          /\ EndOf(tags, h) \in DOMAIN tags
          /\ tags[EndOf(tags, h)] = tags[h]
          /\ EndOf(tags, h) + word_size \in DOMAIN tags
          /\ \A t \in DOMAIN tags : t <= h \/ t >= EndOf(tags, h)
          /\ EndOf(tags, h) \in Nat
      BY <2>1 DEF TiledBy
    <3>2. (EndOf(tags, h) + word_size) - word_size = EndOf(tags, h)
      BY <3>1 DEF word_size
    <3> QED
      BY <3>1, <3>2 DEF Headers
  <2> QED
    BY <2>2, <2>3, BlocksAre DEF Lo, Hi
<1>2. Spec => []IndInv
  BY InitInv, StepInv, PTL DEF Spec
<1> QED
  BY <1>1, <1>2, PTL

(***************************************************************************)
(* The tree holds the free blocks with their sizes and no two free blocks  *)
(* touch: what alloc_raw splits off and what free_raw merges is always     *)
(* entered, and both neighbours of a freed block are always found.         *)
(***************************************************************************)
THEOREM FreeSpace ==
    ASSUME NoWrap
    PROVE  Spec => []FreeSpaceTrue
<1>1. IndInv => FreeSpaceTrue
  <2> SUFFICES ASSUME IndInv, Sound
               PROVE  /\ DOMAIN m_free_tree
                           = {node_of(h) : h \in FreeOf(tags, Hi)}
                      /\ \A h \in FreeOf(tags, Hi) :
                           /\ m_free_tree[node_of(h)] = tags[h].size
                           /\ tags[EndOf(tags, h) + word_size].allocated
    BY BlocksAre DEF FreeSpaceTrue, TreeIsFree, NoFreeNeighbours, FreeOf
  <2> QED
    BY RegionFacts DEF Sound, Kept
<1>2. Spec => []IndInv
  BY InitInv, StepInv, PTL DEF Spec
<1> QED
  BY <1>1, <1>2, PTL

(***************************************************************************)
(* The pointer in front of every allocation leads free_raw to the header   *)
(* of its own block, which holds all its data and that of nobody else.     *)
(***************************************************************************)
THEOREM BackPointersTrue ==
    ASSUME NoWrap
    PROVE  Spec => []DataInBlock
<1>1. IndInv => DataInBlock
  <2> SUFFICES ASSUME IndInv PROVE DataInBlock
    OBVIOUS
  <2>1. CASE m_start_ptr = NULL
    BY <2>1 DEF IndInv, NoRegion, DataInBlock, BackPointers, BlockHoldsData,
                Sound
  <2>2. CASE m_start_ptr # NULL
    <3>1. Held(tags, back, live, Hi)
      BY <2>2, RegionFacts
    <3>2. ASSUME NEW a \in live
          PROVE  /\ back[a.ptr] \in BlocksOf(tags, Hi)
                 /\ a.ptr - word_size >= node_of(back[a.ptr])
                 /\ a.ptr < EndOf(tags, back[a.ptr])
                 /\ End(a) <= EndOf(tags, back[a.ptr])
      <4>1. /\ a.ptr \in Nat /\ a.size \in Nat /\ back[a.ptr] \in Nat
            /\ back[a.ptr] \in BlocksOf(tags, Hi)
            /\ back[a.ptr] + 2 * word_size <= a.ptr /\ a.size > 0
            /\ a.ptr + a.size <= EndOf(tags, back[a.ptr])
        BY <2>2, LiveFacts
      <4>2. EndOf(tags, back[a.ptr]) \in Nat
        BY <2>2, <4>1, RegionFacts DEF TiledBy
      <4> QED
        BY <4>1, <4>2 DEF word_size, node_of, End
    <3>3. \A a, b \in live : back[a.ptr] = back[b.ptr] => a = b
      BY <3>1 DEF Held
    <3>4. ASSUME NEW h \in BlocksOf(tags, Hi)
          PROVE  tags[h].allocated <=> \E a \in live : back[a.ptr] = h
      BY <3>1 DEF Held, Used
    <3> QED
      BY <3>2, <3>3, <3>4, BlocksAre DEF DataInBlock, BackPointers, BlockHoldsData
  <2> QED
    BY <2>1, <2>2
<1>2. Spec => []IndInv
  BY InitInv, StepInv, PTL DEF Spec
<1> QED
  BY <1>1, <1>2, PTL

(***************************************************************************)
(* The free-tree allocator keeps the promise of IAllocator: what alloc_raw *)
(* returns is aligned, lies in the region and overlaps no live allocation. *)
(***************************************************************************)
THEOREM Refinement ==
    ASSUME NoWrap
    PROVE  Spec => ContractSpec
<1> DEFINE given == IF fault THEN {} ELSE live
<1>1. Init => Contract!Init
  BY DEF Init, Contract!Init
<1>2. IndInv /\ [Next]_vars => [Contract!Next]_Contract!vars
  <2> SUFFICES ASSUME IndInv, [Next]_vars
               PROVE  [Contract!Next]_Contract!vars
    OBVIOUS
  <2>1. ASSUME NEW size \in Sizes, NEW align \in Aligns, alloc_raw(size, align)
        PROVE  Contract!alloc_raw
    <3>1. m_start_ptr # NULL /\ UNCHANGED <<m_start_ptr, m_total_size>>
      BY <2>1 DEF alloc_raw, region
    <3>2. PICK ptr \in Word, h \in FreeOf(tags, Hi), search \in Nat :
            /\ HandedOut(tags, tags', m_free_tree', h, search, Lo, Hi)
            /\ h + 2 * word_size <= ptr /\ ptr + size <= EndOf(tags', h)
            /\ size > 0 /\ align > 0 /\ ptr % align = 0
            /\ back' = [p \in DOMAIN back \cup {ptr} |->
                          IF p = ptr THEN h ELSE back[p]]
            /\ live' = live \cup {[ptr |-> ptr, size |-> size, align |-> align]}
            /\ fault' = FALSE
      BY <2>1, AllocFacts
    <3> DEFINE new == [ptr |-> ptr, size |-> size, align |-> align]
    <3>3. /\ new.ptr = ptr /\ new.size = size /\ new.align = align
          /\ live' = live \cup {new} /\ size \in Nat /\ ptr \in Nat
      BY <3>2, ArgAssumption, WordAssumption DEF Word
    <3> HIDE DEF new
    <3>4. given = live /\ given' = live'
      BY <3>1, <3>2 DEF IndInv, Region
    <3>5. /\ m_start_ptr \in Nat /\ m_total_size \in Nat
          /\ Lo \in Nat /\ Hi \in Nat /\ m_start_ptr <= Lo
          /\ Hi < m_start_ptr + m_total_size /\ TiledBy(tags, Lo, Hi)
      BY <3>1, RegionFacts
    <3>6. h \in BlocksOf(tags, Hi) /\ h \notin Used(tags, Hi)
      BY DEF FreeOf, Used
    <3>7. /\ h \in Nat /\ Lo + word_size <= h
          /\ EndOf(tags, h) + word_size <= Hi
      BY <3>5, <3>6, BlockPlace
    <3>8. EndOf(tags, h) \in Nat /\ ptr + size <= EndOf(tags, h)
      <4>1. EndOf(tags, h) \in Nat
        BY <3>5, <3>6 DEF TiledBy
      <4>2. TiledBy(tags', Lo, Hi) /\ h \in BlocksOf(tags', Hi)
        BY <3>2 DEF HandedOut, Kept, Used
      <4>3. EndOf(tags', h) \in Nat
        BY <4>2 DEF TiledBy
      <4>4. EndOf(tags', h) <= EndOf(tags, h)
        BY <3>2 DEF HandedOut
      <4> QED
        BY <3>2, <3>3, <4>1, <4>3, <4>4
    <3>9. /\ ptr >= m_start_ptr /\ ptr + size <= m_start_ptr + m_total_size
          /\ h <= ptr
      BY <3>2, <3>3, <3>5, <3>7, <3>8 DEF word_size
    <3>10. ASSUME NEW b \in live
           PROVE  b.ptr + b.size <= ptr \/ ptr + size <= b.ptr
      <4>1. /\ b.ptr \in Nat /\ b.size \in Nat
            /\ back[b.ptr] \in Used(tags, Hi) /\ back[b.ptr] \in Nat
            /\ back[b.ptr] \in BlocksOf(tags, Hi)
            /\ back[b.ptr] + 2 * word_size <= b.ptr
            /\ b.ptr + b.size <= EndOf(tags, back[b.ptr])
        BY <3>1, LiveFacts
      <4>2. back[b.ptr] <= b.ptr /\ back[b.ptr] # h
        BY <3>6, <4>1 DEF word_size
      <4>3. size \in Nat /\ ptr \in Nat
        BY <3>3
      <4> QED
        BY ONLY <3>5, <3>6, <3>8, <3>9, <4>1, <4>2, <4>3, Apart
    <3>11. new \notin live
      <4> SUFFICES ASSUME new \in live PROVE FALSE
        OBVIOUS
      <4>1. new.ptr + new.size <= ptr \/ ptr + size <= new.ptr
        BY <3>10
      <4> QED
        BY <3>2, <3>3, <4>1
    <3>12. \A b \in live : ~Contract!Overlap(new, b)
      <4> SUFFICES ASSUME NEW b \in live PROVE ~Contract!Overlap(new, b)
        OBVIOUS
      <4>1. b.ptr \in Nat /\ b.size \in Nat
        BY <3>1, LiveFacts
      <4> QED
        BY <3>3, <3>10, <4>1 DEF Contract!Overlap, Contract!End
    <3>13. Contract!Inside(new)
      BY <3>3, <3>9 DEF Contract!Inside, Contract!End
    <3> QED
      BY <3>1, <3>2, <3>3, <3>4, <3>11, <3>12, <3>13 DEF Contract!alloc_raw
  <2>2. ASSUME NEW size \in Sizes, NEW align \in Aligns,
               alloc_undefined(size, align)
        PROVE  UNCHANGED Contract!vars
    <3>1. /\ m_start_ptr = NULL
          /\ UNCHANGED <<m_start_ptr, m_total_size, live>>
      BY <2>2 DEF alloc_undefined, region
    <3>2. live = {}
      BY <3>1 DEF IndInv, NoRegion
    <3> QED
      BY <3>1, <3>2 DEF Contract!vars
  <2>3. ASSUME NEW a \in live, free_raw(a)
        PROVE  Contract!free_raw
    <3>1. /\ live' = live \ {a} /\ UNCHANGED <<fault, m_start_ptr, m_total_size>>
      BY <2>3 DEF free_raw, region
    <3>2. ~fault
      BY DEF IndInv, NoRegion, Region
    <3> QED
      BY <3>1, <3>2 DEF Contract!free_raw, Contract!Released
  <2>4. CASE clear
    <3>1. live' = {} /\ UNCHANGED <<m_start_ptr, m_total_size>>
      BY <2>4 DEF clear, region
    <3> QED
      BY <3>1 DEF Contract!clear, Contract!Next
  <2>5. CASE destructor
    <3>1. live' = {} /\ m_start_ptr' = NULL
      BY <2>5 DEF destructor
    <3> QED
      BY <3>1 DEF Contract!destructor, Contract!Next, Contract!NULL, NULL
  <2>6. CASE UNCHANGED vars
    BY <2>6 DEF vars, region, Contract!vars
  <2> QED
    BY <2>1, <2>2, <2>3, <2>4, <2>5, <2>6 DEF Next, alloc_null, Contract!Next
<1>3. Spec => []IndInv
  BY InitInv, StepInv, PTL DEF Spec
<1> QED
  BY <1>1, <1>2, <1>3, PTL DEF Spec, ContractSpec, Contract!Spec
=============================================================================
