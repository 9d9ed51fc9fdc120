------------------------ MODULE PoolAllocator_proofs ------------------------
(***************************************************************************)
(* The pool is safe for every chunk geometry, word width, mapping and set  *)
(* of requests.  FreeLinks is local: each clause looks at one link or two, *)
(* so its induction needs no notion of a path through the list.  That the  *)
(* list reaches every free chunk is proved with the path itself, a         *)
(* function from positions to chunks.                                      *)
(***************************************************************************)
EXTENDS PoolAllocator, Utils_proofs, FiniteSetTheorems

IndInv == TypeOK /\ FreeLinks

\* Chunks lie in the region, the first one at its start, and do not overlap.
LEMMA ChunkFacts ==
    ASSUME NEW start \in Nat \ {0}, NEW total \in Nat,
           NEW chunk_size \in 1..total
    PROVE  LET chunks == ChunksOf(start, total, chunk_size) IN
           /\ start \in chunks
           /\ \A c \in chunks : /\ c \in Nat /\ c >= start
                                /\ c + chunk_size <= start + total
           /\ \A c, d \in chunks : c < d => c + chunk_size <= d
<1> DEFINE n == total \div chunk_size
           chunks == ChunksOf(start, total, chunk_size)
<1>1. n \in Nat /\ chunk_size * n <= total /\ total < chunk_size * (n + 1)
  BY ModFacts
<1>2. n >= 1
  BY <1>1
<1>3. chunks = {start + i * chunk_size : i \in 0..(n - 1)}
  BY DEF ChunksOf, NULL
<1> HIDE DEF n, chunks
<1>4. start \in chunks
  <2>1. 0 \in 0..(n - 1) /\ start + 0 * chunk_size = start
    BY <1>1, <1>2
  <2> QED
    BY <1>3, <2>1
<1>5. ASSUME NEW c \in chunks
      PROVE  c \in Nat /\ c >= start /\ c + chunk_size <= start + total
  <2>1. PICK i \in 0..(n - 1) : c = start + i * chunk_size
    BY <1>3
  <2>2. i * chunk_size \in Nat /\ i * chunk_size + chunk_size <= chunk_size * n
    <3>1. n - 1 - i \in Nat /\ i \in Nat
      BY <1>1
    <3>2. chunk_size * n = i * chunk_size + chunk_size
                             + chunk_size * (n - 1 - i)
      BY <1>1, <3>1
    <3>3. chunk_size * (n - 1 - i) >= 0 /\ i * chunk_size \in Nat
      BY <3>1
    <3> QED
      BY <1>1, <3>1, <3>2, <3>3
  <2> QED
    BY <1>1, <2>1, <2>2
<1>6. ASSUME NEW c \in chunks, NEW d \in chunks, c < d
      PROVE  c + chunk_size <= d
  <2>1. PICK i \in 0..(n - 1) : c = start + i * chunk_size
    BY <1>3
  <2>2. PICK j \in 0..(n - 1) : d = start + j * chunk_size
    BY <1>3
  <2>3. i \in Nat /\ j \in Nat
    BY <1>1
  <2>4. i < j
    BY <1>6, <2>1, <2>2, <2>3
  <2>5. j * chunk_size = i * chunk_size + chunk_size
                           + (j - 1 - i) * chunk_size
    BY <2>3
  <2>6. (j - 1 - i) * chunk_size >= 0
    BY <2>3, <2>4
  <2> QED
    BY <2>1, <2>2, <2>3, <2>5, <2>6
<1> QED
  BY <1>4, <1>5, <1>6 DEF chunks

\* The links that clear() writes satisfy the invariant on links.
LEMMA LinkedFacts ==
    ASSUME NEW start \in Nat \ {0}, NEW total \in Nat,
           NEW chunk_size \in 1..total
    PROVE  LET links == Linked(start, total, chunk_size)
               chunks == ChunksOf(start, total, chunk_size)
           IN
           /\ DOMAIN links = chunks
           /\ \A c \in chunks :
                /\ links[c] \in chunks \cup {NULL}
                /\ links[c] # NULL => links[c] # start
                /\ \A d \in chunks :
                     links[c] = links[d] /\ links[c] # NULL => c = d
<1> DEFINE chunks == ChunksOf(start, total, chunk_size)
           links == Linked(start, total, chunk_size)
<1>1. \A c \in chunks : c \in Nat /\ c >= start
  BY ChunkFacts
<1>2. links = [c \in chunks |-> IF c + chunk_size \in chunks
                                THEN c + chunk_size ELSE NULL]
  BY DEF Linked
<1> HIDE DEF chunks, links
<1> QED
  BY <1>1, <1>2 DEF chunks, links, NULL

\* The constructor's arithmetic: no product wraps, and a region that is
\* mapped has room for a chunk.
LEMMA BytesFacts ==
    ASSUME NEW size \in ChunkSizes, NEW align \in ChunkAligns,
           NEW count \in ChunkCounts
    PROVE  /\ bytes(size, align, count) \in Word
           /\ bytes(size, align, count) > 0 =>
                rounded(size, align) \in 1..bytes(size, align, count)
<1> USE WordAssumption DEF Word
<1>1. size \in Word /\ align \in Word /\ count \in Word
  BY ArgAssumption
<1>2. CASE size = 0 \/ align = 0 \/ count = 0
  BY <1>2 DEF bytes
<1>3. CASE ~(size = 0 \/ align = 0 \/ count = 0)
  <2> DEFINE r == rounded(size, align)
  <2>1. r \in Nat
    BY <1>1, <1>3, AlignUpWord DEF rounded, MaxOf, pointer_size
  <2>2. count \in Nat \ {0}
    BY <1>1, <1>3
  <2>3. CASE r > SIZE_MAX \div count
    BY <1>3, <2>3 DEF bytes
  <2>4. CASE ~(r > SIZE_MAX \div count)
    <3>1. bytes(size, align, count) = r * count
      BY <1>3, <2>4 DEF bytes
    <3> DEFINE m == SIZE_MAX \div count
    <3>2. m \in Nat /\ count * m <= SIZE_MAX
      BY <2>2, ModFacts
    <3> HIDE DEF r, m
    <3>3. r <= m
      BY <2>1, <2>4, <3>2 DEF m
    <3>4. count * m = r * count + count * (m - r) /\ count * (m - r) >= 0
      <4>1. m - r \in Nat
        BY <2>1, <3>2, <3>3
      <4>2. count * (m - r) >= 0
        BY <2>2, <4>1
      <4>3. count * m = r * count + count * (m - r)
        BY <2>1, <2>2, <3>2
      <4> QED
        BY <4>2, <4>3
    <3> DEFINE p == r * count
               q == r * (count - 1)
    <3>5. p \in Nat /\ p <= SIZE_MAX
      BY <2>1, <2>2, <3>2, <3>4
    <3>6. p > 0 => r >= 1
      BY <2>1, <2>2
    <3>7. p = r + q /\ q \in Nat
      BY <2>1, <2>2
    <3> HIDE DEF p, q
    <3>8. p > 0 => r \in 1..p
      BY <2>1, <3>5, <3>6, <3>7
    <3> QED
      BY <3>1, <3>5, <3>8 DEF p, r
  <2> QED
    BY <2>3, <2>4
<1> QED
  BY <1>2, <1>3

\* A freshly linked pool, in Init and after clear(), satisfies FreeLinks.
LEMMA FreshLinks ==
    ASSUME NEW start \in Nat \ {0}, NEW total \in Nat,
           NEW chunk_size \in 1..total, start + total <= SIZE_MAX
    PROVE  LET links == Linked(start, total, chunk_size)
               chunks == ChunksOf(start, total, chunk_size)
           IN
           /\ start \in DOMAIN links
           /\ DOMAIN links = chunks /\ chunks \subseteq Word
           /\ \A c \in chunks : links[c] \in Word
<1> USE WordAssumption DEF Word, NULL
<1> DEFINE links == Linked(start, total, chunk_size)
           chunks == ChunksOf(start, total, chunk_size)
<1>1. start \in chunks /\ \A c \in chunks : c \in Nat /\ c <= SIZE_MAX
  BY ChunkFacts
<1>2. DOMAIN links = chunks
  BY LinkedFacts
<1>3. \A c \in chunks : links[c] \in chunks \cup {NULL}
  BY LinkedFacts
<1> HIDE DEF links, chunks
<1> QED
  BY <1>1, <1>2, <1>3 DEF links, chunks

\* The constructor establishes the invariant.
LEMMA InitInv == Init => IndInv
<1> USE WordAssumption DEF Word, NULL
<1> SUFFICES ASSUME Init PROVE IndInv
  OBVIOUS
<1>1. PICK size \in ChunkSizes, align \in ChunkAligns, count \in ChunkCounts :
        LET total == bytes(size, align, count) IN
         /\ m_start_ptr \in os_alloc(total)
         /\ IF m_start_ptr # NULL
            THEN /\ m_chunk_size = rounded(size, align)
                 /\ m_chunk_align = align
                 /\ m_total_size = total
            ELSE /\ m_chunk_size = 0
                 /\ m_chunk_align = IF size = 0 \/ count = 0 THEN align ELSE 0
                 /\ m_total_size = 0
  BY DEF Init
<1> DEFINE total == bytes(size, align, count)
<1>2. align \in Word /\ total \in Word
  BY ArgAssumption, BytesFacts
<1>3. /\ m_start_ptr \in Word
      /\ m_start_ptr # NULL => total > 0 /\ m_start_ptr + total <= SIZE_MAX
  BY <1>1, <1>2, OsAlloc DEF os_alloc
<1>4. /\ alive = TRUE /\ alive \in BOOLEAN /\ live = {}
      /\ m_free_list_head = m_start_ptr
      /\ mem = Linked(m_start_ptr, m_total_size, m_chunk_size)
  BY DEF Init
<1>5. CASE m_start_ptr = NULL
  <2>1. mem = [c \in {} |-> NULL] /\ Chunks = {} /\ DOMAIN mem = {}
    BY <1>4, <1>5 DEF Linked, ChunksOf, Chunks
  <2>2. TypeOK
    BY <1>1, <1>2, <1>3, <1>4, <1>5, <2>1 DEF TypeOK
  <2>3. FreeLinks
    BY <1>4, <1>5, <2>1 DEF FreeLinks
  <2> QED
    BY <2>2, <2>3 DEF IndInv
<1>6. CASE m_start_ptr # NULL
  <2>1. /\ m_chunk_size \in 1..m_total_size /\ m_total_size \in Word
        /\ m_chunk_align \in Word /\ m_start_ptr + m_total_size <= SIZE_MAX
    BY <1>1, <1>2, <1>3, <1>6, BytesFacts
  <2>2. /\ m_start_ptr \in DOMAIN mem /\ DOMAIN mem = Chunks
        /\ Chunks \subseteq Word /\ \A c \in Chunks : mem[c] \in Word
    BY <1>3, <1>4, <1>6, <2>1, FreshLinks DEF Chunks
  <2>3. \A c \in Chunks :
          /\ mem[c] \in Chunks \cup {NULL}
          /\ mem[c] # NULL => mem[c] # m_start_ptr
          /\ \A d \in Chunks : mem[c] = mem[d] /\ mem[c] # NULL => c = d
    BY <1>3, <1>4, <1>6, <2>1, LinkedFacts DEF Chunks
  <2>4. TypeOK
    <3>1. m_chunk_size \in Word /\ m_start_ptr + m_total_size \in Word
      BY <1>3, <2>1
    <3>2. \A c \in DOMAIN mem : mem[c] \in Word
      BY <2>2
    <3> QED
      BY <1>3, <1>4, <2>1, <2>2, <3>1, <3>2 DEF TypeOK
  <2>5. FreeLinks
    BY <1>4, <2>2, <2>3 DEF FreeLinks
  <2> QED
    BY <2>4, <2>5 DEF IndInv
<1> QED
  BY <1>5, <1>6

\* alloc_raw keeps the invariant.
LEMMA AllocInv ==
    ASSUME IndInv, alive, NEW size \in Sizes, NEW align \in Aligns,
           alloc_raw(size, align)
    PROVE  IndInv'
<1> USE WordAssumption DEF Word, NULL
<1> DEFINE head == m_free_list_head
           new == [ptr |-> head, size |-> size, align |-> align]
<1>1. /\ head # NULL /\ size > 0 /\ size <= m_chunk_size
      /\ m_free_list_head' = mem[head]
      /\ mem' = [c \in DOMAIN mem \ {head} |-> mem[c]]
      /\ live' = live \cup {new}
      /\ UNCHANGED <<alive, geometry>>
  BY DEF alloc_raw, fits
<1>2. Chunks' = Chunks
  BY <1>1 DEF Chunks, ChunksOf, geometry
<1>3. size \in Word /\ align \in Word /\ m_chunk_size \in Nat
  BY ArgAssumption DEF IndInv, TypeOK
<1>4. /\ head \in DOMAIN mem /\ mem[head] \in DOMAIN mem \cup {NULL}
      /\ mem[head] # head
      /\ DOMAIN mem \subseteq Chunks
  BY <1>1 DEF IndInv, FreeLinks
<1>5. /\ new.ptr = head /\ new.size = size /\ new \in Allocation
  BY <1>1, <1>3, <1>4 DEF Allocation, IndInv, TypeOK
<1>6. DOMAIN mem' = DOMAIN mem \ {head} /\ \A c \in DOMAIN mem' : mem'[c] = mem[c]
  BY <1>1
<1> HIDE DEF new
<1>7. TypeOK'
  BY <1>1, <1>4, <1>5, <1>6 DEF IndInv, TypeOK, geometry
<1>8. FreeLinks'
  <2>1. \A a \in live' : /\ a.ptr \in Chunks \ DOMAIN mem'
                         /\ a.size \in 1..m_chunk_size
    BY <1>1, <1>3, <1>4, <1>5, <1>6 DEF IndInv, FreeLinks
  <2>2. \A a, b \in live' : a.ptr = b.ptr => a = b
    BY <1>1, <1>4, <1>5 DEF IndInv, FreeLinks
  <2>3. DOMAIN mem' \cup {a.ptr : a \in live'} = Chunks
    <3>1. {a.ptr : a \in live'} = {a.ptr : a \in live} \cup {head}
      BY <1>1, <1>5
    <3> QED
      BY <1>4, <1>6, <3>1 DEF IndInv, FreeLinks
  <2>4. m_free_list_head' \in DOMAIN mem' \cup {NULL}
    BY <1>1, <1>4, <1>6
  <2>5. \A c \in DOMAIN mem' :
          /\ mem'[c] \in DOMAIN mem' \cup {NULL}
          /\ mem'[c] # NULL => mem'[c] # m_free_list_head'
          /\ \A d \in DOMAIN mem' : mem'[c] = mem'[d] /\ mem'[c] # NULL => c = d
    BY <1>1, <1>4, <1>6 DEF IndInv, FreeLinks
  <2>6. m_chunk_size' = m_chunk_size
    BY <1>1 DEF geometry
  <2> QED
    BY <1>2, <2>1, <2>2, <2>3, <2>4, <2>5, <2>6 DEF FreeLinks
<1> QED
  BY <1>7, <1>8 DEF IndInv

\* free_raw keeps the invariant.
LEMMA FreeInv ==
    ASSUME IndInv, alive, NEW a \in live, free_raw(a)
    PROVE  IndInv'
<1> USE WordAssumption DEF Word, NULL
<1>1. /\ mem' = [c \in DOMAIN mem \cup {a.ptr} |->
                   IF c = a.ptr THEN m_free_list_head ELSE mem[c]]
      /\ m_free_list_head' = a.ptr
      /\ live' = live \ {a}
      /\ UNCHANGED <<alive, geometry>>
  BY DEF free_raw
<1>2. Chunks' = Chunks /\ m_chunk_size' = m_chunk_size
  BY <1>1 DEF Chunks, ChunksOf, geometry
<1>3. a.ptr \in Chunks \ DOMAIN mem /\ a.ptr \in Word
  BY DEF IndInv, FreeLinks, TypeOK, Allocation
<1>4. /\ DOMAIN mem' = DOMAIN mem \cup {a.ptr}
      /\ mem'[a.ptr] = m_free_list_head
      /\ \A c \in DOMAIN mem : mem'[c] = mem[c]
  BY <1>1, <1>3
<1>5. TypeOK'
  BY <1>1, <1>3, <1>4 DEF IndInv, TypeOK, geometry
<1>6. FreeLinks'
  <2>1. \A b \in live' : /\ b.ptr \in Chunks \ DOMAIN mem'
                         /\ b.size \in 1..m_chunk_size
    BY <1>1, <1>3, <1>4 DEF IndInv, FreeLinks
  <2>2. \A b, c \in live' : b.ptr = c.ptr => b = c
    BY <1>1 DEF IndInv, FreeLinks
  <2>3. DOMAIN mem' \cup {b.ptr : b \in live'} = Chunks
    <3>1. {b.ptr : b \in live} = {b.ptr : b \in live'} \cup {a.ptr}
      BY <1>1
    <3> QED
      BY <1>3, <1>4, <3>1 DEF IndInv, FreeLinks
  <2>5. \A c \in DOMAIN mem' :
          /\ mem'[c] \in DOMAIN mem' \cup {NULL}
          /\ mem'[c] # NULL => mem'[c] # a.ptr
          /\ \A d \in DOMAIN mem' : mem'[c] = mem'[d] /\ mem'[c] # NULL => c = d
    BY <1>3, <1>4 DEF IndInv, FreeLinks
  <2> QED
    BY <1>1, <1>2, <1>4, <2>1, <2>2, <2>3, <2>5 DEF FreeLinks
<1> QED
  BY <1>5, <1>6 DEF IndInv

\* clear keeps the invariant: the links are those of a fresh pool.
LEMMA ClearInv ==
    ASSUME IndInv, alive, clear
    PROVE  IndInv'
<1> USE WordAssumption DEF Word, NULL
<1>1. live' = {} /\ UNCHANGED <<alive, geometry>>
  BY DEF clear
<1>2. Chunks' = Chunks
  BY <1>1 DEF Chunks, ChunksOf, geometry
<1>3. CASE m_start_ptr = NULL
  <2>1. UNCHANGED <<mem, m_free_list_head>>
    BY <1>3 DEF clear
  <2>2. Chunks = {}
    BY <1>3 DEF Chunks, ChunksOf
  <2>3. DOMAIN mem = {} /\ m_free_list_head = NULL
    BY <2>2 DEF IndInv, FreeLinks
  <2>4. TypeOK'
    BY <1>1, <2>1 DEF IndInv, TypeOK, geometry
  <2>5. FreeLinks'
    BY <1>1, <1>2, <2>1, <2>2, <2>3 DEF FreeLinks
  <2> QED
    BY <2>4, <2>5 DEF IndInv
<1>4. CASE m_start_ptr # NULL
  <2>1. /\ mem' = Linked(m_start_ptr, m_total_size, m_chunk_size)
        /\ m_free_list_head' = m_start_ptr
    BY <1>4 DEF clear
  <2>2. /\ m_start_ptr \in Nat \ {0} /\ m_total_size \in Nat
        /\ m_chunk_size \in 1..m_total_size
        /\ m_start_ptr + m_total_size <= SIZE_MAX
    BY <1>4 DEF IndInv, TypeOK
  <2>3. /\ m_start_ptr \in DOMAIN mem' /\ DOMAIN mem' = Chunks
        /\ Chunks \subseteq Word /\ \A c \in Chunks : mem'[c] \in Word
    BY <2>1, <2>2, FreshLinks DEF Chunks
  <2>4. \A c \in Chunks :
          /\ mem'[c] \in Chunks \cup {NULL}
          /\ mem'[c] # NULL => mem'[c] # m_start_ptr
          /\ \A d \in Chunks : mem'[c] = mem'[d] /\ mem'[c] # NULL => c = d
    BY <2>1, <2>2, LinkedFacts DEF Chunks
  <2>5. TypeOK'
    BY <1>1, <2>1, <2>3 DEF IndInv, TypeOK, geometry
  <2>6. FreeLinks'
    BY <1>1, <1>2, <2>1, <2>3, <2>4 DEF FreeLinks
  <2> QED
    BY <2>5, <2>6 DEF IndInv
<1> QED
  BY <1>3, <1>4

\* Every step keeps the invariant.
LEMMA StepInv == IndInv /\ [Next]_vars => IndInv'
<1> USE WordAssumption DEF Word, NULL
<1> SUFFICES ASSUME IndInv, [Next]_vars PROVE IndInv'
  OBVIOUS
<1>1. ASSUME alive, NEW size \in Sizes, NEW align \in Aligns,
             alloc_raw(size, align)
      PROVE  IndInv'
  BY <1>1, AllocInv
<1>2. ASSUME alive, NEW a \in live, free_raw(a)
      PROVE  IndInv'
  BY <1>2, FreeInv
<1>3. CASE alive /\ clear
  BY <1>3, ClearInv
<1>4. CASE alive /\ destructor
  <2>1. alive' = FALSE /\ alive' \in BOOLEAN /\ mem' = <<>> /\ live' = {}
    BY <1>4 DEF destructor
  <2>2. TypeOK'
    BY <1>4, <2>1 DEF destructor, IndInv, TypeOK
  <2>3. FreeLinks'
    BY <2>1 DEF FreeLinks
  <2> QED
    BY <2>2, <2>3 DEF IndInv
<1>5. CASE UNCHANGED vars
  <2>1. Chunks' = Chunks
    BY <1>5 DEF Chunks, ChunksOf, vars, geometry
  <2> QED
    BY <1>5, <2>1 DEF vars, geometry, IndInv, TypeOK, FreeLinks
<1> QED
  BY <1>1, <1>2, <1>3, <1>4, <1>5 DEF Next, alloc_null

(***************************************************************************)
(* Every reachable state of the pool is well typed and its free links are  *)
(* sound: no chunk is in two hands and no client's data is read as a link. *)
(***************************************************************************)
THEOREM Safety == Spec => [](TypeOK /\ FreeLinks)
<1>1. Init => IndInv
  BY InitInv
<1>2. IndInv /\ [Next]_vars => IndInv'
  BY StepInv
<1>3. IndInv => TypeOK /\ FreeLinks
  BY DEF IndInv
<1> QED
  BY <1>1, <1>2, <1>3, PTL DEF Spec

-----------------------------------------------------------------------------
(***************************************************************************)
(* The geometry the constructor sets up and nothing changes: the region    *)
(* starts on a page and a chunk is a multiple of its alignment.            *)
(***************************************************************************)
Geometry ==
    m_start_ptr # NULL =>
      /\ m_start_ptr % PAGE_SIZE = 0
      /\ m_chunk_align \in Nat \ {0} /\ IsPow2(m_chunk_align)
      /\ m_chunk_size % m_chunk_align = 0

\* The constructor establishes the geometry.
LEMMA InitGeometry == Init => Geometry
<1> USE WordAssumption DEF Word, NULL
<1> SUFFICES ASSUME Init, m_start_ptr # NULL
             PROVE  /\ m_start_ptr % PAGE_SIZE = 0
                    /\ m_chunk_align \in Nat \ {0} /\ IsPow2(m_chunk_align)
                    /\ m_chunk_size % m_chunk_align = 0
  BY DEF Geometry
<1>1. PICK size \in ChunkSizes, align \in ChunkAligns, count \in ChunkCounts :
        /\ m_start_ptr \in os_alloc(bytes(size, align, count))
        /\ m_chunk_size = rounded(size, align)
        /\ m_chunk_align = align
  BY DEF Init
<1>2. m_start_ptr \in MapAddrs /\ bytes(size, align, count) > 0
  BY <1>1 DEF os_alloc
<1>3. align # 0
  BY <1>2 DEF bytes
<1>4. size \in Nat /\ align \in Nat /\ IsPow2(align)
  BY <1>3, ArgAssumption
<1>5. MaxOf(size, pointer_size) \in Nat
  BY <1>4 DEF MaxOf, pointer_size
<1>6. rounded(size, align) % align = 0
  BY <1>3, <1>4, <1>5, AlignUpMultiple DEF rounded
<1> QED
  BY <1>1, <1>2, <1>3, <1>4, <1>6, PageAssumption

\* No step changes the geometry of a region it keeps.
LEMMA StepGeometry == Geometry /\ [Next]_vars => Geometry'
  BY DEF Geometry, Next, alloc_raw, alloc_null, free_raw, clear, destructor,
         vars, geometry

\* Every chunk is aligned to what the pool lets a client ask for.
LEMMA ChunkAligned ==
    ASSUME PageServes, TypeOK, Geometry, NEW c \in Chunks, NEW align \in Aligns,
           align \in Nat \ {0}, IsPow2(align), align <= m_chunk_align
    PROVE  c % align = 0
<1> USE WordAssumption, PageAssumption DEF Word, NULL
<1>1. /\ m_start_ptr # NULL /\ m_start_ptr \in Nat /\ m_chunk_size \in Nat
      /\ m_total_size \in Nat /\ m_chunk_size \in 1..m_total_size
  BY DEF TypeOK, Chunks, ChunksOf
<1>2. PAGE_SIZE % align = 0
  BY Pow2Divides DEF PageServes
<1>3. m_start_ptr % align = 0
  BY <1>1, <1>2, ModTrans, ZenonT(40) DEF Geometry
<1>4. m_chunk_align % align = 0
  BY <1>1, Pow2Divides DEF Geometry
<1>5. m_chunk_size % align = 0
  BY <1>1, <1>4, ModTrans DEF Geometry
<1>6. m_total_size \div m_chunk_size \in Nat
  BY <1>1, ModFacts
<1>7. PICK i \in 0..((m_total_size \div m_chunk_size) - 1) :
        c = m_start_ptr + i * m_chunk_size
  BY <1>1 DEF Chunks, ChunksOf
<1>8. i \in Nat
  BY <1>6, <1>7
<1>9. i * m_chunk_size \in Nat /\ (i * m_chunk_size) % align = 0
  BY <1>1, <1>5, <1>8, ModTimes, ZenonT(40)
<1> QED
  BY <1>1, <1>3, <1>7, <1>9, ModSum

(***************************************************************************)
(* When no request asks for more than a page's alignment, the pool         *)
(* implements the abstract allocator: chunks are disjoint, in the region   *)
(* and aligned, although alloc_raw never computes an aligned address.      *)
(***************************************************************************)
THEOREM Refinement ==
    ASSUME PageServes
    PROVE  Spec => ContractSpec
<1> USE WordAssumption DEF Word, NULL
<1>1. Init => Contract!Init
  BY DEF Init, Contract!Init
<1>2. IndInv /\ Geometry /\ [Next]_vars => [Contract!Next]_Contract!vars
  <2> SUFFICES ASSUME IndInv, Geometry, [Next]_vars
               PROVE  [Contract!Next]_Contract!vars
    OBVIOUS
  <2>1. ASSUME alive, NEW size \in Sizes, NEW align \in Aligns,
               alloc_raw(size, align)
        PROVE  Contract!alloc_raw
    <3> DEFINE head == m_free_list_head
               new == [ptr |-> head, size |-> size, align |-> align]
    <3>1. /\ head # NULL /\ size > 0 /\ size <= m_chunk_size
          /\ align <= m_chunk_align /\ ~BadAlign(align)
          /\ live' = live \cup {new}
          /\ UNCHANGED <<m_start_ptr, m_total_size>>
      BY <2>1 DEF alloc_raw, fits, geometry
    <3>2. size \in Nat /\ align \in Nat \ {0} /\ IsPow2(align)
      BY <3>1, ArgAssumption DEF BadAlign
    <3>3. head \in DOMAIN mem /\ head \in Chunks
      BY <2>1, <3>1 DEF IndInv, FreeLinks
    <3>4. /\ m_start_ptr \in Nat \ {0} /\ m_total_size \in Nat
          /\ m_chunk_size \in 1..m_total_size
      BY <3>3 DEF IndInv, TypeOK, Chunks, ChunksOf
    <3>5. head % align = 0
      BY <3>1, <3>2, <3>3, ChunkAligned DEF IndInv
    <3>6. /\ \A c \in Chunks : /\ c \in Nat /\ c >= m_start_ptr
                               /\ c + m_chunk_size <= m_start_ptr + m_total_size
          /\ \A c, d \in Chunks : c < d => c + m_chunk_size <= d
      BY <3>4, ChunkFacts DEF Chunks
    <3>7. \A b \in live : /\ b.ptr \in Chunks /\ b.ptr # head
                          /\ b.size \in 1..m_chunk_size
      BY <2>1, <3>3 DEF IndInv, FreeLinks
    <3>8. new.ptr = head /\ new.size = size /\ new.align = align
      OBVIOUS
    <3> HIDE DEF new, head
    <3>9. \A b \in live : ~Contract!Overlap(new, b)
      <4> SUFFICES ASSUME NEW b \in live PROVE ~Contract!Overlap(new, b)
        OBVIOUS
      <4>1. b.ptr \in Nat /\ head \in Nat /\ b.size \in Nat
            /\ b.size <= m_chunk_size /\ m_chunk_size \in Nat
        BY <3>3, <3>4, <3>6, <3>7
      <4>2. b.ptr + m_chunk_size <= head \/ head + m_chunk_size <= b.ptr
        BY <3>3, <3>6, <3>7, <4>1
      <4> QED
        BY <3>1, <3>2, <3>8, <4>1, <4>2 DEF Contract!Overlap, Contract!End
    <3>10. Contract!Inside(new)
      BY <3>1, <3>2, <3>3, <3>4, <3>6, <3>8 DEF Contract!Inside, Contract!End
    <3>11. new \notin live
      BY <3>7, <3>8
    <3> QED
      BY <3>1, <3>2, <3>5, <3>8, <3>9, <3>10, <3>11 DEF Contract!alloc_raw
  <2>2. ASSUME alive, NEW a \in live, free_raw(a)
        PROVE  Contract!free_raw
    BY <2>2 DEF free_raw, Contract!free_raw, Contract!Released, geometry
  <2>3. CASE clear
    BY <2>3 DEF clear, Contract!clear, Contract!Next, geometry
  <2>4. CASE destructor
    BY <2>4 DEF destructor, Contract!destructor, Contract!Next, Contract!NULL
  <2>5. CASE UNCHANGED vars
    BY <2>5 DEF vars, geometry, Contract!vars
  <2> QED
    BY <2>1, <2>2, <2>3, <2>4, <2>5 DEF Next, alloc_null, Contract!Next
<1>3. Spec => [](IndInv /\ Geometry)
  BY InitInv, StepInv, InitGeometry, StepGeometry, PTL DEF Spec
<1> QED
  BY <1>1, <1>2, <1>3, PTL DEF Spec, ContractSpec, Contract!Spec

-----------------------------------------------------------------------------
(***************************************************************************)
(* f lists the free chunks in the order of the list: the head first, each  *)
(* one the link of the one before it, every chunk of links once, and NULL  *)
(* from position k on.                                                     *)
(***************************************************************************)
Lists(f, k, head, links) ==
    /\ f[0] = head
    /\ \A i \in Nat : i >= k => f[i] = NULL
    /\ \A i \in Nat : i < k => f[i] \in DOMAIN links /\ f[i + 1] = links[f[i]]
    /\ \A i, j \in Nat : i < k /\ j < k /\ f[i] = f[j] => i = j
    /\ \A c \in DOMAIN links : \E i \in Nat : i < k /\ f[i] = c

Listed ==
    alive => \E k \in Nat, f \in [Nat -> Nat] :
               Lists(f, k, m_free_list_head, mem)

\* The links that clear() writes list the chunks from the lowest up.
LEMMA FreshListed ==
    ASSUME NEW start \in Nat \ {0}, NEW total \in Nat,
           NEW chunk_size \in 1..total
    PROVE  \E k \in Nat, f \in [Nat -> Nat] :
             Lists(f, k, start, Linked(start, total, chunk_size))
<1> DEFINE n == total \div chunk_size
           at(i) == start + i * chunk_size
           chunks == ChunksOf(start, total, chunk_size)
           links == Linked(start, total, chunk_size)
           f == [i \in Nat |-> IF i < n THEN at(i) ELSE NULL]
<1>1. n \in Nat /\ total < chunk_size * (n + 1)
  BY ModFacts
<1>2. n >= 1
  BY <1>1
<1>3. chunks = {at(i) : i \in 0..(n - 1)}
  BY DEF ChunksOf, NULL
<1>4. \A i \in Nat : at(i) \in Nat /\ at(i) # NULL /\ at(i + 1) = at(i) + chunk_size
  BY DEF NULL
<1>5. at(0) = start
  OBVIOUS
<1>6. \A i, j \in Nat : at(i) = at(j) => i = j
  OBVIOUS
<1>7. links = [c \in chunks |-> IF c + chunk_size \in chunks
                                THEN c + chunk_size ELSE NULL]
  BY DEF Linked
<1> HIDE DEF n, at, chunks, links
<1>8. \A i \in Nat : at(i) \in chunks <=> i < n
  BY <1>1, <1>3, <1>6
<1>9. f \in [Nat -> Nat]
  BY <1>4 DEF NULL
<1>10. \A i \in Nat : f[i] = IF i < n THEN at(i) ELSE NULL
  OBVIOUS
<1> HIDE DEF f
<1>11. f[0] = start
  BY <1>1, <1>2, <1>5, <1>10
<1>12. ASSUME NEW i \in Nat, i < n
       PROVE  f[i] \in DOMAIN links /\ f[i + 1] = links[f[i]]
  <2>1. f[i] = at(i) /\ at(i) \in chunks
    BY <1>8, <1>10, <1>12
  <2>2. links[at(i)] = IF at(i + 1) \in chunks THEN at(i + 1) ELSE NULL
    BY <1>4, <1>7, <2>1
  <2>3. f[i + 1] = IF i + 1 < n THEN at(i + 1) ELSE NULL
    BY <1>10
  <2>4. at(i + 1) \in chunks <=> i + 1 < n
    BY <1>8
  <2> QED
    BY <1>7, <2>1, <2>2, <2>3, <2>4
<1>13. \A i, j \in Nat : i < n /\ j < n /\ f[i] = f[j] => i = j
  BY <1>6, <1>10
<1>14. ASSUME NEW c \in DOMAIN links PROVE \E i \in Nat : i < n /\ f[i] = c
  <2>1. PICK i \in 0..(n - 1) : c = at(i)
    BY <1>3, <1>7
  <2>2. i \in Nat /\ i < n
    BY <1>1
  <2> QED
    BY <1>10, <2>1, <2>2
<1>15. Lists(f, n, start, links)
  BY <1>1, <1>10, <1>11, <1>12, <1>13, <1>14 DEF Lists
<1> QED
  BY <1>1, <1>9, <1>15 DEF links

\* A pool without a region has the empty list.
LEMMA EmptyListed ==
    ASSUME NEW links, DOMAIN links = {}
    PROVE  \E k \in Nat, f \in [Nat -> Nat] : Lists(f, k, NULL, links)
<1> DEFINE f == [i \in Nat |-> NULL]
<1>1. f \in [Nat -> Nat] /\ \A i \in Nat : f[i] = NULL
  BY DEF NULL
<1> HIDE DEF f
<1>2. Lists(f, 0, NULL, links)
  BY <1>1 DEF Lists
<1> QED
  BY <1>1, <1>2

\* The constructor lists every chunk.
LEMMA InitListed == Init => Listed
<1> USE DEF NULL
<1> SUFFICES ASSUME Init PROVE Listed
  OBVIOUS
<1>1. TypeOK /\ FreeLinks
  BY InitInv DEF IndInv
<1>2. /\ m_free_list_head = m_start_ptr
      /\ mem = Linked(m_start_ptr, m_total_size, m_chunk_size)
  BY DEF Init
<1>3. CASE m_start_ptr = NULL
  <2>1. DOMAIN mem = {}
    BY <1>2, <1>3 DEF Linked, ChunksOf
  <2> QED
    BY <1>2, <1>3, <2>1, EmptyListed DEF Listed
<1>4. CASE m_start_ptr # NULL
  <2>1. /\ m_start_ptr \in Nat \ {0} /\ m_total_size \in Nat
        /\ m_chunk_size \in 1..m_total_size
    BY <1>1, <1>4, WordAssumption DEF TypeOK, Word
  <2> QED
    BY <1>2, <2>1, FreshListed DEF Listed
<1> QED
  BY <1>3, <1>4

\* alloc_raw takes the first chunk off the list.
LEMMA AllocListed ==
    ASSUME IndInv, Listed, alive, NEW size \in Sizes, NEW align \in Aligns,
           alloc_raw(size, align)
    PROVE  Listed'
<1> USE DEF NULL
<1> DEFINE head == m_free_list_head
<1>1. PICK k \in Nat, f \in [Nat -> Nat] : Lists(f, k, head, mem)
  BY DEF Listed
<1>2. /\ head # NULL /\ m_free_list_head' = mem[head]
      /\ mem' = [c \in DOMAIN mem \ {head} |-> mem[c]]
  BY DEF alloc_raw, fits
<1> DEFINE g == [i \in Nat |-> f[i + 1]]
<1>3. g \in [Nat -> Nat] /\ \A i \in Nat : g[i] = f[i + 1]
  OBVIOUS
<1>4. f[0] = head /\ k > 0 /\ k - 1 \in Nat
  BY <1>1, <1>2 DEF Lists
<1>5. DOMAIN mem' = DOMAIN mem \ {head} /\ \A c \in DOMAIN mem' : mem'[c] = mem[c]
  BY <1>2
<1> HIDE DEF g
<1>6. g[0] = mem[head]
  BY <1>1, <1>3, <1>4 DEF Lists
<1>7. \A i \in Nat : i >= k - 1 => g[i] = NULL
  BY <1>1, <1>3, <1>4 DEF Lists
<1>8. ASSUME NEW i \in Nat, i < k - 1
      PROVE  g[i] \in DOMAIN mem' /\ g[i + 1] = mem'[g[i]]
  <2>1. i + 1 \in Nat /\ i + 1 < k
    BY <1>4, <1>8
  <2>2. f[i + 1] \in DOMAIN mem /\ f[i + 2] = mem[f[i + 1]] /\ f[i + 1] # f[0]
    BY <1>1, <1>4, <2>1 DEF Lists
  <2> QED
    BY <1>3, <1>4, <1>5, <2>1, <2>2
<1>9. ASSUME NEW i \in Nat, NEW j \in Nat, i < k - 1, j < k - 1, g[i] = g[j]
      PROVE  i = j
  <2>1. i + 1 < k /\ j + 1 < k /\ f[i + 1] = f[j + 1]
    BY <1>3, <1>4, <1>9
  <2>2. i + 1 = j + 1
    BY <1>1, <2>1 DEF Lists
  <2> QED
    BY <2>2
<1>10. ASSUME NEW c \in DOMAIN mem' PROVE \E i \in Nat : i < k - 1 /\ g[i] = c
  <2>1. PICK i \in Nat : i < k /\ f[i] = c
    BY <1>1, <1>5 DEF Lists
  <2>2. i # 0
    BY <1>4, <1>5, <2>1
  <2>3. i - 1 \in Nat /\ i - 1 < k - 1 /\ g[i - 1] = c
    BY <1>3, <1>4, <2>1, <2>2
  <2> QED
    BY <2>3
<1>11. Lists(g, k - 1, mem[head], mem')
  BY <1>4, <1>6, <1>7, <1>8, <1>9, <1>10 DEF Lists
<1>12. \E l \in Nat, h \in [Nat -> Nat] : Lists(h, l, m_free_list_head', mem')
  BY <1>2, <1>3, <1>4, <1>11
<1> QED
  BY <1>12 DEF Listed

\* free_raw puts a chunk in front of the list.
LEMMA FreeListed ==
    ASSUME IndInv, Listed, alive, NEW a \in live, free_raw(a)
    PROVE  Listed'
<1> USE DEF NULL
<1>1. PICK k \in Nat, f \in [Nat -> Nat] : Lists(f, k, m_free_list_head, mem)
  BY DEF Listed
<1>2. /\ mem' = [c \in DOMAIN mem \cup {a.ptr} |->
                   IF c = a.ptr THEN m_free_list_head ELSE mem[c]]
      /\ m_free_list_head' = a.ptr
  BY DEF free_raw
<1>3. a.ptr \in Nat /\ a.ptr \notin DOMAIN mem
  BY WordAssumption DEF IndInv, TypeOK, FreeLinks, Allocation, Word
<1>4. /\ DOMAIN mem' = DOMAIN mem \cup {a.ptr}
      /\ mem'[a.ptr] = m_free_list_head
      /\ \A c \in DOMAIN mem : mem'[c] = mem[c]
  BY <1>2, <1>3
<1> DEFINE g == [i \in Nat |-> IF i = 0 THEN a.ptr ELSE f[i - 1]]
<1>5. /\ g \in [Nat -> Nat] /\ g[0] = a.ptr
      /\ \A i \in Nat : i # 0 => g[i] = f[i - 1]
      /\ \A i \in Nat : g[i + 1] = f[i]
  BY <1>3
<1> HIDE DEF g
<1>6. \A i \in Nat : i >= k + 1 => g[i] = NULL
  BY <1>1, <1>5 DEF Lists
<1>7. ASSUME NEW i \in Nat, i < k + 1
      PROVE  g[i] \in DOMAIN mem' /\ g[i + 1] = mem'[g[i]]
  <2>1. CASE i = 0
    BY <1>1, <1>4, <1>5, <2>1 DEF Lists
  <2>2. CASE i # 0
    <3>1. i - 1 \in Nat /\ i - 1 < k /\ (i - 1) + 1 = i
      BY <1>7, <2>2
    <3>2. f[i - 1] \in DOMAIN mem /\ f[i] = mem[f[i - 1]]
      BY <1>1, <3>1 DEF Lists
    <3> QED
      BY <1>4, <1>5, <2>2, <3>2
  <2> QED
    BY <2>1, <2>2
<1>8. ASSUME NEW i \in Nat, NEW j \in Nat, i < k + 1, j < k + 1, g[i] = g[j]
      PROVE  i = j
  <2>1. \A l \in Nat : l # 0 /\ l < k + 1 => g[l] \in DOMAIN mem
    BY <1>1, <1>5 DEF Lists
  <2>2. CASE i = 0 \/ j = 0
    BY <1>3, <1>5, <1>8, <2>1, <2>2
  <2>3. CASE i # 0 /\ j # 0
    <3>1. i - 1 \in Nat /\ j - 1 \in Nat /\ i - 1 < k /\ j - 1 < k
      BY <1>8, <2>3
    <3>2. i - 1 = j - 1
      BY <1>1, <1>5, <1>8, <2>3, <3>1 DEF Lists
    <3> QED
      BY <3>2
  <2> QED
    BY <2>2, <2>3
<1>9. ASSUME NEW c \in DOMAIN mem' PROVE \E i \in Nat : i < k + 1 /\ g[i] = c
  <2>1. CASE c = a.ptr
    BY <1>5, <2>1
  <2>2. CASE c # a.ptr
    <3>1. PICK i \in Nat : i < k /\ f[i] = c
      BY <1>1, <1>4, <2>2 DEF Lists
    <3>2. i + 1 \in Nat /\ i + 1 < k + 1 /\ g[i + 1] = c
      BY <1>5, <3>1
    <3> QED
      BY <3>2
  <2> QED
    BY <2>1, <2>2
<1>10. Lists(g, k + 1, m_free_list_head', mem')
  BY <1>2, <1>5, <1>6, <1>7, <1>8, <1>9 DEF Lists
<1>11. \E l \in Nat, h \in [Nat -> Nat] : Lists(h, l, m_free_list_head', mem')
  BY <1>5, <1>10, k + 1 \in Nat
<1> QED
  BY <1>11 DEF Listed

\* Every step keeps the list whole.
LEMMA StepListed == IndInv /\ Listed /\ [Next]_vars => Listed'
<1> SUFFICES ASSUME IndInv, Listed, [Next]_vars PROVE Listed'
  OBVIOUS
<1>1. ASSUME alive, NEW size \in Sizes, NEW align \in Aligns,
             alloc_raw(size, align)
      PROVE  Listed'
  BY <1>1, AllocListed
<1>2. ASSUME alive, NEW a \in live, free_raw(a)
      PROVE  Listed'
  BY <1>2, FreeListed
<1>3. CASE alive /\ clear
  <2>1. CASE m_start_ptr = NULL
    BY <1>3, <2>1 DEF clear, Listed
  <2>2. CASE m_start_ptr # NULL
    <3>1. /\ mem' = Linked(m_start_ptr, m_total_size, m_chunk_size)
          /\ m_free_list_head' = m_start_ptr
      BY <1>3, <2>2 DEF clear
    <3>2. /\ m_start_ptr \in Nat \ {0} /\ m_total_size \in Nat
          /\ m_chunk_size \in 1..m_total_size
      BY <2>2, WordAssumption DEF IndInv, TypeOK, Word, NULL
    <3>3. \E k \in Nat, f \in [Nat -> Nat] :
            Lists(f, k, m_free_list_head', mem')
      BY <3>1, <3>2, FreshListed
    <3> QED
      BY <3>3 DEF Listed
  <2> QED
    BY <2>1, <2>2
<1>4. CASE destructor
  BY <1>4 DEF destructor, Listed
<1>5. CASE UNCHANGED vars
  BY <1>5 DEF vars, Listed
<1> QED
  BY <1>1, <1>2, <1>3, <1>4, <1>5 DEF Next, alloc_null

\* Distinct chunks of the region are at most as many as its bytes.
LEMMA ListIsShort ==
    ASSUME TypeOK, FreeLinks, alive, NEW k \in Nat, NEW f \in [Nat -> Nat],
           Lists(f, k, m_free_list_head, mem)
    PROVE  k <= m_total_size
<1> USE WordAssumption DEF Word, NULL
<1> DEFINE S == 1..k
           T == m_start_ptr..(m_start_ptr + m_total_size - 1)
           h == [i \in S |-> f[i - 1]]
<1>1. m_start_ptr \in Nat /\ m_total_size \in Nat /\ m_chunk_size \in Nat
  BY DEF TypeOK
<1>2. CASE k = 0
  BY <1>1, <1>2
<1>3. CASE k > 0
  <2>1. \A i \in S : i - 1 \in Nat /\ i - 1 < k
    OBVIOUS
  <2>2. \A i \in S : h[i] \in Chunks
    BY <2>1 DEF FreeLinks, Lists
  <2>3. m_start_ptr # NULL
    BY <1>3, <2>2, 1 \in S DEF Chunks, ChunksOf
  <2>4. \A c \in Chunks : c \in Nat /\ c >= m_start_ptr
                          /\ c + m_chunk_size <= m_start_ptr + m_total_size
    BY <1>1, <2>3, ChunkFacts DEF TypeOK, Chunks
  <2>5. m_chunk_size >= 1
    BY <1>1, <2>3 DEF TypeOK
  <2>6. \A i \in S : h[i] \in T
    BY <1>1, <2>2, <2>4, <2>5
  <2>7. ASSUME NEW i \in S, NEW j \in S, h[i] = h[j] PROVE i = j
    <3>1. i - 1 = j - 1
      BY <2>1, <2>7 DEF Lists
    <3> QED
      BY <3>1
  <2>8. h \in Injection(S, T)
    BY <2>6, <2>7 DEF Injection, IsInjective
  <2>9. IsFiniteSet(T) /\ Cardinality(T) = m_total_size
    <3>1. m_total_size >= 1
      BY <1>1, <2>3 DEF TypeOK
    <3> DEFINE hi == m_start_ptr + m_total_size - 1
    <3>2. /\ m_start_ptr \in Int /\ hi \in Int /\ ~(m_start_ptr > hi)
          /\ hi - m_start_ptr + 1 = m_total_size
      BY <1>1, <3>1
    <3> HIDE DEF hi
    <3>3. /\ IsFiniteSet(m_start_ptr..hi)
          /\ Cardinality(m_start_ptr..hi) = hi - m_start_ptr + 1
      BY <3>2, FS_Interval
    <3> QED
      BY <3>2, <3>3 DEF hi
  <2>10. Cardinality(S) = k
    BY <1>3, FS_Interval
  <2> HIDE DEF S, T, h
  <2>11. Cardinality(S) <= Cardinality(T)
    BY <2>8, <2>9, FS_Injection
  <2> QED
    BY <2>9, <2>10, <2>11
<1> QED
  BY <1>2, <1>3

\* The walk of NothingLost, as a function in its own right.
Follow(head, links, n) ==
    LET walk[i \in 0..n] ==
            IF i = 0 THEN head
            ELSE IF walk[i - 1] \in DOMAIN links THEN links[walk[i - 1]]
            ELSE NULL
    IN  walk

\* Walking along the links visits what the list lists.
LEMMA WalkFollowsList ==
    ASSUME NEW head, NEW links, NEW n \in Nat, NEW k \in Nat,
           NEW f \in [Nat -> Nat], Lists(f, k, head, links),
           NULL \notin DOMAIN links
    PROVE  \A i \in 0..n : Follow(head, links, n)[i] = f[i]
<1> DEFINE next(c) == IF c \in DOMAIN links THEN links[c] ELSE NULL
           body(w) == [i \in 0..n |-> IF i = 0 THEN head
                         ELSE IF w[i - 1] \in DOMAIN links THEN links[w[i - 1]]
                         ELSE NULL]
           walk == Follow(head, links, n)
           g == [i \in 0..n |-> f[i]]
<1>1. f[0] = head /\ \A i \in Nat : f[i + 1] = next(f[i])
  BY DEF Lists
<1>2. g = body(g)
  <2> SUFFICES ASSUME NEW i \in 0..n
               PROVE  g[i] = IF i = 0 THEN head
                             ELSE IF g[i - 1] \in DOMAIN links
                                  THEN links[g[i - 1]] ELSE NULL
    OBVIOUS
  <2>1. CASE i = 0
    BY <1>1, <2>1
  <2>2. CASE i # 0
    <3>1. i - 1 \in 0..n /\ i - 1 \in Nat /\ (i - 1) + 1 = i
      BY <2>2
    <3> QED
      BY <1>1, <2>2, <3>1
  <2> QED
    BY <2>1, <2>2
<1>3. walk = CHOOSE w : w = body(w)
  BY DEF Follow
<1> HIDE DEF g, body, walk
<1>4. walk = body(walk)
  BY <1>2, <1>3
<1>5. /\ walk[0] = head
      /\ \A i \in Nat : i + 1 <= n => walk[i + 1] = next(walk[i])
  <2>1. \A i \in 0..n : walk[i] = IF i = 0 THEN head
                         ELSE IF walk[i - 1] \in DOMAIN links
                              THEN links[walk[i - 1]] ELSE NULL
    BY <1>4 DEF body
  <2>2. walk[0] = head
    BY <2>1
  <2>3. ASSUME NEW i \in Nat, i + 1 <= n
        PROVE  walk[i + 1] = next(walk[i])
    <3>1. i + 1 \in 0..n /\ i + 1 # 0 /\ (i + 1) - 1 = i
      BY <2>3
    <3> QED
      BY <2>1, <3>1
  <2> QED
    BY <2>2, <2>3
<1> DEFINE T == {i \in Nat : i <= n => walk[i] = f[i]}
<1>6. 0 \in T
  BY <1>1, <1>5
<1>7. ASSUME NEW i \in T PROVE i + 1 \in T
  BY <1>1, <1>5
<1>8. T = Nat
  BY <1>6, <1>7, NatInd
<1> QED
  BY <1>8 DEF walk

(***************************************************************************)
(* No chunk of the pool is ever lost: in every reachable state, following  *)
(* the links from m_free_list_head reaches every chunk that no client      *)
(* holds, and nothing else.                                                *)
(***************************************************************************)
THEOREM NoChunkLost == Spec => []NothingLost
<1>1. IndInv /\ Listed => NothingLost
  <2> SUFFICES ASSUME IndInv, Listed, alive
               PROVE  LET walk == Follow(m_free_list_head, mem, m_total_size) IN
                      {walk[i] : i \in 0..m_total_size} \ {NULL}
                        = Chunks \ {a.ptr : a \in live}
    BY DEF NothingLost, Follow
  <2> DEFINE n == m_total_size
             walk == Follow(m_free_list_head, mem, n)
  <2>1. n \in Nat /\ m_start_ptr \in Nat
    BY WordAssumption DEF IndInv, TypeOK, Word
  <2>2. PICK k \in Nat, f \in [Nat -> Nat] : Lists(f, k, m_free_list_head, mem)
    BY DEF Listed
  <2>3. k <= n
    BY <2>2, ListIsShort DEF IndInv
  <2>4. DOMAIN mem = Chunks \ {a.ptr : a \in live}
    <3> DEFINE taken == {a.ptr : a \in live}
    <3>1. DOMAIN mem \cup taken = Chunks
      BY DEF IndInv, FreeLinks
    <3>2. \A p \in taken : p \notin DOMAIN mem
      BY DEF IndInv, FreeLinks
    <3> HIDE DEF taken
    <3>3. DOMAIN mem = Chunks \ taken
      BY <3>1, <3>2
    <3> QED
      BY <3>3 DEF taken
  <2>5. NULL \notin Chunks
    <3>1. CASE m_start_ptr = NULL
      BY <3>1 DEF Chunks, ChunksOf
    <3>2. CASE m_start_ptr # NULL
      BY <3>2, <2>1, ChunkFacts DEF IndInv, TypeOK, Chunks, NULL
    <3> QED
      BY <3>1, <3>2
  <2>6. \A i \in 0..n : walk[i] = f[i]
    BY <2>1, <2>2, <2>4, <2>5, WalkFollowsList
  <2> HIDE DEF walk
  <2>7. {walk[i] : i \in 0..n} \ {NULL} = DOMAIN mem
    <3>1. ASSUME NEW i \in 0..n, walk[i] # NULL PROVE walk[i] \in DOMAIN mem
      BY <2>2, <2>6, <3>1 DEF Lists
    <3>2. ASSUME NEW c \in DOMAIN mem
          PROVE  c # NULL /\ \E i \in 0..n : walk[i] = c
      <4>1. PICK i \in Nat : i < k /\ f[i] = c
        BY <2>2 DEF Lists
      <4>2. i \in 0..n
        BY <2>1, <2>3, <4>1
      <4> QED
        BY <2>4, <2>5, <2>6, <4>1, <4>2
    <3> QED
      BY <3>1, <3>2
  <2> QED
    BY <2>4, <2>7 DEF walk
<1>2. Spec => [](IndInv /\ Listed)
  BY InitInv, StepInv, InitListed, StepListed, PTL DEF Spec
<1> QED
  BY <1>1, <1>2, PTL
=============================================================================
