---------------------- MODULE TrackingAllocator_proofs ----------------------
(***************************************************************************)
(* The wrapper's books for every base, region and set of requests.  The    *)
(* sum of the recorded sizes is the cardinality of a set of bytes, each    *)
(* named by its record and its place in it, so that a record put in or     *)
(* taken out is a union or a difference of finite sets.                    *)
(***************************************************************************)
EXTENDS TrackingAllocator, Utils_proofs, FiniteSetTheorems

\* The bytes of the records: place i of the allocation at ptr.
BytesOf(sizes) == UNION {{ptr} \X (1..sizes[ptr]) : ptr \in DOMAIN sizes}

Typed ==
    /\ lifo \in BOOLEAN
    /\ start \in Nat /\ total \in Nat
    /\ m_curr_alloced_bytes \in Word /\ m_peak_alloced_bytes \in Word
    /\ \A a \in live : /\ a.ptr \in Nat /\ a.size \in Nat \ {0}
    /\ \A ptr \in DOMAIN m_active_allocs : m_active_allocs[ptr] \in Nat

(***************************************************************************)
(* The books with the stale records in them: the byte count is at least    *)
(* what is on record, which the free_raw of any record relies on, and      *)
(* exactly that where no record goes stale.                                *)
(***************************************************************************)
Books ==
    /\ \A a, b \in live : a.ptr = b.ptr => a = b
    /\ \A a \in live : tracked(a.ptr) /\ m_active_allocs[a.ptr] = a.size
    /\ IsFiniteSet(BytesOf(m_active_allocs))
    /\ m_curr_alloced_bytes >= Cardinality(BytesOf(m_active_allocs))
    /\ m_peak_alloced_bytes >= m_curr_alloced_bytes
    /\ ~lifo => /\ DOMAIN m_active_allocs = {a.ptr : a \in live}
                /\ m_curr_alloced_bytes = Cardinality(BytesOf(m_active_allocs))

IndInv == Typed /\ Books

\* One record holds as many bytes as its size.
LEMMA RecordBytes ==
    ASSUME NEW ptr, NEW size \in Nat
    PROVE  /\ IsFiniteSet({ptr} \X (1..size))
           /\ Cardinality({ptr} \X (1..size)) = size
<1>1. IsFiniteSet(1..size) /\ Cardinality(1..size) = size
  BY FS_Interval
<1>2. IsFiniteSet({ptr}) /\ Cardinality({ptr}) = 1
  BY FS_Singleton
<1>3. /\ IsFiniteSet({ptr} \X (1..size))
      /\ Cardinality({ptr} \X (1..size)) = Cardinality({ptr}) * Cardinality(1..size)
  BY <1>1, <1>2, FS_Product
<1> QED
  BY <1>1, <1>2, <1>3

\* No record, no bytes.
LEMMA NoRecords ==
    ASSUME NEW sizes, DOMAIN sizes = {}
    PROVE  /\ BytesOf(sizes) = {}
           /\ IsFiniteSet(BytesOf(sizes)) /\ Cardinality(BytesOf(sizes)) = 0
<1>1. BytesOf(sizes) = {}
  BY DEF BytesOf
<1> QED
  BY <1>1, FS_EmptySet

\* Erasing a record takes its bytes away.
LEMMA EraseBytes ==
    ASSUME NEW sizes, NEW ptr \in DOMAIN sizes, sizes[ptr] \in Nat,
           NEW rest, DOMAIN rest = DOMAIN sizes \ {ptr},
           \A p \in DOMAIN rest : rest[p] = sizes[p],
           IsFiniteSet(BytesOf(sizes))
    PROVE  /\ IsFiniteSet(BytesOf(rest))
           /\ Cardinality(BytesOf(sizes)) \in Nat
           /\ Cardinality(BytesOf(rest))
                = Cardinality(BytesOf(sizes)) - sizes[ptr]
<1> DEFINE mine == {ptr} \X (1..sizes[ptr])
<1>1. mine \subseteq BytesOf(sizes)
  BY DEF BytesOf
<1>2. BytesOf(rest) = BytesOf(sizes) \ mine
  BY DEF BytesOf
<1>3. IsFiniteSet(mine) /\ Cardinality(mine) = sizes[ptr]
  BY RecordBytes
<1> HIDE DEF mine
<1>4. BytesOf(sizes) \cap mine = mine
  BY <1>1
<1>5. /\ IsFiniteSet(BytesOf(sizes) \ mine)
      /\ Cardinality(BytesOf(sizes) \ mine)
           = Cardinality(BytesOf(sizes)) - Cardinality(BytesOf(sizes) \cap mine)
  BY FS_Difference
<1>6. Cardinality(BytesOf(sizes)) \in Nat
  BY FS_CardinalityType
<1> QED
  BY <1>2, <1>3, <1>4, <1>5, <1>6

\* Recording an allocation adds at most its bytes: all of them when the
\* pointer was not on record.
LEMMA RecordAdds ==
    ASSUME NEW sizes, NEW ptr, NEW size \in Nat,
           NEW more, DOMAIN more = DOMAIN sizes \cup {ptr},
           more[ptr] = size, \A p \in DOMAIN sizes \ {ptr} : more[p] = sizes[p],
           IsFiniteSet(BytesOf(sizes))
    PROVE  /\ IsFiniteSet(BytesOf(more))
           /\ Cardinality(BytesOf(more)) \in Nat
           /\ Cardinality(BytesOf(sizes)) \in Nat
           /\ Cardinality(BytesOf(more)) <= Cardinality(BytesOf(sizes)) + size
           /\ ptr \notin DOMAIN sizes =>
                Cardinality(BytesOf(more)) = Cardinality(BytesOf(sizes)) + size
<1> DEFINE mine == {ptr} \X (1..size)
           both == BytesOf(sizes) \cup mine
<1>1. BytesOf(more) \subseteq both
  BY DEF BytesOf
<1>2. IsFiniteSet(mine) /\ Cardinality(mine) = size
  BY RecordBytes
<1>3. ptr \notin DOMAIN sizes => BytesOf(more) = both /\ BytesOf(sizes) \cap mine = {}
  BY DEF BytesOf
<1> HIDE DEF mine
<1>4. /\ IsFiniteSet(both)
      /\ Cardinality(both) = Cardinality(BytesOf(sizes)) + Cardinality(mine)
                               - Cardinality(BytesOf(sizes) \cap mine)
  BY <1>2, FS_Union
<1>5. IsFiniteSet(BytesOf(sizes) \cap mine)
  BY FS_Intersection
<1>6. /\ Cardinality(BytesOf(sizes)) \in Nat /\ Cardinality(both) \in Nat
      /\ Cardinality(BytesOf(sizes) \cap mine) \in Nat
  BY <1>4, <1>5, FS_CardinalityType
<1>7. /\ IsFiniteSet(BytesOf(more))
      /\ Cardinality(BytesOf(more)) <= Cardinality(both)
      /\ Cardinality(BytesOf(more)) \in Nat
  BY <1>1, <1>4, FS_Subset, FS_CardinalityType
<1>8. Cardinality({}) = 0
  BY FS_EmptySet
<1> HIDE DEF both
<1>9. Cardinality(both) <= Cardinality(BytesOf(sizes)) + size
  BY <1>2, <1>4, <1>6
<1>10. ASSUME ptr \notin DOMAIN sizes
       PROVE  Cardinality(BytesOf(more)) = Cardinality(BytesOf(sizes)) + size
  <2>1. Cardinality(BytesOf(more)) = Cardinality(both)
    BY <1>3, <1>10, Zenon
  <2>2. Cardinality(BytesOf(sizes) \cap mine) = 0
    BY <1>3, <1>8, <1>10, Zenon
  <2> QED
    BY <1>2, <1>4, <1>6, <2>1, <2>2
<1>11. Cardinality(BytesOf(more)) <= Cardinality(BytesOf(sizes)) + size
  BY <1>6, <1>7, <1>9
<1> QED
  BY <1>6, <1>7, <1>10, <1>11

\* What the base promises of an allocation, whichever kind it is.
LEMMA BaseAlloc ==
    ASSUME NEW new, live' = live \cup {new},
           IF lifo THEN Stack!alloc_raw ELSE Heap!alloc_raw
    PROVE  /\ new.size > 0 /\ UNCHANGED <<start, total>>
           /\ \A b \in live : ~Overlap(new, b)
<1>1. CASE lifo
  <2>1. PICK a \in live' \ live : /\ a.size > 0
                                  /\ \A b \in live : ~Stack!Overlap(a, b)
    BY <1>1 DEF Stack!alloc_raw
  <2>2. a = new
    OBVIOUS
  <2> QED
    BY <1>1, <2>1, <2>2
       DEF Stack!alloc_raw, Stack!Overlap, Stack!End, Overlap, End
<1>2. CASE ~lifo
  <2>1. PICK a \in live' \ live : /\ a.size > 0
                                  /\ \A b \in live : ~Heap!Overlap(a, b)
    BY <1>2 DEF Heap!alloc_raw
  <2>2. a = new
    OBVIOUS
  <2> QED
    BY <1>2, <2>1, <2>2
       DEF Heap!alloc_raw, Heap!Overlap, Heap!End, Overlap, End
<1> QED
  BY <1>1, <1>2

\* Without records the books balance.
LEMMA InitInv == Init => IndInv
<1> SUFFICES ASSUME Init PROVE IndInv
  OBVIOUS
<1>1. /\ lifo \in BOOLEAN /\ start = BaseStart /\ total = BaseTotal
      /\ live = {} /\ m_active_allocs = <<>>
      /\ m_curr_alloced_bytes = 0 /\ m_peak_alloced_bytes = 0
  BY DEF Init
<1>2. DOMAIN m_active_allocs = {}
  BY <1>1
<1>3. /\ IsFiniteSet(BytesOf(m_active_allocs))
      /\ Cardinality(BytesOf(m_active_allocs)) = 0
  BY <1>2, NoRecords
<1>4. Typed
  BY <1>1, <1>2, ArgAssumption, WordAssumption DEF Typed, Word
<1>5. Books
  BY <1>1, <1>2, <1>3 DEF Books
<1> QED
  BY <1>4, <1>5 DEF IndInv

\* alloc_raw keeps the books: CURR_BOUND keeps the count in a word.
LEMMA AllocInv ==
    ASSUME IndInv, NEW size \in Sizes, NEW align \in Aligns,
           alloc_raw(size, align)
    PROVE  /\ IndInv'
           /\ m_peak_alloced_bytes'
                = MaxOf(m_peak_alloced_bytes, m_curr_alloced_bytes')
<1> USE WordAssumption, ArgAssumption DEF Word
<1> DEFINE curr == m_curr_alloced_bytes
           sizes == m_active_allocs
<1>1. PICK ptr \in start..(start + total) :
         /\ live' = live \cup {[ptr |-> ptr, size |-> size, align |-> align]}
         /\ IF lifo THEN Stack!alloc_raw ELSE Heap!alloc_raw
         /\ record(ptr, size)
  BY DEF alloc_raw
<1> DEFINE new == [ptr |-> ptr, size |-> size, align |-> align]
<1>2. /\ size \in Nat /\ ptr \in Nat /\ curr \in Nat
      /\ m_peak_alloced_bytes \in Word
  BY <1>1 DEF IndInv, Typed
<1>3. new.ptr = ptr /\ new.size = size
  OBVIOUS
<1> HIDE DEF new
<1>4. live' = live \cup {new}
  BY <1>1 DEF new
<1>5. /\ new.size > 0 /\ UNCHANGED <<start, total>>
      /\ \A b \in live : ~Overlap(new, b)
  BY <1>1, <1>4, BaseAlloc
<1>6. curr + size <= CURR_BOUND /\ UNCHANGED lifo
  BY DEF alloc_raw
<1>7. curr' = curr + size /\ curr' \in Word
  <2>1. curr' = Wrap(curr + size)
    BY <1>1 DEF record
  <2>2. curr + size <= SIZE_MAX /\ curr + size \in Nat
    BY <1>2, <1>6
  <2> QED
    BY <2>1, <2>2, WrapFacts
<1>8. m_peak_alloced_bytes' = MaxOf(m_peak_alloced_bytes, curr')
  BY <1>1 DEF record
<1>9. /\ DOMAIN sizes' = DOMAIN sizes \cup {ptr}
      /\ sizes'[ptr] = size
      /\ \A p \in DOMAIN sizes \ {ptr} : sizes'[p] = sizes[p]
  <2>1. sizes' = recorded(ptr, size)
    BY <1>1 DEF record
  <2> QED
    BY <2>1 DEF recorded
<1>10. /\ IsFiniteSet(BytesOf(sizes'))
       /\ Cardinality(BytesOf(sizes')) \in Nat
       /\ Cardinality(BytesOf(sizes)) \in Nat
       /\ Cardinality(BytesOf(sizes')) <= Cardinality(BytesOf(sizes)) + size
       /\ ptr \notin DOMAIN sizes =>
            Cardinality(BytesOf(sizes')) = Cardinality(BytesOf(sizes)) + size
  <2>1. IsFiniteSet(BytesOf(sizes))
    BY DEF IndInv, Books
  <2> HIDE DEF sizes
  <2> QED
    BY <1>2, <1>9, <2>1, RecordAdds
<1>11. \A b \in live : b.ptr # ptr
  <2> SUFFICES ASSUME NEW b \in live, b.ptr = ptr PROVE FALSE
    OBVIOUS
  <2>1. b.size \in Nat \ {0}
    BY DEF IndInv, Typed
  <2> QED
    BY <1>2, <1>3, <1>5, <2>1 DEF Overlap, End
<1>12. Typed'
  <2>1. lifo' \in BOOLEAN /\ start' \in Nat /\ total' \in Nat
    BY <1>5, <1>6 DEF IndInv, Typed
  <2>2. m_peak_alloced_bytes' \in Word
    BY <1>2, <1>7, <1>8 DEF MaxOf
  <2>3. \A a \in live' : a.ptr \in Nat /\ a.size \in Nat \ {0}
    BY <1>2, <1>3, <1>4, <1>5 DEF IndInv, Typed
  <2>4. \A p \in DOMAIN sizes' : sizes'[p] \in Nat
    BY <1>2, <1>9 DEF IndInv, Typed
  <2> QED
    BY <1>7, <2>1, <2>2, <2>3, <2>4 DEF Typed
<1>13. Books'
  <2>1. \A a, b \in live' : a.ptr = b.ptr => a = b
    BY <1>3, <1>4, <1>11 DEF IndInv, Books
  <2>2. \A a \in live' : a.ptr \in DOMAIN sizes' /\ sizes'[a.ptr] = a.size
    BY <1>3, <1>4, <1>9, <1>11 DEF IndInv, Books, tracked
  <2>3. curr >= Cardinality(BytesOf(sizes))
    BY DEF IndInv, Books
  <2>4. curr' >= Cardinality(BytesOf(sizes'))
    BY <1>2, <1>7, <1>10, <2>3
  <2>5. m_peak_alloced_bytes' >= curr'
    BY <1>2, <1>7, <1>8 DEF MaxOf
  <2>6. ASSUME ~lifo'
        PROVE  /\ DOMAIN sizes' = {a.ptr : a \in live'}
               /\ curr' = Cardinality(BytesOf(sizes'))
    <3>1. DOMAIN sizes = {a.ptr : a \in live} /\ curr = Cardinality(BytesOf(sizes))
      BY <1>6, <2>6 DEF IndInv, Books
    <3>2. {a.ptr : a \in live'} = {a.ptr : a \in live} \cup {ptr}
      BY <1>3, <1>4
    <3>3. ptr \notin DOMAIN sizes
      BY <1>11, <3>1
    <3> QED
      BY <1>7, <1>9, <1>10, <3>1, <3>2, <3>3
  <2> QED
    BY <1>10, <2>1, <2>2, <2>4, <2>5, <2>6 DEF Books, tracked, BytesOf
<1> QED
  BY <1>8, <1>12, <1>13 DEF IndInv

\* free_raw takes off what was recorded, and the count does not wrap.
LEMMA FreeInv ==
    ASSUME IndInv, NEW a \in live, free_raw(a)
    PROVE  IndInv' /\ UNCHANGED m_peak_alloced_bytes
<1> USE WordAssumption DEF Word
<1> DEFINE curr == m_curr_alloced_bytes
           sizes == m_active_allocs
<1>1. /\ a.ptr \in DOMAIN sizes
      /\ sizes' = Restrict(sizes, DOMAIN sizes \ {a.ptr})
      /\ curr' = Wrap(curr + (SIZE_MAX + 1) - sizes[a.ptr])
      /\ UNCHANGED m_peak_alloced_bytes
      /\ UNCHANGED <<lifo, start, total>>
  BY DEF free_raw, erase, tracked
<1>2. live' \subseteq live /\ (~lifo => live' = live \ {a})
  BY DEF free_raw, Heap!Released
<1>3. /\ DOMAIN sizes' = DOMAIN sizes \ {a.ptr}
      /\ \A p \in DOMAIN sizes' : sizes'[p] = sizes[p]
  BY <1>1 DEF Restrict
<1>4. a \notin live' /\ \A b \in live' : b.ptr # a.ptr
  <2>1. CASE lifo
    <3>1. live' = live \ {b \in live : b.ptr >= a.ptr}
      BY <2>1 DEF free_raw, Stack!Released
    <3>2. a.ptr \in Nat
      BY DEF IndInv, Typed
    <3> QED
      BY <3>1, <3>2
  <2>2. CASE ~lifo
    BY <1>2, <2>2 DEF IndInv, Books
  <2> QED
    BY <2>1, <2>2
<1>5. /\ curr \in Nat /\ curr <= SIZE_MAX /\ sizes[a.ptr] \in Nat
      /\ m_peak_alloced_bytes \in Nat /\ m_peak_alloced_bytes >= curr
  BY <1>1 DEF IndInv, Typed, Books
<1>6. /\ IsFiniteSet(BytesOf(sizes'))
      /\ Cardinality(BytesOf(sizes)) \in Nat
      /\ Cardinality(BytesOf(sizes'))
           = Cardinality(BytesOf(sizes)) - sizes[a.ptr]
  <2>1. IsFiniteSet(BytesOf(sizes))
    BY DEF IndInv, Books
  <2> HIDE DEF sizes
  <2> QED
    BY <1>1, <1>3, <1>5, <2>1, EraseBytes
<1>7. Cardinality(BytesOf(sizes')) \in Nat
  BY <1>6, FS_CardinalityType
<1>8. curr >= Cardinality(BytesOf(sizes))
  BY DEF IndInv, Books
<1>9. curr' = curr - sizes[a.ptr] /\ curr' \in Word
  <2> DEFINE n == curr - sizes[a.ptr]
  <2>1. n \in Nat /\ n <= SIZE_MAX
    BY <1>5, <1>6, <1>7, <1>8
  <2>2. curr + (SIZE_MAX + 1) - sizes[a.ptr] = n + (SIZE_MAX + 1)
    BY <1>5
  <2> HIDE DEF n
  <2>3. (n + (SIZE_MAX + 1)) % (SIZE_MAX + 1) = n
    BY <2>1
  <2> QED
    BY <1>1, <2>1, <2>2, <2>3 DEF Wrap, n
<1>10. Typed'
  <2>1. \A b \in live' : b.ptr \in Nat /\ b.size \in Nat \ {0}
    BY <1>2 DEF IndInv, Typed
  <2>2. \A p \in DOMAIN sizes' : sizes'[p] \in Nat
    BY <1>3 DEF IndInv, Typed
  <2> QED
    BY <1>1, <1>9, <2>1, <2>2 DEF IndInv, Typed
<1>11. Books'
  <2>1. \A b, c \in live' : b.ptr = c.ptr => b = c
    BY <1>2 DEF IndInv, Books
  <2>2. \A b \in live' : b.ptr \in DOMAIN sizes' /\ sizes'[b.ptr] = b.size
    BY <1>2, <1>3, <1>4 DEF IndInv, Books, tracked
  <2>3. /\ curr' >= Cardinality(BytesOf(sizes'))
        /\ m_peak_alloced_bytes' >= curr'
    BY <1>1, <1>5, <1>6, <1>8, <1>9
  <2>4. ASSUME ~lifo'
        PROVE  /\ DOMAIN sizes' = {b.ptr : b \in live'}
               /\ curr' = Cardinality(BytesOf(sizes'))
    <3>1. DOMAIN sizes = {b.ptr : b \in live} /\ curr = Cardinality(BytesOf(sizes))
      BY <1>1, <2>4 DEF IndInv, Books
    <3>2. live = live' \cup {a}
      BY <1>1, <1>2, <2>4
    <3>3. {b.ptr : b \in live} = {b.ptr : b \in live'} \cup {a.ptr}
      BY <3>2
    <3>4. a.ptr \notin {b.ptr : b \in live'}
      BY <1>4
    <3>5. DOMAIN sizes' = {b.ptr : b \in live'}
      BY <1>3, <3>1, <3>3, <3>4
    <3> QED
      BY <1>6, <1>9, <3>1, <3>5
  <2> QED
    BY <1>6, <2>1, <2>2, <2>3, <2>4 DEF Books, tracked, BytesOf
<1> QED
  BY <1>1, <1>10, <1>11 DEF IndInv

\* clear empties the books and leaves the peak.
LEMMA ClearInv ==
    ASSUME IndInv, clear
    PROVE  IndInv' /\ UNCHANGED m_peak_alloced_bytes
<1> USE WordAssumption DEF Word
<1>1. /\ m_active_allocs' = <<>> /\ m_curr_alloced_bytes' = 0 /\ live' = {}
      /\ UNCHANGED <<lifo, start, total, m_peak_alloced_bytes>>
  BY DEF clear, Heap!clear
<1>2. DOMAIN m_active_allocs' = {}
  BY <1>1
<1>3. /\ IsFiniteSet(BytesOf(m_active_allocs'))
      /\ Cardinality(BytesOf(m_active_allocs')) = 0
  BY <1>2, NoRecords
<1>4. Typed'
  BY <1>1, <1>2 DEF IndInv, Typed
<1>5. m_peak_alloced_bytes' >= m_curr_alloced_bytes'
  BY <1>1 DEF IndInv, Typed
<1>6. Books'
  BY <1>1, <1>2, <1>3, <1>5 DEF Books, BytesOf
<1> QED
  BY <1>1, <1>4, <1>6 DEF IndInv

\* What a step may do to the peak.
PeakStep ==
    /\ m_peak_alloced_bytes' >= m_peak_alloced_bytes
    /\ m_peak_alloced_bytes' >= m_curr_alloced_bytes'
    /\ m_peak_alloced_bytes' > m_peak_alloced_bytes =>
         m_peak_alloced_bytes' = m_curr_alloced_bytes'

\* Every step keeps the books and the peak.
LEMMA StepInv == IndInv /\ [Next]_vars => IndInv' /\ PeakStep
<1> USE WordAssumption DEF Word
<1> SUFFICES ASSUME IndInv, [Next]_vars PROVE IndInv' /\ PeakStep
  OBVIOUS
<1>1. /\ m_peak_alloced_bytes \in Nat /\ m_curr_alloced_bytes \in Nat
      /\ m_peak_alloced_bytes >= m_curr_alloced_bytes
  BY DEF IndInv, Typed, Books
<1>2. ASSUME IndInv' PROVE /\ m_peak_alloced_bytes' \in Nat
                           /\ m_curr_alloced_bytes' \in Nat
                           /\ m_peak_alloced_bytes' >= m_curr_alloced_bytes'
  BY <1>2 DEF IndInv, Typed, Books
<1>3. ASSUME NEW size \in Sizes, NEW align \in Aligns, alloc_raw(size, align)
      PROVE  IndInv' /\ PeakStep
  BY <1>1, <1>2, <1>3, AllocInv DEF PeakStep, MaxOf
<1>4. ASSUME NEW a \in live, free_raw(a)
      PROVE  IndInv' /\ PeakStep
  BY <1>1, <1>2, <1>4, FreeInv DEF PeakStep
<1>5. CASE clear
  BY <1>1, <1>2, <1>5, ClearInv DEF PeakStep
<1>6. CASE UNCHANGED <<lifo, start, total, live, records>>
  <2>1. IndInv'
    BY <1>6 DEF IndInv, Typed, Books, tracked, BytesOf, records
  <2>2. UNCHANGED m_peak_alloced_bytes
    BY <1>6 DEF records
  <2> QED
    BY <1>1, <1>2, <2>1, <2>2 DEF PeakStep
<1>7. UNCHANGED vars => UNCHANGED <<lifo, start, total, live, records>>
  BY DEF vars
<1> QED
  BY <1>3, <1>4, <1>5, <1>6, <1>7
     DEF Next, alloc_null, free_ignored, destructor

(***************************************************************************)
(* In every reachable state each live allocation has its own record, the   *)
(* byte count is not below the bytes in use, stale records of a rewound    *)
(* stack and all, and around any other base the books are exact.           *)
(***************************************************************************)
THEOREM Bookkeeping == Spec => []BooksBalance
<1>1. IndInv => BooksBalance
  <2> SUFFICES ASSUME IndInv PROVE BooksBalance
    OBVIOUS
  <2> DEFINE used == UNION {{a.ptr} \X (1..a.size) : a \in live}
             all == BytesOf(m_active_allocs)
  <2>1. \A a \in live : a.ptr \in DOMAIN m_active_allocs
                        /\ m_active_allocs[a.ptr] = a.size
    BY DEF IndInv, Books, tracked
  <2>2. used \subseteq all
    BY <2>1 DEF BytesOf
  <2>3. IsFiniteSet(all) /\ m_curr_alloced_bytes >= Cardinality(all)
        /\ m_curr_alloced_bytes \in Nat
    BY WordAssumption DEF IndInv, Books, Typed, Word
  <2>4. ~lifo => /\ DOMAIN m_active_allocs = {a.ptr : a \in live}
                 /\ m_curr_alloced_bytes = Cardinality(all)
    BY DEF IndInv, Books
  <2>5. ~lifo => all = used
    BY <2>1, <2>4 DEF BytesOf
  <2> HIDE DEF used, all
  <2>6. IsFiniteSet(used) /\ Cardinality(used) <= Cardinality(all)
    BY <2>2, <2>3, FS_Subset
  <2>7. Cardinality(used) \in Nat /\ Cardinality(all) \in Nat
    BY <2>3, <2>6, FS_CardinalityType
  <2>8. m_curr_alloced_bytes >= Cardinality(used)
    BY <2>3, <2>6, <2>7
  <2>9. ~lifo => m_curr_alloced_bytes = Cardinality(used)
    BY <2>4, <2>5
  <2> QED
    BY <2>1, <2>4, <2>8, <2>9 DEF BooksBalance, BytesInUse, tracked, used
<1>2. IndInv /\ [Next]_vars => IndInv'
  BY StepInv
<1> QED
  BY <1>1, <1>2, InitInv, PTL DEF Spec

(***************************************************************************)
(* The peak is a high-water mark: no step lowers it or leaves it below the *)
(* byte count, and it rises only to meet the count.                        *)
(***************************************************************************)
THEOREM Peak == Spec => PeakIsHighWater
<1>1. IndInv /\ [Next]_vars => IndInv' /\ [PeakStep]_records
  BY StepInv
<1>2. PeakIsHighWater <=> [][PeakStep]_records
  BY PTL DEF PeakIsHighWater, PeakStep
<1> QED
  BY <1>1, <1>2, InitInv, PTL DEF Spec
=============================================================================
