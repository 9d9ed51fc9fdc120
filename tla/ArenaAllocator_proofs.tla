----------------------- MODULE ArenaAllocator_proofs ------------------------
(***************************************************************************)
(* The arena is safe for every word width, page size, mapping and request: *)
(* TypeOK /\ LiveBehindOffset is inductive as it stands.                   *)
(***************************************************************************)
EXTENDS ArenaAllocator, Utils_proofs

IndInv == TypeOK /\ LiveBehindOffset

\* What a request that passes the early returns gets.
LEMMA Fits ==
    ASSUME IndInv, NEW size \in Sizes, NEW align \in Aligns, fits(size, align)
    PROVE  LET pad == calc_pad(m_start_ptr + m_offset, align) IN
           /\ size \in Nat \ {0} /\ align \in Nat \ {0}
           /\ size \in Word /\ align \in Word
           /\ pad \in Nat
           /\ (m_start_ptr + m_offset + pad) % align = 0
           /\ m_offset + pad + size <= m_total_size
<1> DEFINE pad == calc_pad(m_start_ptr + m_offset, align)
<1>1. size \in Word /\ align \in Word
  BY ArgAssumption
<1>2. align \in Nat \ {0} /\ size \in Nat \ {0}
  BY <1>1, GoodAlign, WordAssumption DEF fits, Word
<1>3. m_start_ptr + m_offset \in Nat /\ m_total_size - m_offset \in Nat
  BY WordAssumption DEF IndInv, TypeOK, LiveBehindOffset, Word
<1>4. /\ pad \in Nat /\ pad < align
      /\ (m_start_ptr + m_offset + pad) % align = 0
  BY <1>2, <1>3, CalcPad
<1>5. Wrap(size + pad) = size + pad
  BY <1>1, <1>2, <1>4, WrapFacts, WordAssumption DEF fits, Word
<1>6. size + pad <= m_total_size - m_offset
  BY <1>5 DEF fits
<1> HIDE DEF pad
<1>7. m_offset + pad + size <= m_total_size
  BY <1>2, <1>3, <1>4, <1>6, WordAssumption DEF IndInv, TypeOK, Word
<1> QED
  BY <1>1, <1>2, <1>4, <1>7 DEF pad

LEMMA InitInv == Init => IndInv
<1> SUFFICES ASSUME Init PROVE IndInv
  OBVIOUS
<1>1. PICK size \in CtorSizes :
        LET total == align_up(size, PAGE_SIZE) IN
        /\ m_start_ptr \in os_alloc(total)
        /\ m_total_size = IF m_start_ptr = NULL THEN 0 ELSE total
  BY DEF Init
<1>2. align_up(size, PAGE_SIZE) \in Word
  BY ArgAssumption, PageAssumption, WordAssumption, AlignUpWord DEF Word
<1>3. /\ m_start_ptr \in Word
      /\ m_start_ptr # NULL =>
           m_start_ptr + align_up(size, PAGE_SIZE) <= SIZE_MAX
  BY <1>1, <1>2, OsAlloc
<1>4. TypeOK
  BY <1>1, <1>2, <1>3, WordAssumption DEF Init, TypeOK, Word, NULL
<1>5. LiveBehindOffset
  BY <1>4, WordAssumption DEF Init, LiveBehindOffset, TypeOK, Word
<1> QED
  BY <1>4, <1>5 DEF IndInv

LEMMA StepInv == IndInv /\ [Next]_vars => IndInv'
<1> SUFFICES ASSUME IndInv, [Next]_vars PROVE IndInv'
  OBVIOUS
<1> USE WordAssumption DEF Word
<1>1. ASSUME NEW size \in Sizes, NEW align \in Aligns, alloc_raw(size, align)
      PROVE  IndInv'
  <2> DEFINE pad == calc_pad(m_start_ptr + m_offset, align)
             new == [ptr |-> m_start_ptr + m_offset + pad,
                     size |-> size, align |-> align]
  <2>1. /\ size \in Nat \ {0} /\ size \in Word /\ align \in Word
        /\ pad \in Nat /\ m_offset + pad + size <= m_total_size
    BY <1>1, Fits DEF alloc_raw
  <2>2. /\ live' = live \cup {new} /\ m_offset' = m_offset + (pad + size)
        /\ UNCHANGED <<alive, m_start_ptr, m_total_size>>
    BY <1>1 DEF alloc_raw
  <2> HIDE DEF pad
  <2>3. new \in Allocation
    BY <2>1 DEF IndInv, TypeOK, Allocation
  <2>4. TypeOK'
    BY <2>1, <2>2, <2>3 DEF IndInv, TypeOK
  <2>5. /\ new.ptr = m_start_ptr + m_offset + pad
        /\ End(new) = m_start_ptr + m_offset + pad + size
    BY DEF End
  <2>6. \A a \in live : /\ a.ptr \in Nat /\ a.size \in Nat
                        /\ End(a) = a.ptr + a.size
                        /\ End(a) <= m_start_ptr + m_offset
    BY DEF IndInv, TypeOK, LiveBehindOffset, Allocation, End
  <2>7. m_offset' <= m_total_size'
    BY <2>1, <2>2 DEF IndInv, TypeOK
  <2>8. ASSUME NEW a \in live'
        PROVE  /\ owns(a.ptr)' /\ owns(End(a) - 1)'
               /\ End(a) <= m_start_ptr' + m_offset'
               /\ \A b \in live' \ {a} : ~Overlap(a, b)
    <3>1. CASE a = new
      BY <3>1, <2>1, <2>2, <2>5, <2>6
         DEF IndInv, TypeOK, owns, Overlap, End
    <3>2. CASE a \in live
      <4>1. /\ owns(a.ptr) /\ owns(End(a) - 1)
            /\ End(a) <= m_start_ptr + m_offset
            /\ \A b \in live \ {a} : ~Overlap(a, b)
        BY <3>2 DEF IndInv, LiveBehindOffset
      <4>2. ~Overlap(a, new)
        BY <3>2, <2>1, <2>5, <2>6 DEF IndInv, TypeOK, Overlap
      <4> QED
        BY <4>1, <4>2, <2>1, <2>2, <2>6, <3>2 DEF IndInv, TypeOK, owns, End
    <3> QED
      BY <3>1, <3>2, <2>2
  <2> QED
    BY <2>4, <2>7, <2>8 DEF IndInv, LiveBehindOffset
<1>2. ASSUME NEW a \in live, free_raw(a)
      PROVE  IndInv'
  BY <1>2 DEF free_raw, IndInv, TypeOK, LiveBehindOffset, owns
<1>3. CASE clear
  BY <1>3 DEF clear, IndInv, TypeOK, LiveBehindOffset
<1>4. CASE destructor
  <2>0. alive' \in BOOLEAN
    BY <1>4 DEF destructor
  <2>1. TypeOK'
    BY <1>4, <2>0 DEF destructor, IndInv, TypeOK, NULL
  <2>2. LiveBehindOffset'
    BY <1>4 DEF destructor, IndInv, TypeOK, LiveBehindOffset, NULL
  <2> QED
    BY <2>1, <2>2 DEF IndInv
<1>5. CASE UNCHANGED vars
  BY <1>5 DEF vars, IndInv, TypeOK, LiveBehindOffset, owns
<1> QED
  BY <1>1, <1>2, <1>3, <1>4, <1>5 DEF Next, alloc_null

(***************************************************************************)
(* Every reachable state of the arena is well typed and every live         *)
(* allocation lies behind the bump pointer, disjoint from the others.      *)
(***************************************************************************)
THEOREM Safety == Spec => [](TypeOK /\ LiveBehindOffset)
<1>1. Init => IndInv
  BY InitInv
<1>2. IndInv /\ [Next]_vars => IndInv'
  BY StepInv
<1>3. IndInv => TypeOK /\ LiveBehindOffset
  BY DEF IndInv
<1> QED
  BY <1>1, <1>2, <1>3, PTL DEF Spec

(***************************************************************************)
(* The arena implements the abstract allocator.                            *)
(***************************************************************************)
THEOREM Refinement == Spec => ContractSpec
<1> USE WordAssumption DEF Word
<1>1. Init => Contract!Init
  BY DEF Init, Contract!Init
<1>2. IndInv /\ [Next]_vars => [Contract!Next]_Contract!vars
  <2> SUFFICES ASSUME IndInv, [Next]_vars
               PROVE  [Contract!Next]_Contract!vars
    OBVIOUS
  <2>1. ASSUME NEW size \in Sizes, NEW align \in Aligns,
               alloc_raw(size, align)
        PROVE  Contract!alloc_raw
    <3> DEFINE pad == calc_pad(m_start_ptr + m_offset, align)
               new == [ptr |-> m_start_ptr + m_offset + pad,
                       size |-> size, align |-> align]
    <3>1. /\ size \in Nat \ {0} /\ align \in Nat \ {0} /\ pad \in Nat
          /\ (m_start_ptr + m_offset + pad) % align = 0
          /\ m_offset + pad + size <= m_total_size
      BY <2>1, Fits DEF alloc_raw
    <3>2. live' = live \cup {new} /\ UNCHANGED <<m_start_ptr, m_total_size>>
      BY <2>1 DEF alloc_raw
    <3> HIDE DEF pad
    <3>3. /\ new.ptr = m_start_ptr + m_offset + pad
          /\ new.size = size /\ new.align = align
          /\ End(new) = m_start_ptr + m_offset + pad + size
      BY DEF End
    <3>4. \A b \in live : /\ b.ptr \in Nat /\ b.size \in Nat
                          /\ End(b) <= m_start_ptr + m_offset
                          /\ End(b) = b.ptr + b.size
      BY DEF IndInv, TypeOK, LiveBehindOffset, Allocation, owns, End
    <3>5. new \notin live
      BY <3>1, <3>3, <3>4 DEF IndInv, TypeOK
    <3>6. \A b \in live : ~Contract!Overlap(new, b)
      BY <3>1, <3>3, <3>4
         DEF IndInv, TypeOK, Contract!Overlap, Contract!End
    <3>7. Contract!Inside(new)
      BY <3>1, <3>3 DEF Contract!Inside, Contract!End, IndInv, TypeOK
    <3> HIDE DEF new
    <3> QED
      BY <3>1, <3>2, <3>3, <3>5, <3>6, <3>7 DEF Contract!alloc_raw
  <2>2. ASSUME NEW a \in live, free_raw(a)
        PROVE  Contract!free_raw
    BY <2>2 DEF free_raw, Contract!free_raw, Contract!Released
  <2>3. CASE clear
    BY <2>3 DEF clear, Contract!clear, Contract!Next
  <2>4. CASE destructor
    BY <2>4 DEF destructor, Contract!destructor, Contract!Next, NULL,
                Contract!NULL
  <2>5. CASE UNCHANGED vars
    BY <2>5 DEF vars, Contract!vars
  <2> QED
    BY <2>1, <2>2, <2>3, <2>4, <2>5 DEF Next, alloc_null, Contract!Next
<1>3. Spec => []IndInv
  BY InitInv, StepInv, PTL DEF Spec
<1> QED
  BY <1>1, <1>2, <1>3, PTL DEF Spec, ContractSpec, Contract!Spec
=============================================================================
