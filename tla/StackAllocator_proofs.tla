----------------------- MODULE StackAllocator_proofs ------------------------
(***************************************************************************)
(* The stack is safe for every word width, page size, mapping and set of   *)
(* requests that alloc_size cannot wrap for (NoWrap).  The header chain    *)
(* carries the argument: what free_raw reads is the end of the allocation  *)
(* below, so the offset stays the end of the newest live one, and a new    *)
(* allocation starts above everything live.                                *)
(***************************************************************************)
EXTENDS StackAllocator, Utils_proofs

IndInv == TypeOK /\ HeaderChain /\ OffsetIsTop /\ InBounds

\* The alignment the code uses makes both the header and the data aligned.
LEMMA ActualAlign ==
    ASSUME NEW ptr \in Nat, NEW align \in Nat \ {0}, IsPow2(align),
           ptr % MaxOf(align, header_align) = 0
    PROVE  ptr % align = 0
<1>1. CASE align >= 8
  BY <1>1 DEF MaxOf, header_align
<1>2. CASE align < 8
  <2>1. ptr % 8 = 0
    BY <1>2 DEF MaxOf, header_align
  <2>2. align \in {1, 2, 4}
    <3>1. align \in {1, 2, 3, 4, 5, 6, 7}
      BY <1>2
    <3>2. align # 3 /\ align # 5 /\ align # 7 /\ align # 6
      BY DEF IsPow2
    <3> QED
      BY <3>1, <3>2
  <2> QED
    BY <2>1, <2>2
<1> QED
  BY <1>1, <1>2

\* What a request that passes the early returns gets.
LEMMA Fits ==
    ASSUME NoWrap, IndInv, alive,
           NEW size \in Sizes, NEW align \in Aligns, fits(size, align)
    PROVE  /\ size \in Nat \ {0} /\ align \in Nat \ {0}
           /\ size \in Word /\ align \in Word
           /\ data_pad(align) \in Nat
           /\ data_ptr(align) \in Nat
           /\ data_ptr(align)
                = m_start_ptr + m_offset + header_size + data_pad(align)
           /\ data_ptr(align) % align = 0
           /\ alloc_size(size, align) = header_size + data_pad(align) + size
           /\ m_offset + alloc_size(size, align) <= m_total_size
<1> USE WordAssumption DEF Word, header_size, header_align
<1>1. size \in Word /\ align \in Word
  BY ArgAssumption
<1>2. align \in Nat \ {0} /\ size \in Nat \ {0} /\ IsPow2(align)
  BY <1>1, GoodAlign DEF fits, BadAlign
<1>3. /\ m_start_ptr + m_offset + header_size \in Nat
      /\ m_total_size - m_offset \in Nat
  BY DEF IndInv, TypeOK, InBounds
<1>4. MaxOf(align, header_align) \in Nat \ {0}
  BY <1>2 DEF MaxOf
<1>5. /\ data_pad(align) \in Nat
      /\ data_pad(align) < MaxOf(align, header_align)
      /\ (m_start_ptr + m_offset + header_size + data_pad(align))
            % MaxOf(align, header_align) = 0
  BY <1>3, <1>4, CalcPad DEF data_pad
<1>6. data_ptr(align) % align = 0 /\ data_ptr(align) \in Nat
  BY <1>2, <1>3, <1>5, ActualAlign DEF data_ptr
<1>7. header_size + (MaxOf(align, header_align) - 1) + size <= SIZE_MAX
  BY DEF NoWrap, fits
<1>8. alloc_size(size, align) = header_size + data_pad(align) + size
  BY <1>1, <1>2, <1>4, <1>5, <1>7, WrapFacts DEF alloc_size
<1>9. m_offset + alloc_size(size, align) <= m_total_size
  BY <1>1, <1>3, <1>5, <1>8 DEF fits, IndInv, TypeOK
<1> QED
  BY <1>1, <1>2, <1>5, <1>6, <1>8, <1>9 DEF data_ptr

\* The constructor establishes the invariant.
LEMMA InitInv == Init => IndInv
<1> USE WordAssumption DEF Word
<1> SUFFICES ASSUME Init PROVE IndInv
  OBVIOUS
<1>1. PICK size \in CtorSizes :
        LET total == align_up(size, PAGE_SIZE) IN
        /\ m_start_ptr \in (IF size = 0 THEN {NULL} ELSE os_alloc(total))
        /\ m_total_size = IF m_start_ptr = NULL THEN 0 ELSE total
  BY DEF Init
<1>2. align_up(size, PAGE_SIZE) \in Word
  BY ArgAssumption, PageAssumption, AlignUpWord
<1>3. /\ m_start_ptr \in Word
      /\ m_start_ptr # NULL =>
           m_start_ptr + align_up(size, PAGE_SIZE) <= SIZE_MAX
  <2>1. CASE size = 0
    BY <1>1, <2>1 DEF NULL
  <2>2. CASE size # 0
    BY <1>1, <1>2, <2>2, OsAlloc
  <2> QED
    BY <2>1, <2>2
<1>4. TypeOK
  BY <1>1, <1>2, <1>3 DEF Init, TypeOK, NULL
<1>5. HeaderChain /\ OffsetIsTop /\ InBounds
  BY <1>4 DEF Init, HeaderChain, OffsetIsTop, InBounds, TypeOK
<1> QED
  BY <1>4, <1>5 DEF IndInv

\* What the invariant says of the allocations below the offset.
LEMMA LiveFacts ==
    ASSUME IndInv, alive, NEW a \in live
    PROVE  /\ a.ptr \in Nat /\ a.size \in Nat /\ End(a) = a.ptr + a.size
           /\ End(a) \in Nat
           /\ End(a) <= m_start_ptr + m_offset
           /\ a.ptr - header_size \in DOMAIN mem
           /\ mem[a.ptr - header_size] \in Nat
           /\ m_start_ptr + mem[a.ptr - header_size] <= a.ptr - header_size
<1> USE WordAssumption DEF Word
<1>1. a.ptr \in Nat /\ a.size \in Nat
  BY DEF IndInv, TypeOK, Allocation
<1>2. End(a) <= m_start_ptr + m_offset
  BY DEF IndInv, OffsetIsTop
<1> QED
  BY <1>1, <1>2 DEF IndInv, HeaderChain, TypeOK, End

\* alloc_raw keeps the invariant.
LEMMA AllocInv ==
    ASSUME NoWrap, IndInv, alive,
           NEW size \in Sizes, NEW align \in Aligns, alloc_raw(size, align)
    PROVE  IndInv'
<1> USE WordAssumption DEF Word, header_size
<1> DEFINE ptr == data_ptr(align)
           pad == data_pad(align)
           hdr == ptr - header_size
           new == [ptr |-> ptr, size |-> size, align |-> align]
<1>1. /\ size \in Nat \ {0} /\ size \in Word /\ align \in Word
      /\ pad \in Nat /\ ptr = m_start_ptr + m_offset + 8 + pad
      /\ m_offset' = m_offset + (8 + pad + size)
      /\ m_offset' <= m_total_size
  BY Fits DEF alloc_raw, IndInv, TypeOK
<1>2. /\ mem' = [h \in Untouched(hdr, ptr + size) \cup {hdr} |->
                   IF h = hdr THEN m_offset ELSE mem[h]]
      /\ live' = live \cup {new}
      /\ UNCHANGED <<alive, m_start_ptr, m_total_size>>
  BY DEF alloc_raw
<1> HIDE DEF ptr, pad
<1>3. /\ m_start_ptr \in Nat /\ m_offset \in Nat /\ m_total_size \in Nat
      /\ m_start_ptr + m_total_size <= SIZE_MAX
  BY DEF IndInv, TypeOK
<1>4. /\ hdr \in Nat /\ hdr = m_start_ptr + m_offset + pad
      /\ new.ptr = ptr /\ new.size = size /\ new.ptr - header_size = hdr
      /\ End(new) = m_start_ptr + m_offset'
  BY <1>1, <1>3 DEF End
<1>5. \A a \in live : /\ a.ptr \in Nat /\ a.size \in Nat
                      /\ End(a) = a.ptr + a.size /\ End(a) \in Nat
                      /\ End(a) <= m_start_ptr + m_offset
                      /\ a.ptr - 8 \in DOMAIN mem /\ mem[a.ptr - 8] \in Nat
                      /\ a.ptr - 8 \in Nat
                      /\ m_start_ptr + mem[a.ptr - 8] <= a.ptr - 8
  BY LiveFacts, <1>3
<1>6. TypeOK'
  <2>1. new \in Allocation
    BY <1>1, <1>3 DEF Allocation
  <2>2. DOMAIN mem' \subseteq Word
    BY <1>1, <1>2, <1>3, <1>4 DEF Untouched, IndInv, TypeOK
  <2>3. \A h \in DOMAIN mem' : mem'[h] \in Word
    BY <1>1, <1>2, <1>3, <1>4 DEF Untouched, IndInv, TypeOK
  <2>4. m_offset' \in Word
    BY <1>1, <1>3
  <2> QED
    BY <1>2, <2>1, <2>2, <2>3, <2>4 DEF IndInv, TypeOK
<1>7. \A a \in live : /\ a.ptr - 8 \in DOMAIN mem' /\ a.ptr < ptr
                      /\ mem'[a.ptr - 8] = mem[a.ptr - 8]
  BY <1>1, <1>2, <1>3, <1>4, <1>5 DEF Untouched
<1>8. hdr \in DOMAIN mem' /\ mem'[hdr] = m_offset
  BY <1>2
<1>9. HeaderChain'
  <2> SUFFICES ASSUME NEW a \in live'
               PROVE  LET h == a.ptr - 8 IN
                      /\ h \in DOMAIN mem'
                      /\ m_start_ptr + mem'[h] <= h
                      /\ \A b \in live' : \/ b.ptr >= a.ptr
                                          \/ End(b) <= m_start_ptr + mem'[h]
                      /\ \/ mem'[h] = 0
                         \/ \E b \in live' : /\ b.ptr < a.ptr
                                             /\ End(b) = m_start_ptr + mem'[h]
    BY <1>2 DEF HeaderChain
  <2>1. CASE a = new
    <3>1. m_offset = 0 \/ \E b \in live : End(b) = m_start_ptr + m_offset
      BY DEF IndInv, OffsetIsTop
    <3>2. \A b \in live' : b.ptr >= ptr \/ End(b) <= m_start_ptr + m_offset
      BY <1>1, <1>2, <1>3, <1>4, <1>5
    <3>3. a.ptr = ptr /\ a.ptr - 8 = hdr
      BY <2>1, <1>4
    <3>4. m_start_ptr + m_offset <= hdr
      BY <1>1, <1>3, <1>4
    <3>5. m_offset = 0 \/ \E b \in live' : /\ b.ptr < ptr
                                          /\ End(b) = m_start_ptr + m_offset
      BY <3>1, <1>2, <1>7
    <3> QED
      BY <3>2, <3>3, <3>4, <3>5, <1>8
  <2>2. CASE a \in live
    <3>1. /\ \A b \in live : \/ b.ptr >= a.ptr
                             \/ End(b) <= m_start_ptr + mem[a.ptr - 8]
          /\ \/ mem[a.ptr - 8] = 0
             \/ \E b \in live : /\ b.ptr < a.ptr
                                /\ End(b) = m_start_ptr + mem[a.ptr - 8]
      BY <2>2 DEF IndInv, HeaderChain
    <3>2. a.ptr - 8 \in DOMAIN mem' /\ mem'[a.ptr - 8] = mem[a.ptr - 8]
      BY <2>2, <1>7
    <3>3. m_start_ptr + mem[a.ptr - 8] <= a.ptr - 8
      BY <2>2, <1>5
    <3>4. new.ptr >= a.ptr
      BY <2>2, <1>1, <1>3, <1>4, <1>5, <1>7
    <3>5. /\ \A b \in live' : \/ b.ptr >= a.ptr
                              \/ End(b) <= m_start_ptr + mem[a.ptr - 8]
          /\ \/ mem[a.ptr - 8] = 0
             \/ \E b \in live' : /\ b.ptr < a.ptr
                                 /\ End(b) = m_start_ptr + mem[a.ptr - 8]
      BY <3>1, <3>4, <1>2
    <3> QED
      BY <3>2, <3>3, <3>5
  <2> QED
    BY <2>1, <2>2, <1>2
<1>10. OffsetIsTop'
  <2>1. \A b \in live' : End(b) <= End(new)
    BY <1>1, <1>2, <1>3, <1>4, <1>5
  <2> QED
    BY <2>1, <1>2, <1>4 DEF OffsetIsTop
<1>11. InBounds'
  <2> SUFFICES ASSUME NEW a \in live'
               PROVE  owns(a.ptr)' /\ owns(End(a) - 1)'
    BY <1>1, <1>2 DEF InBounds
  <2>1. CASE a = new
    BY <2>1, <1>1, <1>2, <1>3, <1>4 DEF owns
  <2>2. CASE a \in live
    BY <2>2, <1>2 DEF owns, IndInv, InBounds
  <2> QED
    BY <2>1, <2>2, <1>2
<1> QED
  BY <1>6, <1>9, <1>10, <1>11 DEF IndInv

\* free_raw keeps the invariant: the header leads back to the allocation
\* below.
LEMMA FreeInv ==
    ASSUME IndInv, alive, NEW a \in live, free_raw(a)
    PROVE  IndInv'
<1> USE WordAssumption DEF Word, header_size
<1> DEFINE target == mem[a.ptr - 8]
<1>1. /\ m_offset' = target /\ live' = {b \in live : b.ptr < a.ptr}
      /\ UNCHANGED <<alive, m_start_ptr, m_total_size, mem>>
  BY DEF free_raw
<1>2. /\ m_start_ptr \in Nat /\ m_offset \in Nat /\ m_total_size \in Nat
      /\ m_start_ptr + m_total_size <= SIZE_MAX /\ m_offset <= m_total_size
  BY DEF IndInv, TypeOK, InBounds
<1>3. \A b \in live : /\ b.ptr \in Nat /\ b.size \in Nat
                      /\ End(b) = b.ptr + b.size /\ End(b) \in Nat
                      /\ End(b) <= m_start_ptr + m_offset
                      /\ mem[b.ptr - 8] \in Nat
                      /\ m_start_ptr + mem[b.ptr - 8] <= b.ptr - 8
  BY LiveFacts
<1>4. target \in Nat /\ target <= m_total_size
  BY <1>2, <1>3
<1>5. /\ \A b \in live' : End(b) <= m_start_ptr + target
      /\ \/ target = 0
         \/ \E b \in live' : End(b) = m_start_ptr + target
  BY <1>1, <1>2, <1>3 DEF IndInv, HeaderChain
<1> HIDE DEF target
<1>6. TypeOK'
  BY <1>1, <1>2, <1>4 DEF IndInv, TypeOK
<1>7. HeaderChain'
  <2> SUFFICES ASSUME NEW c \in live'
               PROVE  LET h == c.ptr - 8 IN
                      /\ h \in DOMAIN mem
                      /\ m_start_ptr + mem[h] <= h
                      /\ \A b \in live' : \/ b.ptr >= c.ptr
                                          \/ End(b) <= m_start_ptr + mem[h]
                      /\ \/ mem[h] = 0
                         \/ \E b \in live' : /\ b.ptr < c.ptr
                                             /\ End(b) = m_start_ptr + mem[h]
    BY <1>1 DEF HeaderChain
  <2>1. c \in live /\ c.ptr < a.ptr
    BY <1>1
  <2>2. LET h == c.ptr - 8 IN
        /\ h \in DOMAIN mem
        /\ m_start_ptr + mem[h] <= h
        /\ \A b \in live : \/ b.ptr >= c.ptr
                           \/ End(b) <= m_start_ptr + mem[h]
        /\ \/ mem[h] = 0
           \/ \E b \in live : /\ b.ptr < c.ptr
                              /\ End(b) = m_start_ptr + mem[h]
    BY <2>1 DEF IndInv, HeaderChain
  <2> QED
    BY <1>1, <1>3, <2>1, <2>2
<1>8. OffsetIsTop'
  <2>1. CASE target = 0
    <3>1. \A b \in live : End(b) > m_start_ptr + target
      BY <1>2, <1>3, <2>1
    <3>2. live' = {}
      BY <1>1, <1>2, <1>3, <1>4, <1>5, <3>1
    <3> QED
      BY <1>1, <2>1, <3>2 DEF OffsetIsTop
  <2>2. CASE \E b \in live' : End(b) = m_start_ptr + target
    BY <1>1, <1>5, <2>2 DEF OffsetIsTop
  <2> QED
    BY <1>5, <2>1, <2>2
<1>9. InBounds'
  BY <1>1, <1>4 DEF IndInv, InBounds, owns
<1> QED
  BY <1>6, <1>7, <1>8, <1>9 DEF IndInv

\* Every step keeps the invariant.
LEMMA StepInv ==
    ASSUME NoWrap
    PROVE  IndInv /\ [Next]_vars => IndInv'
<1> USE WordAssumption DEF Word
<1> SUFFICES ASSUME IndInv, [Next]_vars PROVE IndInv'
  OBVIOUS
<1>1. ASSUME alive, NEW size \in Sizes, NEW align \in Aligns,
             alloc_raw(size, align)
      PROVE  IndInv'
  BY <1>1, AllocInv
<1>2. ASSUME alive, NEW a \in live, free_raw(a)
      PROVE  IndInv'
  BY <1>2, FreeInv
<1>3. CASE clear
  BY <1>3 DEF clear, IndInv, TypeOK, HeaderChain, OffsetIsTop, InBounds
<1>4. CASE alive /\ destructor
  <2>1. alive' = FALSE /\ alive' \in BOOLEAN /\ mem' = <<>> /\ live' = {}
    BY <1>4 DEF destructor
  <2>2. TypeOK'
    BY <1>4, <2>1 DEF destructor, IndInv, TypeOK, NULL
  <2>3. HeaderChain' /\ InBounds'
    BY <1>4, <2>1 DEF destructor, IndInv, HeaderChain, InBounds
  <2>4. OffsetIsTop'
    BY <2>1 DEF OffsetIsTop
  <2> QED
    BY <2>2, <2>3, <2>4 DEF IndInv
<1>5. CASE UNCHANGED vars
  BY <1>5 DEF vars, IndInv, TypeOK, HeaderChain, OffsetIsTop, InBounds, owns
<1> QED
  BY <1>1, <1>2, <1>3, <1>4, <1>5 DEF Next, alloc_null

(***************************************************************************)
(* When no request can wrap, every reachable state of the stack has an     *)
(* intact header chain, an offset at the end of the newest allocation, and *)
(* every allocation inside the region.                                     *)
(***************************************************************************)
THEOREM Safety ==
    ASSUME NoWrap
    PROVE  Spec => [](TypeOK /\ HeaderChain /\ OffsetIsTop /\ InBounds)
<1>1. Init => IndInv
  BY InitInv
<1>2. IndInv /\ [Next]_vars => IndInv'
  BY StepInv
<1>3. IndInv => TypeOK /\ HeaderChain /\ OffsetIsTop /\ InBounds
  BY DEF IndInv
<1> QED
  BY <1>1, <1>2, <1>3, PTL DEF Spec

(***************************************************************************)
(* When no request can wrap, free_raw gives back all it can: whatever the  *)
(* order of the frees, m_offset is the end of the newest live allocation.  *)
(***************************************************************************)
THEOREM NothingHeldDown ==
    ASSUME NoWrap
    PROVE  Spec => []OffsetIsTop
  BY Safety, PTL

(***************************************************************************)
(* When no request can wrap, the stack implements the abstract allocator   *)
(* whose free_raw ends the later allocations too.                          *)
(***************************************************************************)
THEOREM Refinement ==
    ASSUME NoWrap
    PROVE  Spec => ContractSpec
<1> USE WordAssumption DEF Word, header_size
<1>1. Init => Contract!Init
  BY DEF Init, Contract!Init
<1>2. IndInv /\ [Next]_vars => [Contract!Next]_Contract!vars
  <2> SUFFICES ASSUME IndInv, [Next]_vars
               PROVE  [Contract!Next]_Contract!vars
    OBVIOUS
  <2>1. ASSUME alive, NEW size \in Sizes, NEW align \in Aligns,
               alloc_raw(size, align)
        PROVE  Contract!alloc_raw
    <3> DEFINE ptr == data_ptr(align)
               pad == data_pad(align)
               new == [ptr |-> ptr, size |-> size, align |-> align]
    <3>1. /\ size \in Nat \ {0} /\ align \in Nat \ {0} /\ pad \in Nat
          /\ ptr = m_start_ptr + m_offset + 8 + pad
          /\ ptr % align = 0
          /\ m_offset + (8 + pad + size) <= m_total_size
      BY <2>1, Fits DEF alloc_raw
    <3>2. live' = live \cup {new} /\ UNCHANGED <<m_start_ptr, m_total_size>>
      BY <2>1 DEF alloc_raw
    <3> HIDE DEF pad, ptr
    <3>3. /\ m_start_ptr \in Nat /\ m_offset \in Nat /\ m_total_size \in Nat
      BY DEF IndInv, TypeOK
    <3>4. \A b \in live : /\ b.ptr \in Nat /\ b.size \in Nat
                          /\ b.ptr + b.size <= m_start_ptr + m_offset
      BY <2>1, LiveFacts
    <3>5. /\ new.ptr = ptr /\ new.size = size /\ new.align = align
          /\ new \notin live
      BY <3>1, <3>3, <3>4
    <3>6. \A b \in live : ~Contract!Overlap(new, b) /\ b.ptr < new.ptr
      BY <3>1, <3>3, <3>4, <3>5 DEF Contract!Overlap, Contract!End
    <3>7. Contract!Inside(new)
      BY <3>1, <3>3, <3>5 DEF Contract!Inside, Contract!End
    <3> HIDE DEF new
    <3> QED
      BY <3>1, <3>2, <3>5, <3>6, <3>7 DEF Contract!alloc_raw
  <2>2. ASSUME alive, NEW a \in live, free_raw(a)
        PROVE  Contract!free_raw
    <3>1. live \ Contract!Released(a) = {b \in live : b.ptr < a.ptr}
      BY <2>2, LiveFacts DEF Contract!Released
    <3> QED
      BY <2>2, <3>1 DEF free_raw, Contract!free_raw
  <2>3. CASE clear
    BY <2>3 DEF clear, Contract!clear, Contract!Next
  <2>4. CASE destructor
    BY <2>4 DEF destructor, Contract!destructor, Contract!Next, NULL,
                Contract!NULL
  <2>5. CASE UNCHANGED vars
    BY <2>5 DEF vars, Contract!vars
  <2> QED
    BY <2>1, <2>2, <2>3, <2>4, <2>5 DEF Next, alloc_null, Contract!Next
<1>3. Spec => []IndInv
  BY InitInv, StepInv, PTL DEF Spec
<1> QED
  BY <1>1, <1>2, <1>3, PTL DEF Spec, ContractSpec, Contract!Spec
=============================================================================
