------------------------- MODULE BumpAllocatorProofs -------------------------
(***************************************************************************)
(* Proofs about BumpAllocator, for any number of contexts, any heap size   *)
(* and any set of layouts.                                                 *)
(***************************************************************************)
EXTENDS BumpAllocator, TLAPS

-----------------------------------------------------------------------------
(* Numbers. *)

\* Division with remainder by a positive number.
LEMMA ModBounds ==
  ASSUME NEW y \in Int, NEW a \in Nat \ {0}
  PROVE  /\ y % a \in 0 .. a - 1
         /\ y = a * (y \div a) + (y % a)
         /\ y \div a \in Int
  OBVIOUS

\* A value below the modulus is its own remainder.
LEMMA ModSmall ==
  ASSUME NEW y \in Nat, NEW n \in Nat, y < n
  PROVE  y % n = y
  OBVIOUS

\* A multiple of a leaves no remainder.
LEMMA ModMultiple ==
  ASSUME NEW a \in Nat \ {0}, NEW q \in Int
  PROVE  (a * q) % a = 0
  OBVIOUS

\* Multiplication by a natural number is monotone.
LEMMA TimesMonotone ==
  ASSUME NEW a \in Nat, NEW p \in Int, NEW q \in Int, p <= q
  PROVE  a * p <= a * q
  OBVIOUS

-----------------------------------------------------------------------------

\* For the operands of the loop the wrapping addition does not wrap, and the
\* mask rounds up: the result is the least multiple of align not below x.
LEMMA AlignUpFacts ==
  ASSUME NEW l \in Layouts, NEW x \in 0 .. HEAP_SIZE
  PROVE  /\ AlignUp(x, l.align) \in Nat
         /\ AlignUp(x, l.align) >= x
         /\ AlignUp(x, l.align) % l.align = 0
         /\ \A m \in Nat : m >= x /\ m % l.align = 0 => m >= AlignUp(x, l.align)
<1> DEFINE a == l.align
           y == x + a - 1
           q == y \div a
<1>1. a \in Nat \ {0} /\ HEAP_SIZE \in Nat /\ USIZE \in Nat /\ HEAP_SIZE + a <= USIZE
  BY LayoutAssumption
<1>2. y \in Nat /\ y < USIZE
  BY <1>1
<1>3. AlignUp(x, a) = y - (y % a)
  <2>1. (x + a - 1) % USIZE = y
    BY <1>1, <1>2, ModSmall
  <2>2. QED
    BY <2>1 DEF AlignUp
<1> HIDE DEF a
<1>4. /\ y % a \in 0 .. a - 1
      /\ y = a * q + (y % a)
      /\ q \in Int
  BY <1>1, <1>2, ModBounds
<1>5. AlignUp(x, a) = a * q /\ a * q \in Int
  BY <1>1, <1>2, <1>3, <1>4
<1>6. AlignUp(x, a) \in Nat /\ AlignUp(x, a) >= x
  BY <1>1, <1>2, <1>3, <1>4
<1>7. AlignUp(x, a) % a = 0
  BY <1>1, <1>4, <1>5, ModMultiple
<1>8. ASSUME NEW m \in Nat, m >= x, m % a = 0
      PROVE  m >= AlignUp(x, a)
  <2> DEFINE p == m \div a
  <2>1. m = a * p /\ p \in Int
    BY <1>1, <1>8, ModBounds
  <2> HIDE DEF p, q
  <2>2. CASE p >= q
    BY <1>1, <1>4, <1>5, <2>1, <2>2, TimesMonotone
  <2>3. CASE p < q
    <3>1. a * p <= a * (q - 1)
      BY <1>1, <1>4, <2>1, <2>3, TimesMonotone
    <3>2. a * (q - 1) = a * q - a
      BY <1>1, <1>4
    <3>3. a * q - a < x
      BY <1>1, <1>2, <1>4
    <3>4. QED
      BY <1>1, <1>4, <1>5, <1>8, <2>1, <3>1, <3>2, <3>3
  <2>4. QED
    BY <1>4, <2>1, <2>2, <2>3
<1>9. QED
  BY <1>6, <1>7, <1>8 DEF a

\* A layout that does not fit at some offset fits at no greater one.
LEMMA FitsAntitone ==
  ASSUME NEW l \in Layouts, NEW x \in 0 .. HEAP_SIZE, NEW z \in 0 .. HEAP_SIZE,
         x <= z, Fits(z, l)
  PROVE  Fits(x, l)
<1>1. HEAP_SIZE \in Nat /\ USIZE \in Nat /\ l.size \in Nat
  BY LayoutAssumption
<1>2. AlignUp(z, l.align) >= AlignUp(x, l.align)
  BY AlignUpFacts
<1>3. AlignUp(z, l.align) \in Nat /\ AlignUp(x, l.align) \in Nat
  BY AlignUpFacts
<1>4. QED
  BY <1>1, <1>2, <1>3 DEF Fits

-----------------------------------------------------------------------------

\* HEAP_NEXT is the end of the newest block.
NextIsTop ==
  heapNext = IF granted = <<>> THEN 0 ELSE BlockEnd(granted[Len(granted)])

\* The blocks lie one after the other below HEAP_NEXT.
BlocksBelowNext ==
  /\ \A i \in 1 .. Len(granted) : BlockEnd(granted[i]) <= heapNext
  /\ \A i, j \in 1 .. Len(granted) : i < j => BlockEnd(granted[i]) <= granted[j].off

\* What the context at its compare_exchange tested is still true of old.
CasWillFit ==
  \A t \in Threads : pc[t] = "cas" => Fits(old[t], layout[t])

\* The inductive invariant.
IInv ==
  /\ TypeOK
  /\ NextIsTop
  /\ BlocksBelowNext
  /\ CasWillFit
  /\ RefusalIsFinal

\* Before the first allocation the invariant holds.
LEMMA InitEstablishesIInv == Init => IInv
  BY LayoutAssumption
  DEF Init, IInv, TypeOK, NextIsTop, BlocksBelowNext, CasWillFit,
      RefusalIsFinal, Steps, Blocks

\* A successful compare_exchange appends a block above all the others.
LEMMA CasSucceedsFacts ==
  ASSUME IInv, NEW t \in Threads, CasSucceeds(t)
  PROVE  LET b == BlockAt(old[t], layout[t])
         IN  /\ b \in Blocks
             /\ b.off >= heapNext
             /\ heapNext' = BlockEnd(b)
             /\ heapNext' \in heapNext .. HEAP_SIZE
             /\ Len(granted') = Len(granted) + 1
             /\ granted'[Len(granted')] = b
             /\ \A i \in 1 .. Len(granted) : granted'[i] = granted[i]
<1> DEFINE l == layout[t]
           b == BlockAt(old[t], l)
<1>1. /\ l \in Layouts
      /\ old[t] \in 0 .. HEAP_SIZE
      /\ heapNext = old[t]
      /\ Fits(old[t], l)
      /\ granted \in Seq(Blocks)
  BY DEF IInv, TypeOK, CasSucceeds, CasWillFit
<1>2. l.size \in Nat \ {0} /\ l.align \in Nat \ {0} /\ HEAP_SIZE \in Nat
  BY <1>1, LayoutAssumption
<1>3. AlignUp(old[t], l.align) \in Nat /\ AlignUp(old[t], l.align) >= old[t]
  BY <1>1, AlignUpFacts
<1>4. b \in Blocks /\ b.off = AlignUp(old[t], l.align) /\ b.size = l.size
  BY <1>2, <1>3 DEF BlockAt, Blocks
<1>5. heapNext' = AlignUp(old[t], l.align) + l.size /\ granted' = Append(granted, b)
  BY DEF CasSucceeds
<1>6. heapNext' <= HEAP_SIZE
  BY <1>1, <1>5 DEF Fits
<1>7. /\ Len(granted') = Len(granted) + 1
      /\ granted'[Len(granted')] = b
      /\ \A i \in 1 .. Len(granted) : granted'[i] = granted[i]
  BY <1>1, <1>4, <1>5
<1>8. QED
  BY <1>1, <1>2, <1>3, <1>4, <1>5, <1>6, <1>7 DEF BlockEnd

\* Every step of every context preserves the invariant.
LEMMA NextPreservesIInv == IInv /\ [Next]_vars => IInv'
<1> SUFFICES ASSUME IInv, [Next]_vars PROVE IInv'
  OBVIOUS
<1> USE LayoutAssumption DEF IInv
<1>1. ASSUME NEW t \in Threads, NEW l \in Layouts, Call(t, l)
      PROVE  IInv'
  <2>1. TypeOK'
    BY <1>1 DEF Call, TypeOK, Steps
  <2>2. NextIsTop' /\ BlocksBelowNext'
    BY <1>1 DEF Call, NextIsTop, BlocksBelowNext
  <2>3. CasWillFit' /\ RefusalIsFinal'
    BY <1>1 DEF Call, TypeOK, CasWillFit, RefusalIsFinal
  <2>4. QED
    BY <2>1, <2>2, <2>3
<1>2. ASSUME NEW t \in Threads, Load(t)
      PROVE  IInv'
  <2>1. TypeOK'
    BY <1>2 DEF Load, TypeOK, Steps
  <2>2. NextIsTop' /\ BlocksBelowNext'
    BY <1>2 DEF Load, NextIsTop, BlocksBelowNext
  <2>3. CasWillFit' /\ RefusalIsFinal'
    BY <1>2 DEF Load, TypeOK, CasWillFit, RefusalIsFinal
  <2>4. QED
    BY <2>1, <2>2, <2>3
<1>3. ASSUME NEW t \in Threads, CasSucceeds(t)
      PROVE  IInv'
  <2> DEFINE b == BlockAt(old[t], layout[t])
  <2>1. /\ b \in Blocks
        /\ b.off >= heapNext
        /\ heapNext' = BlockEnd(b)
        /\ heapNext' \in heapNext .. HEAP_SIZE
        /\ Len(granted') = Len(granted) + 1
        /\ granted'[Len(granted')] = b
        /\ \A i \in 1 .. Len(granted) : granted'[i] = granted[i]
    BY <1>3, CasSucceedsFacts
  <2>2. granted' = Append(granted, b)
    BY <1>3 DEF CasSucceeds
  <2> HIDE DEF b
  <2>3. Len(granted) \in Nat /\ heapNext \in 0 .. HEAP_SIZE /\ heapNext' \in 0 .. HEAP_SIZE
    BY <2>1 DEF TypeOK
  <2>4. TypeOK'
    <3>1. granted' \in Seq(Blocks)
      BY <2>1, <2>2 DEF TypeOK
    <3>2. freed' \subseteq 1 .. Len(granted')
      BY <1>3, <2>1, <2>3 DEF TypeOK, CasSucceeds
    <3>3. QED
      BY <1>3, <2>3, <3>1, <3>2 DEF TypeOK, CasSucceeds, Steps
  <2>5. NextIsTop'
    BY <2>1, <2>3 DEF NextIsTop
  <2>6. BlocksBelowNext'
    <3>1. ASSUME NEW i \in 1 .. Len(granted')
          PROVE  BlockEnd(granted'[i]) <= heapNext'
      <4>1. CASE i = Len(granted')
        BY <2>1, <2>3, <4>1
      <4>2. CASE i # Len(granted')
        <5>1. i \in 1 .. Len(granted)
          BY <2>1, <2>3, <4>2
        <5>2. granted[i] \in Blocks
          BY <5>1 DEF TypeOK
        <5>3. BlockEnd(granted[i]) \in Nat
          BY <5>2 DEF BlockEnd, Blocks
        <5>4. granted'[i] = granted[i] /\ BlockEnd(granted[i]) <= heapNext
          BY <2>1, <5>1 DEF BlocksBelowNext
        <5>5. QED
          BY <2>1, <2>3, <5>3, <5>4
      <4>3. QED
        BY <4>1, <4>2
    <3>2. ASSUME NEW i \in 1 .. Len(granted'), NEW j \in 1 .. Len(granted'), i < j
          PROVE  BlockEnd(granted'[i]) <= granted'[j].off
      <4>1. i \in 1 .. Len(granted)
        BY <2>1, <2>3, <3>2
      <4>2. granted[i] \in Blocks
        BY <4>1 DEF TypeOK
      <4>3. CASE j = Len(granted')
        <5>1. granted'[i] = granted[i] /\ granted'[j] = b
          BY <2>1, <4>1, <4>3
        <5>2. BlockEnd(granted[i]) <= heapNext
          BY <4>1 DEF BlocksBelowNext
        <5>3. BlockEnd(granted[i]) \in Nat
          BY <4>2 DEF BlockEnd, Blocks
        <5>4. b.off \in Nat /\ b.off >= heapNext
          BY <2>1 DEF Blocks
        <5>5. QED
          BY <2>3, <5>1, <5>2, <5>3, <5>4
      <4>4. CASE j # Len(granted')
        <5>1. j \in 1 .. Len(granted)
          BY <2>1, <2>3, <4>4
        <5>2. QED
          BY <2>1, <3>2, <4>1, <5>1 DEF BlocksBelowNext
      <4>5. QED
        BY <4>3, <4>4
    <3>3. QED
      BY <3>1, <3>2 DEF BlocksBelowNext
  <2>7. CasWillFit'
    BY <1>3 DEF CasSucceeds, TypeOK, CasWillFit
  <2>8. RefusalIsFinal'
    <3>1. ASSUME NEW u \in Threads, pc'[u] \in {"null", "oom"}
          PROVE  ~Fits(heapNext', layout'[u])
      <4>1. pc[u] \in {"null", "oom"} /\ layout'[u] = layout[u] /\ layout[u] \in Layouts
        BY <1>3, <3>1 DEF CasSucceeds, TypeOK
      <4>2. ~Fits(heapNext, layout[u])
        BY <4>1 DEF RefusalIsFinal
      <4>3. QED
        BY <2>1, <2>3, <4>1, <4>2, FitsAntitone
    <3>2. QED
      BY <3>1 DEF RefusalIsFinal
  <2>9. QED
    BY <2>4, <2>5, <2>6, <2>7, <2>8
<1>4. ASSUME NEW t \in Threads, CasFails(t)
      PROVE  IInv'
  BY <1>4 DEF CasFails, TypeOK, Steps, NextIsTop, BlocksBelowNext, CasWillFit,
              RefusalIsFinal
<1>5. ASSUME NEW t \in Threads, HandleAllocError(t)
      PROVE  IInv'
  BY <1>5 DEF HandleAllocError, TypeOK, Steps, NextIsTop, BlocksBelowNext,
              CasWillFit, RefusalIsFinal
<1>6. ASSUME NEW i \in 1 .. Len(granted), Dealloc(i)
      PROVE  IInv'
  BY <1>6 DEF Dealloc, TypeOK, NextIsTop, BlocksBelowNext, CasWillFit,
              RefusalIsFinal
<1>7. CASE UNCHANGED vars
  BY <1>7 DEF vars, TypeOK, NextIsTop, BlocksBelowNext, CasWillFit, RefusalIsFinal
<1>8. QED
  BY <1>1, <1>2, <1>3, <1>4, <1>5, <1>6, <1>7 DEF Next, Alloc

\* The invariant holds in every reachable state.
LEMMA InductiveInvariant == Spec => []IInv
  BY InitEstablishesIInv, NextPreservesIInv, PTL DEF Spec

-----------------------------------------------------------------------------

\* The state keeps its types, whatever the contexts do: HEAP_NEXT stays within
\* the heap although it is advanced from a value read earlier.
THEOREM TypeCorrect == Spec => []TypeOK
<1>1. IInv => TypeOK
  BY DEF IInv
<1>2. QED
  BY <1>1, InductiveInvariant, PTL

\* alloc never returns two overlapping blocks, nor one that leaves HEAP.
THEOREM AllocationsAreDisjoint == Spec => []BlocksDisjoint
<1>1. IInv => BlocksDisjoint
  <2> SUFFICES ASSUME IInv,
                      NEW i \in 1 .. Len(granted)
               PROVE  BlockEnd(granted[i]) <= HEAP_SIZE
    BY DEF IInv, BlocksBelowNext, BlocksDisjoint
  <2>1. granted[i] \in Blocks /\ heapNext \in 0 .. HEAP_SIZE
    BY DEF IInv, TypeOK
  <2>2. QED
    BY <2>1, LayoutAssumption DEF IInv, BlocksBelowNext, BlockEnd, Blocks
<1>2. QED
  BY <1>1, InductiveInvariant, PTL

\* alloc returns null only to a request that can never be served.
THEOREM RefusalsAreFinal == Spec => []RefusalIsFinal
<1>1. IInv => RefusalIsFinal
  BY DEF IInv
<1>2. QED
  BY <1>1, InductiveInvariant, PTL

-----------------------------------------------------------------------------

\* A step that moves context t alone moves its status alone.
LEMMA StatusStep ==
  ASSUME TypeOK, NEW t \in Threads, NEW p \in Steps, pc' = [pc EXCEPT ![t] = p]
  PROVE  Status' = [Status EXCEPT ![t] = StatusOf(p)]
  BY DEF TypeOK, Status

\* A successful compare_exchange is the contract's Grant.
LEMMA CasIsGrant ==
  ASSUME IInv, NEW t \in Threads, CasSucceeds(t)
  PROVE  Contract!Grant(t)
<1> DEFINE l == layout[t]
           b == BlockAt(old[t], l)
<1>1. /\ b.off >= heapNext
      /\ heapNext' = BlockEnd(b)
      /\ heapNext' \in heapNext .. HEAP_SIZE
  BY CasSucceedsFacts
<1>2. /\ l \in Layouts
      /\ old[t] \in 0 .. HEAP_SIZE
      /\ granted' = Append(granted, b)
      /\ pc[t] = "cas"
      /\ heapNext \in 0 .. HEAP_SIZE
  BY DEF CasSucceeds, IInv, TypeOK
<1>3. l.size \in Nat \ {0} /\ l.align \in Nat \ {0} /\ HEAP_SIZE \in Nat
  BY <1>2, LayoutAssumption
<1>4. /\ b = [off |-> b.off, size |-> l.size, align |-> l.align]
      /\ b.off \in Nat
      /\ b.off % l.align = 0
  BY <1>2, AlignUpFacts DEF BlockAt
<1> HIDE DEF b
<1>5. b.off \in 0 .. HEAP_SIZE /\ BlockEnd(b) <= HEAP_SIZE
  BY <1>1, <1>2, <1>3, <1>4 DEF BlockEnd
<1>6. \A i \in 1 .. Len(granted) : Contract!Apart(granted[i], b)
  <2> SUFFICES ASSUME NEW i \in 1 .. Len(granted)
               PROVE  Contract!BlockEnd(granted[i]) <= b.off
    BY DEF Contract!Apart
  <2>1. granted[i] \in Blocks /\ BlockEnd(granted[i]) <= heapNext
    BY DEF IInv, TypeOK, BlocksBelowNext
  <2>2. QED
    BY <1>1, <1>2, <1>4, <2>1 DEF BlockEnd, Blocks, Contract!BlockEnd
<1>7. Status[t] = "asking" /\ Status' = [Status EXCEPT ![t] = "idle"]
  <2>1. Status' = [Status EXCEPT ![t] = StatusOf("idle")]
    BY StatusStep DEF CasSucceeds, IInv, Steps
  <2>2. QED
    BY <1>2, <2>1 DEF Status, StatusOf
<1>8. UNCHANGED <<freed, layout>>
  BY DEF CasSucceeds
<1>9. /\ b.off % b.align = 0
      /\ Contract!BlockEnd(b) <= HEAP_SIZE
  BY <1>4, <1>5 DEF BlockEnd, Contract!BlockEnd
<1>10. \E off \in 0 .. HEAP_SIZE :
         LET c == [off |-> off, size |-> layout[t].size, align |-> layout[t].align]
         IN  /\ off % c.align = 0
             /\ Contract!BlockEnd(c) <= HEAP_SIZE
             /\ \A i \in 1 .. Len(granted) : Contract!Apart(granted[i], c)
             /\ granted' = Append(granted, c)
  <2> b.off \in 0 .. HEAP_SIZE
    BY <1>5
  <2> WITNESS b.off \in 0 .. HEAP_SIZE
  <2>1. QED
    BY <1>2, <1>4, <1>6, <1>9
<1>11. QED
  BY <1>7, <1>8, <1>10 DEF Contract!Grant

\* A load that finds too little room is the contract's Refuse: rounding up
\* from HEAP_NEXT reaches the lowest aligned offset above every block.
LEMMA LoadIsRefuse ==
  ASSUME IInv, NEW t \in Threads, Load(t), ~Fits(heapNext, layout[t])
  PROVE  Contract!Refuse(t)
<1> DEFINE l == layout[t]
<1>1. /\ l \in Layouts
      /\ heapNext \in 0 .. HEAP_SIZE
      /\ pc[t] = "load"
      /\ pc' = [pc EXCEPT ![t] = "null"]
      /\ UNCHANGED <<granted, freed, layout>>
  BY DEF Load, IInv, TypeOK
<1>2. l.size \in Nat \ {0} /\ l.align \in Nat \ {0} /\ HEAP_SIZE \in Nat /\ USIZE \in Nat
      /\ HEAP_SIZE < USIZE
  BY <1>1, LayoutAssumption
<1>3. Contract!Top = heapNext
  BY DEF IInv, NextIsTop, BlockEnd, Contract!Top, Contract!BlockEnd
<1>4. ASSUME NEW off \in heapNext .. HEAP_SIZE, off % l.align = 0
      PROVE  off + l.size > HEAP_SIZE
  <2>1. off \in Nat /\ off >= heapNext
    BY <1>1, <1>2
  <2>2. AlignUp(heapNext, l.align) \in Nat /\ off >= AlignUp(heapNext, l.align)
    BY <1>1, <1>4, <2>1, AlignUpFacts
  <2>3. AlignUp(heapNext, l.align) + l.size > HEAP_SIZE
    BY <1>2, <2>2 DEF Fits
  <2>4. QED
    BY <1>2, <2>1, <2>2, <2>3
<1>5. Status[t] = "asking" /\ Status' = [Status EXCEPT ![t] = "refused"]
  <2>1. Status' = [Status EXCEPT ![t] = StatusOf("null")]
    BY <1>1, StatusStep DEF IInv, Steps
  <2>2. QED
    BY <1>1, <2>1 DEF Status, StatusOf
<1>6. QED
  BY <1>1, <1>3, <1>4, <1>5 DEF Contract!Refuse

\* Every step of the loop is a step of the contract or leaves it as it was.
LEMMA StepSimulation ==
  IInv /\ [Next]_vars => [Contract!HeapNext]_(Contract!heapVars)
<1> SUFFICES ASSUME IInv, [Next]_vars
             PROVE  Contract!HeapNext \/ UNCHANGED Contract!heapVars
  OBVIOUS
<1> USE DEF IInv
<1>1. ASSUME NEW t \in Threads, NEW l \in Layouts, Call(t, l)
      PROVE  Contract!HeapNext
  <2>1. Status' = [Status EXCEPT ![t] = StatusOf("load")]
    BY <1>1, StatusStep DEF Call, Steps
  <2>2. Contract!Ask(t, l)
    BY <1>1, <2>1 DEF Call, Contract!Ask, Status, StatusOf
  <2>3. QED
    BY <2>2 DEF Contract!HeapNext
<1>2. ASSUME NEW t \in Threads, Load(t)
      PROVE  Contract!HeapNext \/ UNCHANGED Contract!heapVars
  <2>1. CASE Fits(heapNext, layout[t])
    <3>1. Status' = [Status EXCEPT ![t] = StatusOf("cas")]
      BY <1>2, <2>1, StatusStep DEF Load, Steps
    <3>2. Status' = Status
      BY <1>2, <3>1 DEF Load, Status, StatusOf
    <3>3. QED
      BY <1>2, <3>2 DEF Load, Contract!heapVars
  <2>2. CASE ~Fits(heapNext, layout[t])
    BY <1>2, <2>2, LoadIsRefuse DEF Contract!HeapNext
  <2>3. QED
    BY <2>1, <2>2
<1>3. ASSUME NEW t \in Threads, CasSucceeds(t)
      PROVE  Contract!HeapNext
  BY <1>3, CasIsGrant DEF Contract!HeapNext
<1>4. ASSUME NEW t \in Threads, CasFails(t)
      PROVE  UNCHANGED Contract!heapVars
  <2>1. Status' = [Status EXCEPT ![t] = StatusOf("load")]
    BY <1>4, StatusStep DEF CasFails, Steps
  <2>2. Status' = Status
    BY <1>4, <2>1 DEF CasFails, Status, StatusOf
  <2>3. QED
    BY <1>4, <2>2 DEF CasFails, Contract!heapVars
<1>5. ASSUME NEW t \in Threads, HandleAllocError(t)
      PROVE  Contract!HeapNext
  <2>1. Status' = [Status EXCEPT ![t] = StatusOf("oom")]
    BY <1>5, StatusStep DEF HandleAllocError, Steps
  <2>2. Contract!Abort(t)
    BY <1>5, <2>1 DEF HandleAllocError, Contract!Abort, Status, StatusOf
  <2>3. QED
    BY <2>2 DEF Contract!HeapNext
<1>6. ASSUME NEW i \in 1 .. Len(granted), Dealloc(i)
      PROVE  Contract!HeapNext
  <2>1. Contract!Free(i)
    BY <1>6 DEF Dealloc, Contract!Free, Status
  <2>2. QED
    BY <2>1 DEF Contract!HeapNext
<1>7. CASE UNCHANGED vars
  BY <1>7 DEF vars, Contract!heapVars, Status
<1>8. QED
  BY <1>1, <1>2, <1>3, <1>4, <1>5, <1>6, <1>7 DEF Next, Alloc

\* The lock-free loop implements the atomic allocator of HeapContract.
THEOREM RefinesContract == Spec => ImplementsContract
<1>1. Init => Contract!HeapInit
  BY DEF Init, Contract!HeapInit, Status, StatusOf
<1>2. QED
  BY <1>1, InductiveInvariant, StepSimulation, PTL
  DEF Spec, ImplementsContract, Contract!HeapSpec
=============================================================================
