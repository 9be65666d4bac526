----------------------------- MODULE TrapProofs -----------------------------
(***************************************************************************)
(* Proofs about Trap, for every user program, stack size and memory.       *)
(***************************************************************************)
EXTENDS Trap, SequenceTheorems, TLAPS

\* The four pieces of code that lay out a TrapFrame agree on every register.
LEMMA OffsetsAgree ==
  /\ SaveOffset = FieldOffset
  /\ RestoreOffset = FieldOffset
  /\ EnterOffset = FieldOffset
  BY DEF SaveOffset, RestoreOffset, EnterOffset, FieldOffset, Regs, GPR, SP_EL0, ELR, SPSR

\* Register r is the r-th word of the frame.
LEMMA FieldOffsetIs ==
  ASSUME NEW r \in Regs
  PROVE  FieldOffset[r] = 8 * r
  BY DEF FieldOffset, Regs, GPR, SP_EL0

\* Addresses at which a whole frame fits on the stack.
FrameAddrs == {b \in 0 .. STACK_SIZE - FRAME_SIZE : b % 8 = 0}

\* Every word of such a frame is a slot of the stack.
LEMMA FrameInStack ==
  ASSUME NEW b \in FrameAddrs, NEW r \in Regs
  PROVE  b + FieldOffset[r] \in StackSlots
<1>1. b \in Nat /\ b <= STACK_SIZE - 272 /\ b % 8 = 0 /\ STACK_SIZE \in Nat
  BY TrapAssumption DEF FrameAddrs, FRAME_SIZE
<1>2. PICK k \in Nat : b = 8 * k
  BY <1>1
<1>3. k + r \in 0 .. (STACK_SIZE \div 8) - 1
  BY <1>1, <1>2 DEF Regs
<1>4. b + FieldOffset[r] = 8 * (k + r)
  BY <1>2, FieldOffsetIs DEF Regs
<1>5. QED
  BY <1>3, <1>4 DEF StackSlots

\* What StoreFrame stored is what a load at the same offset returns.
LEMMA StoredFrame ==
  ASSUME NEW m, NEW b \in FrameAddrs, NEW c, NEW r \in Regs
  PROVE  StoreFrame(m, b, FieldOffset, c)[b + FieldOffset[r]] = c[r]
<1> DEFINE a == b + FieldOffset[r]
<1>1. a \in StackSlots
  BY FrameInStack
<1>2. \A q \in Regs : b + FieldOffset[q] = a => q = r
  BY FieldOffsetIs DEF FrameAddrs, Regs
<1>3. (CHOOSE q \in Regs : b + FieldOffset[q] = a) = r
  BY <1>2
<1>4. QED
  BY <1>1, <1>3 DEF StoreFrame

-----------------------------------------------------------------------------
(* The inductive invariant.                                                 *)

\* The registers in the frame of the running handler.
FrameRegs == LoadFrame(stack, frame, FieldOffset)

\* The registers a system call made with registers c is to return.
Resumed(c) == [c EXCEPT ![0] = IF WriteAccepted(c) THEN c[2] ELSE U64_MAX]

\* The bytes it is to send to the console.
Sent(c) == IF WriteAccepted(c) THEN UserBytes(c[1], c[2]) ELSE <<>>

\* The exception being handled is a system call.
FromSvc == vec = [group |-> LowerEL64, kind |-> SYNC] /\ esr = EC_SVC64

\* A handler of an exception from EL0 is running on the kernel stack.
OnUserFrame ==
  /\ frame = USER_SP_EL1 - FRAME_SIZE
  /\ sp = frame - HANDLER_STACK

BootInv ==
  /\ mode \in {"start", "boot", "install", "enter"} =>
       view = NewUser(ENTRY, USER_SP) /\ console = <<>> /\ viewOut = <<>>
  /\ mode \in {"install", "enter"} =>
       sp = USER_SP_EL1 /\ frame = USER_SP_EL1 /\ FrameRegs = view
  /\ mode = "start" /\ el = 1 => El1Usable(hcr)
  /\ mode \notin {"start", "el2"} => "TGE" \notin hcr
  /\ mode \in {"start", "boot", "install"} => vbar = "firmware"
  /\ mode \in {"enter", "user", "vector", "handler", "writing", "return"} =>
       vbar = "kernel"
  /\ mode \in {"vector", "handler", "writing", "return", "halt"} => masked

UserInv == mode = "user" => Live = view /\ console = viewOut /\ sp = USER_SP_EL1

VectorInv ==
  mode = "vector" =>
    /\ sp \in {USER_SP_EL1, USER_SP_EL1 - FRAME_SIZE - HANDLER_STACK}
    /\ FromSvc => /\ sp = USER_SP_EL1
                  /\ view = Resumed(cpu)
                  /\ viewOut = console \o Sent(cpu)

HandlerInv ==
  /\ mode = "handler" /\ FromSvc =>
       OnUserFrame /\ view = Resumed(FrameRegs) /\ viewOut = console \o Sent(FrameRegs)
  /\ mode = "writing" =>
       /\ OnUserFrame
       /\ view = Resumed(FrameRegs)
       /\ WriteAccepted(FrameRegs)
       /\ done <= FrameRegs[2]
       /\ viewOut = console \o UserBytes(FrameRegs[1] + done, FrameRegs[2] - done)
  /\ mode = "return" => OnUserFrame /\ view = FrameRegs /\ console = viewOut

IInv == TypeOK /\ BootInv /\ UserInv /\ VectorInv /\ HandlerInv

\* The two stack positions at which a frame is pushed leave room for it.
LEMMA StackRoom ==
  /\ USER_SP_EL1 \in FrameAddrs
  /\ USER_SP_EL1 - FRAME_SIZE \in FrameAddrs
  /\ \A s \in {USER_SP_EL1, USER_SP_EL1 - FRAME_SIZE - HANDLER_STACK} :
       /\ s - FRAME_SIZE \in FrameAddrs
       /\ s \in 0 .. STACK_SIZE /\ s % 16 = 0
       /\ s - FRAME_SIZE \in 0 .. STACK_SIZE
       /\ s - FRAME_SIZE - HANDLER_STACK \in 0 .. STACK_SIZE
       /\ (s - FRAME_SIZE - HANDLER_STACK) % 16 = 0
  BY TrapAssumption DEF FrameAddrs, USER_SP_EL1, FRAME_SIZE

\* Storing a frame keeps the stack a stack, and the frame can be read back.
LEMMA StoreThenLoad ==
  ASSUME NEW m \in [StackSlots -> Nat], NEW b \in FrameAddrs, NEW c \in [Regs -> Nat]
  PROVE  /\ StoreFrame(m, b, FieldOffset, c) \in [StackSlots -> Nat]
         /\ LoadFrame(StoreFrame(m, b, FieldOffset, c), b, FieldOffset) = c
<1>1. LoadFrame(StoreFrame(m, b, FieldOffset, c), b, FieldOffset) = c
  BY StoredFrame DEF LoadFrame
<1>2. ASSUME NEW a \in StackSlots
      PROVE  StoreFrame(m, b, FieldOffset, c)[a] \in Nat
  <2>1. CASE \E r \in Regs : b + FieldOffset[r] = a
    BY <1>2, <2>1, StoredFrame
  <2>2. CASE ~ \E r \in Regs : b + FieldOffset[r] = a
    BY <1>2, <2>2 DEF StoreFrame
  <2>3. QED
    BY <2>1, <2>2
<1>3. StoreFrame(m, b, FieldOffset, c) =
        [a \in StackSlots |-> StoreFrame(m, b, FieldOffset, c)[a]]
  BY DEF StoreFrame
<1>4. QED
  BY <1>1, <1>2, <1>3

\* frame.x[0] = v changes that register of the frame and no other.
LEMMA SetX0Frame ==
  ASSUME stack \in [StackSlots -> Nat], frame \in FrameAddrs, NEW v \in Nat,
         SetX0(v), frame' = frame
  PROVE  /\ stack' \in [StackSlots -> Nat]
         /\ FrameRegs' = [FrameRegs EXCEPT ![0] = v]
<1>1. frame + FieldOffset[0] \in StackSlots
  BY FrameInStack DEF Regs
<1>2. stack' \in [StackSlots -> Nat]
  BY <1>1 DEF SetX0
<1>3. ASSUME NEW r \in Regs
      PROVE  FrameRegs'[r] = IF r = 0 THEN v ELSE FrameRegs[r]
  <2>1. frame + FieldOffset[r] \in StackSlots
    BY FrameInStack
  <2>2. r # 0 => frame + FieldOffset[r] # frame + FieldOffset[0]
    BY FieldOffsetIs DEF Regs, FrameAddrs
  <2>3. FrameRegs'[r] = stack'[frame + FieldOffset[r]] /\ FrameRegs[r] = stack[frame + FieldOffset[r]]
    BY DEF FrameRegs, LoadFrame
  <2>4. QED
    BY <1>1, <2>1, <2>2, <2>3 DEF SetX0
<1>4. FrameRegs' = [FrameRegs EXCEPT ![0] = v]
  BY <1>3 DEF FrameRegs, LoadFrame
<1>5. QED
  BY <1>2, <1>4

\* The registers of a frame on the stack are register values.
LEMMA FrameRegsType ==
  ASSUME stack \in [StackSlots -> Nat], frame \in FrameAddrs
  PROVE  FrameRegs \in [Regs -> Nat]
  BY FrameInStack DEF FrameRegs, LoadFrame

\* Only the slot of a synchronous exception from EL0 leads to dispatch.
LEMMA LowerElSyncSlot ==
  ASSUME vec \in [group : 0 .. 3, kind : 0 .. 3]
  PROVE  Slot(vec) = "exception_lower_el_sync" <=> vec = [group |-> LowerEL64, kind |-> SYNC]
<1>1. PICK g \in 0 .. 3, k \in 0 .. 3 : vec = [group |-> g, kind |-> k]
  OBVIOUS
<1>2. Slot(vec) = VectorTable[4 * g + k + 1]
  BY <1>1 DEF Slot
<1>3. 4 * g + k + 1 \in 1 .. 16 /\ (4 * g + k + 1 = 9 <=> g = 2 /\ k = 0)
  BY <1>1
<1>4. \A i \in 1 .. 16 : VectorTable[i] = "exception_lower_el_sync" <=> i = 9
  BY DEF VectorTable
<1>5. QED
  BY <1>1, <1>2, <1>3, <1>4 DEF LowerEL64, SYNC

\* The bytes of a user buffer form a sequence.
LEMMA BytesType ==
  ASSUME NEW b \in Nat, NEW n \in Nat
  PROVE  UserBytes(b, n) \in Seq(Nat) /\ Len(UserBytes(b, n)) = n
<1>1. \A i \in 1 .. n : b + i - 1 \in Nat
  OBVIOUS
<1>2. QED
  BY <1>1 DEF UserBytes

\* Sending no byte changes nothing.
LEMMA BytesNone ==
  ASSUME NEW s \in Seq(Nat), NEW b \in Nat
  PROVE  s \o UserBytes(b, 0) = s
  BY BytesType DEF UserBytes

\* Sending a buffer is sending its first byte and then the rest.
LEMMA BytesStep ==
  ASSUME NEW s \in Seq(Nat), NEW b \in Nat, NEW n \in Nat, n > 0
  PROVE  Append(s, b) \o UserBytes(b + 1, n - 1) = s \o UserBytes(b, n)
<1> DEFINE t == UserBytes(b, n)
           u == UserBytes(b + 1, n - 1)
           a == Append(s, b)
<1>1. t \in Seq(Nat) /\ Len(t) = n
  BY BytesType
<1>2. u \in Seq(Nat) /\ Len(u) = n - 1
  <2>1. b + 1 \in Nat /\ n - 1 \in Nat
    OBVIOUS
  <2>2. QED
    BY <2>1, BytesType
<1>3. \A i \in 1 .. n : t[i] = b + i - 1
  BY DEF UserBytes
<1>4. \A i \in 1 .. n - 1 : u[i] = b + i
  BY DEF UserBytes
<1> HIDE DEF t, u
<1>5. /\ a \in Seq(Nat) /\ Len(a) = Len(s) + 1
      /\ \A i \in 1 .. Len(s) : a[i] = s[i]
      /\ a[Len(s) + 1] = b
  BY AppendProperties
<1> HIDE DEF a
<1>6. /\ a \o u \in Seq(Nat)
      /\ Len(a \o u) = Len(a) + Len(u)
      /\ \A i \in 1 .. Len(a) + Len(u) :
           (a \o u)[i] = IF i <= Len(a) THEN a[i] ELSE u[i - Len(a)]
  BY <1>2, <1>5, ConcatProperties
<1>7. /\ s \o t \in Seq(Nat)
      /\ Len(s \o t) = Len(s) + Len(t)
      /\ \A i \in 1 .. Len(s) + Len(t) :
           (s \o t)[i] = IF i <= Len(s) THEN s[i] ELSE t[i - Len(s)]
  BY <1>1, ConcatProperties
<1>8. Len(s) \in Nat
  OBVIOUS
<1>9. Len(a \o u) = Len(s \o t)
  BY <1>1, <1>2, <1>5, <1>6, <1>7, <1>8
<1>10. ASSUME NEW i \in 1 .. Len(s) + n
       PROVE  (a \o u)[i] = (s \o t)[i]
  <2>1. CASE i <= Len(s)
    BY <1>1, <1>2, <1>5, <1>6, <1>7, <1>8, <2>1
  <2>2. CASE i = Len(s) + 1
    <3>1. (a \o u)[i] = b
      BY <1>2, <1>5, <1>6, <1>8, <2>2
    <3>2. (s \o t)[i] = t[1]
      BY <1>1, <1>7, <1>8, <2>2
    <3>3. QED
      BY <1>3, <3>1, <3>2
  <2>3. CASE i > Len(s) + 1
    <3>1. i - Len(s) - 1 \in 1 .. n - 1 /\ i - Len(s) \in 1 .. n
      BY <1>8, <2>3
    <3>2. (s \o t)[i] = t[i - Len(s)]
      BY <1>1, <1>7, <1>8, <2>3
    <3>3. (a \o u)[i] = u[i - (Len(s) + 1)]
      BY <1>2, <1>5, <1>6, <1>8, <2>3
    <3>4. QED
      BY <1>3, <1>4, <1>8, <3>1, <3>2, <3>3
  <2>4. i <= Len(s) \/ i = Len(s) + 1 \/ i > Len(s) + 1
    BY <1>8
  <2>5. QED
    BY <2>1, <2>2, <2>3, <2>4
<1>11. a \o u = s \o t
  BY <1>1, <1>6, <1>7, <1>9, <1>10, SeqEqual
<1>12. QED
  BY <1>11 DEF a, t, u

-----------------------------------------------------------------------------
(* Every step preserves the invariant.                                      *)

\* The registers of a new user program are register values.
LEMMA NewUserType == NewUser(ENTRY, USER_SP) \in [Regs -> Nat]
  BY TrapAssumption DEF NewUser, SP_EL0, ELR

\* Where an exception goes: to EL2 only if one of its routing bits is set, and
\* otherwise to the table in VBAR_EL1, with all interrupts masked.
LEMMA ExceptionTaken ==
  ASSUME NEW regs, NEW group, NEW kind, NEW ec, NEW ret, NEW ps,
         TakeException(regs, group, kind, ec, ret, ps)
  PROVE  /\ vec' = [group |-> group, kind |-> kind] /\ esr' = ec
         /\ mode' \in {"vector", "firmware", "el2"}
         /\ mode' = "el2" => RoutingBits(kind, ec) \intersect hcr # {}
         /\ mode' # "el2" =>
              /\ RoutingBits(kind, ec) \intersect hcr \subseteq {"TEA"}
              /\ mode' = IF vbar = "firmware" THEN "firmware" ELSE "vector"
              /\ cpu' = [regs EXCEPT ![ELR] = ret, ![SPSR] = ps]
              /\ masked'
<1>1. vec' = [group |-> group, kind |-> kind] /\ esr' = ec
  BY DEF TakeException
<1>2. CASE /\ RoutingBits(kind, ec) \intersect hcr # {}
           /\ mode' = "el2"
  BY <1>1, <1>2
<1>3. CASE /\ RoutingBits(kind, ec) \intersect hcr \subseteq {"TEA"}
           /\ mode' = IF vbar = "firmware" THEN "firmware" ELSE "vector"
           /\ cpu' = [regs EXCEPT ![ELR] = ret, ![SPSR] = ps]
           /\ masked' = TRUE
  BY <1>1, <1>3
<1>4. QED
  BY <1>2, <1>3 DEF TakeException

\* No bit but TGE routes a system call, and an interrupt is never an external abort.
LEMMA Routing ==
  ASSUME "TGE" \notin hcr
  PROVE  /\ RoutingBits(SYNC, EC_SVC64) \intersect hcr = {}
         /\ \A kind \in {IRQ, FIQ, SERROR} :
              RoutingBits(kind, EC_OTHER) \intersect hcr \subseteq {"TEA"} =>
                RoutingBits(kind, EC_OTHER) \intersect hcr = {}
<1>1. RoutingBits(SYNC, EC_SVC64) = {"TGE"}
  BY DEF RoutingBits, SYNC, IRQ, FIQ, SERROR, EC_SVC64, EC_OTHER
<1>2. ASSUME NEW kind \in {IRQ, FIQ, SERROR}
      PROVE  "TEA" \notin RoutingBits(kind, EC_OTHER)
  BY <1>2 DEF RoutingBits, SYNC, IRQ, FIQ, SERROR
<1>3. QED
  BY <1>1, <1>2

\* Exception entry keeps the types.
LEMMA TakeExceptionTypes ==
  ASSUME NEW regs \in [Regs -> Nat], NEW group \in 0 .. 3, NEW kind \in 0 .. 3,
         NEW ec \in Nat, NEW ret \in Nat, NEW ps \in Nat, masked \in BOOLEAN,
         TakeException(regs, group, kind, ec, ret, ps)
  PROVE  /\ mode' \in Modes
         /\ masked' \in BOOLEAN
         /\ cpu' \in [Regs -> Nat]
         /\ vec' \in [group : 0 .. 3, kind : 0 .. 3]
         /\ esr' \in Nat
<1>1. mode' \in Modes /\ vec' \in [group : 0 .. 3, kind : 0 .. 3] /\ esr' \in Nat
  BY ExceptionTaken DEF Modes
<1>2. cpu' \in [Regs -> Nat] /\ masked' \in BOOLEAN
  BY DEF TakeException
<1>3. QED
  BY <1>1, <1>2

\* The state in which the loader enters _start satisfies the invariant.
LEMMA InitEstablishesIInv == Init => IInv
<1> SUFFICES ASSUME Init PROVE IInv
  OBVIOUS
<1>1. TypeOK
  BY TrapAssumption, NewUserType DEF Init, TypeOK, Modes, JUNK
<1>2. BootInv /\ UserInv /\ VectorInv /\ HandlerInv
  BY DEF Init, BootInv, UserInv, VectorInv, HandlerInv
<1>3. QED
  BY <1>1, <1>2 DEF IInv

\* drop_to_el1_if_needed: EL1 is reached, at whatever level and with whatever
\* HCR_EL2 _start was entered.
LEMMA EretIsLegal ==
  ASSUME IInv, DropToEl1
  PROVE  /\ mode' = "boot" /\ el' = 1 /\ "TGE" \notin hcr' /\ hcr' \subseteq HcrBits
         /\ masked' \in BOOLEAN
         /\ UNCHANGED <<vbar, cpu, pc, pstate, sp, stack, frame, vec, esr, done, console,
                        view, viewOut>>
<1>1. /\ mode = "start" /\ masked \in BOOLEAN /\ hcr \subseteq HcrBits
      /\ el = 1 => "TGE" \notin hcr
  BY DEF IInv, TypeOK, BootInv, DropToEl1, El1Usable
<1>2. UNCHANGED <<vbar, cpu, pc, pstate, sp, stack, frame, done, console, view, viewOut>>
  BY DEF DropToEl1, userView
<1>3. CASE el = 1 /\ mode' = "boot" /\ UNCHANGED <<el, hcr, masked, vec, esr>>
  BY <1>1, <1>2, <1>3
<1>4. CASE el = 2 /\ hcr' = (hcr \union {"RW"}) \ {"TGE"} /\ EretToEl1
  <2>1. El1Usable(hcr') /\ hcr' \subseteq HcrBits
    BY <1>1, <1>4 DEF El1Usable, HcrBits
  <2>2. QED
    BY <1>2, <1>4, <2>1 DEF EretToEl1, El1Usable
<1>5. QED
  BY <1>3, <1>4 DEF DropToEl1

LEMMA DropToEl1Step ==
  ASSUME IInv, DropToEl1
  PROVE  IInv'
<1>1. mode = "start"
  BY DEF DropToEl1
<1>2. TypeOK'
  BY EretIsLegal DEF IInv, TypeOK, Modes
<1>3. BootInv' /\ UserInv' /\ VectorInv' /\ HandlerInv'
  BY <1>1, EretIsLegal DEF IInv, BootInv, UserInv, VectorInv, HandlerInv
<1>4. QED
  BY <1>2, <1>3 DEF IInv

\* The first TrapFrame holds the registers of a new user program.
LEMMA BuildFrameStep ==
  ASSUME IInv, BuildFrame
  PROVE  IInv'
<1>1. /\ stack' = StoreFrame(stack, USER_SP_EL1, FieldOffset, NewUser(ENTRY, USER_SP))
      /\ frame' = USER_SP_EL1 /\ sp' = USER_SP_EL1
      /\ stack \in [StackSlots -> Nat]
  BY DEF BuildFrame, IInv, TypeOK
<1>2. stack' \in [StackSlots -> Nat] /\ FrameRegs' = NewUser(ENTRY, USER_SP)
  BY <1>1, NewUserType, StackRoom, StoreThenLoad DEF FrameRegs
<1>3. TypeOK'
  BY <1>1, <1>2, StackRoom DEF IInv, BuildFrame, TypeOK, Modes, kernelState, userView
<1>4. BootInv' /\ UserInv' /\ VectorInv' /\ HandlerInv'
  BY <1>1, <1>2 DEF IInv, BuildFrame, BootInv, UserInv, VectorInv, HandlerInv, kernelState,
     userView
<1>5. QED
  BY <1>3, <1>4 DEF IInv

\* install_vectors.
LEMMA InstallVectorsStep ==
  ASSUME IInv, InstallVectors
  PROVE  IInv'
<1>1. TypeOK'
  BY DEF IInv, InstallVectors, TypeOK, Modes, userView
<1>2. FrameRegs' = FrameRegs
  BY DEF InstallVectors, FrameRegs, LoadFrame
<1>3. BootInv' /\ UserInv' /\ VectorInv' /\ HandlerInv'
  BY <1>2 DEF IInv, InstallVectors, BootInv, UserInv, VectorInv, HandlerInv, userView
<1>4. QED
  BY <1>1, <1>3 DEF IInv

\* user_enter loads the whole frame before it gives up its address.
LEMMA UserEnterStep ==
  ASSUME IInv, UserEnter
  PROVE  IInv'
<1>1. EnterLoads(stack, frame) = FrameRegs
  BY OffsetsAgree DEF EnterLoads, EnterRank, FrameRegs, LoadFrame, Regs
<1>2. cpu' = view /\ view' = view /\ view \in [Regs -> Nat]
  BY <1>1 DEF IInv, TypeOK, BootInv, UserEnter, userView
<1>3. pc' = cpu'[ELR] /\ pstate' = cpu'[SPSR]
  BY DEF UserEnter
<1>4. Live' = view'
  BY <1>2, <1>3 DEF Live, Regs, ELR, SPSR
<1>5. TypeOK'
  <2>1. cpu' \in [Regs -> Nat] /\ pc' \in Nat /\ pstate' \in Nat /\ view' \in [Regs -> Nat]
    BY <1>2, <1>3 DEF Regs, ELR, SPSR
  <2>2. masked' \in BOOLEAN
    BY DEF UserEnter
  <2>3. QED
    BY <2>1, <2>2 DEF IInv, UserEnter, TypeOK, Modes, kernelState, userView
<1>6. BootInv' /\ UserInv' /\ VectorInv' /\ HandlerInv'
  BY <1>4 DEF IInv, UserEnter, BootInv, UserInv, VectorInv, HandlerInv, kernelState, userView
<1>7. QED
  BY <1>5, <1>6 DEF IInv

\* An exception taken at EL1, outside a system call, is fatal: here, in the
\* firmware's table or at EL2.
LEMMA El1ExceptionStep ==
  ASSUME IInv, NEW kind \in {SYNC, IRQ, FIQ, SERROR},
         mode \in Modes \ {"start", "user", "firmware", "el2"},
         mode' = "vector" => mode = "enter",
         TakeException(cpu, CurrentELSPx, kind, EC_OTHER, JUNK, EL1H_MASKED),
         UNCHANGED <<kernelState, pc, pstate, sp, stack, frame, done, console, userView>>
  PROVE  IInv'
<1>1. TypeOK'
  <2>1. /\ CurrentELSPx \in 0 .. 3 /\ kind \in 0 .. 3 /\ EC_OTHER \in Nat /\ JUNK \in Nat
        /\ EL1H_MASKED \in Nat /\ cpu \in [Regs -> Nat] /\ masked \in BOOLEAN
    BY DEF IInv, TypeOK, SYNC, IRQ, FIQ, SERROR, CurrentELSPx, EC_OTHER, JUNK, EL1H_MASKED
  <2>2. /\ mode' \in Modes
        /\ masked' \in BOOLEAN
        /\ cpu' \in [Regs -> Nat]
        /\ vec' \in [group : 0 .. 3, kind : 0 .. 3]
        /\ esr' \in Nat
    BY <2>1, TakeExceptionTypes
  <2>3. QED
    BY <2>2 DEF IInv, TypeOK, kernelState, userView
<1>2. /\ mode' \in {"vector", "firmware", "el2"}
      /\ mode' = "vector" => masked'
      /\ vec' = [group |-> CurrentELSPx, kind |-> kind]
  BY ExceptionTaken
<1>3. ~FromSvc'
  BY <1>2 DEF FromSvc, CurrentELSPx, LowerEL64
<1>4. mode' = "vector" => vbar = "kernel" /\ sp = USER_SP_EL1
  BY DEF IInv, BootInv
<1>5. "TGE" \notin hcr
  BY DEF IInv, BootInv
<1>6. BootInv'
  BY <1>2, <1>4, <1>5 DEF BootInv, kernelState
<1>7. VectorInv'
  BY <1>3, <1>4 DEF VectorInv
<1>8. UserInv' /\ HandlerInv'
  BY <1>2 DEF UserInv, HandlerInv
<1>9. QED
  BY <1>1, <1>6, <1>7, <1>8 DEF IInv

\* A fault before EL0 runs.
LEMMA BootFaultStep ==
  ASSUME IInv, BootFault
  PROVE  IInv'
<1>1. /\ mode \in {"boot", "install", "enter"}
      /\ TakeException(cpu, CurrentELSPx, SYNC, EC_OTHER, JUNK, EL1H_MASKED)
      /\ UNCHANGED <<kernelState, pc, pstate, sp, stack, frame, done, console, userView>>
  BY DEF BootFault
<1>2. mode' = "vector" => vbar # "firmware"
  BY <1>1, ExceptionTaken
<1>3. mode' = "vector" => mode = "enter"
  BY <1>1, <1>2 DEF IInv, BootInv
<1>4. QED
  BY <1>1, <1>3, El1ExceptionStep DEF Modes

\* An interrupt at EL1: once an exception is being handled, only EL2 can take it.
LEMMA KernelInterruptStep ==
  ASSUME IInv, NEW kind \in {IRQ, FIQ, SERROR}, KernelInterrupt(kind)
  PROVE  IInv'
<1>1. /\ mode \in {"boot", "install", "enter", "vector", "handler", "writing", "return", "halt"}
      /\ ~masked \/ RoutingBits(kind, EC_OTHER) \intersect hcr # {}
      /\ TakeException(cpu, CurrentELSPx, kind, EC_OTHER, JUNK, EL1H_MASKED)
      /\ UNCHANGED <<kernelState, pc, pstate, sp, stack, frame, done, console, userView>>
  BY DEF KernelInterrupt
<1>2. "TGE" \notin hcr
  BY <1>1 DEF IInv, BootInv
<1>3. mode' = "vector" => vbar # "firmware" /\ RoutingBits(kind, EC_OTHER) \intersect hcr = {}
  BY <1>1, <1>2, ExceptionTaken, Routing
<1>4. mode' = "vector" => mode = "enter"
  BY <1>1, <1>3 DEF IInv, BootInv
<1>5. QED
  BY <1>1, <1>4, El1ExceptionStep DEF Modes

\* The user program's own instructions change its registers only.
LEMMA UserComputeStep ==
  ASSUME IInv, NEW tag \in Tags, UserCompute(tag)
  PROVE  IInv'
<1>1. tag \in Nat
  BY TrapAssumption
<1>2. cpu' \in [Regs -> Nat]
  BY <1>1 DEF IInv, TypeOK, UserCompute, Token, Regs
<1>3. pc' = ENTRY /\ pstate' = tag /\ ENTRY \in Nat
  BY TrapAssumption DEF UserCompute
<1>4. view' \in [Regs -> Nat] /\ Live' = view'
  BY <1>1, <1>2, <1>3 DEF UserCompute, Live
<1>5. TypeOK'
  BY <1>1, <1>2, <1>3, <1>4 DEF IInv, TypeOK, UserCompute, kernelState
<1>6. BootInv' /\ UserInv' /\ VectorInv' /\ HandlerInv'
  BY <1>4 DEF IInv, UserCompute, BootInv, UserInv, VectorInv, HandlerInv, kernelState
<1>7. QED
  BY <1>5, <1>6 DEF IInv

\* A system call enters the kernel with the program's registers untouched.
LEMMA SvcStep ==
  ASSUME IInv, NEW call \in Calls, Svc(call)
  PROVE  IInv'
<1> DEFINE regs == [cpu EXCEPT ![0] = call.x0, ![1] = call.x1, ![2] = call.x2,
                               ![16] = call.nr]
           ok == WriteAccepted(regs)
<1>1. {call.nr, call.x0, call.x1, call.x2} \subseteq Nat /\ U64_MAX \in Nat
  BY TrapAssumption
<1>2. /\ mode = "user" /\ cpu \in [Regs -> Nat] /\ pc \in Nat /\ pstate \in Nat
      /\ console \in Seq(Nat) /\ viewOut = console /\ vbar = "kernel" /\ "TGE" \notin hcr
      /\ sp = USER_SP_EL1
  BY DEF IInv, TypeOK, BootInv, UserInv, Svc
<1>3. /\ regs \in [Regs -> Nat]
      /\ regs[0] = call.x0 /\ regs[1] = call.x1 /\ regs[2] = call.x2 /\ regs[16] = call.nr
  <2>1. 0 \in Regs /\ 1 \in Regs /\ 2 \in Regs /\ 16 \in Regs
    BY DEF Regs
  <2>2. DOMAIN cpu = Regs
    BY <1>2
  <2>3. regs[16] = call.nr
    BY <2>1, <2>2
  <2>4. regs[2] = call.x2
    BY <2>1, <2>2
  <2>5. regs[1] = call.x1
    BY <2>1, <2>2
  <2>6. regs[0] = call.x0
    BY <2>1, <2>2
  <2>7. regs \in [Regs -> Nat]
    BY <1>1, <1>2, <2>1
  <2>8. QED
    BY <2>3, <2>4, <2>5, <2>6, <2>7
<1> HIDE DEF regs
<1>4. TakeException(regs, LowerEL64, SYNC, EC_SVC64, pc + 4, pstate)
  BY DEF Svc, regs
<1>5. /\ mode' = "vector" /\ esr' = EC_SVC64 /\ masked'
      /\ vec' = [group |-> LowerEL64, kind |-> SYNC]
      /\ cpu' = [regs EXCEPT ![ELR] = pc + 4, ![SPSR] = pstate]
  BY <1>2, <1>4, ExceptionTaken, Routing
<1>6. /\ view' = [cpu' EXCEPT ![0] = IF ok THEN call.x2 ELSE U64_MAX]
      /\ viewOut' = IF ok THEN viewOut \o UserBytes(call.x1, call.x2) ELSE viewOut
      /\ UNCHANGED <<kernelState, pc, pstate, sp, stack, frame, done, console>>
  BY DEF Svc, regs
<1>7. /\ cpu' \in [Regs -> Nat]
      /\ masked' \in BOOLEAN
      /\ vec' \in [group : 0 .. 3, kind : 0 .. 3]
      /\ esr' \in Nat
      /\ cpu'[0] = call.x0 /\ cpu'[1] = call.x1 /\ cpu'[2] = call.x2 /\ cpu'[16] = call.nr
  <2>1. LowerEL64 \in 0 .. 3 /\ SYNC \in 0 .. 3 /\ EC_SVC64 \in Nat /\ pc + 4 \in Nat
    BY <1>2 DEF LowerEL64, SYNC, EC_SVC64
  <2>2. cpu' = [regs EXCEPT ![ELR] = pc + 4, ![SPSR] = pstate]
    BY <1>5
  <2>3. cpu'[0] = regs[0] /\ cpu'[1] = regs[1] /\ cpu'[2] = regs[2] /\ cpu'[16] = regs[16]
    BY <1>3, <2>2 DEF Regs, ELR, SPSR
  <2>4. /\ cpu' \in [Regs -> Nat]
        /\ masked' \in BOOLEAN
        /\ vec' \in [group : 0 .. 3, kind : 0 .. 3]
        /\ esr' \in Nat
    BY <1>2, <1>3, <1>4, <2>1, TakeExceptionTypes DEF IInv, TypeOK
  <2>5. QED
    BY <1>3, <2>3, <2>4
<1>8. ok = WriteAccepted(cpu')
  BY <1>3, <1>7 DEF WriteAccepted
<1>9. view' = Resumed(cpu') /\ view' \in [Regs -> Nat]
  BY <1>1, <1>6, <1>7, <1>8 DEF Resumed, Regs
<1>10. viewOut' = console' \o Sent(cpu') /\ viewOut' \in Seq(Nat)
  <2>1. CASE ok
    BY <1>1, <1>2, <1>6, <1>7, <1>8, <2>1, BytesType, ConcatProperties DEF Sent
  <2>2. CASE ~ok
    BY <1>2, <1>6, <1>8, <2>2, ConcatEmptySeq DEF Sent
  <2>3. QED
    BY <2>1, <2>2
<1>11. TypeOK'
  BY <1>5, <1>6, <1>7, <1>9, <1>10 DEF IInv, TypeOK, Modes, kernelState
<1>12. BootInv' /\ UserInv' /\ HandlerInv'
  BY <1>2, <1>5, <1>6 DEF IInv, BootInv, UserInv, HandlerInv, kernelState
<1>13. VectorInv'
  BY <1>2, <1>5, <1>6, <1>9, <1>10 DEF VectorInv
<1>14. QED
  BY <1>11, <1>12, <1>13 DEF IInv

\* Any other exception from EL0 enters the kernel on the same stack, or EL2.
LEMMA UserExceptionStep ==
  ASSUME IInv, NEW kind \in {SYNC, IRQ, FIQ, SERROR}, UserException(kind)
  PROVE  IInv'
<1>1. TypeOK'
  <2>1. /\ LowerEL64 \in 0 .. 3 /\ kind \in 0 .. 3 /\ EC_OTHER \in Nat
        /\ pc \in Nat /\ pstate \in Nat /\ cpu \in [Regs -> Nat] /\ masked \in BOOLEAN
    BY DEF IInv, TypeOK, SYNC, IRQ, FIQ, SERROR, LowerEL64, EC_OTHER
  <2>2. /\ mode' \in Modes
        /\ masked' \in BOOLEAN
        /\ cpu' \in [Regs -> Nat]
        /\ vec' \in [group : 0 .. 3, kind : 0 .. 3]
        /\ esr' \in Nat
    BY <2>1, TakeExceptionTypes DEF UserException
  <2>3. QED
    BY <2>2 DEF IInv, TypeOK, UserException, kernelState, userView
<1>2. /\ vbar = "kernel" /\ "TGE" \notin hcr /\ sp = USER_SP_EL1
      /\ UNCHANGED <<kernelState, sp>>
  BY DEF IInv, BootInv, UserInv, UserException
<1>3. ~FromSvc' /\ mode' \in {"vector", "el2"} /\ (mode' = "vector" => masked')
  BY <1>2, ExceptionTaken DEF UserException, FromSvc, EC_OTHER, EC_SVC64
<1>4. BootInv' /\ UserInv' /\ HandlerInv'
  BY <1>2, <1>3 DEF BootInv, UserInv, HandlerInv, kernelState
<1>5. VectorInv'
  BY <1>2, <1>3 DEF VectorInv
<1>6. QED
  BY <1>1, <1>4, <1>5 DEF IInv

\* A slot that branches to itself.
LEMMA SelfBranchStep ==
  ASSUME IInv, SelfBranch
  PROVE  IInv'
<1>1. TypeOK'
  BY DEF IInv, SelfBranch, TypeOK, Modes, kernelState, userView
<1>2. BootInv' /\ UserInv' /\ VectorInv' /\ HandlerInv'
  BY DEF IInv, SelfBranch, BootInv, UserInv, VectorInv, HandlerInv, kernelState, userView
<1>3. QED
  BY <1>1, <1>2 DEF IInv

\* The trampoline saves the whole context below everything on the stack.
LEMMA SaveFrameStep ==
  ASSUME IInv, SaveFrame
  PROVE  IInv'
<1> DEFINE b == sp - FRAME_SIZE
<1>1. /\ mode = "vector" /\ cpu \in [Regs -> Nat] /\ stack \in [StackSlots -> Nat]
      /\ sp \in {USER_SP_EL1, USER_SP_EL1 - FRAME_SIZE - HANDLER_STACK}
  BY DEF IInv, TypeOK, VectorInv, SaveFrame
<1>2. /\ b \in FrameAddrs
      /\ b \in 0 .. STACK_SIZE
      /\ b - HANDLER_STACK \in 0 .. STACK_SIZE
      /\ (b - HANDLER_STACK) % 16 = 0
  BY <1>1, StackRoom
<1>3. /\ frame' = b /\ sp' = b - HANDLER_STACK
      /\ stack' = StoreFrame(stack, b, FieldOffset, cpu)
      /\ mode' = "handler"
      /\ UNCHANGED <<kernelState, masked, pc, pstate, vec, esr, done, console, userView>>
  BY OffsetsAgree DEF SaveFrame
<1> HIDE DEF b
<1>4. stack' \in [StackSlots -> Nat] /\ FrameRegs' = cpu
  BY <1>1, <1>2, <1>3, StoreThenLoad DEF FrameRegs
<1>5. cpu' \in [Regs -> Nat]
  BY <1>1 DEF SaveFrame, JUNK
<1>6. TypeOK'
  BY <1>2, <1>3, <1>4, <1>5 DEF IInv, TypeOK, Modes, kernelState, userView
<1>7. BootInv' /\ UserInv' /\ VectorInv'
  BY <1>1, <1>3 DEF IInv, BootInv, UserInv, VectorInv, kernelState, userView
<1>8. HandlerInv'
  <2>1. FromSvc' => FromSvc
    BY <1>3 DEF FromSvc
  <2>2. ASSUME FromSvc PROVE OnUserFrame' /\ view = Resumed(cpu) /\ viewOut = console \o Sent(cpu)
    BY <1>1, <1>3, <2>2 DEF IInv, VectorInv, OnUserFrame, b
  <2>3. view' = view /\ viewOut' = viewOut /\ console' = console
    BY <1>3 DEF userView
  <2>4. QED
    BY <1>3, <1>4, <2>1, <2>2, <2>3 DEF HandlerInv
<1>9. QED
  BY <1>6, <1>7, <1>8 DEF IInv

\* A handler that never returns.
LEMMA FatalHandlerStep ==
  ASSUME IInv, FatalHandler
  PROVE  IInv'
<1>1. TypeOK'
  BY DEF IInv, FatalHandler, TypeOK, Modes, kernelState, userView
<1>2. BootInv' /\ UserInv' /\ VectorInv' /\ HandlerInv'
  BY DEF IInv, FatalHandler, BootInv, UserInv, VectorInv, HandlerInv, kernelState, userView
<1>3. QED
  BY <1>1, <1>2 DEF IInv

\* In dispatch, the frame holds the registers of the system call.
LEMMA InDispatch ==
  ASSUME IInv, InLowerElSync, esr = EC_SVC64
  PROVE  /\ OnUserFrame /\ frame \in FrameAddrs
         /\ FrameRegs \in [Regs -> Nat]
         /\ \A i \in Regs : FrameX(i) = FrameRegs[i]
         /\ view = Resumed(FrameRegs)
         /\ viewOut = console \o Sent(FrameRegs)
<1>1. FromSvc /\ mode = "handler"
  BY LowerElSyncSlot DEF IInv, TypeOK, InLowerElSync, FromSvc
<1>2. OnUserFrame /\ view = Resumed(FrameRegs) /\ viewOut = console \o Sent(FrameRegs)
  BY <1>1 DEF IInv, HandlerInv
<1>3. frame \in FrameAddrs
  BY <1>2, StackRoom DEF OnUserFrame
<1>4. FrameRegs \in [Regs -> Nat]
  BY <1>3, FrameRegsType DEF IInv, TypeOK
<1>5. \A i \in Regs : FrameX(i) = FrameRegs[i]
  BY DEF FrameX, FrameRegs, LoadFrame
<1>6. QED
  BY <1>2, <1>3, <1>4, <1>5

\* A system call that sets its result and returns without output.
LEMMA ResultStep ==
  ASSUME IInv, NEW v \in Nat, SetX0(v), mode' = "return",
         OnUserFrame, frame \in FrameAddrs, console = viewOut,
         FrameRegs \in [Regs -> Nat], view = [FrameRegs EXCEPT ![0] = v],
         mode \in {"handler", "writing"},
         UNCHANGED <<kernelState, masked, cpu, pc, pstate, sp, frame, vec, esr, done, console,
                     userView>>
  PROVE  IInv'
<1>1. stack' \in [StackSlots -> Nat] /\ FrameRegs' = [FrameRegs EXCEPT ![0] = v]
  BY SetX0Frame DEF IInv, TypeOK
<1>2. TypeOK'
  BY <1>1 DEF IInv, TypeOK, Modes, kernelState, userView
<1>3. HandlerInv'
  BY <1>1 DEF HandlerInv, OnUserFrame, userView
<1>4. BootInv' /\ UserInv' /\ VectorInv'
  BY DEF IInv, BootInv, UserInv, VectorInv, kernelState
<1>5. QED
  BY <1>2, <1>3, <1>4 DEF IInv

\* A system call that is refused.
LEMMA RefusedStep ==
  ASSUME IInv, InLowerElSync, esr = EC_SVC64, ~WriteAccepted(FrameRegs),
         SetX0(U64_MAX), mode' = "return",
         UNCHANGED <<kernelState, masked, cpu, pc, pstate, sp, frame, vec, esr, done, console,
                     userView>>
  PROVE  IInv'
<1>1. /\ OnUserFrame /\ frame \in FrameAddrs
      /\ FrameRegs \in [Regs -> Nat]
      /\ view = [FrameRegs EXCEPT ![0] = U64_MAX]
      /\ viewOut = console \o <<>>
  BY InDispatch DEF Resumed, Sent
<1>2. viewOut = console
  BY <1>1, ConcatEmptySeq DEF IInv, TypeOK
<1>3. mode = "handler"
  BY DEF InLowerElSync
<1>4. U64_MAX \in Nat
  BY TrapAssumption
<1>5. QED
  BY <1>1, <1>2, <1>3, <1>4, ResultStep

\* A number with no system call.
LEMMA UnimplementedSyscallStep ==
  ASSUME IInv, UnimplementedSyscall
  PROVE  IInv'
<1>1. InLowerElSync /\ esr = EC_SVC64 /\ FrameX(16) # SYS_WRITE
  BY DEF UnimplementedSyscall
<1>2. FrameX(16) = FrameRegs[16]
  BY <1>1, InDispatch DEF Regs
<1>3. ~WriteAccepted(FrameRegs)
  BY <1>1, <1>2 DEF WriteAccepted
<1>4. QED
  BY <1>1, <1>3, RefusedStep DEF UnimplementedSyscall

\* A write() whose arguments fail the test.
LEMMA WriteRejectedStep ==
  ASSUME IInv, WriteRejected
  PROVE  IInv'
<1>1. InLowerElSync /\ esr = EC_SVC64 /\ ~WriteArgsOk
  BY DEF WriteRejected, InSyscall
<1>2. FrameX(0) = FrameRegs[0] /\ FrameX(1) = FrameRegs[1] /\ FrameX(2) = FrameRegs[2]
  BY <1>1, InDispatch DEF Regs
<1>3. ~WriteAccepted(FrameRegs)
  BY <1>1, <1>2 DEF WriteAccepted, WriteArgsOk
<1>4. QED
  BY <1>1, <1>3, RefusedStep DEF WriteRejected

\* A write() whose arguments pass it: the whole buffer is still to be sent.
LEMMA WriteBeginsStep ==
  ASSUME IInv, WriteBegins
  PROVE  IInv'
<1>1. InLowerElSync /\ esr = EC_SVC64 /\ WriteArgsOk /\ FrameX(16) = SYS_WRITE
  BY DEF WriteBegins, InSyscall
<1>2. /\ OnUserFrame /\ FrameRegs \in [Regs -> Nat]
      /\ \A i \in Regs : FrameX(i) = FrameRegs[i]
      /\ view = Resumed(FrameRegs) /\ viewOut = console \o Sent(FrameRegs)
  BY <1>1, InDispatch
<1>3. WriteAccepted(FrameRegs)
  BY <1>1, <1>2 DEF WriteAccepted, WriteArgsOk, Regs
<1>4. FrameRegs[1] \in Nat /\ FrameRegs[2] \in Nat
  BY <1>2 DEF Regs
<1>5. viewOut = console \o UserBytes(FrameRegs[1] + 0, FrameRegs[2] - 0)
  BY <1>2, <1>3, <1>4 DEF Sent
<1>6. FrameRegs' = FrameRegs /\ done' = 0 /\ mode' = "writing"
  BY DEF WriteBegins, FrameRegs, LoadFrame
<1>7. TypeOK'
  BY <1>6 DEF IInv, TypeOK, Modes, WriteBegins, kernelState, userView
<1>8. HandlerInv'
  BY <1>2, <1>3, <1>4, <1>5, <1>6 DEF HandlerInv, OnUserFrame, WriteBegins, userView
<1>9. BootInv' /\ UserInv' /\ VectorInv'
  BY <1>1, <1>6 DEF IInv, BootInv, UserInv, VectorInv, WriteBegins, InLowerElSync, kernelState
<1>10. QED
  BY <1>7, <1>8, <1>9 DEF IInv

\* While write() loops, its arguments are in the frame.
LEMMA InWrite ==
  ASSUME IInv, mode = "writing"
  PROVE  /\ OnUserFrame /\ frame \in FrameAddrs
         /\ FrameRegs \in [Regs -> Nat]
         /\ FrameX(1) = FrameRegs[1] /\ FrameX(2) = FrameRegs[2]
         /\ FrameRegs[1] \in Nat /\ FrameRegs[2] \in Nat
         /\ done \in 0 .. FrameRegs[2]
         /\ view = [FrameRegs EXCEPT ![0] = FrameRegs[2]]
         /\ viewOut = console \o UserBytes(FrameRegs[1] + done, FrameRegs[2] - done)
         /\ vbar = "kernel"
<1>1. /\ OnUserFrame /\ view = [FrameRegs EXCEPT ![0] = FrameRegs[2]]
      /\ done <= FrameRegs[2]
      /\ viewOut = console \o UserBytes(FrameRegs[1] + done, FrameRegs[2] - done)
      /\ vbar = "kernel"
  BY DEF IInv, HandlerInv, BootInv, Resumed
<1>2. frame \in FrameAddrs
  BY <1>1, StackRoom DEF OnUserFrame
<1>3. FrameRegs \in [Regs -> Nat]
  BY <1>2, FrameRegsType DEF IInv, TypeOK
<1>4. FrameX(1) = FrameRegs[1] /\ FrameX(2) = FrameRegs[2]
  BY DEF FrameX, FrameRegs, LoadFrame, Regs
<1>5. FrameRegs[1] \in Nat /\ FrameRegs[2] \in Nat
  BY <1>3 DEF Regs
<1>6. done \in 0 .. FrameRegs[2]
  BY <1>1, <1>5 DEF IInv, TypeOK
<1>7. QED
  BY <1>1, <1>2, <1>3, <1>4, <1>5, <1>6

\* One more byte of the buffer has been sent.
LEMMA WriteByteStep ==
  ASSUME IInv, WriteByte
  PROVE  IInv'
<1> DEFINE buf == FrameRegs[1]
           len == FrameRegs[2]
<1>1. /\ mode = "writing" /\ mode' = "writing"
      /\ OnUserFrame /\ buf \in Nat /\ len \in Nat /\ done \in 0 .. len
      /\ done < len
      /\ console' = Append(console, buf + done) /\ done' = done + 1
      /\ viewOut = console \o UserBytes(buf + done, len - done)
      /\ console \in Seq(Nat)
  BY InWrite DEF WriteByte, IInv, TypeOK
<1>2. FrameRegs' = FrameRegs
  BY DEF WriteByte, FrameRegs, LoadFrame
<1>3. viewOut = console' \o UserBytes(buf + done', len - done')
  <2>1. buf + done \in Nat /\ len - done \in Nat /\ len - done > 0
    BY <1>1
  <2>2. buf + done + 1 = buf + done' /\ len - done - 1 = len - done'
    BY <1>1
  <2>3. Append(console, buf + done) \o UserBytes(buf + done + 1, len - done - 1) = viewOut
    BY <1>1, <2>1, BytesStep
  <2>4. QED
    BY <1>1, <2>2, <2>3
<1>4. TypeOK'
  <2>1. console' \in Seq(Nat) /\ done' \in Nat
    BY <1>1
  <2>2. QED
    BY <2>1 DEF IInv, TypeOK, WriteByte, kernelState, userView
<1>5. HandlerInv'
  <2>1. done' <= len
    BY <1>1
  <2>2. view = Resumed(FrameRegs) /\ WriteAccepted(FrameRegs)
    BY <1>1 DEF IInv, HandlerInv
  <2>3. UNCHANGED <<view, viewOut, sp, frame>>
    BY DEF WriteByte, userView
  <2>4. QED
    BY <1>1, <1>2, <1>3, <2>1, <2>2, <2>3 DEF HandlerInv, OnUserFrame
<1>6. BootInv' /\ UserInv' /\ VectorInv'
  BY <1>1 DEF IInv, BootInv, UserInv, VectorInv, WriteByte, kernelState
<1>7. QED
  BY <1>4, <1>5, <1>6 DEF IInv

\* A fault in the loop is taken below the frame of the system call.
LEMMA WriteFaultsStep ==
  ASSUME IInv, WriteFaults
  PROVE  IInv'
<1>1. /\ OnUserFrame /\ vbar = "kernel"
      /\ UNCHANGED <<kernelState, pc, pstate, sp, stack, frame, done, console, userView>>
      /\ TakeException(cpu, CurrentELSPx, SYNC, EC_OTHER, JUNK, EL1H_MASKED)
  BY InWrite DEF WriteFaults
<1>2. TypeOK'
  <2>1. /\ CurrentELSPx \in 0 .. 3 /\ SYNC \in 0 .. 3 /\ EC_OTHER \in Nat /\ JUNK \in Nat
        /\ EL1H_MASKED \in Nat /\ cpu \in [Regs -> Nat] /\ masked \in BOOLEAN
    BY DEF IInv, TypeOK, SYNC, CurrentELSPx, EC_OTHER, JUNK, EL1H_MASKED
  <2>2. /\ mode' \in Modes
        /\ masked' \in BOOLEAN
        /\ cpu' \in [Regs -> Nat]
        /\ vec' \in [group : 0 .. 3, kind : 0 .. 3]
        /\ esr' \in Nat
    BY <1>1, <2>1, TakeExceptionTypes
  <2>3. QED
    BY <1>1, <2>2 DEF IInv, TypeOK, kernelState, userView
<1>3. mode' \in {"vector", "el2"} /\ (mode' = "vector" => masked') /\ ~FromSvc'
  BY <1>1, ExceptionTaken DEF FromSvc, CurrentELSPx, LowerEL64
<1>4. BootInv' /\ UserInv' /\ HandlerInv'
  BY <1>1, <1>3 DEF IInv, BootInv, UserInv, HandlerInv, WriteFaults, kernelState
<1>5. VectorInv'
  BY <1>1, <1>3 DEF VectorInv, OnUserFrame
<1>6. QED
  BY <1>2, <1>4, <1>5 DEF IInv

\* The whole buffer has been sent.
LEMMA WriteReturnsStep ==
  ASSUME IInv, WriteReturns
  PROVE  IInv'
<1>1. mode = "writing" /\ done = FrameX(2) /\ SetX0(FrameX(2)) /\ mode' = "return"
  BY DEF WriteReturns
<1>2. /\ OnUserFrame /\ frame \in FrameAddrs
      /\ FrameRegs \in [Regs -> Nat]
      /\ FrameX(2) = FrameRegs[2] /\ FrameRegs[1] \in Nat /\ FrameRegs[2] \in Nat
      /\ view = [FrameRegs EXCEPT ![0] = FrameRegs[2]]
      /\ viewOut = console \o UserBytes(FrameRegs[1] + done, FrameRegs[2] - done)
      /\ vbar = "kernel"
  BY <1>1, InWrite
<1>3. viewOut = console
  <2>1. FrameRegs[2] - done = 0 /\ FrameRegs[1] + done \in Nat
    BY <1>1, <1>2
  <2>2. QED
    BY <1>2, <2>1, BytesNone DEF IInv, TypeOK
<1>4. UNCHANGED <<kernelState, masked, cpu, pc, pstate, sp, frame, vec, esr, done, console,
                  userView>>
  BY DEF WriteReturns
<1>5. QED
  BY <1>1, <1>2, <1>3, <1>4, ResultStep

\* The trampoline reloads what it saved and what dispatch put in x0.
LEMMA RestoreEretStep ==
  ASSUME IInv, RestoreEret
  PROVE  IInv'
<1>1. /\ OnUserFrame /\ view = FrameRegs /\ console = viewOut
      /\ vbar = "kernel" /\ "TGE" \notin hcr /\ view \in [Regs -> Nat]
  BY DEF IInv, TypeOK, BootInv, HandlerInv, RestoreEret
<1>2. sp + HANDLER_STACK = frame /\ frame + FRAME_SIZE = USER_SP_EL1
  BY <1>1, TrapAssumption DEF OnUserFrame, USER_SP_EL1, FRAME_SIZE
<1>3. cpu' = view /\ sp' = USER_SP_EL1
  BY <1>1, <1>2, OffsetsAgree DEF RestoreEret, FrameRegs
<1>4. /\ pc' = cpu'[ELR] /\ pstate' = cpu'[SPSR] /\ mode' = "user"
      /\ UNCHANGED <<kernelState, stack, frame, vec, esr, done, console, userView>>
  BY DEF RestoreEret
<1>5. Live' = view'
  BY <1>1, <1>3, <1>4 DEF Live, Regs, ELR, SPSR, userView
<1>6. TypeOK'
  <2>1. cpu' \in [Regs -> Nat] /\ pc' \in Nat /\ pstate' \in Nat
    BY <1>1, <1>3, <1>4 DEF Regs, ELR, SPSR
  <2>2. masked' \in BOOLEAN
    BY DEF RestoreEret
  <2>3. sp' \in 0 .. STACK_SIZE /\ sp' % 16 = 0
    BY <1>3, StackRoom
  <2>4. QED
    BY <1>4, <2>1, <2>2, <2>3 DEF IInv, TypeOK, Modes, kernelState, userView
<1>7. BootInv' /\ UserInv' /\ VectorInv' /\ HandlerInv'
  BY <1>1, <1>3, <1>4, <1>5
  DEF IInv, BootInv, UserInv, VectorInv, HandlerInv, kernelState, userView
<1>8. QED
  BY <1>6, <1>7 DEF IInv

\* Every step of the kernel, of a user program or of the hardware.
LEMMA NextPreservesIInv == IInv /\ [Next]_vars => IInv'
<1> SUFFICES ASSUME IInv, [Next]_vars PROVE IInv'
  OBVIOUS
<1>1. CASE UNCHANGED vars
  <2>1. TypeOK'
    BY <1>1 DEF vars, IInv, TypeOK
  <2>2. /\ FrameRegs' = FrameRegs /\ FromSvc' = FromSvc /\ OnUserFrame' = OnUserFrame
        /\ Live' = Live
    BY <1>1 DEF vars, FrameRegs, LoadFrame, FromSvc, OnUserFrame, Live
  <2>3. BootInv' /\ UserInv' /\ VectorInv' /\ HandlerInv'
    BY <1>1, <2>2 DEF vars, IInv, BootInv, UserInv, VectorInv, HandlerInv
  <2>4. QED
    BY <2>1, <2>3 DEF IInv
<1>2. CASE Kernel
  BY <1>1, <1>2, DropToEl1Step, BuildFrameStep, InstallVectorsStep, UserEnterStep,
     SelfBranchStep, SaveFrameStep, FatalHandlerStep, UnimplementedSyscallStep,
     WriteRejectedStep, WriteBeginsStep, WriteByteStep, WriteFaultsStep, WriteReturnsStep,
     RestoreEretStep
  DEF Kernel, Spin
<1>3. CASE User
  BY <1>3, UserComputeStep, SvcStep DEF User
<1>4. CASE Exceptions
  BY <1>4, BootFaultStep, KernelInterruptStep, UserExceptionStep DEF Exceptions
<1>5. QED
  BY <1>1, <1>2, <1>3, <1>4 DEF Next

\* The invariant holds in every reachable state.
LEMMA InductiveInvariant == Spec => []IInv
  BY InitEstablishesIInv, NextPreservesIInv, PTL DEF Spec

\* Types, and a kernel stack pointer that stays aligned and within its stack.
THEOREM TypeCorrect == Spec => []TypeOK
<1>1. IInv => TypeOK
  BY DEF IInv
<1>2. QED
  BY <1>1, InductiveInvariant, PTL

\* A program finds all its registers as it left them, and the result in x0,
\* after any number of system calls with any arguments.
THEOREM ContextIsPreserved == Spec => []UserContextPreserved
<1>1. IInv => UserContextPreserved
  BY DEF IInv, UserInv, UserContextPreserved
<1>2. QED
  BY <1>1, InductiveInvariant, PTL

\* write() is all or nothing as far as its caller can tell.
THEOREM WritesAreComplete == Spec => []WriteIsComplete
<1>1. IInv => WriteIsComplete
  BY DEF IInv, UserInv, WriteIsComplete
<1>2. QED
  BY <1>1, InductiveInvariant, PTL

\* No sequence of system calls makes the kernel stack drift.
THEOREM StackIsBalanced == Spec => []KernelStackBalanced
<1>1. IInv => KernelStackBalanced
  BY DEF IInv, UserInv, KernelStackBalanced
<1>2. QED
  BY <1>1, InductiveInvariant, PTL

\* The drop to EL1 is legal, and from there on control is lost only to routing
\* bits that the firmware set and boot.rs keeps: a system call never is.
THEOREM UserTrapsReachKernel == Spec => NoUserTrapLost
<1> DEFINE Kept(kind, ec) == (RoutingBits(kind, ec) \ {"TGE"}) \intersect hcr # {}
           Held == /\ mode = "user" => mode' # "firmware"
                   /\ mode' = "el2" /\ mode # "el2" => Kept(vec'.kind, esr')
<1>1. ASSUME IInv, mode \notin {"start", "el2"},
             NEW regs, NEW group, NEW kind, NEW ec, NEW ret, NEW ps,
             TakeException(regs, group, kind, ec, ret, ps)
      PROVE  Held
  <2>1. "TGE" \notin hcr /\ (mode = "user" => vbar = "kernel")
    BY <1>1 DEF IInv, BootInv
  <2>2. mode = "user" => mode' # "firmware"
    BY <1>1, <2>1, ExceptionTaken
  <2>3. vec'.kind = kind /\ esr' = ec /\ (mode' = "el2" => RoutingBits(kind, ec) \intersect hcr # {})
    BY <1>1, ExceptionTaken
  <2>4. QED
    BY <2>1, <2>2, <2>3
<1>2. IInv /\ [Next]_vars => [Held]_vars
  <2> SUFFICES ASSUME IInv, Next PROVE Held \/ UNCHANGED vars
    OBVIOUS
  <2>1. CASE DropToEl1
    BY <2>1, EretIsLegal DEF DropToEl1
  <2>2. CASE WriteFaults
    BY <2>2, <1>1 DEF WriteFaults
  <2>3. CASE Kernel /\ ~DropToEl1 /\ ~WriteFaults
    BY <2>3 DEF Kernel, BuildFrame, InstallVectors, UserEnter, SelfBranch, SaveFrame,
       FatalHandler, UnimplementedSyscall, WriteRejected, WriteBegins, WriteByte,
       WriteReturns, RestoreEret, Spin, InSyscall, InLowerElSync
  <2>4. ASSUME NEW tag \in Tags, UserCompute(tag) PROVE Held
    BY <2>4 DEF UserCompute
  <2>5. ASSUME NEW call \in Calls, Svc(call) PROVE Held
    BY <2>5, <1>1 DEF Svc
  <2>6. CASE Exceptions
    BY <2>6, <1>1 DEF Exceptions, BootFault, KernelInterrupt, UserException
  <2>7. QED
    BY <2>1, <2>2, <2>3, <2>4, <2>5, <2>6 DEF Next, User
<1>3. QED
  BY <1>2, InductiveInvariant, PTL DEF Spec, NoUserTrapLost
=============================================================================
