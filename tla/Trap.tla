-------------------------------- MODULE Trap --------------------------------
(***************************************************************************)
(* The kernel's exception path: bring-up from _start to the first ERET to  *)
(* EL0 (arch/aarch64/boot.rs, context.rs, the tail of exec/loader.rs), the *)
(* vector table and its save/restore trampolines (exception.rs) and the    *)
(* system calls (syscall.rs), on one CPU, below an arbitrary user program. *)
(*                                                                         *)
(* A register is named by a number: 0 .. 30 are x0 .. x30, and SP_EL0,     *)
(* ELR and SPSR are the three system registers a TrapFrame holds.  Stack   *)
(* memory is a function from 8-byte aligned addresses to register values.  *)
(***************************************************************************)
EXTENDS Integers, Sequences

CONSTANTS
  Calls,          \* system calls a user program makes: [nr, x0, x1, x2]
  Tags,           \* distinguishable register contents of a user program
  FirmwareHcr,    \* the HCR_EL2 values the firmware may leave
  Mapped,         \* addresses the kernel can read without a fault
  STACK_SIZE,     \* bytes of the kernel stack the loader allocated
  HANDLER_STACK,  \* bytes of stack the compiled Rust handlers use
  MAX_WRITE,      \* longest write the kernel accepts (65536)
  U64_MAX,        \* u64::MAX, the -1 of a failed system call
  ENTRY,          \* entry_phys of the user image
  USER_SP,        \* stack_top of the user image
  MaxConsole      \* bound: no call is made once the console is this long

SP_EL0 == 31
ELR    == 32
SPSR   == 33
GPR    == 0 .. 30
Regs   == 0 .. 33

SYS_EXIT  == 1
SYS_WRITE == 4

EC_SVC64 == 21                \* ESR_EL1.EC of an SVC, 0x15
EC_ILLEGAL == 14              \* illegal execution state, 0x0E
EC_OTHER == 37                \* any other class, such as a data abort

EL1H_MASKED == 965            \* PSTATE 0x3C5: EL1h, DAIF all set

\* Mutant of FRAME_SIZE: one register was not counted.
FRAME_SIZE_33 == 33 * 8

\* size_of::<TrapFrame>(), 34 registers of 8 bytes.
FRAME_SIZE == 272

\* Contents of a register that a program or the kernel filled in by itself.
Token(tag, r) == 1000 * tag + r
JUNK == 999

\* The slots of the stack, and the kernel's stack pointer while EL0 runs:
\* the initial TrapFrame, a local of load_and_run, is just above it.
StackSlots == {8 * k : k \in 0 .. (STACK_SIZE \div 8) - 1}
USER_SP_EL1 == STACK_SIZE - FRAME_SIZE

\* The bits of HCR_EL2 that decide which level takes an exception.  The other
\* bits are a hypervisor's (stage 2, traps of single EL1 instructions): clear.
HcrBits == {"RW", "TGE", "IMO", "FMO", "AMO", "TEA"}

\* Room for the initial frame, a trap from EL0, and a fault inside its handler.
ASSUME TrapAssumption ==
  /\ STACK_SIZE \in Nat /\ STACK_SIZE % 16 = 0
  /\ HANDLER_STACK \in Nat /\ HANDLER_STACK % 16 = 0
  /\ STACK_SIZE >= 3 * FRAME_SIZE + 2 * HANDLER_STACK
  /\ MAX_WRITE \in Nat /\ U64_MAX \in Nat /\ MAX_WRITE < U64_MAX
  /\ ENTRY \in Nat /\ USER_SP \in Nat /\ MaxConsole \in Nat
  /\ FirmwareHcr \subseteq SUBSET HcrBits
  /\ Tags \subseteq Nat \ {0}
  /\ \A t \in Tags : t < EL1H_MASKED
  /\ Mapped \subseteq Nat
  /\ \A c \in Calls : /\ c = [nr |-> c.nr, x0 |-> c.x0, x1 |-> c.x1, x2 |-> c.x2]
                      /\ {c.nr, c.x0, c.x1, c.x2} \subseteq Nat

VARIABLES
  mode,      \* what the CPU is executing
  el,        \* exception level _start was entered at, then 1
  hcr,       \* the bits set in HCR_EL2
  masked,    \* PSTATE.DAIF at EL1
  vbar,      \* whose vector table VBAR_EL1 points to
  cpu,       \* cpu[r]: the live register r
  pc,        \* program counter of the user program
  pstate,    \* processor state of the user program
  sp,        \* SP_EL1
  stack,     \* the kernel stack
  frame,     \* the &mut TrapFrame of the running handler
  vec,       \* vector being taken: [group, kind]
  esr,       \* exception class, in ESR of the level that took it
  done,      \* bytes the running write() has sent to the UART
  console,   \* bytes user programs wrote, in order (byte = its address)
  view,      \* history: the registers as the user program expects them
  viewOut    \* history: the console as the user program expects it

vars == <<mode, el, hcr, masked, vbar, cpu, pc, pstate, sp, stack, frame, vec,
          esr, done, console, view, viewOut>>

kernelState == <<el, hcr, vbar>>
userView    == <<view, viewOut>>

-----------------------------------------------------------------------------
(* Where the assembly and Rust put each register of a TrapFrame.            *)

\* stp x2k, x2k+1, [sp, #16k]; str x30; then sp_el0, elr_el1, spsr_el1.
SaveOffset ==
  [r \in Regs |-> IF r < 30 THEN 16 * (r \div 2) + 8 * (r % 2)
                  ELSE IF r = 30 THEN 240
                  ELSE IF r = SP_EL0 THEN 248
                  ELSE IF r = ELR THEN 256 ELSE 264]

\* Mutant of RestoreOffset: ELR_EL1 and SP_EL0 are reloaded crosswise.
RestoreOffsetSwapped ==
  [r \in Regs |-> IF r = SP_EL0 THEN 256 ELSE IF r = ELR THEN 248 ELSE SaveOffset[r]]

\* spsr_el1, elr_el1, sp_el0, then ldp x2k, x2k+1, [sp, #16k] with x0, x1 last.
RestoreOffset ==
  [r \in Regs |-> IF r = SPSR THEN 264
                  ELSE IF r = ELR THEN 256
                  ELSE IF r = SP_EL0 THEN 248
                  ELSE IF r = 30 THEN 240
                  ELSE 16 * (r \div 2) + 8 * (r % 2)]

\* The loads of user_enter, and their order: x0, which holds the address of
\* the frame, is overwritten by the last of them.
EnterOffset ==
  [r \in Regs |-> IF r = SP_EL0 THEN 248
                  ELSE IF r = ELR THEN 256
                  ELSE IF r = SPSR THEN 264
                  ELSE IF r = 30 THEN 240
                  ELSE 16 * (r \div 2) + 8 * (r % 2)]

EnterRank == [r \in Regs |-> IF r > 30 THEN 0 ELSE IF r > 1 THEN 1 ELSE 2]

\* #[repr(C)] struct TrapFrame { x: [u64; 31], sp, pc, pstate }.
FieldOffset ==
  [r \in Regs |-> IF r \in GPR THEN 8 * r
                  ELSE 8 * 31 + 8 * (r - SP_EL0)]

\* m with the registers c stored in the frame at address base.
StoreFrame(m, base, offset, c) ==
  [a \in StackSlots |->
     IF \E r \in Regs : base + offset[r] = a
       THEN c[CHOOSE r \in Regs : base + offset[r] = a]
       ELSE m[a]]

\* The registers loaded from the frame at address base.
LoadFrame(m, base, offset) == [r \in Regs |-> m[base + offset[r]]]

\* TrapFrame::new_user(entry, sp).
NewUser(entry, usp) ==
  [r \in Regs |-> IF r = SP_EL0 THEN usp ELSE IF r = ELR THEN entry ELSE 0]

\* Registers an extern "C" function may overwrite (AAPCS64).
CallerSaved == (0 .. 18) \union {30}

\* The registers user_enter leaves: a load after the one of x0 would take the
\* new x0 for the address of the frame.
EnterLoads(m, base) ==
  [r \in Regs |->
     LET x0 == m[base + EnterOffset[0]]
         b  == IF EnterRank[r] <= EnterRank[0] THEN base ELSE x0
     IN  m[b + EnterOffset[r]]]

\* What the program would see of its registers if it resumed now.
Live == [cpu EXCEPT ![ELR] = pc, ![SPSR] = pstate]

-----------------------------------------------------------------------------
(* The vector table.                                                        *)

SYNC == 0
IRQ == 1
FIQ == 2
SERROR == 3
CurrentELSPx == 1
LowerEL64 == 2

\* The sixteen slots: the handler its trampoline calls, or a branch to itself.
VectorTable ==
  << "self", "self", "self", "self",
     "exception_el1_sync", "exception_el1_irq", "self", "self",
     "exception_lower_el_sync", "exception_lower_el_irq", "self", "self",
     "self", "self", "self", "self" >>

Slot(v) == VectorTable[4 * v.group + v.kind + 1]

-----------------------------------------------------------------------------
(* What the hardware does with HCR_EL2, and exception entry.                *)

\* EL1 can be entered, as an AArch64 level.
El1Usable(bits) == "RW" \in bits /\ "TGE" \notin bits

\* The bits each of which sends such an exception from EL0 or EL1 to EL2; TEA
\* only those faults that are external aborts.
RoutingBits(kind, ec) ==
  {"TGE"} \union CASE kind = IRQ    -> {"IMO"}
                   [] kind = FIQ    -> {"FMO"}
                   [] kind = SERROR -> {"AMO"}
                   [] kind = SYNC   -> IF ec = EC_OTHER THEN {"TEA"} ELSE {}

\* The exception goes to EL2 and the firmware's VBAR_EL2, the registers of EL1
\* untouched; or the return address and PSTATE are banked, all interrupts are
\* masked, and control goes where VBAR_EL1 says.
TakeException(regs, group, kind, ec, retAddr, ps) ==
  /\ vec' = [group |-> group, kind |-> kind]
  /\ esr' = ec
  /\ \/ /\ RoutingBits(kind, ec) \intersect hcr # {}
        /\ mode' = "el2"
        /\ cpu' = regs
        /\ UNCHANGED masked
     \/ /\ RoutingBits(kind, ec) \intersect hcr \subseteq {"TEA"}
        /\ mode' = IF vbar = "firmware" THEN "firmware" ELSE "vector"
        /\ cpu' = [regs EXCEPT ![ELR] = retAddr, ![SPSR] = ps]
        /\ masked' = TRUE

-----------------------------------------------------------------------------
(* Bring-up.                                                                *)

\* The loader branches to _start at the level, with the interrupt mask and with
\* the HCR_EL2 that the firmware left, or the hypervisor below a firmware at EL1.
Init ==
  /\ mode = "start"
  /\ el \in {1, 2}
  /\ hcr \in FirmwareHcr /\ (el = 1 => El1Usable(hcr))
  /\ masked \in BOOLEAN
  /\ vbar = "firmware"
  /\ cpu = [r \in Regs |-> JUNK]
  /\ pc = 0 /\ pstate = 0
  /\ sp = STACK_SIZE
  /\ stack = [a \in StackSlots |-> JUNK]
  /\ frame = 0
  /\ vec = [group |-> 0, kind |-> 0]
  /\ esr = 0
  /\ done = 0
  /\ console = <<>>
  /\ view = NewUser(ENTRY, USER_SP)
  /\ viewOut = <<>>

\* ERET to EL1h with everything masked.  If HCR_EL2 has no EL1 to return to the
\* CPU stays at EL2 with PSTATE.IL set, and the next instruction traps there.
EretToEl1 ==
  IF El1Usable(hcr')
    THEN /\ mode' = "boot" /\ el' = 1 /\ masked' = TRUE
         /\ UNCHANGED <<vec, esr>>
    ELSE /\ mode' = "el2"
         /\ vec' = [group |-> CurrentELSPx, kind |-> SYNC] /\ esr' = EC_ILLEGAL
         /\ UNCHANGED <<el, masked>>

\* Mutant of DropToEl1: TGE stays as the firmware left it.
DropKeepingTge ==
  /\ mode = "start"
  /\ \/ el = 2 /\ hcr' = hcr \union {"RW"} /\ EretToEl1
     \/ el = 1 /\ mode' = "boot" /\ UNCHANGED <<el, hcr, masked, vec, esr>>
  /\ UNCHANGED <<vbar, cpu, pc, pstate, sp, stack, frame, done, console, userView>>

\* drop_to_el1_if_needed: from EL2, set RW and clear TGE in HCR_EL2, keep its
\* other bits, hand the stack over to SP_EL1 and ERET; from EL1, nothing.
DropToEl1 ==
  /\ mode = "start"
  /\ \/ el = 2 /\ hcr' = (hcr \union {"RW"}) \ {"TGE"} /\ EretToEl1
     \/ el = 1 /\ mode' = "boot" /\ UNCHANGED <<el, hcr, masked, vec, esr>>
  /\ UNCHANGED <<vbar, cpu, pc, pstate, sp, stack, frame, done, console, userView>>

\* The user image is in memory and load_and_run builds the first TrapFrame on
\* its own stack.
BuildFrame ==
  /\ mode = "boot"
  /\ sp' = USER_SP_EL1
  /\ frame' = USER_SP_EL1
  /\ stack' = StoreFrame(stack, frame', FieldOffset, NewUser(ENTRY, USER_SP))
  /\ mode' = "install"
  /\ UNCHANGED <<kernelState, masked, cpu, pc, pstate, vec, esr, done, console, userView>>

\* install_vectors: VBAR_EL1 = &_vector_table; ISB.
InstallVectors ==
  /\ mode = "install"
  /\ vbar' = "kernel"
  /\ mode' = "enter"
  /\ UNCHANGED <<el, hcr, masked, cpu, pc, pstate, sp, stack, frame, vec, esr, done,
                 console, userView>>

\* user_enter(&frame): load every register and ERET to EL0.
UserEnter ==
  /\ mode = "enter"
  /\ cpu' = EnterLoads(stack, frame)
  /\ pc' = cpu'[ELR]
  /\ pstate' = cpu'[SPSR]
  /\ masked' = FALSE
  /\ mode' = "user"
  /\ UNCHANGED <<kernelState, sp, stack, frame, vec, esr, done, console, userView>>

\* A fault in the code that loads the image, before EL0 is entered.  What the
\* firmware's handler does with it is unknown: mode "firmware" or "el2".
BootFault ==
  /\ mode \in {"boot", "install", "enter"}
  /\ TakeException(cpu, CurrentELSPx, SYNC, EC_OTHER, JUNK, EL1H_MASKED)
  /\ UNCHANGED <<kernelState, pc, pstate, sp, stack, frame, done, console, userView>>

\* An interrupt while EL1 runs: PSTATE.DAIF holds it back, unless EL2 takes it.
KernelInterrupt(kind) ==
  /\ mode \in {"boot", "install", "enter", "vector", "handler", "writing", "return", "halt"}
  /\ ~masked \/ RoutingBits(kind, EC_OTHER) \intersect hcr # {}
  /\ TakeException(cpu, CurrentELSPx, kind, EC_OTHER, JUNK, EL1H_MASKED)
  /\ UNCHANGED <<kernelState, pc, pstate, sp, stack, frame, done, console, userView>>

-----------------------------------------------------------------------------
(* The user program: any EL0 code.                                          *)

\* It computes: every register but the argument registers takes a new value,
\* and the program loops back to its entry point.
UserCompute(tag) ==
  /\ mode = "user"
  /\ cpu' = [r \in Regs |->
               IF r \in {0, 1, 2, 16, ELR, SPSR} THEN cpu[r] ELSE Token(tag, r)]
  /\ pc' = ENTRY
  /\ pstate' = tag
  /\ view' = [cpu' EXCEPT ![ELR] = pc', ![SPSR] = pstate']
  /\ UNCHANGED <<mode, kernelState, masked, sp, stack, frame, vec, esr, done, console,
                 viewOut>>

\* write() succeeds for these registers.
WriteAccepted(c) ==
  /\ c[16] = SYS_WRITE
  /\ c[0] \in {1, 2}
  /\ c[1] # 0
  /\ c[2] <= MAX_WRITE

\* The bytes of [buf, buf + n); a byte is denoted by its address.
UserBytes(buf, n) == [i \in 1 .. n |-> buf + i - 1]

\* It makes a system call.  The history variables record what the call is to
\* return: the same registers, x0 excepted, at the next instruction.
Svc(call) ==
  LET regs == [cpu EXCEPT ![0] = call.x0, ![1] = call.x1, ![2] = call.x2,
                          ![16] = call.nr]
      ok   == WriteAccepted(regs)
  IN  /\ mode = "user"
      /\ pc = ENTRY
      /\ Len(console) <= MaxConsole
      /\ TakeException(regs, LowerEL64, SYNC, EC_SVC64, pc + 4, pstate)
      /\ view' = [cpu' EXCEPT ![0] = IF ok THEN call.x2 ELSE U64_MAX]
      /\ viewOut' = IF ok THEN viewOut \o UserBytes(call.x1, call.x2) ELSE viewOut
      /\ UNCHANGED <<kernelState, pc, pstate, sp, stack, frame, done, console>>

\* It faults, or an interrupt arrives (pstate 0 leaves them all unmasked).
UserException(kind) ==
  /\ mode = "user"
  /\ TakeException(cpu, LowerEL64, kind, EC_OTHER, pc, pstate)
  /\ UNCHANGED <<kernelState, pc, pstate, sp, stack, frame, done, console, userView>>

-----------------------------------------------------------------------------
(* The kernel's handling of an exception, with interrupts masked.           *)

\* A vector slot that branches to itself.
SelfBranch ==
  /\ mode = "vector"
  /\ Slot(vec) = "self"
  /\ mode' = "halt"
  /\ UNCHANGED <<kernelState, masked, cpu, pc, pstate, sp, stack, frame, vec, esr, done,
                 console, userView>>

\* save_restore_eret up to and including bl handler: make room, store every
\* register; the compiled handler takes stack of its own and may overwrite
\* the caller-saved registers.
SaveFrame ==
  /\ mode = "vector"
  /\ Slot(vec) # "self"
  /\ frame' = sp - FRAME_SIZE
  /\ stack' = StoreFrame(stack, frame', SaveOffset, cpu)
  /\ sp' = frame' - HANDLER_STACK
  /\ cpu' = [r \in Regs |-> IF r \in CallerSaved THEN JUNK ELSE cpu[r]]
  /\ mode' = "handler"
  /\ UNCHANGED <<kernelState, masked, pc, pstate, vec, esr, done, console, userView>>

\* frame.x[i], and the assignment frame.x[0] = v.
FrameX(i) == stack[frame + FieldOffset[i]]
SetX0(v)  == stack' = [stack EXCEPT ![frame + FieldOffset[0]] = v]

InLowerElSync == mode = "handler" /\ Slot(vec) = "exception_lower_el_sync"
InSyscall(nr) == InLowerElSync /\ esr = EC_SVC64 /\ FrameX(16) = nr

\* A handler that only reports and spins: EL1 faults, all interrupts, a
\* synchronous exception other than SVC, and exit().
FatalHandler ==
  /\ mode = "handler"
  /\ InLowerElSync => esr # EC_SVC64 \/ FrameX(16) = SYS_EXIT
  /\ mode' = "halt"
  /\ UNCHANGED <<kernelState, masked, cpu, pc, pstate, sp, stack, frame, vec, esr, done,
                 console, userView>>

\* dispatch: a number with no system call returns -1.
UnimplementedSyscall ==
  /\ InLowerElSync
  /\ esr = EC_SVC64
  /\ FrameX(16) \notin {SYS_EXIT, SYS_WRITE}
  /\ SetX0(U64_MAX)
  /\ mode' = "return"
  /\ UNCHANGED <<kernelState, masked, cpu, pc, pstate, sp, frame, vec, esr, done, console,
                 userView>>

\* dispatch: the test of write's arguments.
WriteArgsOk == FrameX(0) \in {1, 2} /\ FrameX(1) # 0 /\ FrameX(2) <= MAX_WRITE

WriteRejected ==
  /\ InSyscall(SYS_WRITE)
  /\ ~WriteArgsOk
  /\ SetX0(U64_MAX)
  /\ mode' = "return"
  /\ UNCHANGED <<kernelState, masked, cpu, pc, pstate, sp, frame, vec, esr, done, console,
                 userView>>

WriteBegins ==
  /\ InSyscall(SYS_WRITE)
  /\ WriteArgsOk
  /\ done' = 0
  /\ mode' = "writing"
  /\ UNCHANGED <<kernelState, masked, cpu, pc, pstate, sp, stack, frame, vec, esr, console,
                 userView>>

\* Mutant of WriteByte: waits for a transmitter flag that is never set.
WriteByteWaits ==
  /\ mode = "writing"
  /\ done < FrameX(2)
  /\ FrameX(1) + done \in Mapped
  /\ UNCHANGED vars

\* One turn of the loop over the bytes of the buffer.
WriteByte ==
  /\ mode = "writing"
  /\ done < FrameX(2)
  /\ FrameX(1) + done \in Mapped
  /\ console' = Append(console, FrameX(1) + done)
  /\ done' = done + 1
  /\ UNCHANGED <<mode, kernelState, masked, cpu, pc, pstate, sp, stack, frame, vec, esr,
                 userView>>

\* The load of the next byte faults: a nested exception, at EL1.
WriteFaults ==
  /\ mode = "writing"
  /\ done < FrameX(2)
  /\ FrameX(1) + done \notin Mapped
  /\ TakeException(cpu, CurrentELSPx, SYNC, EC_OTHER, JUNK, EL1H_MASKED)
  /\ UNCHANGED <<kernelState, pc, pstate, sp, stack, frame, done, console, userView>>

\* Mutant of WriteReturns: the loop ends one byte early.
WriteReturnsEarly ==
  /\ mode = "writing"
  /\ done + 1 >= FrameX(2)
  /\ SetX0(FrameX(2))
  /\ mode' = "return"
  /\ UNCHANGED <<kernelState, masked, cpu, pc, pstate, sp, frame, vec, esr, done, console,
                 userView>>

WriteReturns ==
  /\ mode = "writing"
  /\ done = FrameX(2)
  /\ SetX0(FrameX(2))
  /\ mode' = "return"
  /\ UNCHANGED <<kernelState, masked, cpu, pc, pstate, sp, frame, vec, esr, done, console,
                 userView>>

\* Mutant of RestoreEret: the frame is not popped.
RestoreWithoutPop ==
  /\ mode = "return"
  /\ LET base == sp + HANDLER_STACK
     IN  /\ cpu' = LoadFrame(stack, base, RestoreOffset)
         /\ sp' = base
  /\ pc' = cpu'[ELR]
  /\ pstate' = cpu'[SPSR]
  /\ masked' = FALSE
  /\ mode' = "user"
  /\ UNCHANGED <<kernelState, stack, frame, vec, esr, done, console, userView>>

\* The handler returned: reload every register, pop the frame, ERET.
RestoreEret ==
  /\ mode = "return"
  /\ LET base == sp + HANDLER_STACK
     IN  /\ cpu' = LoadFrame(stack, base, RestoreOffset)
         /\ sp' = base + FRAME_SIZE
  /\ pc' = cpu'[ELR]
  /\ pstate' = cpu'[SPSR]
  /\ masked' = FALSE
  /\ mode' = "user"
  /\ UNCHANGED <<kernelState, stack, frame, vec, esr, done, console, userView>>

\* loop { spin_loop() }, or whatever the firmware does with an exception that
\* is not its own.
Spin == mode \in {"halt", "firmware", "el2"} /\ UNCHANGED vars

Kernel ==
  \/ DropToEl1 \/ BuildFrame \/ InstallVectors \/ UserEnter
  \/ SelfBranch \/ SaveFrame \/ FatalHandler
  \/ UnimplementedSyscall \/ WriteRejected
  \/ WriteBegins \/ WriteByte \/ WriteFaults \/ WriteReturns
  \/ RestoreEret \/ Spin

User ==
  \/ \E tag \in Tags : UserCompute(tag)
  \/ \E call \in Calls : Svc(call)

Exceptions ==
  \/ BootFault
  \/ \E kind \in {IRQ, FIQ, SERROR} : KernelInterrupt(kind)
  \/ \E kind \in {SYNC, IRQ, FIQ, SERROR} : UserException(kind)

Next == Kernel \/ User \/ Exceptions

Spec == Init /\ [][Next]_vars

\* The CPU keeps executing the kernel's instructions.
FairSpec == Spec /\ WF_vars(Kernel)

-----------------------------------------------------------------------------

Modes == {"start", "boot", "install", "enter", "user", "vector", "handler",
          "writing", "return", "halt", "firmware", "el2"}

\* Types; SP_EL1 stays inside the kernel stack and 16-byte aligned, as the
\* hardware demands of every access through it.
TypeOK ==
  /\ mode \in Modes
  /\ el \in {1, 2}
  /\ hcr \subseteq HcrBits
  /\ masked \in BOOLEAN
  /\ vbar \in {"firmware", "kernel"}
  /\ cpu \in [Regs -> Nat]
  /\ pc \in Nat
  /\ pstate \in Nat
  /\ sp \in 0 .. STACK_SIZE /\ sp % 16 = 0
  /\ stack \in [StackSlots -> Nat]
  /\ frame \in 0 .. STACK_SIZE
  /\ vec \in [group : 0 .. 3, kind : 0 .. 3]
  /\ esr \in Nat
  /\ done \in Nat
  /\ console \in Seq(Nat)
  /\ view \in [Regs -> Nat]
  /\ viewOut \in Seq(Nat)

\* Whenever EL0 runs, every register holds what the program is entitled to:
\* what TrapFrame::new_user promised at first, and after a system call what
\* it held at the SVC, with the result in x0.  It takes the offsets of four
\* pieces of code (the saving and the restoring half of the trampoline, the
\* loads of user_enter, repr(C)) to agree for this.
UserContextPreserved == mode = "user" => Live = view

\* A write() that returned its length has sent exactly the bytes of the buffer,
\* in order, and one that failed has sent nothing.
WriteIsComplete == mode = "user" => console = viewOut

\* The kernel stack is as deep at every return to EL0 as it was at the first
\* entry, so no sequence of system calls uses it up.
KernelStackBalanced == mode = "user" => sp = USER_SP_EL1

\* boot.rs clears TGE and keeps the other routing bits.  Whatever they are, a
\* system call always reaches the kernel's own vectors, and EL2 is entered again
\* only by an interrupt or external abort whose own routing bit the firmware
\* left set: never by the drop itself, and never by the table VBAR_EL1 held.
NoUserTrapLost ==
  [][/\ mode = "user" => mode' # "firmware"
     /\ mode' = "el2" /\ mode # "el2" =>
          (RoutingBits(vec'.kind, esr') \ {"TGE"}) \intersect hcr # {}]_vars

\* An exception the kernel takes ends: the program is resumed or the kernel stops
\* for good, unless EL2, left with routing of its own, takes control before.
TrapEnds ==
  mode = "vector" ~> \/ mode \in {"user", "halt"}
                     \/ mode = "el2" /\ {"IMO", "FMO", "AMO", "TEA"} \intersect hcr # {}

\* install_vectors: "Must be called ... before any code that could take an
\* exception".  No exception meets the table the firmware left behind.
VectorsInstalledInTime == mode # "firmware"
=============================================================================
