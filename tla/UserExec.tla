------------------------------ MODULE UserExec ------------------------------
(***************************************************************************)
(* The kernel's first user program: _start picks a load address from the   *)
(* boot arguments (kernel/src/main.rs), macho::parse reads the program's   *)
(* segments and entry point (exec/macho.rs), load_and_run lays it out in   *)
(* physical memory and enters it at EL0 (exec/loader.rs).                  *)
(*                                                                         *)
(* Plain `+` and `-` of u64 panic in the dev profile and wrap in release:  *)
(* checked says which of them was built.  A byte of memory holds ZERO,     *)
(* JUNK, or the offset in the file of the byte that was copied there.      *)
(***************************************************************************)
EXTENDS Integers, Sequences, FiniteSetsExt, Functions

CONSTANTS
  Files,          \* programs: [segs, main]; see FileType
  BootArgs,       \* what _start is passed: [kind, top_of_kernel_data]
  KernelUses,     \* possible sets of bytes, outside its image, the kernel uses
  Profiles,       \* overflow-checks of the profiles that are built
  RamBytes,       \* addresses of RAM
  U64_MAX,
  PAGE_SIZE,      \* 4096
  ALIGN_2M,       \* 2 MiB
  STACK_SIZE,     \* 64 KiB
  DEFAULT_TOP     \* 0x4400_0000, assumed when the boot arguments are unusable

U64 == 0 .. U64_MAX
NO_MAIN == -1     \* the file has no LC_MAIN
ZERO == -2
JUNK == -3

\* text: the segment is named __TEXT; filesize: bytes of its data.
SegmentType == [text : BOOLEAN, vmaddr : U64, vmsize : U64, fileoff : U64, filesize : U64]
FileType == [segs : Seq(SegmentType), main : U64 \union {NO_MAIN}]

\* make_test_macho: one __TEXT of a page, its code on the second page of the
\* file; LC_MAIN names the first instruction.  (0x100000000 is ten pages here.)
TEST_USER_MACHO ==
  [segs |-> <<[text |-> TRUE, vmaddr |-> 10 * PAGE_SIZE, vmsize |-> PAGE_SIZE,
               fileoff |-> PAGE_SIZE, filesize |-> PAGE_SIZE - 1]>>,
   main |-> PAGE_SIZE]

ASSUME UserExecAssumption ==
  /\ U64_MAX \in Nat
  /\ PAGE_SIZE \in Nat \ {0} /\ ALIGN_2M \in Nat \ {0} /\ STACK_SIZE \in Nat \ {0}
  /\ (U64_MAX + 1) % PAGE_SIZE = 0 /\ (U64_MAX + 1) % ALIGN_2M = 0
  /\ DEFAULT_TOP \in U64
  /\ Files \subseteq FileType
  /\ \A f \in Files : \A i \in 1 .. Len(f.segs) :
       f.segs[i].fileoff + f.segs[i].filesize <= U64_MAX     \* a slice of the file
  /\ BootArgs \subseteq [kind : {"null", "unsupported", "ok"}, top_of_kernel_data : U64]
  /\ RamBytes \subseteq U64     \* physical addresses have 52 bits:
  /\ \A a \in RamBytes : a + PAGE_SIZE + STACK_SIZE <= U64_MAX
  /\ KernelUses \subseteq SUBSET RamBytes
  /\ Profiles \subseteq BOOLEAN

VARIABLES
  at,         \* where the kernel is: see Next
  checked,    \* built with overflow checks
  args,       \* the boot arguments
  file,       \* TEST_USER_MACHO
  inUse,      \* memory of the kernel outside its image: stack, boot_args, tree
  load_base,
  segments,   \* UserImage::segments, collected by parse
  link_base,
  entry_va,
  next,       \* index of the loop of parse or of the copy loop
  mem,
  written,    \* history: addresses written so far
  flushed,    \* addresses whose contents the instruction side fetches
  user        \* the TrapFrame user_enter loads: [pc, sp]

vars == <<at, checked, args, file, inUse, load_base, segments, link_base, entry_va,
          next, mem, written, flushed, user>>
inputs == <<checked, args, file, inUse>>
parsed == <<segments, link_base, entry_va>>
memory == <<mem, written, flushed>>

-----------------------------------------------------------------------------

Bytes(start, end) == start .. end - 1

\* Mutant of Wrap: addresses are computed in a wider type.
WrapNot(v) == v
Wrap(v) == v % (U64_MAX + 1)
Panics(v) == checked /\ v \notin U64
SatAdd(a, b) == IF a + b > U64_MAX THEN U64_MAX ELSE a + b
SatSub(a, b) == IF a < b THEN 0 ELSE a - b

\* align_up and align_up_2m: (v + align - 1) & !(align - 1), where v + align is
\* computed first and overflows although the whole sum may not.
RoundingPanics(v, align) == Panics(v + align)
AlignUp(v, align) == LET w == Wrap(v + align - 1) IN w - (w % align)

\* validate_boot_args, without the dump of the device tree it ends with.
Valid(a) == a.kind = "ok"
TopOfKernel == IF Valid(args) THEN args.top_of_kernel_data ELSE DEFAULT_TOP

\* The first segment named __TEXT, even one without memory.
TextIndices(f) == {i \in 1 .. Len(f.segs) : f.segs[i].text}
Text(f) == f.segs[Min(TextIndices(f))]

\* Mutant of EntryVa: entryoff is taken as an offset in __TEXT.
EntryVaUnrelocated(f) == Text(f).vmaddr + f.main

\* LC_MAIN's file offset as a virtual address, before the addition wraps.
EntryVa(f) == Text(f).vmaddr + SatSub(f.main, Text(f).fileoff)

\* Mutant of ParseFails: one segment without memory makes the file unloadable.
ParseFailsOnEmpty(f) ==
  Len(segments) < Len(f.segs) \/ f.main = NO_MAIN \/ TextIndices(f) = {}

\* No segment was collected, or there is no entry point.
ParseFails(f) == segments = <<>> \/ f.main = NO_MAIN \/ TextIndices(f) = {}

\* The span of the image in memory.
ImageEnd == Max({SatAdd(segments[i].vmaddr, segments[i].vmsize) : i \in 1 .. Len(segments)}
                \union {0})
ImageSpan == SatSub(ImageEnd, link_base)

\* Mutant of CopyLen: the data of a segment is copied whole.
CopyWhole(s) == s.filesize
CopyLen(s) == IF s.filesize < s.vmsize THEN s.filesize ELSE s.vmsize

StackBase == AlignUp(Wrap(load_base + ImageSpan), PAGE_SIZE)

-----------------------------------------------------------------------------

Init ==
  /\ at = "start"
  /\ checked \in Profiles
  /\ args \in BootArgs
  /\ file \in Files
  /\ inUse \in KernelUses
  /\ load_base = 0
  /\ segments = <<>> /\ link_base = U64_MAX /\ entry_va = 0
  /\ next = 1
  /\ mem = [a \in RamBytes |-> JUNK]
  /\ written = {} /\ flushed = {}
  /\ user = [pc |-> 0, sp |-> 0]

\* The kernel stops: a panic, a fault or a spin loop.
Stop(how) == at' = how /\ UNCHANGED <<inputs, load_base, parsed, next, memory, user>>

\* _start: the load address is the top of the kernel, rounded up.
ChooseLoadBase ==
  /\ at = "start"
  /\ IF RoundingPanics(TopOfKernel, ALIGN_2M)
       THEN Stop("panic")
       ELSE /\ load_base' = AlignUp(TopOfKernel, ALIGN_2M)
            /\ at' = "parse"
            /\ UNCHANGED <<inputs, parsed, next, memory, user>>

\* macho::parse, one turn of its loop: a segment with memory is collected and
\* may lower link_base.
ParseSegment ==
  /\ at = "parse"
  /\ next <= Len(file.segs)
  /\ LET s == file.segs[next]
     IN  IF s.vmsize = 0
           THEN UNCHANGED <<segments, link_base>>
           ELSE /\ segments' = Append(segments, s)
                /\ link_base' = IF s.vmaddr < link_base THEN s.vmaddr ELSE link_base
  /\ next' = next + 1
  /\ UNCHANGED <<at, inputs, load_base, entry_va, memory, user>>

\* The rest of it, and the spin loop of load_and_run when it returns None.
ParseEntry ==
  /\ at = "parse"
  /\ next > Len(file.segs)
  /\ IF ParseFails(file)
       THEN Stop("spin")
     ELSE IF Panics(EntryVa(file))
       THEN Stop("panic")
       ELSE /\ entry_va' = Wrap(EntryVa(file))
            /\ next' = 1
            /\ at' = "zero"
            /\ UNCHANGED <<inputs, load_base, segments, link_base, memory, user>>

\* parse copies the file's commands and the segments' data to the kernel heap,
\* which may be too small.
HeapExhausted ==
  /\ at = "parse"
  /\ next = 1 \/ next <= Len(file.segs)
  /\ Stop("oom")

\* Write data[a] to every address a of its domain, or fault outside RAM.
Store(data, then) ==
  IF DOMAIN data \subseteq RamBytes
    THEN /\ mem' = [a \in RamBytes |-> IF a \in DOMAIN data THEN data[a] ELSE mem[a]]
         /\ written' = written \union DOMAIN data
         /\ flushed' = flushed \ DOMAIN data
         /\ at' = then
         /\ UNCHANGED <<inputs, load_base, parsed, user>>
    ELSE Stop("fault")

\* Mutant of ZeroRegion: the last byte is forgotten.
ZeroOneShort ==
  /\ at = "zero"
  /\ Store([a \in Bytes(load_base, load_base + ImageSpan - 1) |-> ZERO], "copy")
  /\ UNCHANGED next

\* write_bytes(load_base, 0, image_span).
ZeroRegion ==
  /\ at = "zero"
  /\ Store([a \in Bytes(load_base, load_base + ImageSpan) |-> ZERO], "copy")
  /\ UNCHANGED next

\* One turn of the copy loop.  Its addition, and that of the flush below, stay
\* in the region that was just zeroed and cannot overflow.
CopySegment ==
  /\ at = "copy"
  /\ next <= Len(segments)
  /\ LET s   == segments[next]
         dst == load_base + (s.vmaddr - link_base)
     IN  /\ Store([a \in Bytes(dst, dst + CopyLen(s)) |-> s.fileoff + (a - dst)], "copy")
         /\ next' = IF at' = "copy" THEN next + 1 ELSE next

\* flush_dcache_invalidate_icache over the image.
FlushImage ==
  /\ at = "copy"
  /\ next > Len(segments)
  /\ flushed' = flushed \union Bytes(load_base, load_base + ImageSpan)
  /\ at' = "enter"
  /\ UNCHANGED <<inputs, load_base, parsed, next, mem, written, user>>

\* The entry point and the stack, then install_vectors and user_enter.
EnterUser ==
  /\ at = "enter"
  /\ LET entry == load_base + Wrap(entry_va - link_base)
         top   == StackBase + STACK_SIZE
     IN  IF \/ Panics(entry_va - link_base) \/ Panics(entry)
            \/ RoundingPanics(load_base + ImageSpan, PAGE_SIZE) \/ Panics(top)
           THEN Stop("panic")
           ELSE /\ user' = [pc |-> Wrap(entry), sp |-> Wrap(top)]
                /\ at' = "el0"
                /\ UNCHANGED <<inputs, load_base, parsed, next, memory>>

Stopped == at \in {"el0", "spin", "panic", "fault", "oom"} /\ UNCHANGED vars

Step == ChooseLoadBase \/ ParseSegment \/ ParseEntry \/ HeapExhausted \/ ZeroRegion
        \/ CopySegment \/ FlushImage \/ EnterUser

Next == Step \/ Stopped

Spec == Init /\ [][Next]_vars

\* One CPU runs the kernel, with interrupts masked.
FairSpec == Spec /\ WF_vars(Step)

-----------------------------------------------------------------------------

\* Types: every address the kernel computes is a u64, in both profiles.
TypeOK ==
  /\ at \in {"start", "parse", "zero", "copy", "enter",
             "el0", "spin", "panic", "fault", "oom"}
  /\ checked \in BOOLEAN
  /\ args \in BootArgs
  /\ file \in Files
  /\ inUse \subseteq RamBytes
  /\ load_base \in U64 /\ link_base \in U64 /\ entry_va \in U64
  /\ segments \in Seq(SegmentType)
  /\ next \in Nat \ {0}
  /\ mem \in [RamBytes -> U64 \union {ZERO, JUNK}]
  /\ written \subseteq RamBytes
  /\ flushed \subseteq RamBytes
  /\ user \in [pc : U64, sp : U64]

\* The region the image is loaded to.
Region == Bytes(load_base, load_base + ImageSpan)
InMemory(s) == Bytes(load_base + (s.vmaddr - link_base),
                     load_base + (s.vmaddr - link_base) + s.vmsize)

\* No segment wraps around the address space.
NoWrap(f) == \A i \in 1 .. Len(f.segs) : f.segs[i].vmaddr + f.segs[i].vmsize <= U64_MAX

\* What a linker writes: segments that do not overlap, with no more data than
\* memory, and an LC_MAIN that points into the data of the only __TEXT.
WellLinked(f) ==
  /\ NoWrap(f)
  /\ \A i \in 1 .. Len(f.segs) : f.segs[i].filesize <= f.segs[i].vmsize
  /\ \A i, j \in 1 .. Len(f.segs) :
       i < j => Bytes(f.segs[i].vmaddr, f.segs[i].vmaddr + f.segs[i].vmsize) \intersect
                Bytes(f.segs[j].vmaddr, f.segs[j].vmaddr + f.segs[j].vmsize) = {}
  /\ \E i \in 1 .. Len(f.segs) :
       /\ TextIndices(f) = {i}
       /\ f.main \in Bytes(f.segs[i].fileoff, f.segs[i].fileoff + f.segs[i].filesize)

\* The address that byte a of the region was linked at.
LinkAddress(a) == a - load_base + link_base

\* load_and_run writes only to the region it zeroes, "Within the zeroed region
\* allocated above", whatever a segment's data, order and overlaps.  The sum that
\* finds the end of the image saturates, so the region ends below the image's last
\* byte for a segment that reaches the end of the address space: bytes linked at
\* u64::MAX and beyond are the only ones copied outside it.
WritesStayInRegion == \A a \in written : a \in Region \/ LinkAddress(a) >= U64_MAX

\* At EL0 the memory of a well-linked program is that of its segments moved
\* from link_base to load_base, zero elsewhere, and fetched as written; its
\* stack is apart from it.
ImageLaidOut ==
  at = "el0" /\ WellLinked(file) =>
    /\ \A i \in 1 .. Len(segments) :
         LET s == segments[i]
         IN  \A k \in 0 .. s.vmsize - 1 :
               mem[load_base + (s.vmaddr - link_base) + k] =
                 IF k < s.filesize THEN s.fileoff + k ELSE ZERO
    /\ \A a \in Region \ UNION {InMemory(segments[i]) : i \in 1 .. Len(segments)} :
         mem[a] = ZERO
    /\ Region \subseteq flushed
    /\ user.sp >= STACK_SIZE
    /\ Bytes(user.sp - STACK_SIZE, user.sp) \intersect written = {}

\* The program starts at the byte of the file that LC_MAIN names.
EntryIsMain ==
  at = "el0" /\ WellLinked(file) => mem[user.pc] = file.main

\* RAM holds the image and the stack at the load address.
FitsInRam ==
  LET segs == {s \in Range(file.segs) : s.vmsize # 0}
      span == Max({s.vmaddr + s.vmsize : s \in segs}) - Min({s.vmaddr : s \in segs})
      base == AlignUp(TopOfKernel, ALIGN_2M)
  IN  /\ TopOfKernel + ALIGN_2M \in U64
      /\ Bytes(base, base + span + PAGE_SIZE + STACK_SIZE) \subseteq RamBytes

\* A well-linked program that fits is run, unless the kernel heap is too small:
\* no address computed on the way overflows, faults or is refused.
WellLinkedRuns ==
  [](at = "start" /\ WellLinked(file) /\ FitsInRam => <>(at \in {"el0", "oom"}))

\* "RAM ... that is not used by the kernel" (load_and_run's contract), "past
\* the kernel" (_start).
RegionUnusedByKernel == written \intersect inUse = {}
=============================================================================
