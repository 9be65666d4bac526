# A TLA+ development of xnu-rs

xnu-rs is an AArch64 kernel in Rust with a UEFI loader. The loader reads a
Mach-O kernel from the ESP, places it, hands over boot arguments and a device
tree and branches to it. The kernel drops to EL1, loads one user program,
enters it at EL0 and serves its system calls. xtask compiles both, converts the
kernel from ELF and writes the disk image. These modules model the way from the
sources to the image and from the firmware to the user program, with the
kernel's heap, the cache maintenance both loaders rely on and the window onto
the disk image that the ESP is written through; TLC checks them on small
instances and TLAPS proves the central invariants for all.

## Inventory

| component | state | operations | what is hard | correct when |
|---|---|---|---|---|
| global allocator (`kernel/src/alloc/mod.rs`) | `HEAP_NEXT` | alloc (load / compare_exchange loop), dealloc | interleaving, full heap, unbounded retry | blocks disjoint, refusals final, calls return |
| exception path (`arch/aarch64/{boot,context,exception}.rs`) | registers, kernel stack, `VBAR_EL1`, `HCR_EL2` | EL2 drop, vectors, save, handlers, restore, `user_enter` | four layouts of one frame, nested faults, stack drift, firmware state | a program cannot tell it was interrupted, except by `x0` |
| system calls (`arch/aarch64/syscall.rs`) | the frame, the console | exit, write, unknown | a fault in the middle of a write | all or nothing is reported |
| kernel loader (`loader/src/main.rs`) | pages, memory, hand-off | ranges, merge, allocate, copy, sync, hand over, jump | firmware allocations anywhere, failure at any call, rounding | the image is in memory byte for byte |
| user loader (`kernel/src/main.rs`, `exec/*.rs`) | memory, `UserImage`, frame | choose base, parse, zero, copy, flush, enter | address arithmetic in two profiles, malformed files | the linked program starts at `LC_MAIN` |
| cache maintenance (both loaders) | caches | clean loop, DSB, invalidate loop, DSB, ISB | prefetch, write-back and speculation meanwhile | no stale fetch after it returns |
| loader device tree (`loader/src/device_tree.rs`) | parser position, open nodes, output | find the FDT, parse it, write the ADT | cut or altered blobs, padding | the kernel reads what the firmware described |
| kernel device tree (`kernel/src/device_tree.rs`) | none | dump | offsets from lengths, short trees | prints the tree and nothing else |
| boot arguments (`*/src/boot_args.rs`) | one page | fill, validate | two declarations of one layout | fields are found where they were put |
| ESP partition (`PartitionIo`, `xtask/src/main.rs`) | position, disk image | read, write, flush, seek | short and failing transfers, both ends of the partition | a plain file to FAT, the rest of the disk untouched |
| ELF to Mach-O (`convert_elf_to_macho`) | layout, buffer | parse, lay out, write commands, copy | ranges computed in another loop, overflow, entry point | same segments, same entry |
| xtask commands (`xtask/src/main.rs`) | `target/`, the bundle, the image | check, clippy, fmt, build-image, run | failing or killed at any step, stale artifacts, builds meanwhile | success means a complete, current image |

The components meet at six places: xtask's `KERNEL` is the file that the loader
parses and goes through `PartitionIo` to the image; the loader's hand-off (boot
arguments, stack) is what `_start` reads; the device tree in it is what the
kernel dumps; both loaders call the cache routines; the user
loader allocates from the heap and ends by building the frame that the
exception path enters; system calls arrive through the vectors. The remaining
files of the kernel (`mm`, `sched`, `ipc`, `mach`, `fs`, `gic`, `mmu`, `smp`,
`buddy`, `slab`, `dyld`) are one-line placeholders.

## Modules

**HeapContract, BumpAllocator.** `HeapContract` is what callers are promised:
an atomic answer, either an aligned block that no other block overlaps or a
refusal when nothing above the blocks handed out is large enough.
`BumpAllocator` has one action per atomic step of `alloc`: `Load` (lines 24-31,
load, align and the bounds test, which are local), `CasSucceeds` and `CasFails`
(32-38), `HandleAllocError` for the null result, and `Dealloc`. `granted` and
`freed` are history. `Contract` instantiates the promise with a status computed
from the program counters.

**Trap.** Registers are numbers, the kernel stack maps 8-byte slots to values.
`SaveOffset`, `RestoreOffset`, `EnterOffset` and `FieldOffset` are read off the
assembly and `repr(C)` one by one and never from each other, so that their
agreement is a result. `EnterRank` is the order of `user_enter`'s loads.
`SaveFrame` is the trampoline up to `bl handler`; the handler's own stack use is
the constant `HANDLER_STACK` and it may destroy every caller-saved register.
The user program is arbitrary: `UserCompute` changes registers, `Svc` makes any
call of `Calls`, faults and interrupts arrive at any time. `view` and `viewOut`
are history: what the program is entitled to see. The UART is the sequence
`console`; a byte is named by its address. `hcr` is the set of HCR_EL2's bits
that decide which level takes an exception. `DropToEl1` sets RW, clears TGE and
keeps the others, as `boot.rs` does; `EretToEl1` stays at EL2 if that makes the
return illegal. `TakeException` goes to EL2 (mode `el2`) if a bit of
`RoutingBits` is set, at any moment and past EL1's masks (`KernelInterrupt`),
and otherwise to the table `VBAR_EL1` holds, which may be the one firmware left
(mode `firmware`). Stage 2 translation and traps of single instructions, which a
hypervisor below the kernel would set in the same register, are taken to be off.

**KernelLoader.** `load_and_jump_to_kernel`, one action per call or loop turn.
`owner` says who holds each page; `AnyPages` returns any free run; any firmware
call or parser may fail (`CallFails`). `mem` is RAM byte by byte. `synced` holds
the addresses the cache routine has covered since they were written, which
`CacheSync` justifies. `stray` records writes outside pages owned.

**UserExec.** `_start` and `load_and_run`; `macho::parse` is one action per
load command (`ParseSegment`, with the running minimum `link_base`) and one for
what follows its loop (`ParseEntry`). `checked` says whether the build has
overflow checks (the dev profile) or wraps (release); every plain `+` and `-`
that can overflow is modelled both ways. A byte of memory is the offset in the
file it was copied from, so `EntryIsMain` can say that the first instruction is
the one `LC_MAIN` names.

**CacheSync.** The two routines in their three builds, against a hardware that
may at any step write a line back, prefetch one, speculate from an old one, or
let a maintenance instruction take effect. A DSB waits for those before it.

**FixedFile, PartitionIo.** xtask formats and fills the ESP through
`PartitionIo`, a window onto the image file. `FixedFile` is what the FAT code
relies on: a file of fixed length whose transfers may be short and whose errors
change nothing. `PartitionIo` has an action per call and per early return; the
image file is external, so its seek or its transfer may fail (`TransferFails`)
and a transfer may move any number of bytes up to the count. `cursor` is the
image file's own position, which no call may rely on. Offsets are integers; the
checked sums of `seek` refuse exactly what is negative or too large for 64 bits,
and the latter is above `LEN` as well.

**FdtToAdt, AdtDump, DeviceTree, FirmwareTree.** `FdtToAdt` is the loader's side: `FindFdt`,
`NewParser`, one action per token of `parse_node`'s loop (its recursion is the
stack `open`), one per node of `write_adt_node` (its recursion is the list
`work` of calls to be made) and one per property. `written` is history: the
nodes and properties in `out`, in order, each with its offset, a node with its
depth and the number of calls that were left. `AdtDump` is the kernel's reader,
one action per turn of each loop: `visit` holds the calls of `dump_node` in
progress, and `walk` is the loop the innermost one is in. `child_at` and
`total_len` call each other; since nodes follow one another in the order of the
recursion, `walk` needs no stack for them but a count of nodes to be passed
(`PassNode` replaces a node by its children).
`DeviceTree` composes them through a page of boot arguments addressed by the
`repr(C)` offsets of each side's own declaration. Blobs are real byte sequences
in the format of the device tree specification, with `BYTE` values to a byte.
`OtherLoader` stands for a boot loader that passes too short a length, which the
reader handles ("truncated/malformed"). A text is a run of equal letters: only
its length and identity matter. `FirmwareTree` says what a blob stands for and
what a tree looks like on the console; it is recursive and for TLC only.

**ElfToMachO, BuildImage.** `ElfToMachO` is `convert_elf_to_macho`, one action
per loop turn, that of `filter` included (`FilterHeader`); a byte of the new
file is the offset of the ELF byte it came
from. `Cursor` is where writing the commands ends and `CommandsEnd` where the
size computed before says they do. `BuildImage` is xtask from `main` to the exit
code. `pc` runs through `build_image`; each file of the bundle and each part of
the image is ABSENT, PARTIAL or has its content. `Interrupted` is every `?` and
a kill, with the file being written damaged or not; the next command starts on
what is left. Around it, sources are edited, the configuration is switched (each
has its own `loader-<hash>.efi`, which cargo leaves alone when up to date) and
somebody else builds (`OtherBuild`). `seen` is history. `Carries` says what it
is for a Mach-O file to hold a kernel: an increasing map from its segments onto
the loadable headers, under which each has the header's addresses and bytes. With `ImageIntact` of
KernelLoader, `ImageCarriesKernel` says that the memory the kernel starts in is
that of the ELF that was linked.

**MC\*** give constants small values. **\*Proofs** hold the theorems; each begins
with what it needs about division, rounding and finite sets of numbers.

## Runs

| run | question | result |
|---|---|---|
| heap_safety | disjoint, final, implements the contract, every alloc ends | holds |
| heap_alignment | is every block "properly aligned" | violated: only up to 16 bytes |
| trap_path | registers, console, stack, termination; what of the firmware's routing can take control | holds |
| trap_early_exception | are vectors installed before any exception | violated |
| kernel_load | allocations, copies, image, hand-off, termination | holds |
| kernel_load_exit | does the loader never return after ExitBootServices | violated: `memory_extent` can fail |
| user_load | layout, entry, stack, bounds, progress | holds |
| user_load_overlap | is the user region unused by the kernel | violated: `AnyPages` may be there |
| cache_sync | no stale fetch, no relapse, termination | holds |
| partition_io | contained, a plain file | holds |
| device_tree | does the kernel print the firmware's tree; what of cut and altered blobs | holds |
| build_image | is what a successful command leaves complete and current | holds |

The four violations are disagreements between a comment and the code; each
quotes its comment under `findings` in `PROJECT.json`. None occurs with the
test program and QEMU's firmware as they are: they need a stricter layout, a
firmware that enters with interrupts unmasked or allocates low, or an odd memory
map. Three more disagreements are visible in the modules and have no run:
`dispatch` refuses a long write that its comment says is clamped
(`WriteRejected`); `load_segments` copies data longer than `vmsize` past the
pages it was given (`LoadSegment`); and `load_and_run` copies the last bytes of
a segment that reaches the end of the address space behind the region it zeroed,
because the sum that gives the region's end saturates (`CopySegment`).
`NoStrayWrite` and `WritesStayInRegion` have no premise on the file: they say
that those bytes are the only ones written elsewhere.

Some behaviours found while modelling contradict no document.

* `boot.rs` keeps HCR_EL2's IMO, FMO, AMO and TEA as firmware left them. Where
  one is set, an interrupt or external abort goes to EL2, out of the user program
  and out of a handler with interrupts masked, and the program does not come back
  unless the firmware returns. Nothing in the code promises otherwise.
  `NoUserTrapLost` says that this is all: a system call always reaches the
  kernel, the drop to EL1 is never illegal, and the table that firmware left in
  `VBAR_EL1` is never used again. `TrapEnds` allows for it.
* `run_qemu` ignores that `build_image` returned `Ok(false)` and boots the image
  that is there, so `ExitReports` exempts `run`.
* The newest loader in `deps` need not be the one cargo just found up to date, so
  `LoaderIsTheBuilt` asks that it was compiled by this command or that one
  configuration was ever built. The stale loader shipped otherwise is not caught.
* A build in another terminal between the copies of the kernel or the loader
  leaves a bundle of two revisions; `BundleDescribesImage` exempts it.
* `parse` does not check where `LC_MAIN` lies. `EntryIsMain` and `WellLinkedRuns`
  are about well-linked programs; of others `TypeOK` says that the kernel stops or
  enters some 64-bit address.

### Bounds

* heap: two contexts, a heap of a few bytes and layouts of size 1-3, so that the
  heap fills within a few calls and both contexts race for the last block.
* trap: nine system calls on both sides of each test of `dispatch`, a buffer
  that runs off readable memory, two register contents; `MaxConsole` bounds the
  number of successful writes. `MAX_WRITE` is 3. Twenty values of HCR_EL2: every
  setting of RW and TGE with none, IMO, FMO and AMO, TEA, or all of these set.
* kernel loader: four-byte pages, eight pages of RAM, 64-byte address space;
  six images (out of order and sharing a page, touching, nested, with a hole,
  overflowing when rounded, with more data than memory), two sets of pages kept by the firmware, every
  placement of four allocations.
* user loader: 64-byte address space, six linked and six malformed files, eight
  boot arguments, both profiles.
* cache: two-byte lines in 16 bytes of address space; ranges of up to three
  lines, empty, inside a line, in the last line and beyond; every initial state
  of both caches.
* partition: three bytes in a disk of five, every content of the disk, empty,
  short and too long buffers, seeks that land on, before and behind each end.
* device tree: three trees (empty; values of every length modulo four, given and
  missing names, a grandchild; a name of 31 bytes) in two layouts of the blob,
  with and without FDT_NOPs; two of the blobs with every smaller `totalsize`,
  and one with each word of its structure replaced by each token and by none;
  names too long or not text; no FDT. Lengths passed by another loader end in
  every kind of field. A byte has 32 values, enough for every offset in two.
* build: two commands, which is what it takes for one to find what another left;
  two configurations; one kernel that is edited once, with the script's three
  segments, and twelve that are not: BSS, notes, empty and overlapping
  segments, two texts, none, entries and sizes that overflow, a short file.
  Pages of four bytes and numbers below 64 make every overflow check fire.

`CHECK_DEADLOCK FALSE` is set where the system may really stop: every context in
the out-of-memory spin loop, or the cache routine returned and nothing is left
to happen. Elsewhere a stopped kernel is an explicit stuttering action.

### Fairness

One CPU executes the kernel and the loader and nothing preempts them, so each
has weak fairness on its steps (`WF_vars(Kernel)`, `WF_vars(Step)`,
`WF_vars(Routine)`). The user program, interrupts, write-backs and prefetches
have none. BuildImage states none: cargo and QEMU may run for ever. In DeviceTree
the same CPU runs the loader and then the dump, so `TreeEnds` says that both end;
that another boot loader takes this one's place (`OtherLoader`) is never forced.
In the allocator each context inside `alloc` keeps executing; nothing
makes it win, and `AllocReturns` holds because every lost race is a block handed
out of a finite heap. In CacheSync maintenance instructions take effect
eventually, which is what the architecture's DSB relies on.

## Theorems

`BumpAllocatorProofs` (any contexts, heap size and layouts with
`LayoutAssumption`): `TypeCorrect`, `AllocationsAreDisjoint`,
`RefusalsAreFinal`, `RefinesContract`. `BlocksDisjoint` is not inductive: a
successful compare_exchange appends a block computed from `old[t]`. The
inductive invariant adds that `heapNext` is the end of the last block
(`NextIsTop`), that every block ends at or below it (`BlocksBelowNext`), and that
a context about to compare_exchange read a value for which its block fits
(`CasWillFit`). Refinement maps `Load` with too little room to `Refuse`,
`CasSucceeds` to `Grant`, and the other loop steps to stuttering.

`TrapProofs` (any calls, register contents, readable memory and a stack with
room for two nested frames): `TypeCorrect`, `ContextIsPreserved`,
`WritesAreComplete`, `StackIsBalanced`, `UserTrapsReachKernel`. Registers are
moved to the stack and back, so the invariant says for each mode where the
program's registers are (live, or in the frame at a known address) and what is
in them; lemmas show that the offset tables are injective and stay inside the
frame, and that the frame of a nested fault lies below the first. For the routing
it says that TGE is clear and RW set from the drop on, that the vectors are the
kernel's from `InstallVectors` on, and that interrupts are masked while an
exception is handled, so that one that arrives then can only go to EL2
(`El1ExceptionStep`, `EretIsLegal`).

`PartitionIoProofs` (any disk, partition and buffers with
`PartitionAssumption`): `TypeCorrect`, `PartitionIsContained`,
`PartitionIsAFile`. `TypeOK` is inductive; containment needs its `pos <= LEN`,
because the count is `LEN - pos`. For the refinement, each transfer of `n` bytes
is shown to be `ReadSome(n)` or `WriteSome(buf, n)` on the bytes between `BASE`
and `BASE + LEN`, an accepted seek is `SeekTo`, and a failure is `Fail`.

`CacheSyncProofs` (any range, any line size of the machine that is a multiple of
the step, all three builds): `TypeCorrect`, `FetchedIsNew`, `NoRelapse`. That no
fetch is stale at the end follows from what is known at each step (`Progress`):
a line the first loop has passed is written back or has its clean under way, so
behind the DSB none is unwritten; from then on a prefetch brings new contents
only, and the same argument runs for old lines and the second loop. `Passed`,
the lines of the addresses below the loop variable, needs the loop variable to
be aligned; the arithmetic of `addr + 64` saturating, panicking or wrapping at
the end of the address space is where the three builds differ. `CacheAssumption`
asks for a step of at least two bytes (the code's is 64): the loader's saturated
end is one short of 2^64, which is inside the last line only if that is longer
than a byte.

`KernelLoaderProofs` (any sequence of segments, memory map, placement by the
firmware and page size): `TypeCorrect`, `RangesApart`, `WritesOwned`,
`KernelStartsIntact`, `HandOffIsTrue`. The invariant follows the stages.
`MergeInv`: the merged ranges are non-empty, page-aligned, strictly ascending
with a gap between them, none starts behind a range still to come (the sort),
and each merged segment lies in one. `OwnerInv`: the image owns the pages of
the ranges allocated so far and no others, which gives `NoSelfConflict`.
`MemInv`: those ranges are zero, then hold the data of the segments copied so
far, for segments that overlap no other. A copy stays in the pages of its own
segment if the image is `WellFormed`, and otherwise only data beyond the
segment's memory leaves them (`DataPlace`). `SyncInv` and `HandOffInv` carry this
past the later allocations, which only take pages that are free.

`UserExecProofs` (any file, boot arguments, RAM and both profiles):
`TypeCorrect`, `WritesInRegion`, `ProgramLaidOut`, `StartsAtMain`. `ParseInv`
says that the image holds the segments with memory among those seen, in file
order, none below `link_base`; `MemInv` that the region holds the data of the
segments copied so far and zeroes. `WritesInRegion` holds of every file: a byte
linked below u64::MAX lies below the saturated end of its segment, hence of the
image (`LinkedBelowEnd`). Two assumptions state what the types of the
code do not: a segment's data is a slice of the file, so its end is below 2^64,
and RAM ends a page and a stack below 2^64 (physical addresses have 52 bits).
The second came out of the proof: without it rounding the end of the image up
could wrap and put the stack into the image.

`BuildImageProofs` (any kernels, page size, configurations and number of
commands): `TypeCorrect`, `SegmentsApart`, `KernelIsCarried`, `LoaderIsCurrent`,
`BundleIsFaithful`, `ExitIsHonest`. `ConvertInv` is about the conversion: the
headers kept are the loadable ones in order, each segment is laid out at or
behind the end of the one before and behind the commands (`LaidOut`), and the
buffer holds the commands and the segments copied so far (`Copying`), which is
true because the layout is ascending. The other parts say what each file holds
at each step of `build_image`, whatever an earlier command left there:
`KernelInv` (the ELF, its conversion and the file in the image are of a revision
that is `Current`, the one cargo linked unless somebody else built),
`LoaderInv` (the newest loader in `deps` is the one built, where that is
decided) and `ImageInv` (the parts written since the image was truncated).
Success is reported only at a step where all of them are whole, and an
interrupted command claims nothing.

`DeviceTreeProofs` (any configuration table and blob, any size of a byte from 16
values on, any length another loader passes): `TypeCorrect` and `Readable`, the
round trip from the loader's writer to the kernel's console. Its invariant has
three parts.
`ParserInv`: the position is at most a word behind the blob, and every node
`parse_node` returned has a name property, as have the nodes below it. The
latter would be an induction over trees; instead the invariant claims a set `T`
that holds all nodes there are and the children of its members, each named, and
`EndNode` adds one node to it.
`WriterInv`: `Layout` describes `out` by `written`. Each item is at its offset
(`Items`, with the four bytes of each `u32` and the padded value), they follow
one another without a gap from the root on (`Order`), the properties of a node
come behind it, and then the next node (`Groups`). What replaces the recursion
is the count `left` of calls of `write_adt_node` to be made once a node's
children are due: it falls by one and rises by the number of children from one
node to the next, so the node after which it first falls to a node's own level
is the last below it (`Due`, `Deep`: the next child of a node is one deeper).
`ReaderInv`: what is on the console is a beginning of `written`; every call of
`dump_node` in progress is for a node of it, at the depth `write_adt_node` had,
and the children it has entered account for what was written since (`Frames`);
the loop it is in is at the end of an item, and the nodes `child_at` has still to
pass are as many as the writer's count says (`Passing`). So at each turn the
reader meets the item that comes next, and a `?` fails only if the tree is cut
before that item's end. The offsets of both `BootArgs` are computed from the
declarations, field by field, and shown to agree (`OffsetFacts`, `ArgFacts`).

Each inductive invariant was an invariant of the component's run before it was
proved. The theorems rest on the named assumptions of the modules, which TLC
evaluates in the runs, and on nothing else.

Only model-checked: the liveness properties (`AllocReturns`, `TrapEnds` and the
others), which need fairness and ENABLED; and `KernelPrintsFirmwareTree` and
`RefusedIffCut`, which compare a boot with what the blob means. That meaning is a
recursive definition over trees and an encoding of them, so these two are
inductions over data; what the theorem `Readable` leaves to them is the way from
the blob to the nodes that are written.

## Not modelled

Log output and the UART's registers; `goblin`, `uefi`, cargo, the GPT and FAT
libraries, QEMU and the firmware beyond the calls used; segment protections,
which are written and never read; UTF-8 beyond ASCII; page tables, which the
kernel never sets up; how long anything takes, so also the exponential time of
`total_len`; whether the linker puts the immutable `HEAP` into writable memory;
cores whose cache lines are shorter than the 64 bytes both routines step by (an
assumption of CacheSync); the cputype and filetype that `macho.rs` does not look
at. `util` has no caller. The other files are one-line placeholders.
Two xtask commands at once on one `target` are not modelled: nothing in the code
is meant for it.

## Plan

`Boot`: KernelLoader composed with UserExec through the boot arguments and the
page owners, for the overlap of `user_load_overlap` end to end.
