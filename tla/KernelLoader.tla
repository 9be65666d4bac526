---------------------------- MODULE KernelLoader ----------------------------
(***************************************************************************)
(* The UEFI loader (loader/src/main.rs): it reads the kernel's Mach-O,     *)
(* claims the pages of its segments from the firmware, copies them there,  *)
(* builds what the kernel is handed, leaves boot services and branches to  *)
(* the kernel.  The firmware (page allocator, memory map, ESP) and the     *)
(* Mach-O parser are external: any of their calls may fail.                *)
(*                                                                         *)
(* Addresses are numbers up to U64_MAX and mem maps a byte address of RAM  *)
(* to what is there: ZERO, JUNK, a byte of the kernel file, of the device  *)
(* tree (ADT) or of the boot arguments (ARGS).                             *)
(***************************************************************************)
EXTENDS Integers, Sequences, FiniteSetsExt

CONSTANTS
  Images,         \* kernel files: sequences of segments
  PAGE_SIZE,      \* 4096 in the firmware
  U64_MAX,
  RamPages,       \* page numbers of RAM
  Reserved,       \* possible sets of pages the firmware keeps for itself
  MemoryMaps,     \* possible final memory maps: sets of [phys_start, page_count]
  FILE_PAGES,     \* pages of the buffer \KERNEL is read into
  ADT_PAGES,      \* pages of the Apple device tree
  STACK_PAGES     \* 16 in the loader

\* A segment as the parser reports it; its data has filesize bytes.
ASSUME LoaderAssumption ==
  /\ PAGE_SIZE \in Nat \ {0} /\ U64_MAX \in Nat
  /\ (U64_MAX + 1) % PAGE_SIZE = 0
  /\ RamPages \subseteq 0 .. (U64_MAX \div PAGE_SIZE)
  /\ FILE_PAGES \in Nat \ {0} /\ ADT_PAGES \in Nat \ {0}
  /\ STACK_PAGES \in Nat \ {0}
  /\ \A r \in Reserved : r \subseteq RamPages
  /\ Images \subseteq Seq([vmaddr : 0 .. U64_MAX, vmsize : 0 .. U64_MAX,
                          filesize : 0 .. U64_MAX])
  /\ \A m \in MemoryMaps :
       IsFiniteSet(m) /\ m \subseteq [phys_start : 0 .. U64_MAX, page_count : 0 .. U64_MAX]

VARIABLES
  stage,      \* what load_and_jump_to_kernel does next
  services,   \* boot services are still available
  image,      \* the parsed kernel file
  map,        \* the memory map that exit_boot_services returns
  todo,       \* allocate_load_ranges: segments whose range is yet to be merged
  merged,     \* ... and the ranges merged so far
  next,       \* index of the running loop over merged or over the segments
  owner,      \* owner[p]: who the firmware's allocator gave page p to
  mem,        \* contents of RAM
  synced,     \* addresses whose contents the instruction side would fetch
  stray,      \* history: addresses written outside pages the loader owns
  handOff     \* adt, boot_args, stack_top, top_of_kernel_data, phys_base, mem_size

vars == <<stage, services, image, map, todo, merged, next, owner, mem, synced,
          stray, handOff>>

ZERO == 0
JUNK == -1
ADT == -2
ARGS == -3

\* Byte k of the data of segment i.
FileByte(i, k) == 1000 * i + k

Bytes(start, end) == start .. end - 1
RamBytes == UNION {Bytes(p * PAGE_SIZE, (p + 1) * PAGE_SIZE) : p \in RamPages}
PageOf(a) == a \div PAGE_SIZE
Owned(a) == PageOf(a) \in RamPages /\ owner[PageOf(a)] = "image"

-----------------------------------------------------------------------------

AlignDown(v) == v - (v % PAGE_SIZE)

\* Mutant of AlignUp: a partial last page is not counted.
AlignUpTruncated(v) == AlignDown(v)

\* align_up, where its checked_add succeeds.
AlignUp(v) == AlignDown(v + PAGE_SIZE - 1)

Segs == image
SegEnd(s) == s.vmaddr + s.vmsize

\* Mutant of RangeOverflows: the rounding is not checked.
EndOverflows(s) == SegEnd(s) > U64_MAX

\* The additions of load_ranges that are checked: both must stay in range.
RangeOverflows(s) == SegEnd(s) > U64_MAX \/ SegEnd(s) + PAGE_SIZE - 1 > U64_MAX

\* LoadRange of a segment.
LoadRange(s) == [start |-> AlignDown(s.vmaddr), end |-> AlignUp(SegEnd(s))]

\* One turn of the merge loop.
MergeOne(m, r) ==
  LET n == Len(m)
  IN  IF n > 0 /\ r.start <= m[n].end
        THEN [m EXCEPT ![n].end = IF r.end > m[n].end THEN r.end ELSE m[n].end]
        ELSE Append(m, r)

\* Pages allocate_pages(Address(r.start), size.div_ceil(PAGE_SIZE)) asks for.
PagesOf(r) ==
  {p \in 0 .. (U64_MAX \div PAGE_SIZE) :
     /\ p * PAGE_SIZE >= r.start
     /\ p * PAGE_SIZE < r.end}

\* The page runs AnyPages may return.
FreeRuns(n) ==
  {p \in RamPages : \A q \in p .. p + n - 1 : q \in RamPages /\ owner[q] = "free"}

PageBytes(p, n) == Bytes(p * PAGE_SIZE, (p + n) * PAGE_SIZE)
Fill(as, v) == mem' = [a \in RamBytes |-> IF a \in as THEN v ELSE mem[a]]
Give(ps, who) == owner' = [p \in RamPages |-> IF p \in ps THEN who ELSE owner[p]]

-----------------------------------------------------------------------------

Init ==
  /\ stage = "read"
  /\ services = TRUE
  /\ image \in Images
  /\ map \in MemoryMaps
  /\ todo = {} /\ merged = <<>> /\ next = 1
  /\ \E r \in Reserved :
       owner = [p \in RamPages |-> IF p \in r THEN "firmware" ELSE "free"]
  /\ mem = [a \in RamBytes |-> JUNK]
  /\ synced = {}
  /\ stray = {}
  /\ handOff = [adt |-> 0, boot_args |-> 0, stack_top |-> 0, top |-> 0,
                phys_base |-> 0, mem_size |-> 0]

Goto(s) == stage' = s /\ UNCHANGED <<services, image, map>>

\* An error status: main returns it to the firmware.
Return == Goto("returned") /\ UNCHANGED <<todo, merged, next, owner, mem, synced, stray, handOff>>

\* The firmware or the parser is about to be called.
Calling ==
  \/ stage \in {"read", "parse", "adt", "boot_args", "stack"}
  \/ stage = "alloc" /\ next <= Len(merged)

\* Mutant of CallFails: a call that fails is made again.
CallRetried == Calling /\ UNCHANGED vars

\* Any of those calls may fail, and `?` ends the loader with its status.
CallFails ==
  /\ Calling
  /\ Return

\* fs.read(\KERNEL): the file lands in pages the firmware picks.
ReadKernel ==
  /\ stage = "read"
  /\ \E p \in FreeRuns(FILE_PAGES) : Give(p .. p + FILE_PAGES - 1, "file")
  /\ Goto("parse")
  /\ UNCHANGED <<todo, merged, next, mem, synced, stray, handOff>>

\* MachOImage::parse, then load_ranges.
ParseAndRange ==
  /\ stage = "parse"
  /\ LET loaded == {i \in 1 .. Len(Segs) : Segs[i].vmsize # 0}
     IN  IF \E i \in loaded : RangeOverflows(Segs[i])
           THEN Return
           ELSE /\ todo' = loaded
                /\ Goto("merge")
                /\ UNCHANGED <<merged, next, owner, mem, synced, stray, handOff>>

\* The sort by start (unstable: ties in any order) and one turn of the loop.
MergeRange(i) ==
  /\ stage = "merge"
  /\ i \in todo
  /\ \A j \in todo : LoadRange(Segs[i]).start <= LoadRange(Segs[j]).start
  /\ merged' = MergeOne(merged, LoadRange(Segs[i]))
  /\ todo' = todo \ {i}
  /\ Goto("merge")
  /\ UNCHANGED <<next, owner, mem, synced, stray, handOff>>

MergeDone ==
  /\ stage = "merge"
  /\ todo = {}
  /\ Goto("alloc")
  /\ UNCHANGED <<todo, merged, next, owner, mem, synced, stray, handOff>>

\* Mutant of AllocateRange: a range is asked for again after it was zeroed.
AllocateAgain ==
  /\ stage = "alloc"
  /\ next <= Len(merged)
  /\ LET r == merged[next]
     IN  /\ \A p \in PagesOf(r) : p \in RamPages /\ owner[p] = "free"
         /\ Give(PagesOf(r), "image")
         /\ Fill(Bytes(r.start, r.end), ZERO)
         /\ synced' = synced \ Bytes(r.start, r.end)
  /\ Goto("alloc")
  /\ UNCHANGED <<todo, merged, next, stray, handOff>>

\* allocate_pages at the range's own address, and zero it.
AllocateRange ==
  /\ stage = "alloc"
  /\ next <= Len(merged)
  /\ LET r == merged[next]
     IN  /\ \A p \in PagesOf(r) : p \in RamPages /\ owner[p] = "free"
         /\ Give(PagesOf(r), "image")
         /\ Fill(Bytes(r.start, r.end), ZERO)
         /\ synced' = synced \ Bytes(r.start, r.end)
  /\ next' = next + 1
  /\ Goto("alloc")
  /\ UNCHANGED <<todo, merged, stray, handOff>>

AllocateDone ==
  /\ stage = "alloc"
  /\ next > Len(merged)
  /\ next' = 1
  /\ Goto("load")
  /\ UNCHANGED <<todo, merged, owner, mem, synced, stray, handOff>>

\* load_segments: copy the data of one segment to its address.
LoadSegment ==
  /\ stage = "load"
  /\ next <= Len(Segs)
  /\ LET s   == Segs[next]
         dst == Bytes(s.vmaddr, s.vmaddr + s.filesize)
     IN  /\ mem' = [a \in RamBytes |-> IF a \in dst THEN FileByte(next, a - s.vmaddr) ELSE mem[a]]
         /\ synced' = synced \ dst
         /\ stray' = stray \union {a \in dst : ~Owned(a)}
  /\ next' = next + 1
  /\ Goto("load")
  /\ UNCHANGED <<todo, merged, owner, handOff>>

LoadDone ==
  /\ stage = "load"
  /\ next > Len(Segs)
  /\ next' = 1
  /\ Goto("sync")
  /\ UNCHANGED <<todo, merged, owner, mem, synced, stray, handOff>>

\* Mutant of SyncSegment: only the bytes that came from the file.
SyncFileBytes ==
  /\ stage = "sync"
  /\ next <= Len(Segs)
  /\ synced' = synced \union Bytes(Segs[next].vmaddr, Segs[next].vmaddr + Segs[next].filesize)
  /\ next' = next + 1
  /\ Goto("sync")
  /\ UNCHANGED <<todo, merged, owner, mem, stray, handOff>>

\* sync_loaded_image: clean and invalidate the caches over one segment.
SyncSegment ==
  /\ stage = "sync"
  /\ next <= Len(Segs)
  /\ synced' = synced \union Bytes(Segs[next].vmaddr, SegEnd(Segs[next]))
  /\ next' = next + 1
  /\ Goto("sync")
  /\ UNCHANGED <<todo, merged, owner, mem, stray, handOff>>

\* The loop ends, and kernel_top computes the end of the highest segment.
SyncDone ==
  /\ stage = "sync"
  /\ next > Len(Segs)
  /\ LET ends == {SegEnd(Segs[i]) : i \in 1 .. Len(Segs)}
     IN  IF \E e \in ends : e > U64_MAX
           THEN Return
           ELSE /\ handOff' = [handOff EXCEPT !.top = Max(ends \union {0})]
                /\ Goto("adt")
                /\ UNCHANGED <<todo, merged, next, owner, mem, synced, stray>>

\* build_apple_device_tree: allocate pages for the tree and copy it there.
BuildDeviceTree ==
  /\ stage = "adt"
  /\ \E p \in FreeRuns(ADT_PAGES) :
       /\ Give(p .. p + ADT_PAGES - 1, "adt")
       /\ Fill(PageBytes(p, ADT_PAGES), ADT)
       /\ handOff' = [handOff EXCEPT !.adt = p * PAGE_SIZE]
  /\ Goto("boot_args")
  /\ UNCHANGED <<todo, merged, next, synced, stray>>

AllocateBootArgs ==
  /\ stage = "boot_args"
  /\ \E p \in FreeRuns(1) :
       /\ Give({p}, "boot_args")
       /\ handOff' = [handOff EXCEPT !.boot_args = p * PAGE_SIZE]
  /\ Goto("stack")
  /\ UNCHANGED <<todo, merged, next, mem, synced, stray>>

AllocateStack ==
  /\ stage = "stack"
  /\ \E p \in FreeRuns(STACK_PAGES) :
       /\ (p + STACK_PAGES) * PAGE_SIZE <= U64_MAX
       /\ Give(p .. p + STACK_PAGES - 1, "stack")
       /\ handOff' = [handOff EXCEPT !.stack_top = (p + STACK_PAGES) * PAGE_SIZE]
  /\ Goto("exit")
  /\ UNCHANGED <<todo, merged, next, mem, synced, stray>>

ExitBootServices ==
  /\ stage = "exit"
  /\ stage' = "fill"
  /\ services' = FALSE
  /\ UNCHANGED <<image, map, todo, merged, next, owner, mem, synced, stray, handOff>>

\* memory_extent: the lowest start and the highest end of a descriptor.  It
\* fails when an end overflows or the map describes no memory.
DescEnd(d) == d.phys_start + d.page_count * PAGE_SIZE
LowestStart == Min({d.phys_start : d \in map} \union {U64_MAX})
HighestEnd == Max({DescEnd(d) : d \in map} \union {0})
ExtentFails == HighestEnd > U64_MAX \/ HighestEnd <= LowestStart

\* Mutant of MemSize: the sizes are added up, so that holes do not count.
MemSizeTotal == MapThenSumSet(LAMBDA d : d.page_count * PAGE_SIZE, map)
MemSize == HighestEnd - LowestStart

\* fill_boot_args, after boot services are gone.
FillBootArgs ==
  /\ stage = "fill"
  /\ IF ExtentFails
       THEN Return
       ELSE /\ handOff' = [handOff EXCEPT !.phys_base = LowestStart, !.mem_size = MemSize]
            /\ Fill(Bytes(handOff.boot_args, handOff.boot_args + PAGE_SIZE), ARGS)
            /\ Goto("jump")
            /\ UNCHANGED <<todo, merged, next, owner, synced, stray>>

\* jump_to_entry: branch to the kernel on its new stack.
JumpToEntry ==
  /\ stage = "jump"
  /\ Goto("kernel")
  /\ UNCHANGED <<todo, merged, next, owner, mem, synced, stray, handOff>>

Stopped == stage \in {"kernel", "returned"} /\ UNCHANGED vars

Step ==
  \/ CallFails \/ ReadKernel \/ ParseAndRange
  \/ (\E i \in todo : MergeRange(i)) \/ MergeDone
  \/ AllocateRange \/ AllocateDone \/ LoadSegment \/ LoadDone
  \/ SyncSegment \/ SyncDone
  \/ BuildDeviceTree \/ AllocateBootArgs \/ AllocateStack
  \/ ExitBootServices \/ FillBootArgs \/ JumpToEntry

Next == Step \/ Stopped

Spec == Init /\ [][Next]_vars

\* Nothing else runs: the firmware is single-threaded while the loader runs.
FairSpec == Spec /\ WF_vars(Step)

-----------------------------------------------------------------------------

Stages == {"read", "parse", "merge", "alloc", "load", "sync", "adt", "boot_args",
           "stack", "exit", "fill", "jump", "kernel", "returned"}
Owners == {"free", "firmware", "file", "image", "adt", "boot_args", "stack"}

\* Types; every address the loader computes fits in 64 bits, but for those that
\* data longer than its segment is copied to.
TypeOK ==
  /\ stage \in Stages
  /\ services \in BOOLEAN
  /\ image \in Images
  /\ map \in MemoryMaps
  /\ todo \subseteq 1 .. Len(Segs)
  /\ merged \in Seq([start : 0 .. U64_MAX, end : 0 .. U64_MAX])
  /\ next \in Nat
  /\ owner \in [RamPages -> Owners]
  /\ mem \in [RamBytes -> Int]
  /\ synced \subseteq 0 .. U64_MAX
  /\ stray \subseteq Nat
  /\ handOff \in [adt : 0 .. U64_MAX, boot_args : 0 .. U64_MAX, stack_top : 0 .. U64_MAX,
                  top : 0 .. U64_MAX, phys_base : 0 .. U64_MAX, mem_size : 0 .. U64_MAX]

Loadable == {i \in 1 .. Len(Segs) : Segs[i].vmsize # 0}

\* The loader never asks the firmware for a page it already claimed for the
\* image, which the firmware would refuse.
NoSelfConflict ==
  stage = "alloc" /\ next <= Len(merged) =>
    \A p \in PagesOf(merged[next]) \intersect RamPages : owner[p] # "image"

\* A linker's image: no segment has more data than memory.
WellFormed == \A i \in 1 .. Len(Segs) : Segs[i].filesize <= Segs[i].vmsize

\* Where the data of segments goes that is beyond their memory.
Overruns == UNION {Bytes(SegEnd(Segs[i]), Segs[i].vmaddr + Segs[i].filesize) : i \in 1 .. Len(Segs)}

\* A byte outside the pages allocated for the image is overwritten only by data
\* beyond the memory of its segment, which load_segments copies with the rest:
\* never by a linker's image, and never below or inside a segment.
NoStrayWrite == stray \subseteq Overruns

SegBytes(i) == Bytes(Segs[i].vmaddr, SegEnd(Segs[i]))

\* When the kernel starts, every segment that overlaps no other has its data
\* in memory, followed by zeroes, and no stale line would be fetched from it.
ImageIntact ==
  stage = "kernel" /\ WellFormed =>
    \A i \in Loadable :
      /\ SegBytes(i) \subseteq synced
      /\ (\A j \in Loadable \ {i} : SegBytes(j) \intersect SegBytes(i) = {}) =>
           \A a \in SegBytes(i) :
             LET k == a - Segs[i].vmaddr
             IN  mem[a] = IF k < Segs[i].filesize THEN FileByte(i, k) ELSE ZERO

\* The kernel is told of all memory in the map and of a top above its image,
\* and finds the boot arguments and the device tree where it is told.
HandOffDescribesMemory ==
  stage = "kernel" =>
    /\ \A d \in map : /\ handOff.phys_base <= d.phys_start
                      /\ DescEnd(d) <= handOff.phys_base + handOff.mem_size
    /\ \A i \in Loadable : SegEnd(Segs[i]) <= handOff.top
    /\ \A k \in 0 .. PAGE_SIZE - 1 : mem[handOff.boot_args + k] = ARGS
    /\ \A k \in 0 .. ADT_PAGES * PAGE_SIZE - 1 : mem[handOff.adt + k] = ADT

\* The loader ends: it starts the kernel or returns to the firmware.
LoaderEnds == <>(stage \in {"kernel", "returned"})

\* "At this point boot services are gone ... Do not return through the UEFI
\* entry wrapper".
NoReturnAfterExit == ~services => stage # "returned"
=============================================================================
