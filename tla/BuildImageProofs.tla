-------------------------- MODULE BuildImageProofs --------------------------
(***************************************************************************)
(* Theorems about xtask, for every kernel, page size, set of               *)
(* configurations and number of commands.  The inductive invariant has a   *)
(* part for the conversion, which relates its locals to the ELF it read,   *)
(* and one for the command, which says for each step what the files        *)
(* written before it hold, whatever an earlier command left.               *)
(***************************************************************************)
EXTENDS BuildImage, FiniteSetTheorems, WellFoundedInduction, TLAPS

-----------------------------------------------------------------------------
(* Numbers. *)

\* Division with remainder by a positive number.
LEMMA ModBounds ==
  ASSUME NEW y \in Int, NEW a \in Nat \ {0}
  PROVE  /\ y % a \in 0 .. a - 1
         /\ y = a * (y \div a) + (y % a)
         /\ y \div a \in Int
  OBVIOUS

\* A set of natural numbers that is not empty has a least element.
LEMMA LeastNat ==
  ASSUME NEW S \in SUBSET Nat, S # {}
  PROVE  \E m \in S : \A k \in S : m <= k
<1> DEFINE R == OpToRel(<, Nat)
<1>1. IsWellFoundedOn(R, Nat)
  BY NatLessThanWellFounded
<1>2. \A x, y \in Nat : y < x => <<y, x>> \in R
  BY DEF OpToRel
<1> HIDE DEF R
<1>3. PICK m \in S : \A y \in S : ~ (<<y, m>> \in R)
  BY <1>1, WFMin
<1>4. \A k \in S : k \in Nat /\ m \in Nat /\ ~ (k < m)
  BY <1>2, <1>3
<1>5. \A k \in S : m <= k
  BY <1>4
<1>6. QED
  BY <1>5

\* Min of a set of natural numbers is in it and below the others.
LEMMA MinOfNats ==
  ASSUME NEW S \in SUBSET Nat, S # {}
  PROVE  Min(S) \in S /\ \A y \in S : Min(S) <= y
  BY LeastNat DEF Min

-----------------------------------------------------------------------------

\* The segments listed by m are those kept of the first headers.
Kept(m) ==
  /\ \A i, j \in 1 .. Len(loadable) : i < j => m[i] < m[j]
  /\ \A k \in 1 .. scanned : Loadable(elf.headers[k]) <=> \E i \in 1 .. Len(loadable) : m[i] = k
  /\ \A i \in 1 .. Len(loadable) : loadable[i] = elf.headers[m[i]]

\* The filter keeps the loadable headers in their order.
Filtered ==
  /\ loadable \in Seq(HeaderType)
  /\ \E m \in [1 .. Len(loadable) -> 1 .. scanned] : Kept(m)

\* A segment of the layout and the header it is made of.
SegmentType == [segname : {TEXT, DATA} \union {<<"__SEG", n>> : n \in Nat}, vmaddr : Usize,
                vmsize : Usize, fileoff : Usize, filesize : Usize, source_offset : Usize]
MadeOf(i) ==
  LET s == layout[i]
      h == loadable[i]
  IN  /\ s.segname = SegmentName(i - 1, h) /\ s.vmaddr = h.vaddr /\ s.vmsize = h.memsz
      /\ s.filesize = h.filesz /\ s.source_offset = h.offset

\* Segments follow each other in the file, behind the commands.
LaidOut ==
  /\ Len(layout) <= Len(loadable)
  /\ CommandsEnd <= file_offset
  /\ \A i \in 1 .. Len(layout) :
       /\ MadeOf(i)
       /\ CommandsEnd <= layout[i].fileoff
       /\ layout[i].fileoff + layout[i].filesize <= file_offset
  /\ \A i, j \in 1 .. Len(layout) :
       i < j => layout[i].fileoff + layout[i].filesize <= layout[j].fileoff

\* text_base is where a __TEXT was put, if there is one.
TextFound ==
  \/ text_base = NO_TEXT /\ \A i \in 1 .. Len(layout) : layout[i].segname # TEXT
  \/ \E i \in 1 .. Len(layout) :
       /\ layout[i].segname = TEXT
       /\ text_base = [vmaddr |-> layout[i].vmaddr, fileoff |-> layout[i].fileoff]

\* The buffer while segments are copied.
Copying ==
  /\ Len(layout) = Len(loadable)
  /\ text_base # NO_TEXT
  /\ entryoff = EntryOff
  /\ DOMAIN macho = 0 .. file_offset - 1
  /\ \A o \in 0 .. Cursor - 1 : macho[o] = COMMAND
  /\ \A i \in 1 .. copied : \A k \in 0 .. layout[i].filesize - 1 :
       macho[layout[i].fileoff + k] = layout[i].source_offset + k

ConvertInv ==
  /\ layout \in Seq(SegmentType)
  /\ step \in {"idle", "parse"} =>
       /\ scanned = 0 /\ loadable = <<>> /\ layout = <<>> /\ file_offset = 0
       /\ text_base = NO_TEXT /\ entryoff = 0 /\ copied = 0
  /\ step = "filter" => Filtered /\ layout = <<>> /\ text_base = NO_TEXT
  /\ step \in {"layout", "copy"} =>
       Filtered /\ scanned = Len(elf.headers) /\ LaidOut /\ TextFound
  /\ step \in {"filter", "layout"} => copied = 0
  /\ step = "copy" => Copying
  /\ step = "panicked" =>
       \E i \in 1 .. Len(elf.headers) :
         Loadable(elf.headers[i]) /\ elf.headers[i].offset + elf.headers[i].filesz > elf.size

-----------------------------------------------------------------------------

\* Steps of build_image that come after others.
AfterFat == {"loader_file", "kernel_file", "startup", "unmount"}
AfterGpt == {"format"} \union AfterFat
AfterEfi == {"manifest", "open", "gpt"} \union AfterGpt
AfterMachO == {"copy_efi"} \union AfterEfi
AfterElf == {"convert"} \union AfterMachO
AfterDiscover == {"copy_elf"} \union AfterElf
AfterKernel == {"discover"} \union AfterDiscover
AfterLoader == {"build_kernel"} \union AfterKernel
Ended == {"firmware", "qemu", "idle"}
Steps == {"build_loader", "cargo_many"} \union Ended \union AfterLoader

SeenType == [failed : BOOLEAN, built : BOOLEAN, compiled : BOOLEAN, disturbed : BOOLEAN,
             loader : [config : Int, rev : Int], kernel : Int]

\* Undisturbed, r is the kernel that was compiled.
Current(r) == r \in 1 .. source /\ (~seen.disturbed => r = seen.kernel)

\* The file is whole and the kernel e.
Good(f, e) ==
  /\ f \notin {ABSENT, PARTIAL}
  /\ Carries(f, e) /\ (LinkedAsScript(f) => GoblinEntry(f) = e.entry)

\* What cargo built for this command is there, the newest if just compiled.
LoaderBuilt ==
  LET c == seen.loader.config
  IN  /\ c \in Configs /\ efi[c].rev = seen.loader.rev /\ efi[c] # NO_FILE
      /\ seen.compiled => /\ efi[c].mtime = clock
                          /\ \A d \in Configs \ {c} : efi[d].mtime < clock

\* The conditions under which the loader has to be the one built.
Decided == seen.compiled \/ Cardinality({c \in Configs : efi[c] # NO_FILE}) = 1

Whole(p) == files[p] = [text |-> TRUE]

\* The kernel being converted, the copy in the bundle, and its conversion.
ElfRead == \E r \in 1 .. source : elf = history[r] /\ Current(r)
ElfHeld == \E q \in 1 .. source : files["kernel.elf"] = [rev |-> q] /\ Current(q)
MachOHeld == \E r \in 1 .. source : Good(files["kernel.macho"], history[r]) /\ Current(r)

KernelInv ==
  /\ step # "idle" => ElfRead
  /\ pc \in AfterKernel => Current(kernel_elf)
  /\ pc \in AfterElf \/ seen.built => ElfHeld
  /\ pc \in AfterMachO \/ seen.built => MachOHeld
  /\ pc \in {"startup", "unmount"} \/ seen.built => files["KERNEL"] = files["kernel.macho"]

\* The loader in the image: a whole one, that of the bundle, the one built.
LoaderHeld ==
  /\ \E c, r \in Int : files["EFI/BOOT/BOOTAA64.EFI"] = [config |-> c, rev |-> r]
  /\ ~seen.disturbed =>
       /\ files["BOOTAA64.EFI"] = files["EFI/BOOT/BOOTAA64.EFI"]
       /\ Decided => files["EFI/BOOT/BOOTAA64.EFI"] = seen.loader

AfterLoaderFile == {"kernel_file", "startup", "unmount"}

LoaderInv ==
  /\ pc \in AfterLoader /\ ~seen.disturbed => LoaderBuilt
  /\ pc \in AfterDiscover => loader_efi \in Configs
  /\ pc \in AfterDiscover /\ ~seen.disturbed /\ Decided => LoaderFile = seen.loader
  /\ pc \in AfterEfi /\ ~seen.disturbed => files["BOOTAA64.EFI"] = LoaderFile
  /\ pc \in AfterLoaderFile \/ seen.built => LoaderHeld

ImageInv ==
  /\ pc \in AfterGpt \/ seen.built => Whole("gpt")
  /\ pc \in AfterFat \/ seen.built => Whole("fat")
  /\ pc = "unmount" \/ seen.built => Whole("STARTUP.NSH")
  /\ seen.built => Whole("unmounted")

CommandInv ==
  /\ pc \in Steps /\ seen \in SeenType
  /\ efi \in [Configs -> [rev : Nat, mtime : Nat]] /\ clock \in Nat /\ source \in Nat
  /\ seen.built => pc \in Ended
  /\ seen.failed /\ cmd # "run" => pc = "idle" /\ exit # 0

IInv == TypeOK /\ ConvertInv /\ CommandInv /\ KernelInv /\ LoaderInv /\ ImageInv

-----------------------------------------------------------------------------
\* Headers, segments and rounding.

\* The fields of a program header.
LEMMA HeaderFields ==
  ASSUME NEW h \in HeaderType
  PROVE  /\ h.load \in BOOLEAN /\ h.x \in BOOLEAN /\ h.w \in BOOLEAN
         /\ h.offset \in Usize /\ h.vaddr \in Usize /\ h.filesz \in Usize /\ h.memsz \in Usize
  BY DEF HeaderType

\* A number of the address space.
LEMMA UsizeFacts ==
  /\ USIZE \in Nat /\ USIZE > 0 /\ PAGE \in Nat \ {0} /\ HEADER_SIZE \in Nat
  /\ SEGMENT_COMMAND \in Nat /\ ENTRY_COMMAND \in Nat
  /\ 0 \in Usize
  /\ \A v \in Usize : v \in Nat /\ v < USIZE
  /\ \A v \in Nat : v < USIZE => v \in Usize
  BY ElfAssumption DEF Usize

\* What Elf::parse returns.
LEMMA ElfFields ==
  ASSUME NEW e \in ElfType
  PROVE  /\ e.valid \in BOOLEAN /\ e.size \in Usize /\ e.entry \in Usize
         /\ e.headers \in Seq(HeaderType) /\ Len(e.headers) \in Nat
         /\ \A k \in 1 .. Len(e.headers) : e.headers[k] \in HeaderType
<1>1. /\ e.valid \in BOOLEAN /\ e.size \in Usize /\ e.entry \in Usize
      /\ e.headers \in Seq(HeaderType)
  BY DEF ElfType
<1>2. QED
  BY <1>1

\* The fields of a segment.
LEMMA SegmentFields ==
  ASSUME NEW s \in SegmentType
  PROVE  /\ s.vmaddr \in Usize /\ s.vmsize \in Usize /\ s.fileoff \in Usize
         /\ s.filesize \in Usize /\ s.source_offset \in Usize
  BY DEF SegmentType

\* The segments of the layout.
LEMMA LayoutFacts ==
  ASSUME layout \in Seq(SegmentType)
  PROVE  /\ Len(layout) \in Nat
         /\ \A i \in 1 .. Len(layout) : layout[i] \in SegmentType
  OBVIOUS

\* The headers that the filter kept.
LEMMA LoadableFacts ==
  ASSUME loadable \in Seq(HeaderType)
  PROVE  /\ Len(loadable) \in Nat
         /\ \A i \in 1 .. Len(loadable) : loadable[i] \in HeaderType
  OBVIOUS

\* align_usize rounds up to less than a page more.
LEMMA AlignFacts ==
  ASSUME NEW v \in Nat
  PROVE  /\ AlignUsize(v) \in Nat /\ v <= AlignUsize(v)
         /\ ~AlignOverflows(v) => AlignUsize(v) \in Usize
<1> DEFINE y == v + PAGE - 1
           q == y \div PAGE
<1>1. y \in Nat /\ PAGE \in Nat \ {0}
  BY UsizeFacts
<1>2. y % PAGE \in 0 .. PAGE - 1 /\ y = PAGE * q + (y % PAGE) /\ q \in Int
  BY <1>1, ModBounds
<1>3. AlignUsize(v) = PAGE * q
  BY <1>2, UsizeFacts DEF AlignUsize
<1>4. PAGE * q <= y /\ v <= PAGE * q /\ PAGE * q \in Int
  BY <1>1, <1>2
<1> HIDE DEF q
<1>5. QED
  BY <1>3, <1>4, UsizeFacts DEF AlignOverflows

\* Where the commands end is a number.
LEMMA CommandsEndFacts ==
  ASSUME loadable \in Seq(HeaderType)
  PROVE  CommandsEnd \in Nat
<1>1. \A n, a \in Nat : n * a \in Nat
  OBVIOUS
<1>2. QED
  BY <1>1, LoadableFacts, UsizeFacts DEF CommandsEnd

\* A segment's name.
LEMMA NameFacts ==
  ASSUME NEW n \in Nat, NEW h
  PROVE  SegmentName(n, h) \in {TEXT, DATA} \union {<<"__SEG", k>> : k \in Nat}
  BY DEF SegmentName

-----------------------------------------------------------------------------
\* The parts of the invariant depend on the variables they name.

LEMMA FilteredSame ==
  ASSUME Filtered, UNCHANGED <<elf, filterVars>>
  PROVE  Filtered'
  BY DEF Filtered, Kept, filterVars

\* A step that leaves the layout alone keeps what is known of it.
LEMMA LaidOutSame ==
  ASSUME LaidOut, UNCHANGED <<filterVars, layout, file_offset>>
  PROVE  LaidOut'
  BY DEF LaidOut, MadeOf, CommandsEnd, filterVars

\* The same for the base address of the text segment.
LEMMA TextFoundSame ==
  ASSUME TextFound, UNCHANGED <<layout, text_base>>
  PROVE  TextFound'
  BY DEF TextFound

\* No segment has been copied yet, or none is copied in this step.
LEMMA CopyingSame ==
  ASSUME Copying, UNCHANGED convertVars
  PROVE  Copying'
  BY DEF Copying, convertVars, filterVars, Cursor, EntryOff

\* What the conversion knows does not change without a step of it.
LEMMA ConvertSame ==
  ASSUME ConvertTypeOK, ConvertInv, UNCHANGED convertVars
  PROVE  ConvertTypeOK' /\ ConvertInv'
<1>1. ConvertTypeOK'
  BY DEF ConvertTypeOK, convertVars, filterVars
<1>2. /\ step = "filter" => Filtered'
      /\ step \in {"layout", "copy"} => Filtered' /\ LaidOut' /\ TextFound'
      /\ step = "copy" => Copying'
  BY FilteredSame, LaidOutSame, TextFoundSame, CopyingSame DEF ConvertInv, convertVars
<1>3. QED
  BY <1>1, <1>2 DEF ConvertInv, convertVars, filterVars

\* Before and after a conversion nothing is known.
LEMMA ConvertIdle ==
  /\ ConvertInit => ConvertTypeOK /\ ConvertInv
  /\ ConvertReturns => ConvertTypeOK' /\ ConvertInv'
<1>1. NoElf \in ElfType /\ Len(NoElf.headers) = 0
  BY UsizeFacts DEF NoElf, ElfType
<1>2. <<>> \in Seq(SegmentType) /\ Len(<<>>) = 0
  OBVIOUS
<1>3. ConvertInit => ConvertTypeOK /\ ConvertInv
  BY <1>1, <1>2, UsizeFacts DEF ConvertInit, ConvertTypeOK, ConvertInv
<1>4. ConvertReturns => ConvertTypeOK' /\ ConvertInv'
  BY <1>1, <1>2, UsizeFacts DEF ConvertReturns, ConvertTypeOK, ConvertInv
<1>5. QED
  BY <1>3, <1>4

-----------------------------------------------------------------------------
\* The steps of the conversion.

\* A conversion that fails keeps its locals.
LEMMA FailStep ==
  ASSUME ConvertTypeOK, ConvertInv, Fail("failed")
  PROVE  ConvertTypeOK' /\ ConvertInv'
<1>1. ConvertTypeOK'
  BY DEF ConvertTypeOK, Fail, filterVars
<1>2. QED
  BY <1>1 DEF ConvertInv, Fail

\* fs::read starts a conversion with nothing filtered or laid out.
LEMMA ReadElfStep ==
  ASSUME ConvertTypeOK, ConvertInv, NEW e \in ElfType, ReadElf(e)
  PROVE  ConvertTypeOK' /\ ConvertInv'
<1>1. Len(e.headers) \in Nat
  BY ElfFields
<1>2. ConvertTypeOK'
  BY <1>1 DEF ConvertTypeOK, ConvertInv, ReadElf, filterVars
<1>3. QED
  BY <1>2 DEF ConvertInv, ReadElf, filterVars

\* Elf::parse gives the headers; none has been filtered yet.
LEMMA ParseElfStep ==
  ASSUME ConvertTypeOK, ConvertInv, ParseElf
  PROVE  ConvertTypeOK' /\ ConvertInv'
<1>1. CASE ~elf.valid
  BY <1>1, FailStep DEF ParseElf
<1>2. CASE elf.valid
  <2>1. /\ step = "parse" /\ step' = "filter"
        /\ UNCHANGED <<elf, filterVars, layout, file_offset, text_base, entryoff, macho, copied>>
    BY <1>2 DEF ParseElf
  <2>2. scanned = 0 /\ loadable = <<>> /\ layout = <<>> /\ text_base = NO_TEXT /\ copied = 0
    BY <2>1 DEF ConvertInv
  <2>3. ConvertTypeOK'
    BY <2>1 DEF ConvertTypeOK, filterVars
  <2>4. Filtered'
    <3>1. <<>> \in Seq(HeaderType) /\ Len(<<>>) = 0
      OBVIOUS
    <3>2. \E m \in [1 .. 0 -> 1 .. 0] : TRUE
      <4>1. [i \in 1 .. 0 |-> i] \in [1 .. 0 -> 1 .. 0]
        OBVIOUS
      <4>2. QED
        BY <4>1
    <3>3. scanned' = 0 /\ loadable' = <<>> /\ Len(loadable') = 0
      BY <2>1, <2>2, <3>1 DEF filterVars
    <3>4. \A m \in [1 .. 0 -> 1 .. 0] : Kept(m)'
      BY <3>3 DEF Kept
    <3>5. QED
      BY <3>1, <3>2, <3>3, <3>4 DEF Filtered
  <2>5. QED
    BY <2>1, <2>2, <2>3, <2>4 DEF ConvertInv, filterVars
<1>3. QED
  BY <1>1, <1>2

\* A header that passes the filter is the next of the loadable ones in the
\* order of the file, so the map from those to the headers stays increasing.
LEMMA FilterHeaderStep ==
  ASSUME ConvertTypeOK, ConvertInv, FilterHeader
  PROVE  ConvertTypeOK' /\ ConvertInv'
<1> DEFINE h == elf.headers[scanned + 1]
           n == Len(loadable)
<1>1. /\ step = "filter" /\ scanned < Len(elf.headers) /\ scanned' = scanned + 1
      /\ loadable' = IF Loadable(h) THEN Append(loadable, h) ELSE loadable
      /\ UNCHANGED <<step, elf, layout, file_offset, text_base, entryoff, macho, copied>>
  BY DEF FilterHeader
<1>2. /\ elf \in ElfType /\ scanned \in Nat /\ Len(elf.headers) \in Nat
      /\ scanned' \in 0 .. Len(elf.headers)
  BY <1>1, ElfFields DEF ConvertTypeOK
<1>3. Filtered /\ layout = <<>> /\ text_base = NO_TEXT /\ copied = 0
  BY <1>1 DEF ConvertInv
<1>4. loadable \in Seq(HeaderType) /\ n \in Nat
  BY <1>3, LoadableFacts DEF Filtered
<1>5. h \in HeaderType
  BY <1>1, <1>2, ElfFields
<1>6. PICK m \in [1 .. n -> 1 .. scanned] : Kept(m)
  BY <1>3 DEF Filtered
<1>7. ASSUME ~Loadable(h)
      PROVE  Filtered'
  <2>1. m \in [1 .. n -> 1 .. scanned + 1] /\ Len(loadable') = n /\ loadable' = loadable
    BY <1>1, <1>2, <1>6, <1>7
  <2>2. \A k \in 1 .. scanned + 1 : k \in 1 .. scanned \/ k = scanned + 1
    BY <1>2
  <2>3. \A i \in 1 .. n : m[i] # scanned + 1
    BY <1>2, <1>6
  <2>4. Kept(m)'
    <3>1. \A k \in 1 .. scanned + 1 :
            Loadable(elf.headers[k]) <=> \E i \in 1 .. n : m[i] = k
      BY <1>6, <1>7, <2>2, <2>3 DEF Kept
    <3>2. QED
      BY <1>1, <1>6, <2>1, <3>1 DEF Kept, Loadable
  <2>5. QED
    BY <1>1, <1>4, <2>1, <2>4 DEF Filtered
<1>8. ASSUME Loadable(h)
      PROVE  Filtered'
  <2>1. loadable' = Append(loadable, h)
    BY <1>1, <1>8
  <2>2. /\ Append(loadable, h) \in Seq(HeaderType) /\ Len(Append(loadable, h)) = n + 1
        /\ Append(loadable, h)[n + 1] = h
        /\ \A i \in 1 .. n : Append(loadable, h)[i] = loadable[i]
    BY <1>4, <1>5
  <2>3. PICK f \in [1 .. n + 1 -> 1 .. scanned + 1] :
          f[n + 1] = scanned + 1 /\ \A i \in 1 .. n : f[i] = m[i]
    <3> DEFINE g == [i \in 1 .. n + 1 |-> IF i = n + 1 THEN scanned + 1 ELSE m[i]]
    <3>1. g \in [1 .. n + 1 -> 1 .. scanned + 1]
      BY <1>2, <1>4, <1>6
    <3>2. g[n + 1] = scanned + 1 /\ \A i \in 1 .. n : g[i] = m[i]
      BY <1>4
    <3>3. QED
      BY <3>1, <3>2
  <2>4. \A i \in 1 .. n + 1 : i \in 1 .. n \/ i = n + 1
    BY <1>4
  <2>5. \A k \in 1 .. scanned + 1 : k \in 1 .. scanned \/ k = scanned + 1
    BY <1>2
  <2>6. \A i \in 1 .. n : m[i] \in 1 .. scanned /\ m[i] # scanned + 1 /\ m[i] < scanned + 1
    BY <1>2, <1>6
  <2>7. \A i, j \in 1 .. n + 1 : i < j => f[i] < f[j]
    <3>1. SUFFICES ASSUME NEW i \in 1 .. n + 1, NEW j \in 1 .. n + 1, i < j
                   PROVE  f[i] < f[j]
      OBVIOUS
    <3>2. i \in 1 .. n
      BY <1>4, <3>1
    <3>3. QED
      BY <1>6, <2>3, <2>4, <2>6, <3>1, <3>2 DEF Kept
  <2>8. \A k \in 1 .. scanned + 1 :
          Loadable(elf.headers[k]) <=> \E i \in 1 .. n + 1 : f[i] = k
    <3>1. SUFFICES ASSUME NEW k \in 1 .. scanned + 1
                   PROVE  Loadable(elf.headers[k]) <=> \E i \in 1 .. n + 1 : f[i] = k
      OBVIOUS
    <3>2. CASE k = scanned + 1
      <4>1. n + 1 \in 1 .. n + 1
        BY <1>4
      <4>2. QED
        BY <1>8, <2>3, <3>2, <4>1
    <3>3. CASE k \in 1 .. scanned
      <4>1. Loadable(elf.headers[k]) <=> \E i \in 1 .. n : m[i] = k
        BY <1>6, <3>3 DEF Kept
      <4>2. k # scanned + 1
        BY <1>2, <3>3
      <4>3. (\E i \in 1 .. n : m[i] = k) <=> \E i \in 1 .. n + 1 : f[i] = k
        <5>1. \A i \in 1 .. n : i \in 1 .. n + 1
          BY <1>4
        <5>2. QED
          BY <2>3, <2>4, <4>2, <5>1
      <4>4. QED
        BY <4>1, <4>3
    <3>4. QED
      BY <2>5, <3>2, <3>3
  <2>9. \A i \in 1 .. n + 1 : Append(loadable, h)[i] = elf.headers[f[i]]
    BY <1>6, <2>2, <2>3, <2>4 DEF Kept
  <2>10. Kept(f)'
    <3>1. Len(loadable') = n + 1 /\ scanned' = scanned + 1 /\ elf' = elf
      BY <1>1, <2>1, <2>2
    <3>2. \A i \in 1 .. Len(loadable') : loadable'[i] = elf'.headers[f[i]]
      BY <2>1, <2>9, <3>1
    <3> HIDE DEF n
    <3>3. \A i, j \in 1 .. Len(loadable') : i < j => f[i] < f[j]
      BY <2>7, <3>1
    <3>4. \A k \in 1 .. scanned' :
            Loadable(elf'.headers[k]) <=> \E i \in 1 .. Len(loadable') : f[i] = k
      BY <2>8, <3>1
    <3>5. QED
      BY <3>2, <3>3, <3>4 DEF Kept, Loadable
  <2>11. QED
    BY <1>1, <2>1, <2>2, <2>3, <2>10 DEF Filtered
<1>9. Filtered'
  BY <1>7, <1>8
<1>10. ConvertTypeOK'
  BY <1>1, <1>2 DEF ConvertTypeOK
<1>11. QED
  BY <1>1, <1>3, <1>9, <1>10 DEF ConvertInv

\* The first segment goes behind the space computed for the commands.
LEMMA SizeCommandsStep ==
  ASSUME ConvertTypeOK, ConvertInv, SizeCommands
  PROVE  ConvertTypeOK' /\ ConvertInv'
<1>1. CASE loadable = <<>> \/ AlignOverflows(CommandsEnd)
  BY <1>1, FailStep DEF SizeCommands
<1>2. CASE ~(loadable = <<>> \/ AlignOverflows(CommandsEnd))
  <2>1. /\ step = "filter" /\ step' = "layout" /\ scanned = Len(elf.headers)
        /\ file_offset' = AlignUsize(CommandsEnd)
        /\ UNCHANGED <<elf, filterVars, layout, text_base, entryoff, macho, copied>>
    BY <1>2 DEF SizeCommands
  <2>2. Filtered /\ layout = <<>> /\ text_base = NO_TEXT /\ copied = 0
    BY <2>1 DEF ConvertInv
  <2>3. loadable \in Seq(HeaderType) /\ Len(loadable) \in Nat /\ CommandsEnd \in Nat
    BY <2>2, LoadableFacts, CommandsEndFacts DEF Filtered
  <2>4. file_offset' \in Usize /\ CommandsEnd <= file_offset'
    BY <1>2, <2>1, <2>3, AlignFacts
  <2>5. ConvertTypeOK'
    BY <2>1, <2>4 DEF ConvertTypeOK, filterVars
  <2>6. Filtered'
    BY <2>1, <2>2, FilteredSame
  <2>7. Len(layout') = 0 /\ UNCHANGED CommandsEnd
    BY <2>1, <2>2 DEF CommandsEnd, filterVars
  <2>8. LaidOut'
    <3>1. loadable' = loadable /\ CommandsEnd' <= file_offset' /\ Len(layout') <= Len(loadable')
      BY <2>1, <2>3, <2>4, <2>7 DEF filterVars
    <3>2. \A i \in 1 .. Len(layout') : FALSE
      BY <2>7
    <3>3. QED
      BY <3>1, <3>2 DEF LaidOut
  <2>9. TextFound'
    BY <2>1, <2>2, <2>7 DEF TextFound
  <2>10. QED
    BY <2>1, <2>2, <2>5, <2>6, <2>8, <2>9 DEF ConvertInv, filterVars
<1>3. QED
  BY <1>1, <1>2

\* A segment is laid out at file_offset, which is rounded up to a page at or
\* behind the end of the last one: the layout stays ascending.
LEMMA LayOutSegmentStep ==
  ASSUME ConvertTypeOK, ConvertInv, LayOutSegment
  PROVE  ConvertTypeOK' /\ ConvertInv'
<1> DEFINE n == Len(layout)
           h == loadable[n + 1]
           off == AlignUsize(file_offset)
           name == SegmentName(n, h)
           s == [segname |-> name, vmaddr |-> h.vaddr, vmsize |-> h.memsz,
                 fileoff |-> off, filesize |-> h.filesz, source_offset |-> h.offset]
           refused == AlignOverflows(file_offset) \/ off + h.filesz >= USIZE
<1>1. CASE refused
  BY <1>1, FailStep DEF LayOutSegment
<1>2. CASE ~refused
  <2>1. /\ step = "layout" /\ n < Len(loadable) /\ layout' = Append(layout, s)
        /\ text_base' = IF name = TEXT THEN [vmaddr |-> h.vaddr, fileoff |-> off]
                        ELSE text_base
        /\ file_offset' = off + h.filesz
        /\ UNCHANGED <<step, elf, filterVars, entryoff, macho, copied>>
    BY <1>2 DEF LayOutSegment
  <2>2. /\ Filtered /\ scanned = Len(elf.headers) /\ LaidOut /\ TextFound /\ copied = 0
        /\ layout \in Seq(SegmentType)
    BY <2>1 DEF ConvertInv
  <2>3. /\ loadable \in Seq(HeaderType) /\ Len(loadable) \in Nat /\ CommandsEnd \in Nat
        /\ n \in Nat /\ \A i \in 1 .. n : layout[i] \in SegmentType
    BY <2>2, LoadableFacts, CommandsEndFacts, LayoutFacts DEF Filtered
  <2>4. h \in HeaderType
    BY <2>1, <2>3, LoadableFacts
  <2>5. /\ h.offset \in Usize /\ h.vaddr \in Usize /\ h.filesz \in Usize /\ h.memsz \in Usize
        /\ h.filesz \in Nat /\ file_offset \in Usize /\ file_offset \in Nat
    BY <2>4, HeaderFields, UsizeFacts DEF ConvertTypeOK
  <2>6. off \in Usize /\ off \in Nat /\ file_offset <= off
    BY <1>2, <2>5, AlignFacts
  <2>7. file_offset' \in Usize /\ off <= file_offset' /\ file_offset' \in Nat
    BY <1>2, <2>1, <2>5, <2>6, UsizeFacts
  <2>8. name \in {TEXT, DATA} \union {<<"__SEG", k>> : k \in Nat}
    BY <2>3, NameFacts
  <2> HIDE DEF name, off, h, n
  <2>9. s \in SegmentType
    BY <2>5, <2>6, <2>8 DEF SegmentType
  <2>10. /\ s.segname = name /\ s.vmaddr = h.vaddr /\ s.vmsize = h.memsz /\ s.fileoff = off
         /\ s.filesize = h.filesz /\ s.source_offset = h.offset
    OBVIOUS
  <2> HIDE DEF s
  <2>11. /\ layout' \in Seq(SegmentType) /\ Len(layout') = n + 1 /\ layout'[n + 1] = s
         /\ \A i \in 1 .. n : layout'[i] = layout[i]
    BY <2>1, <2>2, <2>3, <2>9 DEF n
  <2>12. \A i \in 1 .. n + 1 : i \in 1 .. n \/ i = n + 1
    BY <2>3
  <2>13. UNCHANGED <<loadable, scanned, CommandsEnd>>
    BY <2>1 DEF filterVars, CommandsEnd
  <2>14. \A i \in 1 .. n :
           /\ layout[i].fileoff \in Nat /\ layout[i].filesize \in Nat /\ layout[i].fileoff \in Usize
           /\ MadeOf(i) /\ CommandsEnd <= layout[i].fileoff
           /\ layout[i].fileoff + layout[i].filesize <= file_offset
    BY <2>2, <2>3, SegmentFields, UsizeFacts DEF LaidOut, n
  <2>15. ConvertTypeOK'
    <3>1. \A i \in 1 .. Len(layout') : layout'[i].fileoff \in Usize
      BY <2>6, <2>10, <2>11, <2>12, <2>14
    <3>2. text_base' # NO_TEXT => text_base'.vmaddr \in Usize /\ text_base'.fileoff \in Usize
      BY <2>1, <2>5, <2>6 DEF ConvertTypeOK
    <3>3. copied' \in 0 .. Len(layout')
      BY <2>1, <2>2, <2>3, <2>11
    <3>4. QED
      BY <2>1, <2>7, <2>13, <3>1, <3>2, <3>3 DEF ConvertTypeOK
  <2>16. LaidOut'
    <3>1. Len(layout') <= Len(loadable')
      BY <2>1, <2>3, <2>11, <2>13
    <3>2. CommandsEnd' <= file_offset'
      BY <2>2, <2>3, <2>5, <2>6, <2>7, <2>13 DEF LaidOut
    <3>3. \A i \in 1 .. n : MadeOf(i)'
      BY <2>11, <2>13, <2>14 DEF MadeOf
    <3>4. \A i : i = n + 1 => MadeOf(i)'
      BY <2>3, <2>10, <2>11, <2>13 DEF MadeOf, h, name
    <3>5. \A i \in 1 .. n + 1 :
             /\ CommandsEnd' <= layout'[i].fileoff
             /\ layout'[i].fileoff + layout'[i].filesize <= file_offset'
      <4>1. ASSUME NEW i \in 1 .. n
            PROVE  /\ CommandsEnd' <= layout'[i].fileoff
                   /\ layout'[i].fileoff + layout'[i].filesize <= file_offset'
        <5>1. layout'[i] = layout[i] /\ CommandsEnd' = CommandsEnd
          BY <2>11, <2>13
        <5>2. /\ CommandsEnd <= layout[i].fileoff
              /\ layout[i].fileoff + layout[i].filesize <= file_offset
              /\ layout[i].fileoff \in Nat /\ layout[i].filesize \in Nat
          BY <2>14
        <5>3. file_offset <= file_offset' /\ file_offset \in Nat /\ file_offset' \in Nat
          BY <2>5, <2>6, <2>7
        <5>4. QED
          BY <5>1, <5>2, <5>3
      <4>2. /\ CommandsEnd' <= layout'[n + 1].fileoff
            /\ layout'[n + 1].fileoff + layout'[n + 1].filesize <= file_offset'
        BY <2>1, <2>2, <2>3, <2>5, <2>6, <2>7, <2>10, <2>11, <2>13 DEF LaidOut
      <4>3. QED
        BY <2>12, <4>1, <4>2
    <3>6. \A i, j \in 1 .. n + 1 :
             i < j => layout'[i].fileoff + layout'[i].filesize <= layout'[j].fileoff
      <4>1. SUFFICES ASSUME NEW i \in 1 .. n + 1, NEW j \in 1 .. n + 1, i < j
                     PROVE  layout'[i].fileoff + layout'[i].filesize <= layout'[j].fileoff
        OBVIOUS
      <4>2. i \in 1 .. n
        BY <2>3, <4>1
      <4>3. CASE j \in 1 .. n
        BY <2>2, <2>11, <4>1, <4>2, <4>3 DEF LaidOut, n
      <4>4. CASE j = n + 1
        BY <2>5, <2>6, <2>10, <2>11, <2>14, <4>2, <4>4
      <4>5. QED
        BY <2>12, <4>3, <4>4
    <3>7. QED
      BY <2>11, <2>12, <3>1, <3>2, <3>3, <3>4, <3>5, <3>6 DEF LaidOut
  <2>17. TextFound'
    <3>1. CASE name = TEXT
      <4>1. n + 1 \in 1 .. n + 1
        BY <2>3
      <4>2. QED
        BY <2>1, <2>10, <2>11, <3>1, <4>1 DEF TextFound
    <3>2. CASE name # TEXT
      <4>1. CASE text_base = NO_TEXT /\ \A i \in 1 .. n : layout[i].segname # TEXT
        BY <2>1, <2>10, <2>11, <2>12, <3>2, <4>1 DEF TextFound
      <4>2. CASE \E i \in 1 .. n :
                   /\ layout[i].segname = TEXT
                   /\ text_base = [vmaddr |-> layout[i].vmaddr, fileoff |-> layout[i].fileoff]
        <5>1. \A i \in 1 .. n : i \in 1 .. n + 1
          BY <2>3
        <5>2. QED
          BY <2>1, <2>11, <3>2, <4>2, <5>1 DEF TextFound
      <4>3. QED
        BY <2>2, <4>1, <4>2 DEF TextFound, n
    <3>3. QED
      BY <3>1, <3>2
  <2>18. Filtered'
    BY <2>1, <2>2, FilteredSame
  <2>19. QED
    BY <2>1, <2>2, <2>11, <2>13, <2>15, <2>16, <2>17, <2>18 DEF ConvertInv
<1>3. QED
  BY <1>1, <1>2

\* Writing the commands never leaves the buffer: they end where was computed.
LEMMA WriteCommandsStep ==
  ASSUME ConvertTypeOK, ConvertInv, WriteCommands
  PROVE  ConvertTypeOK' /\ ConvertInv'
<1>1. step = "layout" /\ Len(layout) = Len(loadable)
  BY DEF WriteCommands
<1>2. /\ Filtered /\ scanned = Len(elf.headers) /\ LaidOut /\ TextFound /\ copied = 0
      /\ layout \in Seq(SegmentType)
  BY <1>1 DEF ConvertInv
<1>3. CommandsEnd \in Nat /\ Cursor = CommandsEnd /\ file_offset \in Nat
  BY <1>1, <1>2, CommandsEndFacts, UsizeFacts DEF Filtered, Cursor, CommandsEnd, ConvertTypeOK
<1>4. ~(Cursor > file_offset)
  BY <1>2, <1>3 DEF LaidOut
<1>5. CASE text_base = NO_TEXT \/ EntryOff < 0
  BY <1>5, FailStep DEF WriteCommands
<1>6. CASE text_base # NO_TEXT /\ ~(EntryOff < 0)
  <2>1. /\ step' = "copy" /\ entryoff' = EntryOff
        /\ macho' = [o \in 0 .. file_offset - 1 |-> IF o < Cursor THEN COMMAND ELSE ZERO]
        /\ UNCHANGED <<elf, filterVars, layout, file_offset, text_base, copied>>
    BY <1>4, <1>6 DEF WriteCommands
  <2>2. EntryOff \in Usize
    <3>1. elf.entry \in Nat /\ elf.entry < USIZE
      BY ElfFields, UsizeFacts DEF ConvertTypeOK
    <3>2. text_base.vmaddr \in Nat /\ text_base.fileoff \in Nat
      BY <1>6, UsizeFacts DEF ConvertTypeOK
    <3>3. EntryOff \in Int /\ EntryOff <= elf.entry
      BY <3>1, <3>2 DEF EntryOff, SatSub
    <3>4. QED
      BY <1>6, <3>1, <3>3, UsizeFacts
  <2>3. ConvertTypeOK'
    BY <2>1, <2>2 DEF ConvertTypeOK, filterVars
  <2>4. UNCHANGED <<EntryOff, Cursor, loadable, scanned>>
    BY <2>1 DEF EntryOff, Cursor, filterVars
  <2>5. Copying'
    <3>1. \A o \in 0 .. Cursor - 1 : macho'[o] = COMMAND
      BY <1>3, <1>4, <2>1
    <3>2. DOMAIN macho' = 0 .. file_offset' - 1
      BY <2>1
    <3>3. \A i \in 1 .. copied' : FALSE
      BY <1>2, <2>1
    <3>4. QED
      BY <1>1, <1>6, <2>1, <2>4, <3>1, <3>2, <3>3 DEF Copying
  <2>6. Filtered' /\ LaidOut' /\ TextFound'
    BY <1>2, <2>1, FilteredSame, LaidOutSame, TextFoundSame
  <2>7. QED
    BY <1>2, <2>1, <2>3, <2>4, <2>5, <2>6 DEF ConvertInv
<1>7. QED
  BY <1>5, <1>6

\* What the copy of a segment keeps: the commands and the segments before it.
LEMMA CopySegmentDataStep ==
  ASSUME ConvertTypeOK, ConvertInv, CopySegmentData
  PROVE  ConvertTypeOK' /\ ConvertInv'
<1> DEFINE s == layout[copied + 1]
           end == s.fileoff + s.filesize
<1>1. step = "copy" /\ copied < Len(layout) /\ copied \in Nat
  BY DEF CopySegmentData, ConvertTypeOK
<1>2. /\ Filtered /\ scanned = Len(elf.headers) /\ LaidOut /\ TextFound /\ Copying
      /\ layout \in Seq(SegmentType)
  BY <1>1 DEF ConvertInv
<1>3. Len(layout) \in Nat /\ copied + 1 \in 1 .. Len(layout)
  BY <1>1, <1>2, LayoutFacts
<1>4. \A i \in 1 .. Len(layout) :
        /\ layout[i].fileoff \in Nat /\ layout[i].filesize \in Nat /\ layout[i].source_offset \in Nat
        /\ layout[i].fileoff + layout[i].filesize <= file_offset
        /\ CommandsEnd <= layout[i].fileoff
  BY <1>2, LayoutFacts, SegmentFields, UsizeFacts DEF LaidOut
<1>5. file_offset \in Nat /\ file_offset < USIZE /\ USIZE \in Nat
  BY UsizeFacts DEF ConvertTypeOK
<1>6. end <= file_offset /\ ~(end >= USIZE) /\ ~(end > file_offset)
  BY <1>3, <1>4, <1>5
<1>7. CASE s.source_offset + s.filesize >= USIZE
  BY <1>7, FailStep DEF CopySegmentData
<1>8. CASE s.source_offset + s.filesize < USIZE /\ s.source_offset + s.filesize > elf.size
  <2>1. Fail("panicked")
    BY <1>3, <1>4, <1>5, <1>6, <1>8 DEF CopySegmentData
  <2>2. /\ step' = "panicked"
        /\ UNCHANGED <<elf, filterVars, layout, file_offset, text_base, entryoff, macho, copied>>
    BY <2>1 DEF Fail
  <2>3. ConvertTypeOK'
    BY <2>2 DEF ConvertTypeOK, filterVars
  <2>4. PICK m \in [1 .. Len(loadable) -> 1 .. scanned] : Kept(m)
    BY <1>2 DEF Filtered
  <2>5. copied + 1 \in 1 .. Len(loadable)
    BY <1>2, <1>3 DEF Copying
  <2>6. MadeOf(copied + 1)
    BY <1>2, <1>3 DEF LaidOut
  <2>7. m[copied + 1] \in 1 .. Len(elf.headers)
    BY <1>2, <2>4, <2>5
  <2>8. Loadable(elf.headers[m[copied + 1]])
    BY <1>2, <2>4, <2>5, <2>7 DEF Kept
  <2>9. elf.headers[m[copied + 1]].offset + elf.headers[m[copied + 1]].filesz > elf.size
    BY <1>8, <2>4, <2>5, <2>6 DEF Kept, MadeOf
  <2>10. \E i \in 1 .. Len(elf.headers) :
           Loadable(elf.headers[i]) /\ elf.headers[i].offset + elf.headers[i].filesz > elf.size
    BY <2>7, <2>8, <2>9
  <2>11. QED
    BY <1>2, <2>2, <2>3, <2>10 DEF ConvertInv, Loadable
<1>9. CASE ~(s.source_offset + s.filesize >= USIZE) /\ ~(s.source_offset + s.filesize > elf.size)
  <2>1. /\ macho' = [o \in DOMAIN macho |->
                       IF o \in s.fileoff .. end - 1
                         THEN s.source_offset + (o - s.fileoff) ELSE macho[o]]
        /\ copied' = copied + 1
        /\ UNCHANGED <<step, elf, filterVars, layout, file_offset, text_base, entryoff>>
    BY <1>6, <1>9 DEF CopySegmentData
  <2>2. ConvertTypeOK'
    BY <1>3, <2>1 DEF ConvertTypeOK, filterVars
  <2>3. UNCHANGED <<EntryOff, Cursor, loadable, scanned>>
    BY <2>1 DEF EntryOff, Cursor, filterVars
  <2>4. DOMAIN macho = 0 .. file_offset - 1 /\ DOMAIN macho' = 0 .. file_offset - 1
    BY <1>2, <2>1 DEF Copying
  <2>5. Cursor = CommandsEnd /\ CommandsEnd \in Nat /\ CommandsEnd <= file_offset
    BY <1>2, CommandsEndFacts DEF Cursor, CommandsEnd, Copying, LaidOut, Filtered
  <2>6. s.fileoff \in Nat /\ s.filesize \in Nat /\ s.source_offset \in Nat /\ CommandsEnd <= s.fileoff
    BY <1>3, <1>4
  <2> HIDE DEF s
  <2>7. ASSUME NEW o \in 0 .. Cursor - 1
        PROVE  macho'[o] = COMMAND
    <3>1. o \in DOMAIN macho /\ ~(o \in s.fileoff .. end - 1)
      BY <1>5, <2>4, <2>5, <2>6
    <3>2. macho[o] = COMMAND
      BY <1>2 DEF Copying
    <3>3. QED
      BY <2>1, <3>1, <3>2
  <2>8. ASSUME NEW i \in 1 .. copied, NEW k \in 0 .. layout[i].filesize - 1
        PROVE  macho'[layout[i].fileoff + k] = layout[i].source_offset + k
    <3>1. /\ i \in 1 .. Len(layout) /\ i < copied + 1
          /\ layout[i].fileoff \in Nat /\ layout[i].filesize \in Nat
      BY <1>1, <1>3, <1>4
    <3>2. layout[i].fileoff + layout[i].filesize <= s.fileoff
      BY <1>2, <1>3, <3>1 DEF LaidOut, s
    <3>3. layout[i].fileoff + layout[i].filesize <= file_offset
      BY <1>4, <3>1
    <3>4. /\ layout[i].fileoff + k \in 0 .. file_offset - 1
          /\ ~(layout[i].fileoff + k \in s.fileoff .. end - 1)
      <4>1. ASSUME NEW x \in Nat, NEW y \in Nat, NEW z \in Nat, NEW j \in 0 .. y - 1,
                   x + y <= z, x + y <= file_offset
            PROVE  x + j \in 0 .. file_offset - 1 /\ x + j < z /\ x + j \in Int
        BY <1>5, <4>1
      <4>2. /\ layout[i].fileoff + k \in 0 .. file_offset - 1
            /\ layout[i].fileoff + k < s.fileoff /\ layout[i].fileoff + k \in Int
        BY <2>6, <3>1, <3>2, <3>3, <4>1
      <4>3. QED
        BY <2>6, <4>2
    <3>5. macho[layout[i].fileoff + k] = layout[i].source_offset + k
      BY <1>2 DEF Copying
    <3>6. QED
      BY <2>1, <2>4, <3>4, <3>5
  <2>9. ASSUME NEW k \in 0 .. s.filesize - 1
        PROVE  macho'[s.fileoff + k] = s.source_offset + k
    <3>1. s.fileoff + k \in 0 .. file_offset - 1 /\ s.fileoff + k \in s.fileoff .. end - 1
      BY <1>5, <1>6, <2>6
    <3>2. s.source_offset + ((s.fileoff + k) - s.fileoff) = s.source_offset + k
      BY <2>6
    <3>3. QED
      BY <2>1, <2>4, <3>1, <3>2
  <2>10. \A i \in 1 .. copied + 1 : i \in 1 .. copied \/ i = copied + 1
    BY <1>1
  <2>11. \A i \in 1 .. copied + 1 : \A k \in 0 .. layout[i].filesize - 1 :
            macho'[layout[i].fileoff + k] = layout[i].source_offset + k
    BY <2>8, <2>9, <2>10 DEF s
  <2>12. Copying'
    BY <1>2, <2>1, <2>3, <2>4, <2>7, <2>11 DEF Copying
  <2>13. Filtered' /\ LaidOut' /\ TextFound'
    BY <1>2, <2>1, FilteredSame, LaidOutSame, TextFoundSame
  <2>14. QED
    BY <1>1, <1>2, <2>1, <2>2, <2>3, <2>12, <2>13 DEF ConvertInv
<1>10. QED
  <2>1. s.source_offset \in Nat /\ s.filesize \in Nat /\ elf.size \in Nat
    BY <1>3, <1>4, ElfFields, UsizeFacts DEF ConvertTypeOK
  <2>2. QED
    BY <1>5, <1>7, <1>8, <1>9, <2>1

\* Every step of the conversion keeps what is known of it.
LEMMA ConvertStepStep ==
  ASSUME ConvertTypeOK, ConvertInv, ConvertStep
  PROVE  ConvertTypeOK' /\ ConvertInv'
  BY ParseElfStep, FilterHeaderStep, SizeCommandsStep, LayOutSegmentStep, WriteCommandsStep,
     CopySegmentDataStep DEF ConvertStep

\* A finite set with one element.
LEMMA OneElement ==
  ASSUME NEW S, IsFiniteSet(S), Cardinality(S) = 1, NEW x \in S
  PROVE  S = {x}
  BY FS_Singleton

\* The file written after the last copy holds the segments of the ELF and is
\* entered where the ELF is.
LEMMA ConvertedGood ==
  ASSUME ConvertTypeOK, ConvertInv, Converted
  PROVE  Good(MachOFile, elf)
<1> DEFINE f == MachOFile
<1>1. f.segments = layout /\ f.bytes = macho /\ f.entryoff = entryoff
  BY DEF MachOFile
<1> HIDE DEF f
<1>2. /\ step = "copy" /\ copied = Len(layout)
      /\ Filtered /\ scanned = Len(elf.headers) /\ LaidOut /\ TextFound /\ Copying
      /\ layout \in Seq(SegmentType) /\ Len(layout) = Len(loadable)
  BY DEF Converted, ConvertInv, Copying
<1>3. /\ Len(layout) \in Nat /\ Len(elf.headers) \in Nat
      /\ \A k \in 1 .. Len(elf.headers) : elf.headers[k].memsz \in Nat
  BY <1>2, LayoutFacts, ElfFields, HeaderFields, UsizeFacts DEF ConvertTypeOK
<1>4. PICK m \in [1 .. Len(layout) -> 1 .. Len(elf.headers)] : Kept(m)
  BY <1>2 DEF Filtered
<1>5. Carries(f, elf)
  <2>1. Lists(m, Len(layout), elf)
    <3>1. \A k \in 1 .. Len(elf.headers) :
            (elf.headers[k].load /\ elf.headers[k].memsz > 0) <=> Loadable(elf.headers[k])
      BY <1>3 DEF Loadable
    <3>2. QED
      BY <1>2, <1>4, <3>1 DEF Kept, Lists
  <2>2. ASSUME NEW i \in 1 .. Len(layout)
        PROVE  /\ layout[i].vmaddr = elf.headers[m[i]].vaddr
               /\ layout[i].vmsize = elf.headers[m[i]].memsz
               /\ layout[i].filesize = elf.headers[m[i]].filesz
               /\ \A k \in 0 .. layout[i].filesize - 1 :
                    macho[layout[i].fileoff + k] = elf.headers[m[i]].offset + k
    <3>1. MadeOf(i) /\ loadable[i] = elf.headers[m[i]]
      BY <1>2, <1>4 DEF LaidOut, Kept
    <3>2. \A k \in 0 .. layout[i].filesize - 1 :
             macho[layout[i].fileoff + k] = layout[i].source_offset + k
      BY <1>2 DEF Copying
    <3>3. QED
      BY <3>1, <3>2 DEF MadeOf
  <2>3. QED
    BY <1>1, <1>4, <2>1, <2>2 DEF Carries
<1>6. ASSUME LinkedAsScript(f)
      PROVE  GoblinEntry(f) = elf.entry
  <2> DEFINE texts == {i \in 1 .. Len(layout) : layout[i].segname = TEXT}
  <2>1. /\ Cardinality(texts) = 1
        /\ \A i \in 1 .. Len(layout) : layout[i].vmaddr >= layout[i].fileoff
    BY <1>1, <1>6 DEF LinkedAsScript
  <2>2. PICK i \in 1 .. Len(layout) :
          /\ layout[i].segname = TEXT
          /\ text_base = [vmaddr |-> layout[i].vmaddr, fileoff |-> layout[i].fileoff]
    BY <1>2 DEF TextFound, Copying
  <2>3. texts = {i}
    <3>1. IsFiniteSet(1 .. Len(layout))
      <4>1. 1 \in Int /\ Len(layout) \in Int
        BY <1>3
      <4>2. QED
        BY <4>1, FS_Interval
    <3>2. IsFiniteSet(texts) /\ i \in texts
      BY <2>2, <3>1, FS_Subset
    <3>3. QED
      BY <2>1, <3>2, OneElement
  <2>4. Min(texts) = i
    <3>1. {i} \in SUBSET Nat /\ {i} # {}
      BY <1>3
    <3>2. Min({i}) \in {i}
      BY <3>1, MinOfNats
    <3>3. QED
      BY <2>3, <3>2
  <2>5. GoblinEntry(f) = layout[i].vmaddr - layout[i].fileoff + entryoff
    BY <1>1, <2>4 DEF GoblinEntry
  <2>6. /\ layout[i].vmaddr \in Nat /\ layout[i].fileoff \in Nat /\ elf.entry \in Nat
        /\ layout[i].vmaddr >= layout[i].fileoff
    BY <1>2, <2>1, LayoutFacts, SegmentFields, ElfFields, UsizeFacts DEF ConvertTypeOK
  <2>7. entryoff = elf.entry - SatSub(layout[i].vmaddr, layout[i].fileoff)
    BY <1>2, <2>2 DEF Copying, EntryOff
  <2>8. SatSub(layout[i].vmaddr, layout[i].fileoff) = layout[i].vmaddr - layout[i].fileoff
    BY <2>6 DEF SatSub
  <2>9. QED
    BY <2>5, <2>6, <2>7, <2>8
<1>7. f \notin {ABSENT, PARTIAL}
  <2>1. "segments" \in DOMAIN f /\ "segments" \notin DOMAIN ABSENT /\ "segments" \notin DOMAIN PARTIAL
    BY DEF f, MachOFile, ABSENT, PARTIAL
  <2>2. QED
    BY <2>1
<1>8. QED
  BY <1>5, <1>6, <1>7 DEF Good, f

-----------------------------------------------------------------------------
\* What a step of the command leaves as it is.

\* Sources grow, and a command that was disturbed stays so.
SeenStays ==
  /\ source' \in Nat /\ source <= source' /\ history' = history
  /\ seen'.kernel = seen.kernel /\ (seen.disturbed => seen'.disturbed)

\* A revision of the kernel that is current stays so while sources are edited.
LEMMA CurrentStays ==
  ASSUME source \in Nat, SeenStays, NEW r, Current(r)
  PROVE  r \in 1 .. source' /\ Current(r)'
<1>1. r \in 1 .. source /\ (~seen.disturbed => r = seen.kernel)
  BY DEF Current
<1>2. r \in 1 .. source'
  BY <1>1 DEF SeenStays
<1>3. QED
  BY <1>1, <1>2 DEF Current, SeenStays

\* The ELF read by the conversion stays one of a current revision.
LEMMA ElfReadStays ==
  ASSUME source \in Nat, SeenStays, ElfRead, elf' = elf
  PROVE  ElfRead'
<1>1. PICK r \in 1 .. source : elf = history[r] /\ Current(r)
  BY DEF ElfRead
<1>2. r \in 1 .. source' /\ Current(r)'
  BY <1>1, CurrentStays
<1>3. QED
  BY <1>1, <1>2 DEF ElfRead, SeenStays

\* So does the copy in the bundle.
LEMMA ElfHeldStays ==
  ASSUME source \in Nat, SeenStays, ElfHeld, files'["kernel.elf"] = files["kernel.elf"]
  PROVE  ElfHeld'
<1>1. PICK r \in 1 .. source : files["kernel.elf"] = [rev |-> r] /\ Current(r)
  BY DEF ElfHeld
<1>2. r \in 1 .. source' /\ Current(r)'
  BY <1>1, CurrentStays
<1>3. QED
  BY <1>1, <1>2 DEF ElfHeld

\* So does the Mach-O file made of it.
LEMMA MachOHeldStays ==
  ASSUME source \in Nat, SeenStays, MachOHeld, files'["kernel.macho"] = files["kernel.macho"]
  PROVE  MachOHeld'
<1>1. PICK r \in 1 .. source : Good(files["kernel.macho"], history[r]) /\ Current(r)
  BY DEF MachOHeld
<1>2. r \in 1 .. source' /\ Current(r)'
  BY <1>1, CurrentStays
<1>3. Good(files'["kernel.macho"], history'[r])
  BY <1>1 DEF SeenStays
<1>4. QED
  BY <1>2, <1>3 DEF MachOHeld

\* A step after which no more is claimed of the kernel's files.
LEMMA KernelSame ==
  ASSUME source \in Nat, SeenStays, KernelInv, kernel_elf' = kernel_elf,
         seen'.built = seen.built,
         step' # "idle" => step # "idle" /\ elf' = elf,
         \A p \in {"kernel.elf", "kernel.macho", "KERNEL"} : files'[p] = files[p],
         pc' \in AfterKernel => pc \in AfterKernel,
         pc' \in AfterElf => pc \in AfterElf,
         pc' \in AfterMachO => pc \in AfterMachO,
         pc' \in {"startup", "unmount"} => pc \in {"startup", "unmount"}
  PROVE  KernelInv'
<1>1. step' # "idle" => ElfRead'
  BY ElfReadStays DEF KernelInv
<1>2. pc' \in AfterKernel => Current(kernel_elf)'
  <2>1. ASSUME pc' \in AfterKernel
        PROVE  Current(kernel_elf)'
    <3>1. PICK r : r = kernel_elf
      OBVIOUS
    <3>2. Current(r)
      BY <2>1, <3>1 DEF KernelInv
    <3>3. Current(r)'
      BY <3>2, CurrentStays
    <3>4. QED
      BY <3>1, <3>3 DEF Current
  <2>2. QED
    BY <2>1
<1>3. pc' \in AfterElf \/ seen'.built => ElfHeld'
  BY ElfHeldStays DEF KernelInv
<1>4. pc' \in AfterMachO \/ seen'.built => MachOHeld'
  BY MachOHeldStays DEF KernelInv
<1>5. QED
  BY <1>1, <1>2, <1>3, <1>4 DEF KernelInv, AfterKernel, AfterElf, AfterMachO, AfterDiscover, AfterEfi, AfterGpt, AfterFat

\* A step after which no more is claimed of the loader's files.
LEMMA LoaderSame ==
  ASSUME LoaderInv, UNCHANGED <<seen, efi, clock, loader_efi>>,
         \A p \in {"BOOTAA64.EFI", "EFI/BOOT/BOOTAA64.EFI"} : files'[p] = files[p],
         pc' \in AfterLoader => pc \in AfterLoader,
         pc' \in AfterDiscover => pc \in AfterDiscover,
         pc' \in AfterEfi => pc \in AfterEfi,
         pc' \in AfterLoaderFile => pc \in AfterLoaderFile
  PROVE  LoaderInv'
<1>1. UNCHANGED <<Decided, LoaderBuilt, LoaderFile>>
  BY DEF Decided, LoaderBuilt, LoaderFile
<1>2. LoaderHeld => LoaderHeld'
  BY <1>1 DEF LoaderHeld
<1>3. QED
  BY <1>1, <1>2 DEF LoaderInv, AfterLoader, AfterLoaderFile, AfterKernel, AfterElf, AfterMachO, AfterDiscover, AfterEfi, AfterGpt, AfterFat

\* A step after which no more is claimed of the image.
LEMMA ImageSame ==
  ASSUME ImageInv, seen'.built = seen.built,
         \A p \in {"gpt", "fat", "STARTUP.NSH", "unmounted"} : files'[p] = files[p],
         pc' \in AfterGpt => pc \in AfterGpt,
         pc' \in AfterFat => pc \in AfterFat,
         pc' = "unmount" => pc = "unmount"
  PROVE  ImageInv'
  BY DEF ImageInv, Whole, AfterGpt, AfterFat

\* Nothing is claimed where a command begins or gave up.
LEMMA NothingClaimed ==
  ASSUME seen'.built = FALSE, step' = "idle",
         pc' \in {"idle", "build_loader", "cargo_many", "firmware"}
  PROVE  KernelInv' /\ LoaderInv' /\ ImageInv'
  BY DEF KernelInv, LoaderInv, ImageInv, AfterLoader, AfterLoaderFile, AfterKernel, AfterElf,
         AfterMachO, AfterDiscover, AfterEfi, AfterGpt, AfterFat

\* The world's part of the types.
LEMMA WorldSame ==
  ASSUME TypeOK, CommandInv, UNCHANGED worldVars
  PROVE  /\ history' \in Histories /\ source' \in 1 .. Len(history') /\ config' \in Configs
         /\ \A c \in Configs : efi'[c].rev \in 0 .. source' /\ efi'[c].mtime \in 0 .. clock'
         /\ kernel_elf' \in {NONE} \union 1 .. source'
         /\ efi' \in [Configs -> [rev : Nat, mtime : Nat]] /\ clock' \in Nat /\ source' \in Nat
  BY DEF TypeOK, CommandInv, worldVars

\* A step of build_image or run_qemu that goes on.
LEMMA Proceeds ==
  ASSUME TypeOK, ConvertInv, CommandInv,
         UNCHANGED <<convertVars, worldVars, cmd, runs, loader_efi, exit, seen>>,
         DOMAIN files' = DOMAIN files, pc # "idle", pc # "convert",
         pc' \in Steps, pc' # "idle", pc \in Ended => pc' \in Ended
  PROVE  TypeOK' /\ ConvertInv' /\ CommandInv'
<1>1. ConvertTypeOK' /\ ConvertInv'
  BY ConvertSame DEF TypeOK
<1>2. step' = "idle"
  BY DEF TypeOK, convertVars
<1>3. TypeOK'
  BY <1>1, <1>2, WorldSame DEF TypeOK
<1>4. CommandInv'
  BY WorldSame DEF CommandInv
<1>5. QED
  BY <1>1, <1>3, <1>4

\* A command that returns.
LEMMA Returns ==
  ASSUME TypeOK, CommandInv, NEW code \in {0, 1, 101}, Return(code),
         UNCHANGED <<worldVars, cmd>>, DOMAIN files' = DOMAIN files, seen' \in SeenType,
         seen'.failed /\ cmd # "run" => code # 0
  PROVE  TypeOK' /\ ConvertInv' /\ CommandInv' /\ pc' = "idle" /\ step' = "idle"
<1>1. /\ pc' = "idle" /\ exit' = code /\ runs' = 0 /\ loader_efi' = NONE
      /\ ConvertReturns
  BY DEF Return
<1>2. ConvertTypeOK' /\ ConvertInv' /\ step' = "idle"
  BY <1>1, ConvertIdle DEF ConvertReturns
<1>3. TypeOK'
  BY <1>1, <1>2, WorldSame DEF TypeOK
<1>4. CommandInv'
  BY <1>1, WorldSame DEF CommandInv, Steps, Ended
<1>5. QED
  BY <1>1, <1>2, <1>3, <1>4

\* What the history of a command is made of.
LEMMA SeenFields ==
  ASSUME NEW s \in SeenType
  PROVE  /\ s.failed \in BOOLEAN /\ s.built \in BOOLEAN /\ s.compiled \in BOOLEAN
         /\ s.disturbed \in BOOLEAN /\ s.loader.config \in Int /\ s.loader.rev \in Int
         /\ s.kernel \in Int
  BY DEF SeenType

\* A command starts with nothing built and nothing failed.
LEMMA FreshFacts ==
  Fresh \in SeenType /\ Fresh.built = FALSE /\ Fresh.failed = FALSE
  BY DEF Fresh, SeenType, NONE

\* Recording a failed cargo run does not claim a build.
LEMMA SeenFailed ==
  ASSUME NEW s \in SeenType
  PROVE  /\ [s EXCEPT !.failed = TRUE] \in SeenType
         /\ [s EXCEPT !.failed = TRUE].built = s.built
  BY DEF SeenType

\* Recording the success of build_image changes nothing else.
LEMMA SeenBuilt ==
  ASSUME NEW s \in SeenType
  PROVE  LET t == [s EXCEPT !.built = TRUE]
         IN  /\ t \in SeenType /\ t.built = TRUE /\ t.failed = s.failed
             /\ t.disturbed = s.disturbed /\ t.kernel = s.kernel /\ t.loader = s.loader
             /\ t.compiled = s.compiled
  BY DEF SeenType

\* Recording that somebody else built changes nothing else.
LEMMA SeenDisturbed ==
  ASSUME NEW s \in SeenType
  PROVE  LET t == [s EXCEPT !.disturbed = TRUE]
         IN  /\ t \in SeenType /\ t.built = s.built /\ t.failed = s.failed
             /\ t.disturbed = TRUE /\ t.kernel = s.kernel
  BY DEF SeenType

\* Recording which kernel cargo built changes nothing else.
LEMMA SeenKernel ==
  ASSUME NEW s \in SeenType, NEW r \in Int
  PROVE  LET t == [s EXCEPT !.kernel = r]
         IN  /\ t \in SeenType /\ t.built = s.built /\ t.failed = s.failed
             /\ t.disturbed = s.disturbed /\ t.kernel = r /\ t.loader = s.loader
             /\ t.compiled = s.compiled
  BY DEF SeenType

-----------------------------------------------------------------------------
\* The steps of the command.

LEMMA EditSourcesStep ==
  ASSUME IInv, EditSources
  PROVE  IInv'
<1>1. /\ source < Len(history) /\ source' = source + 1
      /\ UNCHANGED <<convertVars, commands, history, config, clock, efi, kernel_elf, files, procVars>>
  BY DEF EditSources
<1>2. /\ TypeOK /\ ConvertInv /\ CommandInv /\ KernelInv /\ LoaderInv /\ ImageInv
      /\ source \in Nat
  BY DEF IInv, CommandInv
<1>3. ConvertTypeOK' /\ ConvertInv'
  BY <1>1, <1>2, ConvertSame DEF TypeOK
<1>4. Len(history) \in Nat /\ source' \in 1 .. Len(history)
  <2>1. history \in Seq(ElfType)
    BY <1>2, BuildAssumption DEF TypeOK
  <2>2. QED
    BY <1>1, <1>2, <2>1
<1>5. 0 .. source \subseteq 0 .. source' /\ 1 .. source \subseteq 1 .. source' /\ source' \in Nat
  BY <1>1, <1>2
<1>6. TypeOK'
  BY <1>1, <1>2, <1>3, <1>4, <1>5 DEF TypeOK, convertVars, procVars
<1>7. CommandInv'
  BY <1>1, <1>2, <1>5 DEF CommandInv, procVars
<1>8. KernelInv'
  BY <1>1, <1>2, <1>5, KernelSame DEF SeenStays, procVars, convertVars
<1>9. LoaderInv'
  BY <1>1, <1>2, LoaderSame DEF procVars
<1>10. ImageInv'
  BY <1>1, <1>2, ImageSame DEF procVars
<1>11. QED
  BY <1>3, <1>6, <1>7, <1>8, <1>9, <1>10 DEF IInv

\* Another configuration changes what cargo will build and no file.
LEMMA SwitchConfigStep ==
  ASSUME IInv, SwitchConfig
  PROVE  IInv'
<1>1. /\ config' \in Configs
      /\ UNCHANGED <<convertVars, commands, history, source, clock, efi, kernel_elf, files, procVars>>
  BY DEF SwitchConfig
<1>2. /\ TypeOK /\ ConvertInv /\ CommandInv /\ KernelInv /\ LoaderInv /\ ImageInv
      /\ source \in Nat
  BY DEF IInv, CommandInv
<1>3. ConvertTypeOK' /\ ConvertInv'
  BY <1>1, <1>2, ConvertSame DEF TypeOK
<1>4. TypeOK'
  BY <1>1, <1>2, <1>3 DEF TypeOK, convertVars, procVars
<1>5. CommandInv'
  BY <1>1, <1>2 DEF CommandInv, procVars
<1>6. KernelInv'
  BY <1>1, <1>2, KernelSame DEF SeenStays, procVars, convertVars
<1>7. LoaderInv'
  BY <1>1, <1>2, LoaderSame DEF procVars
<1>8. ImageInv'
  BY <1>1, <1>2, ImageSame DEF procVars
<1>9. QED
  BY <1>3, <1>4, <1>5, <1>6, <1>7, <1>8 DEF IInv

\* cargo leaves an up-to-date loader, the newest if it compiled it.
LEMMA CompileFacts ==
  ASSUME TypeOK, CommandInv, CompileLoader
  PROVE  /\ efi' \in [Configs -> [rev : Nat, mtime : Nat]] /\ clock' \in Nat
         /\ \A c \in Configs : efi'[c].rev \in 0 .. source /\ efi'[c].mtime \in 0 .. clock'
         /\ efi'[config].rev = source /\ efi'[config] # NO_FILE
         /\ efi[config].rev # source =>
              /\ efi'[config].mtime = clock'
              /\ \A d \in Configs \ {config} : efi'[d].mtime < clock'
<1>1. /\ config \in Configs /\ source \in Nat /\ source >= 1 /\ clock \in Nat
      /\ efi \in [Configs -> [rev : Nat, mtime : Nat]]
      /\ \A c \in Configs : efi[c].rev \in 0 .. source /\ efi[c].mtime \in 0 .. clock
  BY DEF TypeOK, CommandInv
<1>2. \A e : e.rev = source => e # NO_FILE
  BY <1>1 DEF NO_FILE
<1>3. CASE efi[config].rev = source
  BY <1>1, <1>2, <1>3 DEF CompileLoader
<1>4. CASE efi[config].rev # source
  <2> DEFINE new == [rev |-> source, mtime |-> clock + 1]
  <2>1. clock' = clock + 1 /\ efi' = [efi EXCEPT ![config] = new]
    BY <1>4 DEF CompileLoader
  <2>2. new \in [rev : Nat, mtime : Nat] /\ new.rev = source /\ new.mtime = clock + 1
    BY <1>1
  <2> HIDE DEF new
  <2>3. /\ efi' \in [Configs -> [rev : Nat, mtime : Nat]] /\ efi'[config] = new
        /\ \A d \in Configs \ {config} : efi'[d] = efi[d]
    BY <1>1, <2>1, <2>2
  <2>4. \A d \in Configs \ {config} :
          efi'[d].rev \in 0 .. source /\ efi'[d].mtime \in 0 .. clock' /\ efi'[d].mtime < clock'
    BY <1>1, <2>1, <2>3
  <2>5. efi'[config].rev \in 0 .. source /\ efi'[config].mtime \in 0 .. clock'
    BY <1>1, <2>1, <2>2, <2>3
  <2>6. QED
    BY <1>1, <1>2, <2>1, <2>2, <2>3, <2>4, <2>5
<1>5. QED
  BY <1>3, <1>4

\* Somebody else's build changes target/ under a running command, which from
\* then on is disturbed.
LEMMA OtherBuildStep ==
  ASSUME IInv, OtherBuild
  PROVE  IInv'
<1>1. /\ pc \notin {"idle", "qemu"} /\ CompileLoader /\ kernel_elf' = source
      /\ seen' = [seen EXCEPT !.disturbed = TRUE]
      /\ UNCHANGED <<convertVars, commands, history, source, config, files,
                     cmd, pc, runs, loader_efi, exit>>
  BY DEF OtherBuild
<1>2. /\ TypeOK /\ ConvertInv /\ CommandInv /\ KernelInv /\ LoaderInv /\ ImageInv
      /\ source \in Nat /\ source >= 1 /\ seen \in SeenType
  BY DEF IInv, CommandInv, TypeOK
<1>3. ConvertTypeOK' /\ ConvertInv'
  BY <1>1, <1>2, ConvertSame DEF TypeOK
<1>4. /\ seen' \in SeenType /\ seen'.built = seen.built /\ seen'.failed = seen.failed
      /\ seen'.disturbed = TRUE /\ seen'.kernel = seen.kernel
  BY <1>1, <1>2, SeenDisturbed
<1>5. /\ efi' \in [Configs -> [rev : Nat, mtime : Nat]] /\ clock' \in Nat
      /\ \A c \in Configs : efi'[c].rev \in 0 .. source /\ efi'[c].mtime \in 0 .. clock'
  BY <1>1, <1>2, CompileFacts
<1>6. TypeOK'
  BY <1>1, <1>2, <1>3, <1>5 DEF TypeOK, convertVars
<1>7. CommandInv'
  BY <1>1, <1>2, <1>4, <1>5 DEF CommandInv
<1>8. SeenStays
  BY <1>1, <1>2, <1>4 DEF SeenStays
<1>9. KernelInv'
  <2>1. step # "idle" => ElfRead'
    BY <1>1, <1>2, <1>8, ElfReadStays DEF KernelInv, convertVars
  <2>2. Current(kernel_elf)'
    BY <1>1, <1>2, <1>4 DEF Current
  <2>3. pc \in AfterElf \/ seen.built => ElfHeld'
    BY <1>1, <1>2, <1>8, ElfHeldStays DEF KernelInv
  <2>4. pc \in AfterMachO \/ seen.built => MachOHeld'
    BY <1>1, <1>2, <1>8, MachOHeldStays DEF KernelInv
  <2>5. step' = step
    BY <1>1 DEF convertVars
  <2>6. QED
    BY <1>1, <1>2, <1>4, <2>1, <2>2, <2>3, <2>4, <2>5
    DEF KernelInv, AfterKernel, AfterElf, AfterMachO, AfterDiscover, AfterEfi, AfterGpt, AfterFat
<1>10. LoaderInv'
  <2>1. LoaderHeld => LoaderHeld'
    BY <1>1, <1>4 DEF LoaderHeld
  <2>2. QED
    BY <1>1, <1>2, <1>4, <2>1
    DEF LoaderInv, AfterLoader, AfterLoaderFile, AfterKernel, AfterElf, AfterMachO, AfterDiscover, AfterEfi, AfterGpt, AfterFat
<1>11. ImageInv'
  BY <1>1, <1>2, <1>4, ImageSame
<1>12. QED
  BY <1>3, <1>6, <1>7, <1>9, <1>10, <1>11 DEF IInv

\* A command starts on whatever the one before it left.
LEMMA StartStep ==
  ASSUME IInv, Start
  PROVE  IInv'
<1>1. /\ pc = "idle" /\ exit' = NONE /\ seen' = Fresh
      /\ pc' \in {"build_loader", "cargo_many"} /\ runs' \in 0 .. 3
      /\ UNCHANGED <<convertVars, history, source, config, clock, efi, kernel_elf, files, loader_efi>>
  <2>1. /\ pc = "idle" /\ exit' = NONE /\ seen' = Fresh
        /\ pc' = IF cmd' \in {"build-image", "run"} THEN "build_loader" ELSE "cargo_many"
        /\ runs' = CASE cmd' \in {"check", "clippy"} -> 3 [] cmd' = "fmt" -> 1 [] OTHER -> 0
        /\ UNCHANGED <<convertVars, history, source, config, clock, efi, kernel_elf, files, loader_efi>>
    BY DEF Start
  <2>2. runs' \in {0, 1, 3}
    BY <2>1
  <2>3. QED
    BY <2>1, <2>2
<1>2. TypeOK /\ ConvertInv /\ CommandInv
  BY DEF IInv
<1>3. ConvertTypeOK' /\ ConvertInv'
  BY <1>1, <1>2, ConvertSame DEF TypeOK
<1>4. step = "idle" /\ step' = "idle"
  BY <1>1, <1>2 DEF TypeOK, convertVars
<1>5. TypeOK'
  BY <1>1, <1>2, <1>3, <1>4 DEF TypeOK
<1>6. CommandInv'
  BY <1>1, <1>2, FreshFacts DEF CommandInv, Steps, Ended
<1>7. KernelInv' /\ LoaderInv' /\ ImageInv'
  BY <1>1, <1>4, FreshFacts, NothingClaimed
<1>8. QED
  BY <1>3, <1>5, <1>6, <1>7 DEF IInv

\* A wrong command line ends with a failure and touches nothing.
LEMMA UsageStep ==
  ASSUME IInv, Usage
  PROVE  IInv'
<1>1. /\ pc = "idle" /\ exit' = 2 /\ seen' = Fresh
      /\ UNCHANGED <<convertVars, history, source, config, clock, efi, kernel_elf, files,
                     pc, runs, loader_efi>>
  BY DEF Usage
<1>2. TypeOK /\ ConvertInv /\ CommandInv
  BY DEF IInv
<1>3. ConvertTypeOK' /\ ConvertInv'
  BY <1>1, <1>2, ConvertSame DEF TypeOK
<1>4. step = "idle" /\ step' = "idle"
  BY <1>1, <1>2 DEF TypeOK, convertVars
<1>5. TypeOK'
  BY <1>1, <1>2, <1>3, <1>4 DEF TypeOK
<1>6. CommandInv'
  BY <1>1, <1>2, FreshFacts DEF CommandInv, Steps, Ended
<1>7. KernelInv' /\ LoaderInv' /\ ImageInv'
  BY <1>1, <1>4, FreshFacts, NothingClaimed
<1>8. QED
  BY <1>3, <1>5, <1>6, <1>7 DEF IInv

\* cargo_many's loop ends at the first failing run or after the last.
LEMMA CargoManyStep ==
  ASSUME IInv, CargoMany
  PROVE  IInv'
<1>1. pc = "cargo_many" /\ UNCHANGED <<worldVars, files, cmd>>
  BY DEF CargoMany
<1>2. TypeOK /\ ConvertInv /\ CommandInv /\ seen \in SeenType /\ seen.built = FALSE
  BY <1>1, SeenFields DEF IInv, CommandInv, Ended
<1>3. CASE Return(1) /\ seen' = [seen EXCEPT !.failed = TRUE]
  <2>1. seen' \in SeenType /\ seen'.built = FALSE
    BY <1>2, <1>3, SeenFailed
  <2>2. TypeOK' /\ ConvertInv' /\ CommandInv' /\ pc' = "idle" /\ step' = "idle"
    BY <1>1, <1>2, <1>3, <2>1, Returns
  <2>3. QED
    BY <2>1, <2>2, NothingClaimed DEF IInv
<1>4. CASE Return(0) /\ UNCHANGED seen
  <2>1. ~(seen.failed /\ cmd # "run")
    BY <1>1, <1>2 DEF CommandInv
  <2>2. TypeOK' /\ ConvertInv' /\ CommandInv' /\ pc' = "idle" /\ step' = "idle"
    BY <1>1, <1>2, <1>4, <2>1, Returns
  <2>3. QED
    BY <1>2, <1>4, <2>2, NothingClaimed DEF IInv
<1>5. CASE runs > 1 /\ NextRun /\ UNCHANGED seen
  <2>1. /\ runs' = runs - 1 /\ runs > 1
        /\ UNCHANGED <<convertVars, pc, loader_efi, exit, seen>>
    BY <1>5 DEF NextRun
  <2>2. ConvertTypeOK' /\ ConvertInv'
    BY <1>2, <2>1, ConvertSame DEF TypeOK
  <2>3. step' = "idle" /\ runs' \in 0 .. 3
    BY <1>1, <1>2, <2>1 DEF TypeOK, convertVars
  <2>4. TypeOK'
    BY <1>1, <1>2, <2>1, <2>2, <2>3, WorldSame DEF TypeOK
  <2>5. CommandInv'
    BY <1>1, <1>2, <2>1, WorldSame DEF CommandInv
  <2>6. QED
    BY <1>1, <1>2, <2>1, <2>2, <2>3, <2>4, <2>5, NothingClaimed DEF IInv
<1>6. QED
  BY <1>3, <1>4, <1>5 DEF CargoMany

\* cargo failed: run goes on to QEMU, build-image returns.
LEMMA NotBuiltStep ==
  ASSUME IInv, NotBuilt, UNCHANGED <<worldVars, files>>, pc \in {"build_loader", "build_kernel"}
  PROVE  IInv'
<1>1. TypeOK /\ ConvertInv /\ CommandInv /\ seen \in SeenType /\ seen.built = FALSE
  BY SeenFields DEF IInv, CommandInv, Ended
<1>2. seen' \in SeenType /\ seen'.built = FALSE
  BY <1>1, SeenFailed DEF NotBuilt
<1>3. CASE cmd = "run"
  <2>1. pc' = "firmware" /\ UNCHANGED <<convertVars, cmd, runs, loader_efi, exit>>
    BY <1>3 DEF NotBuilt, Goto
  <2>2. ConvertTypeOK' /\ ConvertInv'
    BY <1>1, <2>1, ConvertSame DEF TypeOK
  <2>3. step' = "idle"
    BY <1>1, <2>1 DEF TypeOK, convertVars
  <2>4. TypeOK'
    BY <1>1, <2>1, <2>2, <2>3, WorldSame DEF TypeOK
  <2>5. CommandInv'
    BY <1>1, <1>2, <1>3, <2>1, WorldSame DEF CommandInv, Steps, Ended
  <2>6. QED
    BY <1>2, <2>1, <2>2, <2>3, <2>4, <2>5, NothingClaimed DEF IInv
<1>4. CASE cmd # "run"
  <2>1. Return(1) /\ UNCHANGED cmd
    BY <1>4 DEF NotBuilt
  <2>2. TypeOK' /\ ConvertInv' /\ CommandInv' /\ pc' = "idle" /\ step' = "idle"
    BY <1>1, <1>2, <2>1, Returns
  <2>3. QED
    BY <1>2, <2>2, NothingClaimed DEF IInv
<1>5. QED
  BY <1>3, <1>4

\* cargo builds the loader or finds it up to date.
LEMMA BuildLoaderStep ==
  ASSUME IInv, BuildLoader
  PROVE  IInv'
<1>1. /\ pc = "build_loader"
      /\ UNCHANGED <<commands, history, source, config, kernel_elf, files>>
  BY DEF BuildLoader
<1>2. CASE NotBuilt /\ UNCHANGED <<clock, efi>>
  BY <1>1, <1>2, NotBuiltStep DEF worldVars
<1>3. CASE /\ CompileLoader
           /\ seen' = [seen EXCEPT !.compiled = efi[config].rev # source,
                                    !.loader = [config |-> config, rev |-> source]]
           /\ Goto("build_kernel")
  <2>1. /\ TypeOK /\ ConvertInv /\ CommandInv /\ seen \in SeenType /\ seen.built = FALSE
        /\ config \in Configs /\ config \in Int /\ source \in Nat
    BY <1>1, SeenFields, BuildAssumption DEF IInv, CommandInv, Ended, TypeOK
  <2>2. pc' = "build_kernel" /\ UNCHANGED <<convertVars, cmd, runs, loader_efi, exit>>
    BY <1>3 DEF Goto
  <2>3. /\ seen' \in SeenType /\ seen'.built = FALSE /\ seen'.failed = seen.failed
        /\ seen'.compiled = (efi[config].rev # source)
        /\ seen'.loader.config = config /\ seen'.loader.rev = source
    <3>1. PICK b \in BOOLEAN : b = (efi[config].rev # source)
      OBVIOUS
    <3>2. seen' = [seen EXCEPT !.compiled = b, !.loader = [config |-> config, rev |-> source]]
      BY <1>3, <3>1, Zenon
    <3>3. source \in Int
      BY <2>1
    <3>4. /\ seen' \in SeenType /\ seen'.built = seen.built /\ seen'.failed = seen.failed
          /\ seen'.compiled = b /\ seen'.loader.config = config /\ seen'.loader.rev = source
      BY <2>1, <3>2, <3>3 DEF SeenType
    <3>5. QED
      BY <2>1, <3>1, <3>4, Zenon
  <2>4. /\ efi' \in [Configs -> [rev : Nat, mtime : Nat]] /\ clock' \in Nat
        /\ \A c \in Configs : efi'[c].rev \in 0 .. source /\ efi'[c].mtime \in 0 .. clock'
        /\ efi'[config].rev = source /\ efi'[config] # NO_FILE
        /\ efi[config].rev # source =>
              /\ efi'[config].mtime = clock'
              /\ \A d \in Configs \ {config} : efi'[d].mtime < clock'
    BY <1>3, <2>1, CompileFacts
  <2>5. ConvertTypeOK' /\ ConvertInv'
    BY <2>1, <2>2, ConvertSame DEF TypeOK
  <2>6. step' = "idle"
    BY <1>1, <2>1, <2>2 DEF TypeOK, convertVars
  <2>7. TypeOK'
    BY <1>1, <2>1, <2>2, <2>4, <2>5, <2>6 DEF TypeOK
  <2>8. CommandInv'
    BY <1>1, <2>1, <2>2, <2>3, <2>4 DEF CommandInv, Steps, AfterLoader
  <2>9. KernelInv'
    BY <2>2, <2>3, <2>6
    DEF KernelInv, AfterKernel, AfterElf, AfterMachO, AfterDiscover, AfterEfi, AfterGpt, AfterFat
  <2>10. LoaderBuilt'
    BY <2>1, <2>3, <2>4 DEF LoaderBuilt
  <2>11. LoaderInv'
    BY <2>2, <2>3, <2>10
    DEF LoaderInv, AfterLoaderFile, AfterElf, AfterMachO, AfterDiscover, AfterEfi, AfterGpt, AfterFat
  <2>12. ImageInv'
    BY <2>2, <2>3 DEF ImageInv, AfterGpt, AfterFat
  <2>13. QED
    BY <2>5, <2>7, <2>8, <2>9, <2>11, <2>12 DEF IInv
<1>4. QED
  BY <1>2, <1>3 DEF BuildLoader

\* cargo links the kernel from the sources there are.
LEMMA BuildKernelStep ==
  ASSUME IInv, BuildKernel
  PROVE  IInv'
<1>1. /\ pc = "build_kernel"
      /\ UNCHANGED <<commands, history, source, config, clock, efi, files>>
  BY DEF BuildKernel
<1>2. CASE NotBuilt /\ UNCHANGED kernel_elf
  BY <1>1, <1>2, NotBuiltStep DEF worldVars
<1>3. CASE kernel_elf' = source /\ Goto("discover") /\ seen' = [seen EXCEPT !.kernel = source]
  <2>1. /\ TypeOK /\ ConvertInv /\ CommandInv /\ LoaderInv /\ seen \in SeenType
        /\ seen.built = FALSE /\ source \in Nat /\ source >= 1
    BY <1>1, SeenFields DEF IInv, CommandInv, Ended, TypeOK
  <2>2. pc' = "discover" /\ UNCHANGED <<convertVars, cmd, runs, loader_efi, exit>>
    BY <1>3 DEF Goto
  <2>3. /\ seen' \in SeenType /\ seen'.built = FALSE /\ seen'.failed = seen.failed
        /\ seen'.disturbed = seen.disturbed /\ seen'.kernel = source
        /\ seen'.loader = seen.loader /\ seen'.compiled = seen.compiled
    BY <1>3, <2>1, SeenKernel
  <2>4. ConvertTypeOK' /\ ConvertInv'
    BY <2>1, <2>2, ConvertSame DEF TypeOK
  <2>5. step' = "idle"
    BY <1>1, <2>1, <2>2 DEF TypeOK, convertVars
  <2>6. TypeOK'
    BY <1>1, <1>3, <2>1, <2>2, <2>4, <2>5 DEF TypeOK
  <2>7. CommandInv'
    BY <1>1, <2>1, <2>2, <2>3 DEF CommandInv, Steps, AfterLoader, AfterKernel
  <2>8. Current(kernel_elf)'
    BY <1>1, <1>3, <2>1, <2>3 DEF Current
  <2>9. KernelInv'
    BY <2>2, <2>3, <2>5, <2>8 DEF KernelInv, AfterElf, AfterMachO, AfterEfi, AfterGpt, AfterFat
  <2>10. seen.disturbed \/ LoaderBuilt'
    BY <1>1, <2>1, <2>3 DEF LoaderInv, LoaderBuilt, AfterLoader
  <2>11. LoaderInv'
    BY <2>2, <2>3, <2>10
    DEF LoaderInv, AfterLoaderFile, AfterElf, AfterMachO, AfterDiscover, AfterEfi, AfterGpt, AfterFat
  <2>12. ImageInv'
    BY <2>2, <2>3 DEF ImageInv, AfterGpt, AfterFat
  <2>13. QED
    BY <2>4, <2>6, <2>7, <2>9, <2>11, <2>12 DEF IInv
<1>4. QED
  BY <1>2, <1>3 DEF BuildKernel

\* The newest loader in deps is found, or the command fails.
LEMMA DiscoverStep ==
  ASSUME IInv, Discover
  PROVE  IInv'
<1>1. PICK c \in Configs : Newest(c) /\ loader_efi' = c
  BY DEF Discover
<1>2. /\ pc = "discover" /\ pc' = "copy_elf"
      /\ UNCHANGED <<convertVars, worldVars, files, cmd, runs, exit, seen>>
  BY DEF Discover
<1>3. /\ TypeOK /\ ConvertInv /\ CommandInv /\ KernelInv /\ LoaderInv /\ ImageInv
      /\ seen \in SeenType /\ seen.built = FALSE /\ source \in Nat /\ clock \in Nat
  BY <1>2, SeenFields DEF IInv, CommandInv, Ended
<1>4. ConvertTypeOK' /\ ConvertInv' /\ step' = "idle"
  BY <1>2, <1>3, ConvertSame DEF TypeOK, convertVars
<1>5. TypeOK'
  BY <1>1, <1>2, <1>3, <1>4, WorldSame DEF TypeOK
<1>6. CommandInv'
  BY <1>2, <1>3, WorldSame DEF CommandInv, Steps, AfterLoader, AfterKernel, AfterDiscover
<1>7. KernelInv'
  BY <1>2, <1>3, <1>4, KernelSame
  DEF SeenStays, worldVars, AfterKernel, AfterDiscover, AfterElf, AfterMachO, AfterEfi, AfterGpt, AfterFat
<1>8. UNCHANGED <<efi, clock, seen>>
  BY <1>2 DEF worldVars
<1>9. UNCHANGED <<LoaderBuilt, Decided>>
  BY <1>8 DEF LoaderBuilt, Decided
<1>10. ASSUME ~seen.disturbed, Decided
       PROVE  LoaderFile' = seen.loader
  <2> DEFINE d == seen.loader.config
  <2>1. LoaderBuilt
    BY <1>2, <1>3, <1>10 DEF LoaderInv, AfterLoader, AfterKernel
  <2>2. d \in Configs /\ efi[d].rev = seen.loader.rev /\ efi[d] # NO_FILE
    BY <2>1 DEF LoaderBuilt
  <2>3. c = d
    <3>1. CASE seen.compiled
      <4>1. /\ efi[d].mtime = clock /\ efi[d].mtime <= efi[c].mtime
            /\ \A x \in Configs \ {d} : efi[x].mtime < clock
        BY <1>1, <2>1, <2>2, <3>1 DEF LoaderBuilt, Newest
      <4>2. efi[c].mtime \in Nat
        BY <1>3 DEF CommandInv
      <4>3. QED
        BY <1>3, <4>1, <4>2
    <3>2. CASE Cardinality({x \in Configs : efi[x] # NO_FILE}) = 1
      <4> DEFINE S == {x \in Configs : efi[x] # NO_FILE}
      <4>1. IsFiniteSet(S)
        BY BuildAssumption, FS_Subset
      <4>2. c \in S /\ d \in S
        BY <1>1, <2>2 DEF Newest
      <4>3. S = {c}
        BY <3>2, <4>1, <4>2, OneElement
      <4>4. QED
        BY <4>2, <4>3
    <3>3. QED
      BY <1>10, <3>1, <3>2 DEF Decided
  <2>4. seen.loader = [config |-> seen.loader.config, rev |-> seen.loader.rev]
    BY <1>3 DEF SeenType
  <2>5. LoaderFile' = [config |-> c, rev |-> efi[c].rev]
    BY <1>1, <1>8 DEF LoaderFile
  <2>6. QED
    BY <2>2, <2>3, <2>4, <2>5
<1>11. LoaderInv'
  BY <1>1, <1>2, <1>3, <1>8, <1>9, <1>10
  DEF LoaderInv, AfterLoader, AfterKernel, AfterLoaderFile, AfterElf, AfterMachO, AfterDiscover,
      AfterEfi, AfterGpt, AfterFat
<1>12. ImageInv'
  BY <1>2, <1>3 DEF ImageInv, AfterGpt, AfterFat
<1>13. QED
  BY <1>4, <1>5, <1>6, <1>7, <1>11, <1>12 DEF IInv

\* A write changes one file.
LEMMA StoreFacts ==
  ASSUME TypeOK, NEW path \in Bundle \union Image, NEW value, Store(path, value)
  PROVE  /\ files'[path] = value /\ DOMAIN files' = DOMAIN files
         /\ \A p \in (Bundle \union Image) \ {path} : files'[p] = files[p]
  BY DEF TypeOK, Store

\* The paths are different files.
LEMMA Paths ==
  /\ {"kernel.elf", "kernel.macho", "BOOTAA64.EFI", "MANIFEST.toml", "gpt", "fat",
      "EFI/BOOT/BOOTAA64.EFI", "KERNEL", "STARTUP.NSH", "unmounted"} = Bundle \union Image
  BY DEF Bundle, Image

\* kernel.elf becomes a copy of a current kernel.
LEMMA CopyElfStep ==
  ASSUME IInv, CopyElf
  PROVE  IInv'
<1>1. /\ pc = "copy_elf" /\ pc' = "convert" /\ Store("kernel.elf", [rev |-> kernel_elf])
      /\ UNCHANGED <<convertVars, worldVars, cmd, runs, loader_efi, exit, seen>>
  BY DEF CopyElf, Write, Goto
<1>2. /\ TypeOK /\ ConvertInv /\ CommandInv /\ KernelInv /\ LoaderInv /\ ImageInv
      /\ seen \in SeenType /\ seen.built = FALSE
  BY <1>1, SeenFields DEF IInv, CommandInv, Ended
<1>3. /\ files'["kernel.elf"] = [rev |-> kernel_elf] /\ DOMAIN files' = DOMAIN files
      /\ \A p \in (Bundle \union Image) \ {"kernel.elf"} : files'[p] = files[p]
  BY <1>1, <1>2, StoreFacts, Paths
<1>4. TypeOK' /\ ConvertInv' /\ CommandInv'
  BY <1>1, <1>2, <1>3, Proceeds
  DEF Steps, Ended, AfterLoader, AfterKernel, AfterDiscover, AfterElf
<1>5. UNCHANGED <<source, history, kernel_elf, efi, clock>> /\ step' = "idle"
  BY <1>1, <1>2 DEF worldVars, convertVars, TypeOK
<1>6. Current(kernel_elf)
  BY <1>1, <1>2 DEF KernelInv, AfterKernel, AfterDiscover
<1>7. Current(kernel_elf)' /\ ElfHeld'
  BY <1>1, <1>3, <1>5, <1>6 DEF Current, ElfHeld
<1>8. KernelInv'
  BY <1>1, <1>2, <1>5, <1>7 DEF KernelInv, AfterMachO, AfterEfi, AfterGpt, AfterFat
<1>9. \A p \in {"BOOTAA64.EFI", "EFI/BOOT/BOOTAA64.EFI"} : files'[p] = files[p]
  BY <1>3, Paths
<1>10. LoaderInv'
  BY <1>1, <1>2, <1>5, <1>9, LoaderSame
  DEF AfterLoader, AfterKernel, AfterLoaderFile, AfterElf, AfterMachO, AfterDiscover,
      AfterEfi, AfterGpt, AfterFat
<1>11. ImageInv'
  BY <1>1, <1>2 DEF ImageInv, AfterGpt, AfterFat
<1>12. QED
  BY <1>4, <1>8, <1>10, <1>11 DEF IInv

\* loader.efi becomes a copy of the loader that was found.
LEMMA CopyEfiStep ==
  ASSUME IInv, CopyEfi
  PROVE  IInv'
<1>1. /\ pc = "copy_efi" /\ pc' = "manifest" /\ Store("BOOTAA64.EFI", LoaderFile)
      /\ UNCHANGED <<convertVars, worldVars, cmd, runs, loader_efi, exit, seen>>
  BY DEF CopyEfi, Write, Goto
<1>2. /\ TypeOK /\ ConvertInv /\ CommandInv /\ KernelInv /\ LoaderInv /\ ImageInv
      /\ seen \in SeenType /\ seen.built = FALSE /\ source \in Nat
  BY <1>1, SeenFields DEF IInv, CommandInv, Ended
<1>3. /\ files'["BOOTAA64.EFI"] = LoaderFile /\ DOMAIN files' = DOMAIN files
      /\ \A p \in (Bundle \union Image) \ {"BOOTAA64.EFI"} : files'[p] = files[p]
  BY <1>1, <1>2, StoreFacts, Paths
<1>4. TypeOK' /\ ConvertInv' /\ CommandInv'
  BY <1>1, <1>2, <1>3, Proceeds
  DEF Steps, Ended, AfterLoader, AfterKernel, AfterDiscover, AfterElf, AfterMachO, AfterEfi, AfterGpt, AfterFat
<1>5. /\ UNCHANGED <<source, history, kernel_elf, efi, clock, seen>> /\ step' = "idle"
      /\ SeenStays
  BY <1>1, <1>2 DEF worldVars, convertVars, TypeOK, SeenStays
<1>6. \A p \in {"kernel.elf", "kernel.macho", "KERNEL"} : files'[p] = files[p]
  BY <1>3, Paths
<1>7. KernelInv'
  BY <1>1, <1>2, <1>5, <1>6, KernelSame
  DEF AfterKernel, AfterDiscover, AfterElf, AfterMachO, AfterEfi, AfterGpt, AfterFat
<1>8. files'["EFI/BOOT/BOOTAA64.EFI"] = files["EFI/BOOT/BOOTAA64.EFI"]
  BY <1>3, Paths
<1>9. UNCHANGED <<LoaderBuilt, Decided, LoaderFile>>
  BY <1>1, <1>5 DEF LoaderBuilt, Decided, LoaderFile
<1>10. files'["BOOTAA64.EFI"] = LoaderFile'
  BY <1>3, <1>9
<1>11. LoaderInv'
  BY <1>1, <1>2, <1>9, <1>10
  DEF LoaderInv, AfterLoader, AfterKernel, AfterLoaderFile, AfterElf, AfterMachO, AfterDiscover,
      AfterEfi, AfterGpt, AfterFat
<1>12. \A p \in {"gpt", "fat", "STARTUP.NSH", "unmounted"} : files'[p] = files[p]
  BY <1>3, Paths
<1>13. ImageInv'
  BY <1>1, <1>2, <1>5, <1>12, ImageSame DEF AfterGpt, AfterFat
<1>14. QED
  BY <1>4, <1>7, <1>11, <1>13 DEF IInv

\* The manifest is written over any earlier one.
LEMMA WriteManifestStep ==
  ASSUME IInv, WriteManifest
  PROVE  IInv'
<1>1. /\ pc = "manifest" /\ pc' = "open" /\ Store("MANIFEST.toml", [text |-> TRUE])
      /\ UNCHANGED <<convertVars, worldVars, cmd, runs, loader_efi, exit, seen>>
  BY DEF WriteManifest, Write, Goto
<1>2. /\ TypeOK /\ ConvertInv /\ CommandInv /\ KernelInv /\ LoaderInv /\ ImageInv
      /\ seen \in SeenType /\ seen.built = FALSE /\ source \in Nat
  BY <1>1, SeenFields DEF IInv, CommandInv, Ended
<1>3. /\ files'["MANIFEST.toml"] = [text |-> TRUE] /\ DOMAIN files' = DOMAIN files
      /\ \A p \in (Bundle \union Image) \ {"MANIFEST.toml"} : files'[p] = files[p]
  BY <1>1, <1>2, StoreFacts, Paths
<1>4. TypeOK' /\ ConvertInv' /\ CommandInv'
  BY <1>1, <1>2, <1>3, Proceeds
  DEF Steps, Ended, AfterLoader, AfterKernel, AfterDiscover, AfterElf, AfterMachO, AfterEfi, AfterGpt, AfterFat
<1>5. /\ UNCHANGED <<source, history, kernel_elf, efi, clock, seen>> /\ step' = "idle"
      /\ SeenStays
  BY <1>1, <1>2 DEF worldVars, convertVars, TypeOK, SeenStays
<1>6. \A p \in {"kernel.elf", "kernel.macho", "KERNEL"} : files'[p] = files[p]
  BY <1>3, Paths
<1>7. KernelInv'
  BY <1>1, <1>2, <1>5, <1>6, KernelSame
  DEF AfterKernel, AfterDiscover, AfterElf, AfterMachO, AfterEfi, AfterGpt, AfterFat
<1>8. \A p \in {"BOOTAA64.EFI", "EFI/BOOT/BOOTAA64.EFI"} : files'[p] = files[p]
  BY <1>3, Paths
<1>9. LoaderInv'
  BY <1>1, <1>2, <1>5, <1>8, LoaderSame
  DEF AfterLoader, AfterKernel, AfterLoaderFile, AfterElf, AfterMachO, AfterDiscover,
      AfterEfi, AfterGpt, AfterFat
<1>10. \A p \in {"gpt", "fat", "STARTUP.NSH", "unmounted"} : files'[p] = files[p]
  BY <1>3, Paths
<1>11. ImageInv'
  BY <1>1, <1>2, <1>5, <1>10, ImageSame DEF AfterGpt, AfterFat
<1>12. QED
  BY <1>4, <1>7, <1>9, <1>11 DEF IInv

\* The partition table is written to the truncated image.
LEMMA WriteGptStep ==
  ASSUME IInv, WriteGpt
  PROVE  IInv'
<1>1. /\ pc = "gpt" /\ pc' = "format" /\ Store("gpt", [text |-> TRUE])
      /\ UNCHANGED <<convertVars, worldVars, cmd, runs, loader_efi, exit, seen>>
  BY DEF WriteGpt, Write, Goto
<1>2. /\ TypeOK /\ ConvertInv /\ CommandInv /\ KernelInv /\ LoaderInv /\ ImageInv
      /\ seen \in SeenType /\ seen.built = FALSE /\ source \in Nat
  BY <1>1, SeenFields DEF IInv, CommandInv, Ended
<1>3. /\ files'["gpt"] = [text |-> TRUE] /\ DOMAIN files' = DOMAIN files
      /\ \A p \in (Bundle \union Image) \ {"gpt"} : files'[p] = files[p]
  BY <1>1, <1>2, StoreFacts, Paths
<1>4. TypeOK' /\ ConvertInv' /\ CommandInv'
  BY <1>1, <1>2, <1>3, Proceeds
  DEF Steps, Ended, AfterLoader, AfterKernel, AfterDiscover, AfterElf, AfterMachO, AfterEfi, AfterGpt, AfterFat
<1>5. /\ UNCHANGED <<source, history, kernel_elf, efi, clock, seen>> /\ step' = "idle"
      /\ SeenStays
  BY <1>1, <1>2 DEF worldVars, convertVars, TypeOK, SeenStays
<1>6. \A p \in {"kernel.elf", "kernel.macho", "KERNEL"} : files'[p] = files[p]
  BY <1>3, Paths
<1>7. KernelInv'
  BY <1>1, <1>2, <1>5, <1>6, KernelSame
  DEF AfterKernel, AfterDiscover, AfterElf, AfterMachO, AfterEfi, AfterGpt, AfterFat
<1>8. \A p \in {"BOOTAA64.EFI", "EFI/BOOT/BOOTAA64.EFI"} : files'[p] = files[p]
  BY <1>3, Paths
<1>9. LoaderInv'
  BY <1>1, <1>2, <1>5, <1>8, LoaderSame
  DEF AfterLoader, AfterKernel, AfterLoaderFile, AfterElf, AfterMachO, AfterDiscover,
      AfterEfi, AfterGpt, AfterFat
<1>10. \A p \in {"fat", "STARTUP.NSH", "unmounted"} : files'[p] = files[p]
  BY <1>3, Paths
<1>11. ImageInv'
  BY <1>1, <1>2, <1>3, <1>10 DEF ImageInv, Whole, AfterGpt, AfterFat
<1>12. QED
  BY <1>4, <1>7, <1>9, <1>11 DEF IInv

\* An empty file system replaces what the partition held.
LEMMA FormatVolumeStep ==
  ASSUME IInv, FormatVolume
  PROVE  IInv'
<1>1. /\ pc = "format" /\ pc' = "loader_file" /\ Store("fat", [text |-> TRUE])
      /\ UNCHANGED <<convertVars, worldVars, cmd, runs, loader_efi, exit, seen>>
  BY DEF FormatVolume, Write, Goto
<1>2. /\ TypeOK /\ ConvertInv /\ CommandInv /\ KernelInv /\ LoaderInv /\ ImageInv
      /\ seen \in SeenType /\ seen.built = FALSE /\ source \in Nat
  BY <1>1, SeenFields DEF IInv, CommandInv, Ended
<1>3. /\ files'["fat"] = [text |-> TRUE] /\ DOMAIN files' = DOMAIN files
      /\ \A p \in (Bundle \union Image) \ {"fat"} : files'[p] = files[p]
  BY <1>1, <1>2, StoreFacts, Paths
<1>4. TypeOK' /\ ConvertInv' /\ CommandInv'
  BY <1>1, <1>2, <1>3, Proceeds
  DEF Steps, Ended, AfterLoader, AfterKernel, AfterDiscover, AfterElf, AfterMachO, AfterEfi, AfterGpt, AfterFat
<1>5. /\ UNCHANGED <<source, history, kernel_elf, efi, clock, seen>> /\ step' = "idle"
      /\ SeenStays
  BY <1>1, <1>2 DEF worldVars, convertVars, TypeOK, SeenStays
<1>6. \A p \in {"kernel.elf", "kernel.macho", "KERNEL"} : files'[p] = files[p]
  BY <1>3, Paths
<1>7. KernelInv'
  BY <1>1, <1>2, <1>5, <1>6, KernelSame
  DEF AfterKernel, AfterDiscover, AfterElf, AfterMachO, AfterEfi, AfterGpt, AfterFat
<1>8. \A p \in {"BOOTAA64.EFI", "EFI/BOOT/BOOTAA64.EFI"} : files'[p] = files[p]
  BY <1>3, Paths
<1>9. LoaderInv'
  BY <1>1, <1>2, <1>5, <1>8, LoaderSame
  DEF AfterLoader, AfterKernel, AfterLoaderFile, AfterElf, AfterMachO, AfterDiscover,
      AfterEfi, AfterGpt, AfterFat
<1>10. \A p \in {"gpt", "STARTUP.NSH", "unmounted"} : files'[p] = files[p]
  BY <1>3, Paths
<1>11. ImageInv'
  BY <1>1, <1>2, <1>3, <1>10 DEF ImageInv, Whole, AfterGpt, AfterFat
<1>12. QED
  BY <1>4, <1>7, <1>9, <1>11 DEF IInv

\* The loader goes into the file system under its boot path.
LEMMA LoaderIntoFatStep ==
  ASSUME IInv, LoaderIntoFat
  PROVE  IInv'
<1>1. /\ pc = "loader_file" /\ pc' = "kernel_file" /\ Store("EFI/BOOT/BOOTAA64.EFI", LoaderFile)
      /\ UNCHANGED <<convertVars, worldVars, cmd, runs, loader_efi, exit, seen>>
  BY DEF LoaderIntoFat, Write, Goto
<1>2. /\ TypeOK /\ ConvertInv /\ CommandInv /\ KernelInv /\ LoaderInv /\ ImageInv
      /\ seen \in SeenType /\ seen.built = FALSE /\ source \in Nat
  BY <1>1, SeenFields DEF IInv, CommandInv, Ended
<1>3. /\ files'["EFI/BOOT/BOOTAA64.EFI"] = LoaderFile /\ DOMAIN files' = DOMAIN files
      /\ \A p \in (Bundle \union Image) \ {"EFI/BOOT/BOOTAA64.EFI"} : files'[p] = files[p]
  BY <1>1, <1>2, StoreFacts, Paths
<1>4. TypeOK' /\ ConvertInv' /\ CommandInv'
  BY <1>1, <1>2, <1>3, Proceeds
  DEF Steps, Ended, AfterLoader, AfterKernel, AfterDiscover, AfterElf, AfterMachO, AfterEfi, AfterGpt, AfterFat
<1>5. /\ UNCHANGED <<source, history, kernel_elf, efi, clock, seen>> /\ step' = "idle"
      /\ SeenStays
  BY <1>1, <1>2 DEF worldVars, convertVars, TypeOK, SeenStays
<1>6. \A p \in {"kernel.elf", "kernel.macho", "KERNEL"} : files'[p] = files[p]
  BY <1>3, Paths
<1>7. KernelInv'
  BY <1>1, <1>2, <1>5, <1>6, KernelSame
  DEF AfterKernel, AfterDiscover, AfterElf, AfterMachO, AfterEfi, AfterGpt, AfterFat
<1>8. UNCHANGED <<LoaderBuilt, Decided, LoaderFile>> /\ files'["BOOTAA64.EFI"] = files["BOOTAA64.EFI"]
  BY <1>1, <1>3, <1>5, Paths DEF LoaderBuilt, Decided, LoaderFile
<1>9. \E c, r \in Int : LoaderFile = [config |-> c, rev |-> r]
  <2>1. loader_efi \in Configs
    BY <1>1, <1>2 DEF LoaderInv, AfterDiscover, AfterElf, AfterMachO, AfterEfi, AfterGpt, AfterFat
  <2>2. loader_efi \in Int /\ efi[loader_efi].rev \in Int
    BY <1>2, <2>1, BuildAssumption DEF CommandInv
  <2>3. QED
    BY <2>2 DEF LoaderFile
<1>10. LoaderHeld'
  BY <1>1, <1>2, <1>3, <1>5, <1>8, <1>9
  DEF LoaderHeld, LoaderInv, AfterDiscover, AfterElf, AfterMachO, AfterEfi, AfterGpt, AfterFat
<1>11. LoaderInv'
  BY <1>1, <1>2, <1>8, <1>10
  DEF LoaderInv, AfterLoader, AfterKernel, AfterLoaderFile, AfterElf, AfterMachO, AfterDiscover,
      AfterEfi, AfterGpt, AfterFat
<1>12. \A p \in {"gpt", "fat", "STARTUP.NSH", "unmounted"} : files'[p] = files[p]
  BY <1>3, Paths
<1>13. ImageInv'
  BY <1>1, <1>2, <1>5, <1>12, ImageSame DEF AfterGpt, AfterFat
<1>14. QED
  BY <1>4, <1>7, <1>11, <1>13 DEF IInv

\* The Mach-O kernel goes into it.
LEMMA KernelIntoFatStep ==
  ASSUME IInv, KernelIntoFat
  PROVE  IInv'
<1>1. /\ pc = "kernel_file" /\ pc' = "startup" /\ Store("KERNEL", files["kernel.macho"])
      /\ UNCHANGED <<convertVars, worldVars, cmd, runs, loader_efi, exit, seen>>
  BY DEF KernelIntoFat, Write, Goto
<1>2. /\ TypeOK /\ ConvertInv /\ CommandInv /\ KernelInv /\ LoaderInv /\ ImageInv
      /\ seen \in SeenType /\ seen.built = FALSE /\ source \in Nat
  BY <1>1, SeenFields DEF IInv, CommandInv, Ended
<1>3. /\ files'["KERNEL"] = files["kernel.macho"] /\ DOMAIN files' = DOMAIN files
      /\ \A p \in (Bundle \union Image) \ {"KERNEL"} : files'[p] = files[p]
  BY <1>1, <1>2, StoreFacts, Paths
<1>4. TypeOK' /\ ConvertInv' /\ CommandInv'
  BY <1>1, <1>2, <1>3, Proceeds
  DEF Steps, Ended, AfterLoader, AfterKernel, AfterDiscover, AfterElf, AfterMachO, AfterEfi, AfterGpt, AfterFat
<1>5. /\ UNCHANGED <<source, history, kernel_elf, efi, clock, seen>> /\ step' = "idle"
      /\ SeenStays
  BY <1>1, <1>2 DEF worldVars, convertVars, TypeOK, SeenStays
<1>6. \A p \in {"kernel.elf", "kernel.macho"} : files'[p] = files[p]
  BY <1>3, Paths
<1>7. Current(kernel_elf)' /\ ElfHeld' /\ MachOHeld'
  <2>1. Current(kernel_elf) /\ ElfHeld /\ MachOHeld
    BY <1>1, <1>2 DEF KernelInv, AfterKernel, AfterDiscover, AfterElf, AfterMachO, AfterEfi, AfterGpt, AfterFat
  <2>2. Current(kernel_elf)'
    BY <1>5, <2>1 DEF Current
  <2>3. QED
    BY <1>2, <1>5, <1>6, <2>1, <2>2, ElfHeldStays, MachOHeldStays
<1>8. KernelInv'
  BY <1>3, <1>5, <1>6, <1>7 DEF KernelInv
<1>9. \A p \in {"BOOTAA64.EFI", "EFI/BOOT/BOOTAA64.EFI"} : files'[p] = files[p]
  BY <1>3, Paths
<1>10. LoaderInv'
  BY <1>1, <1>2, <1>5, <1>9, LoaderSame
  DEF AfterLoader, AfterKernel, AfterLoaderFile, AfterElf, AfterMachO, AfterDiscover,
      AfterEfi, AfterGpt, AfterFat
<1>11. \A p \in {"gpt", "fat", "STARTUP.NSH", "unmounted"} : files'[p] = files[p]
  BY <1>3, Paths
<1>12. ImageInv'
  BY <1>1, <1>2, <1>5, <1>11, ImageSame DEF AfterGpt, AfterFat
<1>13. QED
  BY <1>4, <1>8, <1>10, <1>12 DEF IInv

\* The start-up script goes into it.
LEMMA StartupIntoFatStep ==
  ASSUME IInv, StartupIntoFat
  PROVE  IInv'
<1>1. /\ pc = "startup" /\ pc' = "unmount" /\ Store("STARTUP.NSH", [text |-> TRUE])
      /\ UNCHANGED <<convertVars, worldVars, cmd, runs, loader_efi, exit, seen>>
  BY DEF StartupIntoFat, Write, Goto
<1>2. /\ TypeOK /\ ConvertInv /\ CommandInv /\ KernelInv /\ LoaderInv /\ ImageInv
      /\ seen \in SeenType /\ seen.built = FALSE /\ source \in Nat
  BY <1>1, SeenFields DEF IInv, CommandInv, Ended
<1>3. /\ files'["STARTUP.NSH"] = [text |-> TRUE] /\ DOMAIN files' = DOMAIN files
      /\ \A p \in (Bundle \union Image) \ {"STARTUP.NSH"} : files'[p] = files[p]
  BY <1>1, <1>2, StoreFacts, Paths
<1>4. TypeOK' /\ ConvertInv' /\ CommandInv'
  BY <1>1, <1>2, <1>3, Proceeds
  DEF Steps, Ended, AfterLoader, AfterKernel, AfterDiscover, AfterElf, AfterMachO, AfterEfi, AfterGpt, AfterFat
<1>5. /\ UNCHANGED <<source, history, kernel_elf, efi, clock, seen>> /\ step' = "idle"
      /\ SeenStays
  BY <1>1, <1>2 DEF worldVars, convertVars, TypeOK, SeenStays
<1>6. \A p \in {"kernel.elf", "kernel.macho", "KERNEL"} : files'[p] = files[p]
  BY <1>3, Paths
<1>7. KernelInv'
  BY <1>1, <1>2, <1>5, <1>6, KernelSame
  DEF AfterKernel, AfterDiscover, AfterElf, AfterMachO, AfterEfi, AfterGpt, AfterFat
<1>8. \A p \in {"BOOTAA64.EFI", "EFI/BOOT/BOOTAA64.EFI"} : files'[p] = files[p]
  BY <1>3, Paths
<1>9. LoaderInv'
  BY <1>1, <1>2, <1>5, <1>8, LoaderSame
  DEF AfterLoader, AfterKernel, AfterLoaderFile, AfterElf, AfterMachO, AfterDiscover,
      AfterEfi, AfterGpt, AfterFat
<1>10. \A p \in {"gpt", "fat", "unmounted"} : files'[p] = files[p]
  BY <1>3, Paths
<1>11. ImageInv'
  BY <1>1, <1>2, <1>3, <1>10 DEF ImageInv, Whole, AfterGpt, AfterFat
<1>12. QED
  BY <1>4, <1>7, <1>9, <1>11 DEF IInv

\* A turn of the conversion is one of a conversion that began.
LEMMA ConvertKeepsElf ==
  ASSUME ConvertStep
  PROVE  step # "idle" /\ step' # "idle" /\ elf' = elf
<1>1. step \in {"parse", "filter", "layout", "copy"}
  BY DEF ConvertStep, ParseElf, FilterHeader, SizeCommands, LayOutSegment, WriteCommands,
         CopySegmentData
<1>2. CASE ParseElf
  BY <1>1, <1>2 DEF ParseElf, Fail
<1>3. CASE FilterHeader
  BY <1>1, <1>3 DEF FilterHeader
<1>4. CASE SizeCommands
  BY <1>1, <1>4 DEF SizeCommands, Fail
<1>5. CASE LayOutSegment
  BY <1>1, <1>5 DEF LayOutSegment, Fail
<1>6. CASE WriteCommands
  BY <1>1, <1>6 DEF WriteCommands, Fail
<1>7. CASE CopySegmentData
  BY <1>1, <1>7 DEF CopySegmentData, Fail
<1>8. QED
  BY <1>1, <1>2, <1>3, <1>4, <1>5, <1>6, <1>7 DEF ConvertStep

\* build_image's part of the conversion: its steps touch no file.
LEMMA ConvertActionStep ==
  ASSUME IInv, Convert
  PROVE  IInv'
<1>1. /\ pc = "convert" /\ UNCHANGED <<worldVars, files, procVars>>
      /\ UNCHANGED <<cmd, pc, runs, loader_efi, exit, seen>>
  BY DEF Convert, procVars
<1>2. /\ TypeOK /\ ConvertInv /\ CommandInv /\ KernelInv /\ LoaderInv /\ ImageInv
      /\ seen \in SeenType /\ seen.built = FALSE /\ source \in Nat
  BY <1>1, SeenFields DEF IInv, CommandInv, Ended
<1>3. UNCHANGED <<source, history, kernel_elf, efi, clock, seen>> /\ SeenStays
  BY <1>1, <1>2 DEF worldVars, SeenStays
<1>4. Current(kernel_elf)
  BY <1>1, <1>2 DEF KernelInv, AfterKernel, AfterDiscover, AfterElf
<1>5. history[kernel_elf] \in ElfType
  <2>1. kernel_elf \in 1 .. Len(history)
    BY <1>2, <1>4 DEF Current, TypeOK
  <2>2. history \in Seq(ElfType)
    BY <1>2, BuildAssumption DEF TypeOK
  <2>3. QED
    BY <2>1, <2>2
<1>6. ConvertTypeOK' /\ ConvertInv' /\ ElfRead'
  <2>1. CASE ReadElf(history[kernel_elf])
    <3>1. ConvertTypeOK' /\ ConvertInv'
      BY <1>2, <1>5, <2>1, ReadElfStep DEF TypeOK
    <3>2. ElfRead'
      BY <1>3, <1>4, <2>1 DEF ElfRead, Current, ReadElf
    <3>3. QED
      BY <3>1, <3>2
  <2>2. CASE ConvertStep
    <3>1. ConvertTypeOK' /\ ConvertInv'
      BY <1>2, <2>2, ConvertStepStep DEF TypeOK
    <3>2. ElfRead'
      BY <1>2, <1>3, <2>2, ConvertKeepsElf, ElfReadStays DEF KernelInv
    <3>3. QED
      BY <3>1, <3>2
  <2>3. QED
    BY <2>1, <2>2 DEF Convert
<1>7. TypeOK'
  BY <1>1, <1>2, <1>6, WorldSame DEF TypeOK
<1>8. CommandInv'
  BY <1>1, <1>2, WorldSame DEF CommandInv
<1>9. KernelInv'
  <2>1. Current(kernel_elf)' /\ ElfHeld'
    BY <1>1, <1>2, <1>3, <1>4, ElfHeldStays DEF KernelInv, Current, AfterElf
  <2>2. QED
    BY <1>1, <1>2, <1>6, <2>1 DEF KernelInv, AfterMachO, AfterEfi, AfterGpt, AfterFat
<1>10. LoaderInv'
  BY <1>1, <1>2, <1>3, LoaderSame
<1>11. ImageInv'
  BY <1>1, <1>2, ImageSame
<1>12. QED
  BY <1>6, <1>7, <1>8, <1>9, <1>10, <1>11 DEF IInv

\* What fs::write puts into kernel.macho has the segments and the entry of
\* the ELF that was read.
LEMMA WriteMachOStep ==
  ASSUME IInv, WriteMachO
  PROVE  IInv'
<1>1. /\ pc = "convert" /\ Converted /\ Store("kernel.macho", MachOFile) /\ ConvertReturns
      /\ pc' = "copy_efi" /\ UNCHANGED <<worldVars, cmd, runs, loader_efi, exit, seen>>
  BY DEF WriteMachO
<1>2. /\ TypeOK /\ ConvertInv /\ CommandInv /\ KernelInv /\ LoaderInv /\ ImageInv
      /\ seen \in SeenType /\ seen.built = FALSE /\ source \in Nat
  BY <1>1, SeenFields DEF IInv, CommandInv, Ended
<1>3. /\ files'["kernel.macho"] = MachOFile /\ DOMAIN files' = DOMAIN files
      /\ \A p \in (Bundle \union Image) \ {"kernel.macho"} : files'[p] = files[p]
  BY <1>1, <1>2, StoreFacts, Paths
<1>4. ConvertTypeOK' /\ ConvertInv' /\ step' = "idle"
  BY <1>1, ConvertIdle DEF ConvertReturns
<1>5. UNCHANGED <<source, history, kernel_elf, efi, clock, seen>> /\ SeenStays
  BY <1>1, <1>2 DEF worldVars, SeenStays
<1>6. TypeOK'
  BY <1>1, <1>2, <1>3, <1>4, WorldSame DEF TypeOK
<1>7. CommandInv'
  BY <1>1, <1>2, WorldSame
  DEF CommandInv, Steps, AfterLoader, AfterKernel, AfterDiscover, AfterElf, AfterMachO
<1>8. Good(MachOFile, elf)
  BY <1>1, <1>2, ConvertedGood DEF TypeOK
<1>9. MachOHeld'
  <2>1. ElfRead
    BY <1>1, <1>2 DEF KernelInv, Converted
  <2>2. PICK r \in 1 .. source : elf = history[r] /\ Current(r)
    BY <2>1 DEF ElfRead
  <2>3. Good(files'["kernel.macho"], history'[r])
    BY <1>3, <1>5, <1>8, <2>2
  <2>4. Current(r)' /\ r \in 1 .. source'
    BY <1>2, <1>5, <2>2, CurrentStays
  <2>5. QED
    BY <2>3, <2>4 DEF MachOHeld
<1>10. Current(kernel_elf)' /\ ElfHeld'
  <2>1. files'["kernel.elf"] = files["kernel.elf"]
    BY <1>3, Paths
  <2>2. QED
    BY <1>1, <1>2, <1>5, <2>1, ElfHeldStays
    DEF KernelInv, Current, AfterKernel, AfterDiscover, AfterElf
<1>11. KernelInv'
  BY <1>1, <1>2, <1>4, <1>9, <1>10 DEF KernelInv
<1>12. \A p \in {"BOOTAA64.EFI", "EFI/BOOT/BOOTAA64.EFI"} : files'[p] = files[p]
  BY <1>3, Paths
<1>13. LoaderInv'
  BY <1>1, <1>2, <1>5, <1>12, LoaderSame
  DEF AfterLoader, AfterKernel, AfterLoaderFile, AfterElf, AfterMachO, AfterDiscover,
      AfterEfi, AfterGpt, AfterFat
<1>14. ImageInv'
  BY <1>1, <1>2 DEF ImageInv, AfterGpt, AfterFat
<1>15. QED
  BY <1>4, <1>6, <1>7, <1>11, <1>13, <1>14 DEF IInv

\* Opening the image truncates it: nothing of an earlier one is left.
LEMMA OpenImageStep ==
  ASSUME IInv, OpenImage
  PROVE  IInv'
<1>1. /\ pc = "open" /\ pc' = "gpt"
      /\ files' = [p \in DOMAIN files |-> IF p \in Image THEN ABSENT ELSE files[p]]
      /\ UNCHANGED <<convertVars, worldVars, cmd, runs, loader_efi, exit, seen>>
  BY DEF OpenImage, Goto
<1>2. /\ TypeOK /\ ConvertInv /\ CommandInv /\ KernelInv /\ LoaderInv /\ ImageInv
      /\ seen \in SeenType /\ seen.built = FALSE /\ source \in Nat
  BY <1>1, SeenFields DEF IInv, CommandInv, Ended
<1>3. /\ DOMAIN files' = DOMAIN files
      /\ \A p \in {"kernel.elf", "kernel.macho", "BOOTAA64.EFI"} : files'[p] = files[p]
  <2>1. \A p \in {"kernel.elf", "kernel.macho", "BOOTAA64.EFI"} : p \in DOMAIN files /\ p \notin Image
    BY <1>2, Paths DEF TypeOK, Image
  <2>2. QED
    BY <1>1, <2>1
<1>4. TypeOK' /\ ConvertInv' /\ CommandInv'
  BY <1>1, <1>2, <1>3, Proceeds DEF Steps, Ended, AfterLoader, AfterKernel, AfterDiscover,
     AfterElf, AfterMachO, AfterEfi
<1>5. /\ UNCHANGED <<source, history, kernel_elf, efi, clock, seen>> /\ step' = "idle"
      /\ SeenStays
  BY <1>1, <1>2 DEF worldVars, convertVars, TypeOK, SeenStays
<1>6. Current(kernel_elf)' /\ ElfHeld' /\ MachOHeld'
  <2>1. Current(kernel_elf) /\ ElfHeld /\ MachOHeld
    BY <1>1, <1>2 DEF KernelInv, AfterKernel, AfterDiscover, AfterElf, AfterMachO, AfterEfi
  <2>2. Current(kernel_elf)'
    BY <1>5, <2>1 DEF Current
  <2>3. QED
    BY <1>2, <1>3, <1>5, <2>1, <2>2, ElfHeldStays, MachOHeldStays
<1>7. KernelInv'
  BY <1>1, <1>2, <1>5, <1>6 DEF KernelInv
<1>8. UNCHANGED <<LoaderBuilt, Decided, LoaderFile>>
  BY <1>1, <1>5 DEF LoaderBuilt, Decided, LoaderFile
<1>9. LoaderInv'
  BY <1>1, <1>2, <1>3, <1>8
  DEF LoaderInv, AfterLoader, AfterKernel, AfterLoaderFile, AfterElf, AfterMachO, AfterDiscover,
      AfterEfi, AfterGpt, AfterFat
<1>10. ImageInv'
  BY <1>1, <1>2 DEF ImageInv, AfterGpt, AfterFat
<1>11. QED
  BY <1>4, <1>7, <1>9, <1>10 DEF IInv

\* Only after the unmount does build_image report success.
LEMMA UnmountStep ==
  ASSUME IInv, Unmount
  PROVE  IInv'
<1>1. /\ pc = "unmount" /\ Store("unmounted", [text |-> TRUE])
      /\ seen' = [seen EXCEPT !.built = TRUE] /\ UNCHANGED worldVars
  BY DEF Unmount
<1>2. /\ TypeOK /\ ConvertInv /\ CommandInv /\ KernelInv /\ LoaderInv /\ ImageInv
      /\ seen \in SeenType /\ source \in Nat
  BY DEF IInv, CommandInv
<1>3. /\ files'["unmounted"] = [text |-> TRUE] /\ DOMAIN files' = DOMAIN files
      /\ \A p \in (Bundle \union Image) \ {"unmounted"} : files'[p] = files[p]
  BY <1>1, <1>2, StoreFacts, Paths
<1>4. /\ seen' \in SeenType /\ seen'.built = TRUE /\ seen'.failed = seen.failed
      /\ seen'.disturbed = seen.disturbed /\ seen'.kernel = seen.kernel
      /\ seen'.loader = seen.loader /\ seen'.compiled = seen.compiled
  BY <1>1, <1>2, SeenBuilt
<1>5. ~(seen.failed /\ cmd # "run")
  BY <1>1, <1>2 DEF CommandInv
<1>6. UNCHANGED <<source, history, kernel_elf, efi, clock>> /\ SeenStays
  BY <1>1, <1>2, <1>4 DEF worldVars, SeenStays
<1>7. TypeOK' /\ ConvertInv' /\ CommandInv' /\ pc' \in {"firmware", "idle"} /\ step' = "idle"
  <2>1. CASE cmd = "run"
    <3>1. pc' = "firmware" /\ UNCHANGED <<convertVars, cmd, runs, loader_efi, exit>>
      BY <2>1 DEF Unmount, Goto
    <3>2. ConvertTypeOK' /\ ConvertInv'
      BY <1>2, <3>1, ConvertSame DEF TypeOK
    <3>3. step' = "idle"
      BY <1>1, <1>2, <3>1 DEF TypeOK, convertVars
    <3>4. TypeOK'
      BY <1>1, <1>2, <1>3, <3>1, <3>2, <3>3, WorldSame DEF TypeOK
    <3>5. CommandInv'
      BY <1>1, <1>2, <1>4, <2>1, <3>1, WorldSame DEF CommandInv, Steps, Ended
    <3>6. QED
      BY <3>1, <3>2, <3>3, <3>4, <3>5
  <2>2. CASE cmd # "run"
    <3>1. Return(0) /\ UNCHANGED cmd
      BY <2>2 DEF Unmount
    <3>2. QED
      BY <1>1, <1>2, <1>3, <1>4, <1>5, <3>1, Returns
  <2>3. QED
    BY <2>1, <2>2
<1>8. KernelInv'
  <2>1. \A p \in {"kernel.elf", "kernel.macho", "KERNEL"} : files'[p] = files[p]
    BY <1>3, Paths
  <2>2. ElfHeld /\ MachOHeld /\ files["KERNEL"] = files["kernel.macho"]
    BY <1>1, <1>2 DEF KernelInv, AfterElf, AfterMachO, AfterEfi, AfterGpt, AfterFat
  <2>3. ElfHeld' /\ MachOHeld'
    BY <1>2, <1>6, <2>1, <2>2, ElfHeldStays, MachOHeldStays
  <2>4. QED
    BY <1>7, <2>1, <2>2, <2>3
    DEF KernelInv, AfterKernel, AfterDiscover, AfterElf, AfterMachO, AfterEfi, AfterGpt, AfterFat
<1>9. LoaderInv'
  <2>1. \A p \in {"BOOTAA64.EFI", "EFI/BOOT/BOOTAA64.EFI"} : files'[p] = files[p]
    BY <1>3, Paths
  <2>2. Decided' = Decided
    BY <1>4, <1>6 DEF Decided
  <2>3. LoaderHeld
    BY <1>1, <1>2 DEF LoaderInv, AfterLoaderFile
  <2>4. LoaderHeld'
    BY <1>4, <2>1, <2>2, <2>3 DEF LoaderHeld
  <2>5. QED
    BY <1>7, <2>4
    DEF LoaderInv, AfterLoader, AfterKernel, AfterLoaderFile, AfterElf, AfterMachO, AfterDiscover,
        AfterEfi, AfterGpt, AfterFat
<1>10. ImageInv'
  <2>1. \A p \in {"gpt", "fat", "STARTUP.NSH"} : files'[p] = files[p]
    BY <1>3, Paths
  <2>2. QED
    BY <1>1, <1>2, <1>3, <2>1 DEF ImageInv, Whole, AfterGpt, AfterFat
<1>11. QED
  BY <1>7, <1>8, <1>9, <1>10 DEF IInv

\* QEMU starts and ends without touching the files.
LEMMA QemuStep ==
  ASSUME IInv, StartQemu \/ QemuExits
  PROVE  IInv'
<1>1. /\ pc \in {"firmware", "qemu"} /\ UNCHANGED <<worldVars, files, seen>>
      /\ pc' \in {"qemu", "idle"}
  BY DEF StartQemu, QemuExits, Goto, Return
<1>2. /\ TypeOK /\ ConvertInv /\ CommandInv /\ KernelInv /\ LoaderInv /\ ImageInv
      /\ seen \in SeenType /\ source \in Nat
  BY DEF IInv, CommandInv
<1>3. UNCHANGED <<source, history, kernel_elf, efi, clock, seen>> /\ SeenStays
  BY <1>1, <1>2 DEF worldVars, SeenStays
<1>4. TypeOK' /\ ConvertInv' /\ CommandInv' /\ step' = "idle"
  <2>1. CASE StartQemu
    <3>1. /\ pc = "firmware" /\ pc' = "qemu"
          /\ UNCHANGED <<convertVars, worldVars, cmd, runs, loader_efi, exit, seen, files>>
      BY <2>1 DEF StartQemu, Goto
    <3>2. step' = "idle"
      BY <1>2, <3>1 DEF TypeOK, convertVars
    <3>3. QED
      BY <1>2, <3>1, <3>2, Proceeds DEF Steps, Ended
  <2>2. CASE QemuExits
    <3>1. PICK code \in {0, 1} : Return(code)
      BY <2>2 DEF QemuExits
    <3>2. ~(seen.failed /\ cmd # "run")
      BY <1>1, <1>2 DEF CommandInv
    <3>3. QED
      BY <1>1, <1>2, <2>2, <3>1, <3>2, Returns DEF QemuExits
  <2>3. QED
    BY <2>1, <2>2
<1>5. KernelInv'
  <2>1. ElfHeld => ElfHeld'
    BY <1>1, <1>2, <1>3, ElfHeldStays
  <2>2. MachOHeld => MachOHeld'
    BY <1>1, <1>2, <1>3, MachOHeldStays
  <2>3. QED
    BY <1>1, <1>2, <1>4, <2>1, <2>2
    DEF KernelInv, AfterKernel, AfterDiscover, AfterElf, AfterMachO, AfterEfi, AfterGpt, AfterFat
<1>6. LoaderInv'
  <2>1. Decided' = Decided
    BY <1>3 DEF Decided
  <2>2. LoaderHeld => LoaderHeld'
    BY <1>1, <2>1 DEF LoaderHeld
  <2>3. QED
    BY <1>1, <1>2, <2>2
    DEF LoaderInv, AfterLoader, AfterKernel, AfterLoaderFile, AfterElf, AfterMachO, AfterDiscover,
        AfterEfi, AfterGpt, AfterFat
<1>7. ImageInv'
  BY <1>1, <1>2, ImageSame DEF AfterGpt, AfterFat
<1>8. QED
  BY <1>4, <1>5, <1>6, <1>7 DEF IInv

\* A failure or a kill damages at most the file being written, and no command
\* that ends so reports success.
LEMMA InterruptedStep ==
  ASSUME IInv, Interrupted
  PROVE  IInv'
<1>1. Return(1) /\ seen' = Fresh /\ UNCHANGED <<worldVars, cmd>>
  BY DEF Interrupted
<1>2. DOMAIN files' = DOMAIN files
  BY DEF Interrupted
<1>3. TypeOK' /\ ConvertInv' /\ CommandInv' /\ pc' = "idle" /\ step' = "idle"
  BY <1>1, <1>2, FreshFacts, Returns DEF IInv
<1>4. QED
  BY <1>1, <1>3, FreshFacts, NothingClaimed DEF IInv

\* A refused conversion ends the command and leaves the files alone.
LEMMA ConvertFailsStep ==
  ASSUME IInv, ConvertFails
  PROVE  IInv'
<1>1. /\ step \in {"failed", "panicked"} /\ UNCHANGED <<worldVars, files, cmd, seen>>
      /\ Return(IF step = "failed" THEN 1 ELSE 101)
  BY DEF ConvertFails
<1>2. pc = "convert" /\ TypeOK /\ CommandInv /\ seen \in SeenType /\ seen.built = FALSE
  BY <1>1, SeenFields DEF IInv, TypeOK, CommandInv, Ended
<1>3. PICK code \in {1, 101} : Return(code)
  BY <1>1
<1>4. TypeOK' /\ ConvertInv' /\ CommandInv' /\ pc' = "idle" /\ step' = "idle"
  BY <1>1, <1>2, <1>3, Returns
<1>5. QED
  BY <1>1, <1>2, <1>4, NothingClaimed DEF IInv

-----------------------------------------------------------------------------

\* The invariant holds with nothing built.
LEMMA InitInv == Init => IInv
<1> SUFFICES ASSUME Init
             PROVE  IInv
  OBVIOUS
<1>1. /\ ConvertInit /\ history \in Histories /\ source = 1 /\ clock = 0
      /\ config = CHOOSE c \in Configs : TRUE
      /\ efi = [c \in Configs |-> NO_FILE] /\ kernel_elf = NONE
      /\ files = [p \in Bundle \union Image |-> ABSENT]
      /\ pc = "idle" /\ runs = 0 /\ loader_efi = NONE /\ exit = NONE /\ seen = Fresh
  BY DEF Init
<1>2. ConvertTypeOK /\ ConvertInv /\ step = "idle"
  BY <1>1, ConvertIdle DEF ConvertInit
<1>3. config \in Configs
  BY <1>1, BuildAssumption
<1>4. source \in 1 .. Len(history)
  <2>1. history \in Seq(ElfType) /\ history # <<>>
    BY <1>1, BuildAssumption
  <2>2. QED
    BY <1>1, <2>1
<1>5. NO_FILE \in [rev : Nat, mtime : Nat] /\ NO_FILE.rev = 0 /\ NO_FILE.mtime = 0
  BY DEF NO_FILE
<1>6. TypeOK
  BY <1>1, <1>2, <1>3, <1>4, <1>5 DEF TypeOK
<1>7. CommandInv
  BY <1>1, <1>5, FreshFacts DEF CommandInv, Steps, Ended
<1>8. KernelInv /\ LoaderInv /\ ImageInv
  BY <1>1, <1>2, FreshFacts
  DEF KernelInv, LoaderInv, ImageInv, AfterLoader, AfterLoaderFile, AfterKernel, AfterElf,
      AfterMachO, AfterDiscover, AfterEfi, AfterGpt, AfterFat
<1>9. QED
  BY <1>2, <1>6, <1>7, <1>8 DEF IInv

\* It is about the variables only.
LEMMA StutterInv ==
  ASSUME IInv, UNCHANGED vars
  PROVE  IInv'
<1>1. UNCHANGED <<convertVars, worldVars, files, cmd, pc, runs, loader_efi, exit, seen>>
  BY DEF vars, procVars
<1>2. /\ TypeOK /\ ConvertInv /\ CommandInv /\ KernelInv /\ LoaderInv /\ ImageInv
      /\ source \in Nat
  BY DEF IInv, CommandInv
<1>3. ConvertTypeOK' /\ ConvertInv' /\ step' = step /\ elf' = elf
  BY <1>1, <1>2, ConvertSame DEF TypeOK, convertVars
<1>4. TypeOK'
  BY <1>1, <1>2, <1>3, WorldSame DEF TypeOK
<1>5. CommandInv'
  BY <1>1, <1>2, WorldSame DEF CommandInv
<1>6. KernelInv'
  BY <1>1, <1>2, <1>3, KernelSame DEF SeenStays, worldVars
<1>7. LoaderInv'
  BY <1>1, <1>2, LoaderSame DEF worldVars
<1>8. ImageInv'
  BY <1>1, <1>2, ImageSame
<1>9. QED
  BY <1>3, <1>4, <1>5, <1>6, <1>7, <1>8 DEF IInv

\* Every step keeps it.
LEMMA NextInv == IInv /\ [Next]_vars => IInv'
  BY EditSourcesStep, SwitchConfigStep, OtherBuildStep, StartStep, UsageStep, CargoManyStep,
     BuildLoaderStep, BuildKernelStep, DiscoverStep, CopyElfStep, ConvertActionStep,
     WriteMachOStep, CopyEfiStep, WriteManifestStep, OpenImageStep, WriteGptStep,
     FormatVolumeStep, LoaderIntoFatStep, KernelIntoFatStep, StartupIntoFatStep, UnmountStep,
     QemuStep, InterruptedStep, ConvertFailsStep, StutterInv
  DEF Next, Step

\* The invariant holds in every state that commands lead to.
THEOREM InvariantHolds == Spec => []IInv
  BY InitInv, NextInv, PTL DEF Spec

\* Every offset and size that the conversion stores fits a usize, its locals
\* live only while it runs, and a command has an exit code exactly when over.
THEOREM TypeCorrect == Spec => []TypeOK
<1>1. IInv => TypeOK
  BY DEF IInv
<1>2. QED
  BY <1>1, InvariantHolds, PTL

\* convert_elf_to_macho copies every segment beside the commands and the other
\* segments, and a slice is out of range only if the ELF file is too short.
THEOREM SegmentsApart == Spec => []CopiesApart
<1>1. IInv => CopiesApart
  BY DEF IInv, ConvertInv, Copying, CopiesApart
<1>2. QED
  BY <1>1, InvariantHolds, PTL

\* What Delivered gives.
LEMMA DeliveredFacts ==
  ASSUME IInv, Delivered
  PROVE  /\ ElfHeld /\ MachOHeld /\ files["KERNEL"] = files["kernel.macho"] /\ LoaderHeld
         /\ \A p \in {"gpt", "fat", "STARTUP.NSH", "unmounted"} : files[p] = [text |-> TRUE]
  BY DEF IInv, Delivered, KernelInv, LoaderInv, ImageInv, Whole

\* After Ok(true) the image is whole and holds the kernel that was compiled,
\* wherever the commands before it were killed.
THEOREM KernelIsCarried == Spec => []ImageCarriesKernel
<1>1. ASSUME IInv, Delivered
      PROVE  /\ \A p \in Image : files[p] \notin {ABSENT, PARTIAL}
             /\ \E r \in 1 .. source :
                  /\ Carries(files["KERNEL"], history[r])
                  /\ ~seen.disturbed => r = seen.kernel
                  /\ LinkedAsScript(files["KERNEL"]) =>
                       GoblinEntry(files["KERNEL"]) = history[r].entry
  <2>1. PICK r \in 1 .. source : Good(files["KERNEL"], history[r]) /\ Current(r)
    BY <1>1, DeliveredFacts DEF MachOHeld
  <2>2. [text |-> TRUE] \notin {ABSENT, PARTIAL}
    <3>1. /\ "text" \in DOMAIN [text |-> TRUE]
          /\ "text" \notin DOMAIN ABSENT /\ "text" \notin DOMAIN PARTIAL
      BY DEF ABSENT, PARTIAL
    <3>2. QED
      BY <3>1
  <2>3. PICK c \in Int, n \in Int : files["EFI/BOOT/BOOTAA64.EFI"] = [config |-> c, rev |-> n]
    BY <1>1, DeliveredFacts DEF LoaderHeld
  <2>4. files["EFI/BOOT/BOOTAA64.EFI"] \notin {ABSENT, PARTIAL}
    <3>1. /\ "config" \in DOMAIN [config |-> c, rev |-> n]
          /\ "config" \notin DOMAIN ABSENT /\ "config" \notin DOMAIN PARTIAL
      BY DEF ABSENT, PARTIAL
    <3>2. QED
      BY <2>3, <3>1
  <2>5. files["KERNEL"] \notin {ABSENT, PARTIAL}
    BY <2>1 DEF Good
  <2>6. \A p \in Image : files[p] \notin {ABSENT, PARTIAL}
    BY <1>1, <2>2, <2>4, <2>5, DeliveredFacts DEF Image
  <2>7. QED
    BY <2>1, <2>6 DEF Good, Current
<1>2. IInv => ImageCarriesKernel
  BY <1>1 DEF ImageCarriesKernel
<1>3. QED
  BY <1>2, InvariantHolds, PTL

\* The loader in the image is the one cargo built for the command, where the
\* newest file in deps decides.
THEOREM LoaderIsCurrent == Spec => []LoaderIsTheBuilt
<1>1. IInv => LoaderIsTheBuilt
  BY DeliveredFacts DEF LoaderIsTheBuilt, LoaderHeld, Decided
<1>2. QED
  BY <1>1, InvariantHolds, PTL

\* The bundle that a debugger is given describes the image.
THEOREM BundleIsFaithful == Spec => []BundleDescribesImage
<1>1. ASSUME IInv, Delivered, ~seen.disturbed
      PROVE  /\ files["kernel.elf"] # PARTIAL
             /\ Carries(files["KERNEL"], history[files["kernel.elf"].rev])
  <2>1. PICK q \in 1 .. source : files["kernel.elf"] = [rev |-> q] /\ q = seen.kernel
    BY <1>1, DeliveredFacts DEF ElfHeld, Current
  <2>2. PICK r \in 1 .. source : Good(files["KERNEL"], history[r]) /\ r = seen.kernel
    BY <1>1, DeliveredFacts DEF MachOHeld, Current
  <2>3. files["kernel.elf"] # PARTIAL
    <3>1. "rev" \in DOMAIN [rev |-> q] /\ "rev" \notin DOMAIN PARTIAL
      BY DEF PARTIAL
    <3>2. QED
      BY <2>1, <3>1
  <2>4. files["kernel.elf"].rev = r
    BY <2>1, <2>2
  <2>5. QED
    BY <2>2, <2>3, <2>4 DEF Good
<1>2. IInv => BundleDescribesImage
  BY <1>1, DeliveredFacts DEF BundleDescribesImage, LoaderHeld
<1>3. QED
  BY <1>2, InvariantHolds, PTL

\* xtask exits with success after a failed cargo run only if the command is run.
THEOREM ExitIsHonest == Spec => []ExitReports
<1>1. IInv => ExitReports
  BY DEF IInv, CommandInv, ExitReports
<1>2. QED
  BY <1>1, InvariantHolds, PTL
=============================================================================
