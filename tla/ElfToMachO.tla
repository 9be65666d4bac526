----------------------------- MODULE ElfToMachO -----------------------------
(***************************************************************************)
(* convert_elf_to_macho of xtask: the kernel's ELF becomes the Mach-O file *)
(* that the UEFI loader reads.  A byte of the new file is the offset of    *)
(* the ELF byte it was copied from, COMMAND for the header and the load    *)
(* commands, or ZERO.  Every `?` and ok_or is "failed", a slice out of     *)
(* range "panicked".  Sums that a file of 64-bit size cannot overflow (the *)
(* size of the commands) are unchecked here; the checked ones of the code  *)
(* are kept, with USIZE values in a usize and in a u64.  Protections are   *)
(* left out: neither the loader nor the kernel reads them.                 *)
(***************************************************************************)
EXTENDS Integers, SequencesExt, FiniteSetsExt

CONSTANTS
  PAGE,               \* 0x1000
  HEADER_SIZE,        \* 32
  SEGMENT_COMMAND,    \* SIZEOF_SEGMENT_COMMAND_64
  ENTRY_COMMAND,      \* SIZEOF_ENTRY_POINT_COMMAND
  USIZE               \* 2^64

Usize == 0 .. USIZE - 1

\* A program header: load is p_type = PT_LOAD; x, w are flags.
HeaderType == [load : BOOLEAN, x : BOOLEAN, w : BOOLEAN, offset : Usize,
               vaddr : Usize, filesz : Usize, memsz : Usize]

\* What Elf::parse makes of a file; size is its length.
ElfType == [valid : BOOLEAN, size : Usize, entry : Usize, headers : Seq(HeaderType)]

ASSUME ElfAssumption ==
  /\ PAGE \in Nat \ {0} /\ HEADER_SIZE \in Nat
  /\ SEGMENT_COMMAND \in Nat /\ ENTRY_COMMAND \in Nat
  /\ USIZE \in Nat \ {0} /\ USIZE % PAGE = 0

ZERO == -1
COMMAND == -2
NO_TEXT == [vmaddr |-> -1, fileoff |-> -1]

VARIABLES
  step,          \* where convert_elf_to_macho is: see ConvertStep
  elf,           \* elf_bytes
  scanned,       \* program headers that the filter has seen
  loadable,      \* those it kept
  layout,        \* MachSegmentLayout of the segments laid out so far
  file_offset,
  text_base,     \* [vmaddr, fileoff], or NO_TEXT
  entryoff,
  macho,         \* the buffer
  copied         \* segments whose data is in the buffer

filterVars == <<scanned, loadable>>
convertVars == <<step, elf, filterVars, layout, file_offset, text_base, entryoff, macho, copied>>

-----------------------------------------------------------------------------

\* align_usize, where its checked_add succeeds.
AlignUsize(v) == ((v + PAGE - 1) \div PAGE) * PAGE
AlignOverflows(v) == v + PAGE - 1 >= USIZE

\* The headers that become segments.
Loadable(h) == h.load /\ h.memsz # 0

\* Where the load commands are to end: header_size + sizeofcmds.
CommandsEnd == HEADER_SIZE + Len(loadable) * SEGMENT_COMMAND + ENTRY_COMMAND

\* Where the cursor is once they are written.
Cursor == HEADER_SIZE + Len(layout) * SEGMENT_COMMAND + ENTRY_COMMAND

\* Mutant of SatSub: the difference may be negative.
SatSubSigned(a, b) == a - b

\* saturating_sub.
SatSub(a, b) == IF a < b THEN 0 ELSE a - b

TEXT == <<"__TEXT">>
DATA == <<"__DATA">>

\* segment_name; two segments may have the same one.
SegmentName(index, h) ==
  IF h.x THEN TEXT ELSE IF h.w THEN DATA ELSE <<"__SEG", index>>

-----------------------------------------------------------------------------

NoElf == [valid |-> FALSE, size |-> 0, entry |-> 0, headers |-> <<>>]

ConvertInit ==
  /\ step = "idle" /\ elf = NoElf /\ scanned = 0 /\ loadable = <<>>
  /\ layout = <<>> /\ file_offset = 0 /\ text_base = NO_TEXT
  /\ entryoff = 0 /\ macho = <<>> /\ copied = 0

Fail(how) ==
  /\ step' = how
  /\ UNCHANGED <<elf, filterVars, layout, file_offset, text_base, entryoff, macho, copied>>

\* fs::read of src.
ReadElf(contents) ==
  /\ step = "idle"
  /\ step' = "parse"
  /\ elf' = contents
  /\ UNCHANGED <<filterVars, layout, file_offset, text_base, entryoff, macho, copied>>

\* Elf::parse.
ParseElf ==
  /\ step = "parse"
  /\ IF ~elf.valid
       THEN Fail("failed")
       ELSE /\ step' = "filter"
            /\ UNCHANGED <<elf, filterVars, layout, file_offset, text_base, entryoff, macho, copied>>

\* One header through filter and collect.
FilterHeader ==
  /\ step = "filter"
  /\ scanned < Len(elf.headers)
  /\ scanned' = scanned + 1
  /\ LET h == elf.headers[scanned + 1]
     IN  loadable' = IF Loadable(h) THEN Append(loadable, h) ELSE loadable
  /\ UNCHANGED <<step, elf, layout, file_offset, text_base, entryoff, macho, copied>>

\* The size of the commands.
SizeCommands ==
  /\ step = "filter"
  /\ scanned = Len(elf.headers)
  /\ IF loadable = <<>> \/ AlignOverflows(CommandsEnd)
       THEN Fail("failed")
       ELSE /\ step' = "layout"
            /\ file_offset' = AlignUsize(CommandsEnd)
            /\ UNCHANGED <<elf, filterVars, layout, text_base, entryoff, macho, copied>>

\* One turn of the layout loop.  The last executable segment sets text_base.
LayOutSegment ==
  /\ step = "layout"
  /\ Len(layout) < Len(loadable)
  /\ LET h   == loadable[Len(layout) + 1]
         off == AlignUsize(file_offset)
         name == SegmentName(Len(layout), h)
     IN  IF AlignOverflows(file_offset) \/ off + h.filesz >= USIZE
           THEN Fail("failed")
           ELSE /\ layout' = Append(layout,
                     [segname |-> name, vmaddr |-> h.vaddr, vmsize |-> h.memsz,
                      fileoff |-> off, filesize |-> h.filesz, source_offset |-> h.offset])
                /\ text_base' = IF name = TEXT THEN [vmaddr |-> h.vaddr, fileoff |-> off]
                                ELSE text_base
                /\ file_offset' = off + h.filesz
                /\ UNCHANGED <<step, elf, filterVars, entryoff, macho, copied>>

\* Mutant of EntryOff: the entry as an offset in the segment.
EntryOffInText == elf.entry - text_base.vmaddr

\* LC_MAIN's entryoff; negative where checked_sub fails.
EntryOff == elf.entry - SatSub(text_base.vmaddr, text_base.fileoff)

\* The buffer, the header and the load commands, slice by slice.
WriteCommands ==
  /\ step = "layout"
  /\ Len(layout) = Len(loadable)
  /\ IF text_base = NO_TEXT
       THEN Fail("failed")
     ELSE IF EntryOff < 0
       THEN Fail("failed")
     ELSE IF Cursor > file_offset
       THEN Fail("panicked")
       ELSE /\ step' = "copy"
            /\ entryoff' = EntryOff
            /\ macho' = [o \in 0 .. file_offset - 1 |-> IF o < Cursor THEN COMMAND ELSE ZERO]
            /\ UNCHANGED <<elf, filterVars, layout, file_offset, text_base, copied>>

\* Mutant of CopySegmentData: the data goes where it was in the ELF file.
CopySegmentInPlace ==
  /\ step = "copy"
  /\ copied < Len(layout)
  /\ LET s   == layout[copied + 1]
         end == s.source_offset + s.filesize
     IN  IF end >= USIZE
           THEN Fail("failed")
         ELSE IF end > elf.size \/ end > file_offset
           THEN Fail("panicked")
           ELSE /\ macho' = [o \in DOMAIN macho |->
                               IF o \in s.source_offset .. end - 1 THEN o ELSE macho[o]]
                /\ copied' = copied + 1
                /\ UNCHANGED <<step, elf, filterVars, layout, file_offset, text_base, entryoff>>

\* One turn of the copy loop.
CopySegmentData ==
  /\ step = "copy"
  /\ copied < Len(layout)
  /\ LET s   == layout[copied + 1]
         end == s.fileoff + s.filesize
     IN  IF s.source_offset + s.filesize >= USIZE \/ end >= USIZE
           THEN Fail("failed")
         ELSE IF s.source_offset + s.filesize > elf.size \/ end > file_offset
           THEN Fail("panicked")
           ELSE /\ macho' = [o \in DOMAIN macho |->
                               IF o \in s.fileoff .. end - 1
                                 THEN s.source_offset + (o - s.fileoff) ELSE macho[o]]
                /\ copied' = copied + 1
                /\ UNCHANGED <<step, elf, filterVars, layout, file_offset, text_base, entryoff>>

\* The file that fs::write leaves.
MachOFile == [segments |-> layout, entryoff |-> entryoff, bytes |-> macho]

\* convert_elf_to_macho returns and its locals are gone.
ConvertReturns ==
  /\ step' = "idle" /\ elf' = NoElf /\ scanned' = 0 /\ loadable' = <<>>
  /\ layout' = <<>> /\ file_offset' = 0 /\ text_base' = NO_TEXT
  /\ entryoff' = 0 /\ macho' = <<>> /\ copied' = 0

Converted == step = "copy" /\ copied = Len(layout)

ConvertStep ==
  \/ ParseElf \/ FilterHeader \/ SizeCommands \/ LayOutSegment \/ WriteCommands
  \/ CopySegmentData

-----------------------------------------------------------------------------

\* Types: every number that is stored fits a usize.
ConvertTypeOK ==
  /\ step \in {"idle", "parse", "filter", "layout", "copy", "failed", "panicked"}
  /\ elf \in ElfType /\ scanned \in 0 .. Len(elf.headers)
  /\ file_offset \in Usize /\ entryoff \in Usize
  /\ \A i \in 1 .. Len(layout) : layout[i].fileoff \in Usize
  /\ text_base # NO_TEXT => text_base.vmaddr \in Usize /\ text_base.fileoff \in Usize
  /\ copied \in 0 .. Len(layout)

\* While segments are copied no copy overwrites the load commands or the data
\* of another segment: their ranges in the file are apart.  Nor is any write to
\* the buffer out of range: a panic means that the ELF file is shorter than a
\* segment in it.
CopiesApart ==
  /\ step = "copy" =>
       /\ \A o \in 0 .. Cursor - 1 : macho[o] = COMMAND
       /\ \A i \in 1 .. copied : \A k \in 0 .. layout[i].filesize - 1 :
            macho[layout[i].fileoff + k] = layout[i].source_offset + k
  /\ step = "panicked" =>
       \E i \in 1 .. Len(elf.headers) :
         Loadable(elf.headers[i]) /\ elf.headers[i].offset + elf.headers[i].filesz > elf.size
=============================================================================
