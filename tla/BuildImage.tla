----------------------------- MODULE BuildImage -----------------------------
(***************************************************************************)
(* The commands of xtask.  `cargo xtask build-image` compiles loader and   *)
(* kernel, converts the kernel (ElfToMachO), and leaves a bundle and a     *)
(* disk image in target/qemu; `run` boots the image in QEMU afterwards.    *)
(* A command may fail or be killed at any step and is then started again   *)
(* on what it left.  cargo, the file system, the GPT and FAT libraries and *)
(* QEMU are external.                                                      *)
(***************************************************************************)
EXTENDS ElfToMachO

CONSTANTS
  Histories,   \* possible histories of the sources: the kernel's ELF per revision
  Configs,     \* configurations cargo is used with: each has its own loader-<hash>.efi
  MAX_COMMANDS \* bound on commands

ASSUME BuildAssumption ==
  /\ \A h \in Histories : h \in Seq(ElfType) /\ h # <<>>
  /\ Configs \subseteq Nat /\ Configs # {} /\ IsFiniteSet(Configs)
  /\ MAX_COMMANDS \in Nat

VARIABLES
  commands,    \* commands so far
  history,     \* the kernel of each revision
  source,      \* the revision of the working tree
  config,      \* the configuration in use
  clock,
  efi,         \* target/*/debug/deps/*.efi: [rev, mtime] by configuration, or NO_FILE
  kernel_elf,  \* revision of target/*/debug/kernel, or NONE
  files,       \* what is at each path of target/qemu
  cmd,         \* the command that runs or ran last
  pc,          \* its next step, "idle" when none runs
  runs,        \* cargo_many: runs yet to do
  loader_efi,  \* what discover_efi_artifact returned: a configuration
  exit,        \* exit code of the latest command, 1 if it was killed
  seen         \* history of the command: see Fresh

worldVars == <<commands, history, source, config, clock, efi, kernel_elf>>
procVars == <<cmd, pc, runs, loader_efi, exit, seen>>
vars == <<convertVars, worldVars, files, procVars>>

NONE == -1
NO_FILE == [rev |-> 0, mtime |-> 0]
PARTIAL == [partial |-> TRUE]
ABSENT == [absent |-> TRUE]

Bundle == {"kernel.elf", "kernel.macho", "BOOTAA64.EFI", "MANIFEST.toml"}
Image == {"gpt", "fat", "EFI/BOOT/BOOTAA64.EFI", "KERNEL", "STARTUP.NSH", "unmounted"}

\* failed: a cargo run did not succeed; built: build_image returned Ok(true);
\* loader, kernel: what cargo built for it; compiled: the loader was not found
\* up to date; disturbed: somebody else used cargo meanwhile.
Fresh == [failed |-> FALSE, built |-> FALSE, compiled |-> FALSE, disturbed |-> FALSE,
          loader |-> [config |-> NONE, rev |-> 0], kernel |-> NONE]

Init ==
  /\ ConvertInit
  /\ commands = 0 /\ history \in Histories /\ source = 1 /\ clock = 0
  /\ config = CHOOSE c \in Configs : TRUE
  /\ efi = [c \in Configs |-> NO_FILE] /\ kernel_elf = NONE
  /\ files = [p \in Bundle \union Image |-> ABSENT]
  /\ cmd = "none" /\ pc = "idle" /\ runs = 0 /\ loader_efi = NONE /\ exit = NONE
  /\ seen = Fresh

-----------------------------------------------------------------------------
\* The world around the command.

EditSources ==
  /\ source < Len(history)
  /\ source' = source + 1
  /\ UNCHANGED <<convertVars, commands, history, config, clock, efi, kernel_elf, files, procVars>>

SwitchConfig ==
  /\ pc = "idle"
  /\ config' \in Configs \ {config}
  /\ UNCHANGED <<convertVars, commands, history, source, clock, efi, kernel_elf, files, procVars>>

\* cargo build -p loader: a file that is up to date is not touched.
CompileLoader ==
  IF efi[config].rev = source
    THEN UNCHANGED <<efi, clock>>
    ELSE /\ clock' = clock + 1
         /\ efi' = [efi EXCEPT ![config] = [rev |-> source, mtime |-> clock + 1]]

\* Somebody builds in another terminal.
OtherBuild ==
  /\ pc \notin {"idle", "qemu"}
  /\ CompileLoader
  /\ kernel_elf' = source
  /\ <<efi', kernel_elf'>> # <<efi, kernel_elf>>
  /\ seen' = [seen EXCEPT !.disturbed = TRUE]
  /\ UNCHANGED <<convertVars, commands, history, source, config, files,
                 cmd, pc, runs, loader_efi, exit>>

-----------------------------------------------------------------------------

\* main, of the commands that only run cargo and of those that build.
Start ==
  /\ pc = "idle" /\ commands < MAX_COMMANDS
  /\ commands' = commands + 1
  /\ cmd' \in {"check", "clippy", "fmt", "build-image", "run"}
  /\ pc' = IF cmd' \in {"build-image", "run"} THEN "build_loader" ELSE "cargo_many"
  /\ runs' = CASE cmd' \in {"check", "clippy"} -> 3 [] cmd' = "fmt" -> 1 [] OTHER -> 0
  /\ exit' = NONE /\ seen' = Fresh
  /\ UNCHANGED <<convertVars, history, source, config, clock, efi, kernel_elf, files, loader_efi>>

\* No command, or an unknown one.
Usage ==
  /\ pc = "idle" /\ commands < MAX_COMMANDS
  /\ commands' = commands + 1
  /\ cmd' = "unknown" /\ exit' = 2 /\ seen' = Fresh
  /\ UNCHANGED <<convertVars, history, source, config, clock, efi, kernel_elf, files,
                 pc, runs, loader_efi>>

\* The command ends; the conversion's locals are gone.
Return(code) ==
  /\ pc' = "idle" /\ exit' = code /\ runs' = 0 /\ loader_efi' = NONE
  /\ ConvertReturns

Goto(label) == pc' = label /\ UNCHANGED <<convertVars, cmd, runs, loader_efi, exit>>

NextRun == runs' = runs - 1 /\ UNCHANGED <<convertVars, pc, loader_efi, exit>>

\* Mutant of CargoMany: the loop stops at the first run that succeeds.
CargoManyAny ==
  /\ pc = "cargo_many"
  /\ \/ /\ IF runs = 1 THEN Return(1) ELSE NextRun
        /\ seen' = [seen EXCEPT !.failed = TRUE]
     \/ Return(0) /\ UNCHANGED seen
  /\ UNCHANGED <<worldVars, files, cmd>>

\* One turn of cargo_many's loop: check and clippy make three, fmt one.
CargoMany ==
  /\ pc = "cargo_many"
  /\ \/ Return(1) /\ seen' = [seen EXCEPT !.failed = TRUE]
     \/ runs = 1 /\ Return(0) /\ UNCHANGED seen
     \/ runs > 1 /\ NextRun /\ UNCHANGED seen
  /\ UNCHANGED <<worldVars, files, cmd>>

\* build_image returned Ok(false): run_qemu does not look at it.
NotBuilt ==
  /\ seen' = [seen EXCEPT !.failed = TRUE]
  /\ IF cmd = "run" THEN Goto("firmware") ELSE Return(1) /\ UNCHANGED cmd

BuildLoader ==
  /\ pc = "build_loader"
  /\ \/ NotBuilt /\ UNCHANGED <<clock, efi>>
     \/ /\ CompileLoader
        /\ seen' = [seen EXCEPT !.compiled = efi[config].rev # source,
                                 !.loader = [config |-> config, rev |-> source]]
        /\ Goto("build_kernel")
  /\ UNCHANGED <<commands, history, source, config, kernel_elf, files>>

\* cargo build -p kernel, of sources that may have changed since.
BuildKernel ==
  /\ pc = "build_kernel"
  /\ \/ NotBuilt /\ UNCHANGED kernel_elf
     \/ kernel_elf' = source /\ Goto("discover") /\ seen' = [seen EXCEPT !.kernel = source]
  /\ UNCHANGED <<commands, history, source, config, clock, efi, files>>

\* Mutant of Newest: the first entry of the directory is taken.
NewestFirst(c) == efi[c] # NO_FILE

\* discover_efi_artifact: no other candidate is newer.
Newest(c) == efi[c] # NO_FILE /\ \A d \in Configs : efi[d].mtime <= efi[c].mtime

\* The directories and the loader's path.
Discover ==
  /\ pc = "discover"
  /\ \E c \in Configs : Newest(c) /\ loader_efi' = c
  /\ pc' = "copy_elf"
  /\ UNCHANGED <<convertVars, worldVars, files, cmd, runs, exit, seen>>

\* A file is written whole, and the command goes on.
Store(path, value) == files' = [files EXCEPT ![path] = value]
Write(label, path, value, then) ==
  /\ pc = label
  /\ Store(path, value)
  /\ Goto(then)
  /\ UNCHANGED <<worldVars, seen>>

LoaderFile == [config |-> loader_efi, rev |-> efi[loader_efi].rev]

\* Mutant of CopyElf: a copy that exists is kept.
CopyElfOnce ==
  Write("copy_elf", "kernel.elf",
        IF files["kernel.elf"] = ABSENT THEN [rev |-> kernel_elf] ELSE files["kernel.elf"],
        "convert")

CopyElf == Write("copy_elf", "kernel.elf", [rev |-> kernel_elf], "convert")

\* convert_elf_to_macho reads the file anew.
Convert ==
  /\ pc = "convert"
  /\ ReadElf(history[kernel_elf]) \/ ConvertStep
  /\ UNCHANGED <<worldVars, files, procVars>>
WriteMachO ==
  /\ pc = "convert" /\ Converted
  /\ Store("kernel.macho", MachOFile)
  /\ ConvertReturns
  /\ pc' = "copy_efi"
  /\ UNCHANGED <<worldVars, cmd, runs, loader_efi, exit, seen>>

CopyEfi == Write("copy_efi", "BOOTAA64.EFI", LoaderFile, "manifest")
WriteManifest == Write("manifest", "MANIFEST.toml", [text |-> TRUE], "open")

\* build_uefi_disk_image: the old image is truncated first.
OpenImage ==
  /\ pc = "open"
  /\ files' = [p \in DOMAIN files |-> IF p \in Image THEN ABSENT ELSE files[p]]
  /\ Goto("gpt")
  /\ UNCHANGED <<worldVars, seen>>
WriteGpt == Write("gpt", "gpt", [text |-> TRUE], "format")
FormatVolume == Write("format", "fat", [text |-> TRUE], "loader_file")

\* populate_esp; the loader is read from deps once more.
LoaderIntoFat == Write("loader_file", "EFI/BOOT/BOOTAA64.EFI", LoaderFile, "kernel_file")
KernelIntoFat == Write("kernel_file", "KERNEL", files["kernel.macho"], "startup")
StartupIntoFat == Write("startup", "STARTUP.NSH", [text |-> TRUE], "unmount")

\* fs.unmount, and build_image's Ok(true).
Unmount ==
  /\ pc = "unmount"
  /\ Store("unmounted", [text |-> TRUE])
  /\ seen' = [seen EXCEPT !.built = TRUE]
  /\ IF cmd = "run" THEN Goto("firmware") ELSE Return(0) /\ UNCHANGED cmd
  /\ UNCHANGED worldVars

\* qemu_firmware_path and run_qemu.
StartQemu ==
  /\ pc = "firmware"
  /\ Goto("qemu")
  /\ UNCHANGED <<worldVars, files, seen>>
QemuExits ==
  /\ pc = "qemu"
  /\ \E code \in {0, 1} : Return(code)
  /\ UNCHANGED <<worldVars, files, cmd, seen>>

\* The path that a step writes.
Target ==
  CASE pc = "copy_elf" -> {"kernel.elf"} [] pc = "convert" /\ Converted -> {"kernel.macho"}
    [] pc = "copy_efi" -> {"BOOTAA64.EFI"} [] pc = "manifest" -> {"MANIFEST.toml"}
    [] pc = "gpt" -> {"gpt"} [] pc = "format" -> {"fat"}
    [] pc = "loader_file" -> {"EFI/BOOT/BOOTAA64.EFI"} [] pc = "kernel_file" -> {"KERNEL"}
    [] pc = "startup" -> {"STARTUP.NSH"} [] OTHER -> {}

\* An `?` returns or the command is killed, in the middle of a write or not.
Interrupted ==
  /\ pc # "idle"
  /\ \/ UNCHANGED files
     \/ \E p \in Target : files' = [files EXCEPT ![p] = PARTIAL]
  /\ Return(1)
  /\ seen' = Fresh
  /\ UNCHANGED <<worldVars, cmd>>

\* The conversion refused the kernel or panicked.
ConvertFails ==
  /\ step \in {"failed", "panicked"}
  /\ Return(IF step = "failed" THEN 1 ELSE 101)
  /\ UNCHANGED <<worldVars, files, cmd, seen>>

Step ==
  \/ CargoMany \/ BuildLoader \/ BuildKernel \/ Discover \/ CopyElf \/ Convert \/ WriteMachO
  \/ CopyEfi \/ WriteManifest \/ OpenImage \/ WriteGpt \/ FormatVolume \/ LoaderIntoFat
  \/ KernelIntoFat \/ StartupIntoFat \/ Unmount \/ StartQemu \/ ConvertFails

Next ==
  \/ EditSources \/ SwitchConfig \/ OtherBuild \/ Start \/ Usage
  \/ Step \/ QemuExits \/ Interrupted

Spec == Init /\ [][Next]_vars

-----------------------------------------------------------------------------

\* Types; only a running command has no exit code and only convert's locals live
\* during the conversion.
TypeOK ==
  /\ ConvertTypeOK
  /\ history \in Histories /\ source \in 1 .. Len(history) /\ config \in Configs
  /\ \A c \in Configs : efi[c].rev \in 0 .. source /\ efi[c].mtime \in 0 .. clock
  /\ kernel_elf \in {NONE} \union 1 .. source
  /\ DOMAIN files = Bundle \union Image
  /\ runs \in 0 .. 3 /\ loader_efi \in Configs \union {NONE}
  /\ exit \in {NONE, 0, 1, 2, 101} /\ (pc # "idle" => exit = NONE)
  /\ pc # "convert" => step = "idle"

\* build_image returned Ok(true), to main or to run_qemu.
Delivered ==
  seen.built /\ (pc \in {"firmware", "qemu"} \/ (cmd = "build-image" /\ exit = 0))

\* m lists, in the order of the ELF, the headers that have memory to fill.
Lists(m, n, e) ==
  /\ \A i, j \in 1 .. n : i < j => m[i] < m[j]
  /\ \A k \in 1 .. Len(e.headers) :
       (e.headers[k].load /\ e.headers[k].memsz > 0) <=> \E i \in 1 .. n : m[i] = k

\* The file holds what the loadable segments of the ELF hold, for addresses and
\* sizes as linked.
Carries(f, e) ==
  \E m \in [1 .. Len(f.segments) -> 1 .. Len(e.headers)] :
    /\ Lists(m, Len(f.segments), e)
    /\ \A i \in 1 .. Len(f.segments) :
         LET s == f.segments[i]
             h == e.headers[m[i]]
         IN  /\ s.vmaddr = h.vaddr /\ s.vmsize = h.memsz /\ s.filesize = h.filesz
             /\ \A k \in 0 .. s.filesize - 1 : f.bytes[s.fileoff + k] = h.offset + k

\* goblin's entry of a Mach-O: LC_MAIN from the first __TEXT.
GoblinEntry(f) ==
  LET texts == {i \in 1 .. Len(f.segments) : f.segments[i].segname = TEXT}
      text  == f.segments[Min(texts)]
  IN  text.vmaddr - text.fileoff + f.entryoff

\* What kernel/linker/aarch64.ld gives: one executable segment, high enough.
LinkedAsScript(f) ==
  /\ Cardinality({i \in 1 .. Len(f.segments) : f.segments[i].segname = TEXT}) = 1
  /\ \A i \in 1 .. Len(f.segments) : f.segments[i].vmaddr >= f.segments[i].fileoff

\* After Ok(true) the image is complete and its kernel is the one that was
\* compiled, byte for byte, to be entered where its ELF was, whatever earlier
\* commands left behind and wherever they were killed.  A build by somebody
\* else meanwhile may replace it, by a whole kernel of another revision.
ImageCarriesKernel ==
  Delivered =>
    /\ \A p \in Image : files[p] \notin {ABSENT, PARTIAL}
    /\ \E r \in 1 .. source :
         /\ Carries(files["KERNEL"], history[r])
         /\ ~seen.disturbed => r = seen.kernel
         /\ LinkedAsScript(files["KERNEL"]) =>
              GoblinEntry(files["KERNEL"]) = history[r].entry

\* The loader in the image is the one cargo built for this command, if it was
\* compiled now or if no other configuration has ever been built.
LoaderIsTheBuilt ==
  Delivered /\ ~seen.disturbed
    /\ (seen.compiled \/ Cardinality({c \in Configs : efi[c] # NO_FILE}) = 1) =>
      files["EFI/BOOT/BOOTAA64.EFI"] = seen.loader

\* The bundle is what a debugger is given for the image: same loader, same
\* kernel, and the ELF that the kernel was converted from.
BundleDescribesImage ==
  Delivered =>
    /\ files["KERNEL"] = files["kernel.macho"]
    /\ ~seen.disturbed =>
         /\ files["BOOTAA64.EFI"] = files["EFI/BOOT/BOOTAA64.EFI"]
         /\ files["kernel.elf"] # PARTIAL
         /\ Carries(files["KERNEL"], history[files["kernel.elf"].rev])

\* SUCCESS means that every cargo run of the command succeeded; of run it only
\* means that QEMU did.
ExitReports == exit = 0 /\ seen.failed => cmd = "run"
=============================================================================
