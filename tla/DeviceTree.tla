----------------------------- MODULE DeviceTree -----------------------------
(***************************************************************************)
(* The device tree from the firmware to the console: the loader turns the  *)
(* FDT into an ADT (FdtToAdt), passes it in the boot arguments, and the    *)
(* kernel prints it (AdtDump).  Loader and kernel each declare BootArgs;   *)
(* the page between them maps offsets to what the loader stored there.     *)
(***************************************************************************)
EXTENDS AdtDump

CONSTANT ShortLengths     \* lengths a boot loader other than this one may pass

ASSUME LengthsAssumption == ShortLengths \subseteq Nat

VARIABLE page      \* the boot arguments

vars == <<loaderVars, dumpVars, page>>

\* Fields of a repr(C) struct: name, size and alignment.
LoaderBootArgs ==
  << <<"revision", 2, 2>>, <<"version", 2, 2>>, <<"virt_base", 8, 8>>, <<"phys_base", 8, 8>>,
     <<"mem_size", 8, 8>>, <<"top_of_kernel_data", 8, 8>>, <<"video", 48, 8>>,
     <<"machine_type", 4, 4>>, <<"device_tree_p", 8, 8>>, <<"device_tree_length", 4, 4>>,
     <<"command_line", 1024, 1>>, <<"boot_flags", 8, 8>>, <<"mem_size_actual", 8, 8>> >>

KernelBootArgs ==
  << <<"revision", 2, 2>>, <<"version", 2, 2>>, <<"virt_base", 8, 8>>, <<"phys_base", 8, 8>>,
     <<"mem_size", 8, 8>>, <<"top_of_kernel_data", 8, 8>>, <<"video", 48, 8>>,
     <<"machine_type", 4, 4>>, <<"device_tree_p", 8, 8>>, <<"device_tree_length", 4, 4>>,
     <<"command_line", 1024, 1>>, <<"boot_flags", 8, 8>>, <<"mem_size_actual", 8, 8>> >>

RoundUp(n, align) == ((n + align - 1) \div align) * align

\* The end of each of the fields, and the offset repr(C) gives it.
FieldEnds(fields) ==
  LET end[i \in 0 .. Len(fields)] ==
        IF i = 0 THEN 0 ELSE RoundUp(end[i - 1], fields[i][3]) + fields[i][2]
  IN  end
Offsets(fields) ==
  [name \in {fields[i][1] : i \in 1 .. Len(fields)} |->
     LET k == CHOOSE i \in 1 .. Len(fields) : fields[i][1] = name
     IN  RoundUp(FieldEnds(fields)[k - 1], fields[k][3])]
LoaderOffset == Offsets(LoaderBootArgs)
KernelOffset == Offsets(KernelBootArgs)

NULL == 0
ADT_ADDRESS == 1      \* wherever the tree was copied to
VERSION2 == 2

-----------------------------------------------------------------------------

Init == LoaderInit /\ DumpInit /\ page = <<>>

LoaderStep == LoaderNext /\ UNCHANGED <<dumpVars, page>>

\* A page with the fields that are not zero, at the loader's offsets.
BootArgs(len) ==
  LET values == [revision |-> VERSION2, version |-> VERSION2,
                 device_tree_p |-> ADT_ADDRESS, device_tree_length |-> len]
  IN  [o \in {LoaderOffset[f] : f \in DOMAIN values} |->
         values[CHOOSE f \in DOMAIN values : LoaderOffset[f] = o]]

\* BootArgs::zeroed and fill_boot_args.
FillBootArgs ==
  /\ stage = "built"
  /\ stage' = "kernel"
  /\ page' = BootArgs(Len(out))
  /\ UNCHANGED <<tables, fdt, parser, writer, dumpVars>>

\* Another boot loader passes too short a length.
OtherLoader ==
  /\ stage = "built"
  /\ stage' = "kernel"
  /\ \E len \in ShortLengths : len < Len(out) /\ page' = BootArgs(len)
  /\ UNCHANGED <<tables, fdt, parser, writer, dumpVars>>

\* A field as the kernel reads it.
Arg(name) ==
  IF KernelOffset[name] \in DOMAIN page THEN page[KernelOffset[name]] ELSE 0

\* validate_boot_args: the dump, unless version or pointer forbid it.
ValidateBootArgs ==
  /\ stage = "kernel"
  /\ StartDump(IF /\ Arg("revision") = VERSION2 /\ Arg("version") = VERSION2
                  /\ Arg("device_tree_p") # NULL
                 THEN Slice(out, 0, Arg("device_tree_length"))
                 ELSE <<>>)
  /\ UNCHANGED <<loaderVars, page>>

DumpStep == DumpNext /\ UNCHANGED <<loaderVars, page>>

Stopped ==
  /\ stage \in {"refused", "no_memory"} \/ dump \in {"skipped", "done", "malformed"}
  /\ UNCHANGED vars

Next == LoaderStep \/ FillBootArgs \/ OtherLoader \/ ValidateBootArgs \/ DumpStep \/ Stopped

\* One CPU runs the loader and then the kernel, and nothing preempts them.
Spec ==
  /\ Init /\ [][Next]_vars
  /\ WF_vars(LoaderStep \/ FillBootArgs \/ ValidateBootArgs \/ DumpStep)

-----------------------------------------------------------------------------

Whole == dump # "idle" /\ page[LoaderOffset["device_tree_length"]] = Len(out)

\* Types; the parser's position stays within a word of the blob, and the reader's
\* within the tree.
TypeOK ==
  /\ stage \in {"find", "new", "parse", "write", "built", "kernel", "refused", "no_memory"}
  /\ fdt \in Seq(Bytes) /\ out \in Seq(Bytes) /\ tree \in Seq(Bytes)
  /\ pos \in 0 .. Len(fdt) + 3 /\ strings_offset \in 0 .. Len(fdt)
  /\ \A i \in 1 .. Len(open) : DOMAIN open[i] = {"name", "props", "children"}
  /\ \A i \in 1 .. Len(work) : DOMAIN work[i] = {"node", "depth"}
  /\ \A i \in 1 .. Len(pending) : DOMAIN pending[i] = {"name", "value"}
  /\ dump \in {"idle", "run", "skipped", "done", "malformed"}
  /\ walk \in [kind : {"enter", "print", "pass"}, at : 0 .. Len(tree), props : Nat,
               nodes : Nat, child : 0 .. Len(tree) \union {NONE}]
  /\ visit \in Seq([at : 0 .. Len(tree), next : Nat])

\* The line of the console for what was written.
Line(item) ==
  IF item.header
    THEN NodeLine(item.depth, Len(item.node.props), Len(item.node.children))
    ELSE PropLine(item.prop)

\* Whatever FDT the loader accepts, the kernel can read what it wrote to the
\* end, and every node of it has a name, even if FDT_END cut the tree short.
\* The console shows what was written, in order, each node at the depth it has
\* in the tree; handed too short a length the kernel shows a beginning of it.
WrittenIsReadable ==
  /\ dump \in {"malformed", "skipped"} => ~Whole
  /\ Len(console) <= Len(written)
  /\ \A i \in 1 .. Len(console) : console[i] = Line(written[i])
  /\ dump = "done" =>
       /\ Whole /\ Len(console) = Len(written)
       /\ \A i \in 1 .. Len(console) :
            written[i].header =>
              \E j \in i + 1 .. i + console[i].props : console[j].name = NAME

\* Parser and writer end, on any blob, and the dump ends, wherever its tree is cut.
TreeEnds == <>(stage \in {"refused", "no_memory"} \/ dump \in {"skipped", "done", "malformed"})
=============================================================================
