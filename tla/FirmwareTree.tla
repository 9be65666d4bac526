---------------------------- MODULE FirmwareTree ----------------------------
(***************************************************************************)
(* What the firmware's blobs stand for, against which the boot of          *)
(* DeviceTree is checked.  This module is for TLC only: what a tree looks  *)
(* like on the console is a recursive operator.                            *)
(***************************************************************************)
EXTENDS DeviceTree

CONSTANTS
  Source,          \* Source[b]: the tree that blob b encodes, for complete blobs
  Cuts             \* blobs that end inside the root node

\* The tree a boot should show, with a name property in every node.
RECURSIVE Named(_)
Named(n) ==
  LET given == \E p \in ToSet(n.props) : p.name = NAME
      own   == IF n.name = <<>> THEN SLASH ELSE n.name
  IN  Node((IF given THEN <<>> ELSE <<Prop(NAME, own)>>) \o n.props,
           [i \in 1 .. Len(n.children) |-> Named(n.children[i])])

Expected == IF fdt = <<>> THEN FallbackTree ELSE Named(Source[fdt])

\* The console's lines for a tree.
RECURSIVE Listing(_, _)
Listing(n, depth) ==
  <<NodeLine(depth, Len(n.props), Len(n.children))>>
    \o [i \in 1 .. Len(n.props) |-> PropLine(n.props[i])]
    \o FlattenSeq([i \in 1 .. Len(n.children) |-> Listing(n.children[i], depth + 1)])

Known == fdt = <<>> \/ fdt \in DOMAIN Source

\* The kernel prints the firmware's tree: parser, writer, boot arguments and
\* reader agree on every length and padding.  Handed too short a length it
\* prints a beginning of the tree and nothing that is not in it.
KernelPrintsFirmwareTree ==
  Known /\ dump # "idle" =>
    LET lines == Listing(Expected, 0)
    IN  IsPrefix(console, lines) /\ (dump = "done" => console = lines)

\* A blob that ends before its root node does is refused, wherever it ends, and
\* so never comes to be written; a complete one is not.
RefusedIffCut ==
  /\ stage = "refused" => fdt \notin DOMAIN Source
  /\ stage = "write" => fdt \notin Cuts
=============================================================================
