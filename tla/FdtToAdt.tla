------------------------------ MODULE FdtToAdt ------------------------------
(***************************************************************************)
(* The loader's device tree (loader/src/device_tree.rs): it looks the      *)
(* firmware's flattened tree (FDT) up in the UEFI configuration tables,    *)
(* parses it, and writes it in Apple's format (ADT) for the kernel; when   *)
(* the firmware has none it writes a tree of its own.                      *)
(*                                                                         *)
(* A blob is a sequence of bytes and an offset counts from 0.  A byte has  *)
(* BYTE values, 256 in the code; the lower half is ASCII and a text with   *)
(* any other byte is taken for invalid UTF-8.  The recursion of parse_node *)
(* is the stack open, that of write_adt_node the list work.  The variable  *)
(* written is a history of what was written; no action reads it.           *)
(***************************************************************************)
EXTENDS Integers, SequencesExt, FiniteSetsExt

CONSTANTS
  BYTE,           \* number of values of a byte
  FDT_MAGIC,
  ConfigTables    \* possible configuration tables: see EntryType

NONE == -1
Bytes == 0 .. BYTE - 1

\* dtb: the entry has EFI_DTB_TABLE_GUID; bytes: what is at its address.
EntryType == [dtb : BOOLEAN, null : BOOLEAN, bytes : Seq(Bytes)]

At(s, o) == s[o + 1]
Slice(s, from, to) == SubSeq(s, from + 1, to)
Utf8(s) == \A i \in 1 .. Len(s) : s[i] < BYTE \div 2

\* read_be_u32.
ReadBe(s, o) ==
  IF o + 4 > Len(s) THEN NONE
  ELSE ((At(s, o) * BYTE + At(s, o + 1)) * BYTE + At(s, o + 2)) * BYTE + At(s, o + 3)

\* write_le_u32, and the values u32::try_from accepts.
Le(n) ==
  <<n % BYTE, (n \div BYTE) % BYTE, ((n \div BYTE) \div BYTE) % BYTE,
    (((n \div BYTE) \div BYTE) \div BYTE) % BYTE>>
FitsU32(n) == n < BYTE * (BYTE * (BYTE * BYTE))

\* The firmware's blobs are all there: "a valid FDT header".
ASSUME TablesAssumption ==
  /\ BYTE \in Nat /\ BYTE >= 16 /\ FDT_MAGIC \in Nat
  /\ \A t \in ConfigTables : t \in Seq(EntryType) /\
       \A i \in 1 .. Len(t) : ~t[i].null => ReadBe(t[i].bytes, 4) <= Len(t[i].bytes)

VARIABLES
  stage,            \* what build_apple_device_tree does next
  tables,           \* the configuration tables
  fdt,              \* FdtParser::bytes, empty when there is no FDT
  strings_offset,
  pos,
  open,             \* nodes whose parse_node has not returned, innermost last
  work,             \* calls of write_adt_node yet to be made: [node, depth]
  pending,          \* properties of the latest node yet to be written
  out,              \* the ADT
  written           \* headers and properties in out, in order: see HeaderItem

parser == <<strings_offset, pos, open>>
writer == <<work, pending, out, written>>
loaderVars == <<stage, tables, fdt, parser, writer>>

-----------------------------------------------------------------------------

FDT_BEGIN_NODE == 1
FDT_END_NODE == 2
FDT_PROP == 3
FDT_NOP == 4
FDT_END == 9

Prop(name, value) == [name |-> name, value |-> value]
Node(props, children) == [props |-> props, children |-> children]

\* A call of write_adt_node, and how deep it is in the recursion.
Call(node, depth) == [node |-> node, depth |-> depth]

\* A word of n letters c: what is said of texts is their length and identity.
Text(n, c) == [i \in 1 .. n |-> c]
LETTER == BYTE \div 4
NAME == Text(4, LETTER)
SLASH == Text(1, LETTER + 1)

\* The tree that is written when the firmware has none.
FallbackTree ==
  Node(<<Prop(NAME, SLASH), Prop(Text(10, LETTER), Text(16, LETTER)),
         Prop(Text(5, LETTER), Text(16, LETTER + 1)), Prop(Text(14, LETTER), <<0, 0, 0, 2>>),
         Prop(Text(11, LETTER), <<0, 0, 0, 2>>)>>,
       <<Node(<<Prop(NAME, Text(6, LETTER)), Prop(Text(8, LETTER), Text(9, LETTER))>>, <<>>),
         Node(<<Prop(NAME, Text(6, LETTER + 1)), Prop(Text(11, LETTER + 1), Text(6, LETTER + 1)),
                Prop(Text(3, LETTER), Text(16, 4))>>, <<>>)>>)

LoaderInit ==
  /\ stage = "find"
  /\ tables \in ConfigTables
  /\ fdt = <<>>
  /\ strings_offset = 0 /\ pos = 0
  /\ open = <<>>
  /\ work = <<>> /\ pending = <<>> /\ out = <<>> /\ written = <<>>

\* find_fdt goes on to the next entry when one is not usable.
Usable(e) ==
  /\ e.dtb /\ ~e.null
  /\ ReadBe(e.bytes, 4) >= 40 /\ ReadBe(e.bytes, 0) = FDT_MAGIC

FindFdt ==
  /\ stage = "find"
  /\ LET usable == {i \in 1 .. Len(tables) : Usable(tables[i])}
         blob   == tables[Min(usable)].bytes
     IN  IF usable = {}
           THEN stage' = "write" /\ work' = <<Call(FallbackTree, 0)>> /\ UNCHANGED fdt
           ELSE stage' = "new" /\ fdt' = Slice(blob, 0, ReadBe(blob, 4)) /\ UNCHANGED work
  /\ UNCHANGED <<tables, parser, pending, out, written>>

Refuse == stage' = "refused" /\ UNCHANGED <<tables, fdt, parser, writer>>

\* FdtParser::new, on a slice of totalsize bytes.
NewParser ==
  /\ stage = "new"
  /\ IF ReadBe(fdt, 8) >= Len(fdt) \/ ReadBe(fdt, 12) >= Len(fdt)
       THEN Refuse
       ELSE /\ stage' = "parse"
            /\ pos' = ReadBe(fdt, 8)
            /\ strings_offset' = ReadBe(fdt, 12)
            /\ UNCHANGED <<tables, fdt, open, writer>>

\* Mutant of Token: the blob's end is taken for FDT_END.
TokenOrEnd == IF pos + 4 > Len(fdt) THEN 9 ELSE ReadBe(fdt, pos)

\* peek_token.
Token == ReadBe(fdt, pos)

\* Mutant of AlignPos: an aligned position moves on as well.
AlignPosPast(p) == ((p + 4) \div 4) * 4

\* align_pos.
AlignPos(p) == ((p + 3) \div 4) * 4

\* read_cstr and string_at: the offset of the first zero byte, if any, and
\* whether the text up to it is one.
NulAt(o) ==
  LET zeros == {e \in o .. Len(fdt) - 1 : At(fdt, e) = 0}
  IN  IF zeros = {} THEN NONE ELSE Min(zeros)
HasString(o) == NulAt(o) # NONE /\ Utf8(Slice(fdt, o, NulAt(o)))
String(o) == Slice(fdt, o, NulAt(o))

Top == open[Len(open)]
SetTop(node) == open' = [open EXCEPT ![Len(open)] = node]

\* parse_node up to its loop: of the root, or of a child of the open node.
BeginNode ==
  /\ stage = "parse"
  /\ Token = FDT_BEGIN_NODE
  /\ HasString(pos + 4)
  /\ open' = Append(open, [name |-> String(pos + 4), props |-> <<>>, children |-> <<>>])
  /\ pos' = AlignPos(NulAt(pos + 4) + 1)
  /\ UNCHANGED <<stage, tables, fdt, strings_offset, writer>>

\* Room for the name in the ADT, with a zero after it.
NAME_LEN == 32

PropLen == ReadBe(fdt, pos + 4)
PropName == strings_offset + ReadBe(fdt, pos + 8)

PropReadable ==
  /\ ReadBe(fdt, pos + 8) # NONE
  /\ HasString(PropName) /\ Len(String(PropName)) < NAME_LEN
  /\ pos + 12 + PropLen <= Len(fdt)

\* parse_prop.
ParseProp ==
  /\ stage = "parse" /\ open # <<>>
  /\ Token = FDT_PROP
  /\ PropReadable
  /\ LET end == pos + 12 + PropLen
     IN  /\ SetTop([Top EXCEPT !.props =
                      Append(@, Prop(String(PropName), Slice(fdt, pos + 12, end)))])
         /\ pos' = AlignPos(end)
  /\ UNCHANGED <<stage, tables, fdt, strings_offset, writer>>

\* Mutant of SkipNop: the token is only looked at.
SkipNopNot ==
  /\ stage = "parse" /\ open # <<>> /\ Token = FDT_NOP
  /\ UNCHANGED loaderVars

SkipNop ==
  /\ stage = "parse" /\ open # <<>>
  /\ Token = FDT_NOP
  /\ pos' = pos + 4
  /\ UNCHANGED <<stage, tables, fdt, strings_offset, open, writer>>

\* Mutant of Finished: a node is named only if it has no property at all.
FinishedIfBare(n) ==
  Node(IF n.props # <<>> THEN n.props
       ELSE <<Prop(NAME, IF n.name = <<>> THEN SLASH ELSE n.name)>>, n.children)

\* The node parse_node returns: one without a name property gets one.
Finished(n) ==
  Node(IF \E i \in 1 .. Len(n.props) : n.props[i].name = NAME
         THEN n.props
         ELSE <<Prop(NAME, IF n.name = <<>> THEN SLASH ELSE n.name)>> \o n.props,
       n.children)

\* Mutant of EndNode: at FDT_END the node is returned as it is.
EndNodeEarly ==
  /\ stage = "parse" /\ open # <<>>
  /\ Token \in {FDT_END_NODE, FDT_END}
  /\ pos' = IF Token = FDT_END THEN pos ELSE pos + 4
  /\ LET rest == Front(open)
         node == IF Token = FDT_END THEN Node(Top.props, Top.children) ELSE Finished(Top)
     IN  IF rest = <<>>
           THEN open' = <<>> /\ work' = <<Call(node, 0)>> /\ stage' = "write"
           ELSE /\ open' = [rest EXCEPT ![Len(rest)].children = Append(@, node)]
                /\ UNCHANGED <<work, stage>>
  /\ UNCHANGED <<tables, fdt, strings_offset, pending, out, written>>

\* parse_node returns, at FDT_END_NODE or, leaving the token, at FDT_END.
EndNode ==
  /\ stage = "parse" /\ open # <<>>
  /\ Token \in {FDT_END_NODE, FDT_END}
  /\ pos' = IF Token = FDT_END THEN pos ELSE pos + 4
  /\ LET rest == Front(open)
     IN  IF rest = <<>>
           THEN open' = <<>> /\ work' = <<Call(Finished(Top), 0)>> /\ stage' = "write"
           ELSE /\ open' = [rest EXCEPT ![Len(rest)].children = Append(@, Finished(Top))]
                /\ UNCHANGED <<work, stage>>
  /\ UNCHANGED <<tables, fdt, strings_offset, pending, out, written>>

\* Every `?` of the parser is LOAD_ERROR; the root must begin at once.
ParseFails ==
  /\ stage = "parse"
  /\ \/ open = <<>> /\ Token # FDT_BEGIN_NODE
     \/ Token \notin {FDT_BEGIN_NODE, FDT_END_NODE, FDT_PROP, FDT_NOP, FDT_END}
     \/ Token = FDT_BEGIN_NODE /\ ~HasString(pos + 4)
     \/ Token = FDT_PROP /\ ~PropReadable
  /\ Refuse

\* while !out.len().is_multiple_of(4) { out.push(0) }.
Pad(s) == s \o Text((4 - (Len(s) % 4)) % 4, 0)

\* The bytes of write_adt_prop.
PropBytes(p) == p.name \o Text(NAME_LEN - Len(p.name), 0) \o Le(Len(p.value)) \o p.value

\* History: a node's header, with the calls left once its children are due, or
\* a property, at the offset it begins.
HeaderItem(call, left) ==
  [at |-> Len(out), header |-> TRUE, node |-> call.node, depth |-> call.depth, left |-> left]
PropItem(p) == [at |-> Len(out), header |-> FALSE, prop |-> p]

\* write_adt_node up to its properties; its children are due after them and
\* before what was due already.
WriteNode ==
  /\ stage = "write"
  /\ pending = <<>> /\ work # <<>>
  /\ LET call == Head(work)
         n    == call.node
         due  == [i \in 1 .. Len(n.children) |-> Call(n.children[i], call.depth + 1)]
     IN  IF FitsU32(Len(n.props)) /\ FitsU32(Len(n.children))
           THEN /\ out' = out \o Le(Len(n.props)) \o Le(Len(n.children))
                /\ pending' = n.props
                /\ work' = due \o Tail(work)
                /\ written' = Append(written, HeaderItem(call, Len(work')))
                /\ UNCHANGED <<stage, tables, fdt, parser>>
           ELSE Refuse

\* write_adt_prop.
WriteProp ==
  /\ stage = "write"
  /\ pending # <<>>
  /\ LET p == Head(pending)
     IN  IF Len(p.name) < NAME_LEN /\ FitsU32(Len(p.value))
           THEN /\ out' = Pad(out \o PropBytes(p))
                /\ pending' = Tail(pending)
                /\ written' = Append(written, PropItem(p))
                /\ UNCHANGED <<stage, tables, fdt, parser, work>>
           ELSE Refuse

\* Pages for the tree, and its copy; the firmware may have none left.
AllocateTree ==
  /\ stage = "write"
  /\ pending = <<>> /\ work = <<>>
  /\ stage' \in IF FitsU32(Len(out)) THEN {"built", "no_memory"} ELSE {"refused"}
  /\ UNCHANGED <<tables, fdt, parser, writer>>

LoaderNext ==
  \/ FindFdt \/ NewParser
  \/ BeginNode \/ ParseProp \/ SkipNop \/ EndNode \/ ParseFails
  \/ WriteNode \/ WriteProp \/ AllocateTree
=============================================================================
