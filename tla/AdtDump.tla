------------------------------- MODULE AdtDump ------------------------------
(***************************************************************************)
(* The kernel's reader of the Apple device tree (kernel/src/device_tree.rs)*)
(* which prints it on the console.  Every slice of a Node runs from the    *)
(* start of the node to the end of the tree, and nodes start at multiples  *)
(* of four, so offsets are counted from the start of the tree here.        *)
(* Bytes are those of FdtToAdt.  Each turn of a loop is an action.  Nodes  *)
(* follow one another, a node before its children, so the recursion of     *)
(* child_at and total_len is a count of the nodes yet to be passed; what   *)
(* total_len goes over more than once it goes over with the same result.   *)
(***************************************************************************)
EXTENDS FdtToAdt

VARIABLES
  dump,      \* "idle", "run", or how it ended: "skipped", "done", "malformed"
  tree,      \* the bytes the kernel was handed
  visit,     \* calls of dump_node in progress: [at, next], next child
  walk,      \* the loop the innermost one is in: see Loop
  console    \* lines printed

dumpVars == <<dump, tree, visit, walk, console>>

PROPERTY_NAME_LEN == 32

\* read_le_u32.
ReadLe(o) ==
  IF o + 4 > Len(tree) THEN NONE
  ELSE At(tree, o) + BYTE * (At(tree, o + 1) + BYTE * (At(tree, o + 2) + BYTE * At(tree, o + 3)))

PropertyCount(o) == ReadLe(o)
ChildCount(o) == ReadLe(o + 4)

\* align_up_4.
AlignUp4(n) == ((n + 3) \div 4) * 4

\* The name of the property at o: up to the first zero of its field.
PropertyName(o) ==
  LET field == Slice(tree, o, o + PROPERTY_NAME_LEN)
      zeros == {i \in 1 .. Len(field) : field[i] = 0}
  IN  IF zeros = {} THEN field ELSE SubSeq(field, 1, Min(zeros) - 1)

ValueStart(o) == o + PROPERTY_NAME_LEN + 4
ValueLen(o) == ReadLe(o + PROPERTY_NAME_LEN)
PropertyValue(o) == Slice(tree, ValueStart(o), ValueStart(o) + ValueLen(o))

\* Property::parse: the end of the property at o, or NONE where it is Err.
PropertyEnd(o) ==
  IF \/ o + PROPERTY_NAME_LEN > Len(tree) \/ ~Utf8(PropertyName(o))
     \/ ValueLen(o) = NONE
     \/ AlignUp4(ValueStart(o) + ValueLen(o)) > Len(tree)
    THEN NONE
    ELSE AlignUp4(ValueStart(o) + ValueLen(o))

\* write_ascii, if is_printable: control characters hide a value.
Printable(v) == v # <<>> /\ \A i \in 1 .. Len(v) : v[i] = 0 \/ v[i] \in LETTER .. BYTE \div 2 - 1
Shown(v) == IF Printable(v) THEN SelectSeq(v, LAMBDA b : b # 0) ELSE <<>>

NodeLine(depth, props, children) == [depth |-> depth, props |-> props, children |-> children]
PropLine(p) == [name |-> p.name, len |-> Len(p.value), shown |-> Shown(p.value)]

\* kind "enter": dump_node is called for the node at `at`; "print": it goes over
\* its properties, props of them from `at` on, and then its children; "pass": child_at
\* goes over props properties from `at` on, then over nodes, to the child wanted and,
\* once child is its offset, to the end of that one.
Loop(kind, at, props, nodes, child) ==
  [kind |-> kind, at |-> at, props |-> props, nodes |-> nodes, child |-> child]
Enter(at) == Loop("enter", at, 0, 0, NONE)

-----------------------------------------------------------------------------

DumpInit == dump = "idle" /\ tree = <<>> /\ visit = <<>> /\ walk = Enter(0) /\ console = <<>>

Here == visit[Len(visit)]

\* dump_apple_device_tree and dump, handed the bytes at device_tree_p.
StartDump(bytes) ==
  /\ dump = "idle"
  /\ tree' = bytes
  /\ dump' = IF Len(bytes) < 8 THEN "skipped" ELSE "run"
  /\ UNCHANGED <<visit, walk, console>>

\* Every `?` of the reader ends the dump.
Malformed == dump' = "malformed" /\ UNCHANGED <<tree, visit, walk, console>>

\* dump_node up to its loops: the node's line.
DumpNode ==
  /\ dump = "run" /\ walk.kind = "enter"
  /\ LET o == walk.at
     IN  IF PropertyCount(o) = NONE \/ ChildCount(o) = NONE
           THEN Malformed
           ELSE /\ console' = Append(console, NodeLine(Len(visit), PropertyCount(o), ChildCount(o)))
                /\ visit' = Append(visit, [at |-> o, next |-> 0])
                /\ walk' = Loop("print", o + 8, PropertyCount(o), 0, NONE)
                /\ UNCHANGED <<dump, tree>>

\* A property's end, where the loop goes on.
NextProperty ==
  walk' = Loop(walk.kind, PropertyEnd(walk.at), walk.props - 1, walk.nodes, walk.child)

DumpProperty ==
  /\ dump = "run" /\ walk.kind = "print"
  /\ walk.props > 0
  /\ IF PropertyEnd(walk.at) = NONE
       THEN Malformed
       ELSE /\ console' = Append(console, PropLine(Prop(PropertyName(walk.at), PropertyValue(walk.at))))
            /\ NextProperty
            /\ UNCHANGED <<dump, tree, visit>>

\* child_at is called for the next child, and starts with properties_end.
DumpChild ==
  /\ dump = "run" /\ walk.kind = "print"
  /\ walk.props = 0 /\ Here.next < ChildCount(Here.at)
  /\ walk' = Loop("pass", Here.at + 8, PropertyCount(Here.at), Here.next, NONE)
  /\ UNCHANGED <<dump, tree, visit, console>>

\* properties_end.
PassProperty ==
  /\ dump = "run" /\ walk.kind = "pass"
  /\ walk.props > 0
  /\ IF PropertyEnd(walk.at) = NONE
       THEN Malformed
       ELSE NextProperty /\ UNCHANGED <<dump, tree, visit, console>>

\* total_len: the node's children are passed before what was to be passed next.
PassNode ==
  /\ dump = "run" /\ walk.kind = "pass"
  /\ walk.props = 0 /\ walk.nodes > 0
  /\ LET o == walk.at
     IN  IF PropertyCount(o) = NONE \/ ChildCount(o) = NONE
           THEN Malformed
           ELSE /\ walk' = Loop("pass", o + 8, PropertyCount(o),
                                (walk.nodes - 1) + ChildCount(o), walk.child)
                /\ UNCHANGED <<dump, tree, visit, console>>

\* child_at is at the child wanted, which must be readable to its end.
ChildReached ==
  /\ dump = "run" /\ walk.kind = "pass"
  /\ walk.props = 0 /\ walk.nodes = 0 /\ walk.child = NONE
  /\ walk' = Loop("pass", walk.at, 0, 1, walk.at)
  /\ UNCHANGED <<dump, tree, visit, console>>

\* child_at returns it.
EnterChild ==
  /\ dump = "run" /\ walk.kind = "pass"
  /\ walk.props = 0 /\ walk.nodes = 0 /\ walk.child # NONE
  /\ visit' = [visit EXCEPT ![Len(visit)] = [at |-> Here.at, next |-> Here.next + 1]]
  /\ walk' = Enter(walk.child)
  /\ UNCHANGED <<dump, tree, console>>

\* dump_node returns to the loop over the children of its caller.
DumpReturns ==
  /\ dump = "run" /\ walk.kind = "print"
  /\ walk.props = 0 /\ Here.next >= ChildCount(Here.at)
  /\ visit' = Front(visit)
  /\ dump' = IF Len(visit) = 1 THEN "done" ELSE "run"
  /\ UNCHANGED <<tree, walk, console>>

DumpNext ==
  \/ DumpNode \/ DumpProperty \/ DumpChild \/ DumpReturns
  \/ PassProperty \/ PassNode \/ ChildReached \/ EnterChild
=============================================================================
