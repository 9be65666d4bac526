--------------------------- MODULE MCBumpAllocator ---------------------------
(***************************************************************************)
(* Instances of BumpAllocator for TLC, with the layouts the runs ask for.  *)
(***************************************************************************)
EXTENDS BumpAllocator

\* Byte, word and a layout whose rounded size straddles the end of the heap.
MixedLayouts ==
  { [size |-> 1, align |-> 1], [size |-> 2, align |-> 2], [size |-> 3, align |-> 4] }

\* Adds an alignment stricter than that of the heap array.
StrictLayouts ==
  { [size |-> 1, align |-> 1], [size |-> 1, align |-> 8] }
=============================================================================
