----------------------------- MODULE MCUserExec -----------------------------
(***************************************************************************)
(* Instances of UserExec for TLC: a 64-byte address space with four-byte   *)
(* pages, an eight-byte "2 MiB" and RAM from 8 to 47.                      *)
(***************************************************************************)
EXTENDS UserExec

Seg(t, va, vsz, off, fsz) ==
  [text |-> t, vmaddr |-> va, vmsize |-> vsz, fileoff |-> off, filesize |-> fsz]
Prog(segs, main) == [segs |-> segs, main |-> main]

SmallRam == 8 .. 47

\* The embedded test program, __TEXT and a BSS with a hole below
\* it, segments out of order at the top of the address space, an empty
\* __PAGEZERO; programs without segments, LC_MAIN or __TEXT.
Linked ==
  { TEST_USER_MACHO,
    Prog(<<Seg(FALSE, 0, 0, 0, 0), Seg(TRUE, 5, 4, 2, 4), Seg(FALSE, 12, 3, 6, 0)>>, 4),
    Prog(<<Seg(FALSE, 60, 3, 9, 2), Seg(TRUE, 56, 4, 1, 4)>>, 3),
    Prog(<<Seg(TRUE, 32, 0, 16, 0)>>, 16),
    Prog(<<Seg(TRUE, 32, 4, 16, 4)>>, NO_MAIN),
    Prog(<<Seg(FALSE, 32, 4, 16, 4)>>, 16) }

\* More data than memory; a second __TEXT and a copy that overlaps; __TEXT
\* without memory, below the image or so high that its entry wraps; segments
\* that wrap, or need more memory than there is.
Malformed ==
  { Prog(<<Seg(TRUE, 40, 4, 16, 9)>>, 18),
    Prog(<<Seg(TRUE, 40, 4, 16, 4), Seg(TRUE, 42, 4, 20, 4)>>, 21),
    Prog(<<Seg(TRUE, 8, 0, 16, 0), Seg(FALSE, 32, 4, 16, 4)>>, 16),
    Prog(<<Seg(TRUE, 62, 0, 0, 0), Seg(FALSE, 32, 4, 16, 4)>>, 8),
    Prog(<<Seg(TRUE, 56, 4, 1, 4), Seg(FALSE, 62, 4, 5, 4)>>, 1),
    Prog(<<Seg(TRUE, 0, 60, 0, 4)>>, 2) }

AllFiles == Linked \union Malformed

Args(kind, top) == [kind |-> kind, top_of_kernel_data |-> top]

\* Tops that need rounding or not, leave little RAM, or overflow when rounded.
AllArgs ==
  { Args("null", 0), Args("unsupported", 60), Args("ok", 8), Args("ok", 17),
    Args("ok", 24), Args("ok", 36), Args("ok", 56), Args("ok", 60) }

\* The kernel's stack, boot arguments and device tree at the end of RAM.
UsedAtEnd == { 40 .. 47 }

\* ... or in any free pages, as AllocateType::AnyPages permits.
UsedAnywhere == { 24 .. 27, 40 .. 43 }
FromLoader == { Args("ok", 20) }
=============================================================================
