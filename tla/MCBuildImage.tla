---------------------------- MODULE MCBuildImage ----------------------------
(***************************************************************************)
(* Instance of BuildImage for TLC: pages of four bytes, numbers below 64,  *)
(* two configurations, kernels that are edited once and kernels of every   *)
(* shape that are not.                                                     *)
(***************************************************************************)
EXTENDS BuildImage

H(x, w, off, va, fsz, msz) ==
  [load |-> TRUE, x |-> x, w |-> w, offset |-> off, vaddr |-> va, filesz |-> fsz, memsz |-> msz]
Note(off) ==
  [load |-> FALSE, x |-> FALSE, w |-> FALSE, offset |-> off, vaddr |-> 0, filesz |-> 2, memsz |-> 2]
Elf(size, entry, headers) ==
  [valid |-> TRUE, size |-> size, entry |-> entry, headers |-> headers]

\* rodata, text and data with BSS, as the linker script has them.
First == Elf(16, 37, <<H(FALSE, FALSE, 4, 32, 3, 3), H(TRUE, FALSE, 8, 36, 4, 4),
                       H(FALSE, TRUE, 12, 40, 2, 6)>>)
Second == Elf(20, 41, <<H(FALSE, FALSE, 4, 32, 4, 4), H(TRUE, FALSE, 8, 36, 7, 7),
                        H(FALSE, TRUE, 16, 44, 1, 3)>>)

\* BSS only, a segment without memory, a note, segments that share bytes of the
\* file; text below its file offset; two texts; no text, no segment, no ELF; an
\* entry below the text; a file cut short; sizes that overflow.
Shapes ==
  { Elf(16, 36, <<Note(1), H(TRUE, FALSE, 0, 36, 5, 5), H(FALSE, TRUE, 4, 41, 0, 9),
                  H(FALSE, TRUE, 5, 60, 3, 0)>>),
    Elf(16, 39, <<H(TRUE, FALSE, 3, 36, 9, 9), H(FALSE, FALSE, 5, 45, 4, 4)>>),
    Elf(16, 60, <<H(TRUE, FALSE, 3, 2, 1, 60)>>),
    Elf(16, 41, <<H(TRUE, FALSE, 0, 36, 4, 4), H(TRUE, TRUE, 4, 40, 5, 5)>>),
    Elf(16, 36, <<H(FALSE, TRUE, 0, 36, 4, 4)>>),
    Elf(16, 36, <<Note(0)>>),
    [Elf(16, 36, <<>>) EXCEPT !.valid = FALSE],
    Elf(16, 3, <<H(TRUE, FALSE, 0, 36, 4, 4)>>),
    Elf(16, 36, <<H(TRUE, FALSE, 14, 36, 4, 4)>>),
    Elf(16, 36, <<H(TRUE, FALSE, 62, 36, 4, 4)>>),
    Elf(16, 36, <<H(TRUE, FALSE, 0, 36, 4, 4), H(FALSE, TRUE, 4, 40, 50, 50)>>),
    Elf(16, 36, <<H(TRUE, FALSE, 0, 36, 47, 47), H(FALSE, TRUE, 4, 40, 2, 2)>>) }

SmallHistories == {<<First, Second>>} \union {<<e>> : e \in Shapes}
=============================================================================
