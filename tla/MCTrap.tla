------------------------------- MODULE MCTrap -------------------------------
(***************************************************************************)
(* Instance of Trap for TLC: a user program that makes the system calls    *)
(* below in any order, with two distinguishable register contents.         *)
(***************************************************************************)
EXTENDS Trap

write(fd, buf, len) == [nr |-> SYS_WRITE, x0 |-> fd, x1 |-> buf, x2 |-> len]

\* Every setting of RW and TGE, with none, one, two or all of the routing bits
\* the kernel keeps.
HcrValues ==
  {s \union r : s \in SUBSET {"RW", "TGE"},
               r \in {{}, {"IMO"}, {"FMO", "AMO"}, {"TEA"}, {"IMO", "FMO", "AMO", "TEA"}}}

\* Readable user memory; the byte after it is not.
ReadableBytes == 20 .. 24

\* exit, an unknown number, and writes on each side of every test that
\* dispatch makes; the last buffer runs off the end of readable memory.
SmallCalls ==
  { [nr |-> SYS_EXIT, x0 |-> 42, x1 |-> 0, x2 |-> 0],
    [nr |-> 7, x0 |-> 1, x1 |-> 20, x2 |-> 1],
    write(1, 20, 0), write(1, 20, 2), write(2, 21, 3), write(1, 20, 4),
    write(0, 20, 1), write(1, 0, 1), write(1, 23, 3) }
=============================================================================
