---------------------------- MODULE MCCacheSync -----------------------------
(***************************************************************************)
(* Instances of CacheSync for TLC: the loops step by two bytes over a      *)
(* 16-byte address space.                                                  *)
(***************************************************************************)
EXTENDS CacheSync

Range(s, n) == [start |-> s, len |-> n]

\* Aligned, starting and ending inside a line, one byte, empty, reaching the
\* last line, ending with the address space, and past it.
SmallRanges == { Range(4, 4), Range(3, 4), Range(5, 1), Range(6, 0), Range(13, 2),
                 Range(12, 4), Range(14, 6) }
=============================================================================
