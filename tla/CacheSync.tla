----------------------------- MODULE CacheSync ------------------------------
(***************************************************************************)
(* Making freshly written code visible to instruction fetch:               *)
(* clean_dcache_invalidate_icache of the loader (loader/src/main.rs) and   *)
(* flush_dcache_invalidate_icache of the kernel (exec/loader.rs).  They    *)
(* differ only in how they add: the loader saturates, the kernel uses `+`, *)
(* which panics in the dev profile and wraps in release.                   *)
(*                                                                         *)
(* The caches are external: a line may be written back or prefetched at    *)
(* any time, and a maintenance instruction takes effect at any time before *)
(* the DSB after it completes.  Lines are named by their first address.    *)
(***************************************************************************)
EXTENDS Integers

CONSTANTS
  CACHE_LINE,   \* step of both loops, 64
  HW_LINE,      \* line size of the machine's caches
  U64_MAX,
  Ranges,       \* [start, len] the routine is called with
  Variants      \* subset of {"loader", "kernel_dev", "kernel_release"}

\* The loops step by 64 without reading CTR_EL0: they assume no smaller lines.
\* A line of a single byte would escape the loader's saturated end.
ASSUME CacheAssumption ==
  /\ CACHE_LINE \in Nat \ {0, 1} /\ HW_LINE \in Nat \ {0} /\ U64_MAX \in Nat
  /\ HW_LINE % CACHE_LINE = 0
  /\ (U64_MAX + 1) % HW_LINE = 0
  /\ Ranges \subseteq [start : 0 .. U64_MAX, len : 0 .. U64_MAX]
  /\ Variants \subseteq {"loader", "kernel_dev", "kernel_release"}

VARIABLES
  variant, range,
  pc,          \* "begin", "clean", "clean_dsb", "inval", "inval_dsb", "isb", "done", "panic"
  addr,        \* the loop variable
  end,
  unwritten,   \* lines whose new contents are only in the data cache
  icache,      \* contents of a line in the instruction cache
  cleaning,    \* lines with a DC CVAU that has not completed
  dropping,    \* lines with an IC IVAU that has not completed
  pipeline     \* the core holds an instruction fetched from old contents

vars == <<variant, range, pc, addr, end, unwritten, icache, cleaning, dropping, pipeline>>
caches == <<unwritten, icache, cleaning, dropping, pipeline>>

LineOf(a) == a - (a % HW_LINE)
RangeBytes == range.start .. range.start + range.len - 1
AllLines == {LineOf(a) : a \in 0 .. U64_MAX}
Lines == {LineOf(a) : a \in RangeBytes \intersect (0 .. U64_MAX)}

-----------------------------------------------------------------------------

Overflows(v) == v > U64_MAX
Wrap(v) == v % (U64_MAX + 1)

\* Mutant of Add: the sum is not cut off.
AddWide(a, b) == IF variant = "loader" THEN a + b ELSE Wrap(a + b)

\* a + b as the variant computes it, where it does not panic.
Add(a, b) ==
  IF variant = "loader" THEN IF Overflows(a + b) THEN U64_MAX ELSE a + b
                        ELSE Wrap(a + b)
Panics(v) == variant = "kernel_dev" /\ Overflows(v)

FirstLine == range.start - (range.start % CACHE_LINE)

Init ==
  /\ variant \in Variants
  /\ range \in Ranges
  /\ pc = "begin" /\ addr = 0 /\ end = 0
  /\ unwritten \in SUBSET Lines
  /\ icache \in [Lines -> {"none", "old"}]
  /\ cleaning = {} /\ dropping = {}
  /\ pipeline \in {"empty", "old"}

Panic == pc' = "panic" /\ UNCHANGED <<variant, range, addr, end, caches>>

\* end = start + len, and the first line.
Begin ==
  /\ pc = "begin"
  /\ IF Panics(range.start + range.len)
       THEN Panic
       ELSE /\ end' = Add(range.start, range.len)
            /\ addr' = FirstLine
            /\ pc' = "clean"
            /\ UNCHANGED <<variant, range, caches>>

\* Mutant of NextLine: the loader wraps around as well.
NextLineWraps ==
  /\ addr' = IF Panics(addr + CACHE_LINE) THEN addr ELSE Wrap(addr + CACHE_LINE)
  /\ pc' = IF Panics(addr + CACHE_LINE) THEN "panic" ELSE pc
  /\ UNCHANGED <<variant, range, end>>

\* The end of a loop body: step to the next line.
NextLine ==
  /\ addr' = IF Panics(addr + CACHE_LINE) THEN addr ELSE Add(addr, CACHE_LINE)
  /\ pc' = IF Panics(addr + CACHE_LINE) THEN "panic" ELSE pc
  /\ UNCHANGED <<variant, range, end>>

\* dc cvau
Clean ==
  /\ pc = "clean" /\ addr < end
  /\ cleaning' = cleaning \union {LineOf(addr)}
  /\ NextLine
  /\ UNCHANGED <<unwritten, icache, dropping, pipeline>>

CleanDone ==
  /\ pc = "clean" /\ addr >= end
  /\ pc' = "clean_dsb"
  /\ UNCHANGED <<variant, range, addr, end, caches>>

\* Mutant of DsbAfterClean: the barrier is missing.
NoDsbAfterClean ==
  /\ pc = "clean_dsb"
  /\ addr' = FirstLine
  /\ pc' = "inval"
  /\ UNCHANGED <<variant, range, end, caches>>

\* dsb ish: wait for the cleans, then start over with the second loop.
DsbAfterClean ==
  /\ pc = "clean_dsb"
  /\ cleaning = {}
  /\ addr' = FirstLine
  /\ pc' = "inval"
  /\ UNCHANGED <<variant, range, end, caches>>

\* ic ivau
Invalidate ==
  /\ pc = "inval" /\ addr < end
  /\ dropping' = dropping \union {LineOf(addr)}
  /\ NextLine
  /\ UNCHANGED <<unwritten, icache, cleaning, pipeline>>

InvalidateDone ==
  /\ pc = "inval" /\ addr >= end
  /\ pc' = "inval_dsb"
  /\ UNCHANGED <<variant, range, addr, end, caches>>

\* Mutant of DsbAfterInvalidate: the second barrier is missing.
NoDsbAfterInvalidate ==
  /\ pc = "inval_dsb"
  /\ pc' = "isb"
  /\ UNCHANGED <<variant, range, addr, end, caches>>

DsbAfterInvalidate ==
  /\ pc = "inval_dsb"
  /\ cleaning = {} /\ dropping = {}
  /\ pc' = "isb"
  /\ UNCHANGED <<variant, range, addr, end, caches>>

\* isb: what was fetched before it is fetched again.
Isb ==
  /\ pc = "isb"
  /\ pipeline' = "empty"
  /\ pc' = "done"
  /\ UNCHANGED <<variant, range, addr, end, unwritten, icache, cleaning, dropping>>

Routine == Begin \/ Clean \/ CleanDone \/ DsbAfterClean \/ Invalidate \/ InvalidateDone
           \/ DsbAfterInvalidate \/ Isb

-----------------------------------------------------------------------------
(* The caches and the instruction fetcher.                                  *)

routine == <<variant, range, pc, addr, end>>

CleanTakesEffect(l) ==
  /\ l \in cleaning
  /\ cleaning' = cleaning \ {l}
  /\ unwritten' = unwritten \ {l}
  /\ UNCHANGED <<routine, icache, dropping, pipeline>>

InvalidateTakesEffect(l) ==
  /\ l \in dropping
  /\ dropping' = dropping \ {l}
  /\ icache' = [k \in Lines |-> IF k = l THEN "none" ELSE icache[k]]
  /\ UNCHANGED <<routine, unwritten, cleaning, pipeline>>

WriteBack(l) ==
  /\ l \in unwritten
  /\ unwritten' = unwritten \ {l}
  /\ UNCHANGED <<routine, icache, cleaning, dropping, pipeline>>

Prefetch(l) ==
  /\ icache[l] = "none"
  /\ icache' = [icache EXCEPT ![l] = IF l \in unwritten THEN "old" ELSE "new"]
  /\ UNCHANGED <<routine, unwritten, cleaning, dropping, pipeline>>

SpeculateOld(l) ==
  /\ icache[l] = "old"
  /\ pipeline' = "old"
  /\ UNCHANGED <<routine, unwritten, icache, cleaning, dropping>>

TakesEffect == \E l \in AllLines : CleanTakesEffect(l) \/ InvalidateTakesEffect(l)
Hardware == TakesEffect \/ \E l \in Lines : WriteBack(l) \/ Prefetch(l) \/ SpeculateOld(l)

Next == Routine \/ Hardware

Spec == Init /\ [][Next]_vars

\* The CPU runs the routine, and a barrier completes: every maintenance
\* instruction takes effect some time.
FairSpec == Spec /\ WF_vars(Routine) /\ WF_vars(TakesEffect)

-----------------------------------------------------------------------------

\* Types; the loop variable is a u64.
TypeOK ==
  /\ variant \in Variants /\ range \in Ranges
  /\ pc \in {"begin", "clean", "clean_dsb", "inval", "inval_dsb", "isb", "done", "panic"}
  /\ addr \in 0 .. U64_MAX /\ end \in 0 .. U64_MAX
  /\ unwritten \subseteq Lines
  /\ icache \in [Lines -> {"none", "old", "new"}]
  /\ cleaning \subseteq AllLines /\ dropping \subseteq AllLines
  /\ pipeline \in {"empty", "old"}

\* The addresses of the range are addresses.
RangeFits == range.start + range.len <= U64_MAX

\* When the routine has returned, no fetch from the range can see what was
\* there before: not from memory, not from a cached line, not from the core.
FetchesNew ==
  pc = "done" /\ (RangeFits \/ variant = "loader") =>
    /\ unwritten = {}
    /\ \A l \in Lines : icache[l] # "old"
    /\ pipeline # "old"

\* Once the cleans have completed, no line can be fetched with old contents
\* again, however the caches behave while the second loop runs.
OldLinesStayOut ==
  [][\A l \in Lines :
       pc \in {"inval", "inval_dsb", "isb", "done"} /\ RangeFits /\ icache[l] # "old"
         => icache'[l] # "old"]_vars

\* The routine returns, unless a kernel range reaches the last line of memory,
\* where the kernel's addition panics or starts again from zero.
Returns ==
  [](pc = "begin" /\ (variant = "loader" \/ range.start + range.len + CACHE_LINE <= U64_MAX)
       => <>(pc = "done"))
=============================================================================
