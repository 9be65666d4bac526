--------------------------- MODULE CacheSyncProofs ---------------------------
(***************************************************************************)
(* Proofs about CacheSync: for any line size, address space and range, in  *)
(* all three builds, whatever the caches do meanwhile.                     *)
(***************************************************************************)
EXTENDS CacheSync, TLAPS

-----------------------------------------------------------------------------
(* Numbers. *)

\* Division with remainder by a positive number.
LEMMA ModBounds ==
  ASSUME NEW y \in Int, NEW a \in Nat \ {0}
  PROVE  /\ y % a \in 0 .. a - 1
         /\ y = a * (y \div a) + (y % a)
         /\ y \div a \in Int
  OBVIOUS

\* A value below the modulus is its own remainder.
LEMMA ModSmall ==
  ASSUME NEW y \in Nat, NEW n \in Nat, y < n
  PROVE  y % n = y
  OBVIOUS

\* A multiple of a leaves no remainder.
LEMMA ModMultiple ==
  ASSUME NEW a \in Nat \ {0}, NEW q \in Int
  PROVE  (a * q) % a = 0
  OBVIOUS

\* Multiplication by a natural number is monotone.
LEMMA TimesMonotone ==
  ASSUME NEW a \in Nat, NEW p \in Int, NEW q \in Int, p <= q
  PROVE  a * p <= a * q
  OBVIOUS

\* Quotient and remainder are unique.
LEMMA DivUnique ==
  ASSUME NEW a \in Nat \ {0}, NEW q \in Int, NEW r \in 0 .. a - 1
  PROVE  (a * q + r) \div a = q /\ (a * q + r) % a = r
  OBVIOUS

\* Two multiples of a are apart by at least a.
LEMMA MultiplesApart ==
  ASSUME NEW a \in Nat \ {0}, NEW x \in Int, NEW y \in Int,
         x % a = 0, y % a = 0, x < y
  PROVE  x + a <= y
<1> DEFINE p == x \div a
           q == y \div a
<1>1. x = a * p /\ y = a * q /\ p \in Int /\ q \in Int
  BY ModBounds
<1> HIDE DEF p, q
<1>2. CASE q <= p
  BY <1>1, <1>2, TimesMonotone
<1>3. CASE p + 1 <= q
  <2>1. a * (p + 1) <= a * q
    BY <1>1, <1>3, TimesMonotone
  <2>2. a * (p + 1) = a * p + a
    BY <1>1
  <2>3. QED
    BY <1>1, <2>1, <2>2
<1>4. QED
  BY <1>1, <1>2, <1>3

\* v - (v % a) is the greatest multiple of a that is not above v.
LEMMA RoundDown ==
  ASSUME NEW v \in Int, NEW a \in Nat \ {0}
  PROVE  LET r == v - (v % a)
         IN  /\ r \in Int /\ r <= v /\ v < r + a
             /\ r % a = 0
             /\ v >= 0 => r >= 0
             /\ \A m \in Int : m % a = 0 /\ m <= v => m <= r
<1> DEFINE r == v - (v % a)
           q == v \div a
<1>1. v % a \in 0 .. a - 1 /\ v = a * q + (v % a) /\ q \in Int
  BY ModBounds
<1>2. r \in Int /\ r <= v /\ v < r + a /\ r = a * q
  BY <1>1
<1>3. r % a = 0
  BY <1>1, <1>2, ModMultiple
<1> HIDE DEF r, q
<1>4. ASSUME NEW m \in Int, m % a = 0, m <= v
      PROVE  m <= r
  <2>1. CASE r < m
    BY <1>2, <1>3, <1>4, <2>1, MultiplesApart
  <2>2. QED
    BY <1>2, <2>1
<1>5. 0 % a = 0
  BY ModSmall
<1>6. v >= 0 => r >= 0
  BY <1>4, <1>5
<1>7. QED
  BY <1>2, <1>3, <1>4, <1>6 DEF r

-----------------------------------------------------------------------------

\* The routine covers the whole range: the sum that is its end does not
\* overflow, or the loader saturates it.
Covered == RangeFits \/ variant = "loader"

\* The loop variable is at a line the loops step to, or saturated.
Aligned == addr % CACHE_LINE = 0 \/ (variant = "loader" /\ addr = U64_MAX)

\* end as Begin computes it.
EndIs == end = IF range.start + range.len <= U64_MAX THEN range.start + range.len
               ELSE IF variant = "loader" THEN U64_MAX ELSE end

\* Lines the running loop has passed.
Passed == {LineOf(a) : a \in FirstLine .. addr - 1}

AfterClean == {"inval", "inval_dsb", "isb", "done"}

\* What is known at each step.  A line that has been passed by the first loop
\* is written back or has its clean under way; after the barrier none is left.
\* Then the same for old lines of the instruction cache and the second loop.
Progress ==
  /\ pc \in {"clean", "inval"} => Aligned
  /\ pc \notin {"begin", "panic"} => EndIs
  /\ pc = "clean" => \A l \in Passed : l \in unwritten => l \in cleaning
  /\ pc = "clean_dsb" /\ Covered => unwritten \subseteq cleaning
  /\ pc \in AfterClean => cleaning = {}
  /\ pc \in AfterClean /\ Covered => unwritten = {}
  /\ pc = "inval" /\ Covered => \A l \in Passed \intersect Lines : icache[l] = "old" => l \in dropping
  /\ pc = "inval_dsb" /\ Covered => \A l \in Lines : icache[l] = "old" => l \in dropping
  /\ pc \in {"isb", "done"} /\ Covered => \A l \in Lines : icache[l] # "old"
  /\ pc = "done" /\ Covered => pipeline = "empty"

IInv == TypeOK /\ Progress

-----------------------------------------------------------------------------
(* Lines and the loop.                                                      *)

\* A multiple of the line size is a multiple of the step.
LEMMA MultipleOfStep ==
  ASSUME NEW x \in Int, x % HW_LINE = 0
  PROVE  x % CACHE_LINE = 0
<1> DEFINE q == x \div HW_LINE
           k == HW_LINE \div CACHE_LINE
<1>1. HW_LINE \in Nat \ {0} /\ CACHE_LINE \in Nat \ {0} /\ HW_LINE % CACHE_LINE = 0
  BY CacheAssumption
<1>2. x = HW_LINE * q /\ q \in Int
  BY <1>1, ModBounds
<1>3. HW_LINE = CACHE_LINE * k /\ k \in Int
  BY <1>1, ModBounds
<1> HIDE DEF q, k
<1>4. x = CACHE_LINE * (k * q) /\ k * q \in Int
  BY <1>1, <1>2, <1>3
<1>5. QED
  BY <1>1, <1>4, ModMultiple

\* The first address of a line is an address, not above the others.
LEMMA LineFacts ==
  ASSUME NEW a \in 0 .. U64_MAX
  PROVE  /\ LineOf(a) \in 0 .. a /\ LineOf(a) \in AllLines
         /\ LineOf(a) % HW_LINE = 0 /\ a < LineOf(a) + HW_LINE
<1>1. HW_LINE \in Nat \ {0} /\ U64_MAX \in Nat
  BY CacheAssumption
<1>2. QED
  BY <1>1, RoundDown DEF LineOf, AllLines

\* The lines of the range are lines of memory.
LEMMA LinesAreLines ==
  ASSUME TypeOK
  PROVE  Lines \subseteq AllLines
  BY DEF Lines, AllLines

\* All bytes a step of the loop passes are in one line of the machine.
LEMMA SameLine ==
  ASSUME NEW b \in 0 .. U64_MAX, b % CACHE_LINE = 0, NEW a \in b .. b + CACHE_LINE - 1
  PROVE  LineOf(a) = LineOf(b)
<1> DEFINE L == LineOf(b)
           q == L \div HW_LINE
<1>1. HW_LINE \in Nat \ {0} /\ CACHE_LINE \in Nat \ {0} /\ U64_MAX \in Nat
  BY CacheAssumption
<1>2. L \in 0 .. b /\ L % HW_LINE = 0 /\ b < L + HW_LINE /\ b \in Int /\ L \in Int
  BY <1>1, LineFacts
<1> HIDE DEF L
<1>3. L = HW_LINE * q /\ q \in Int
  BY <1>1, <1>2, ModBounds
<1> HIDE DEF q
<1>4. (L + HW_LINE) % CACHE_LINE = 0
  <2>1. L + HW_LINE = HW_LINE * (q + 1) /\ q + 1 \in Int /\ L + HW_LINE \in Int
    BY <1>1, <1>3
  <2>2. (L + HW_LINE) % HW_LINE = 0
    BY <1>1, <2>1, ModMultiple
  <2>3. QED
    BY <2>1, <2>2, MultipleOfStep
<1>5. b + CACHE_LINE <= L + HW_LINE
  <2>1. b \in Int /\ L + HW_LINE \in Int /\ b < L + HW_LINE
    BY <1>1, <1>2
  <2>2. QED
    BY <1>1, <1>4, <2>1, MultiplesApart, Zenon
<1>6. a = HW_LINE * q + (a - L) /\ a - L \in 0 .. HW_LINE - 1
  BY <1>1, <1>2, <1>3, <1>5
<1>7. a % HW_LINE = a - L
  <2> DEFINE r == a - L
  <2>1. a = HW_LINE * q + r /\ r \in 0 .. HW_LINE - 1
    BY <1>6
  <2> HIDE DEF r
  <2>2. (HW_LINE * q + r) % HW_LINE = r
    BY <1>1, <1>3, <2>1, DivUnique, Zenon
  <2>3. QED
    BY <2>1, <2>2, Zenon DEF r
<1>8. QED
  BY <1>1, <1>2, <1>7 DEF LineOf, L

\* Where the loops start.
LEMMA FirstLineFacts ==
  ASSUME TypeOK
  PROVE  /\ range.start \in 0 .. U64_MAX /\ range.len \in 0 .. U64_MAX
         /\ FirstLine \in 0 .. range.start /\ FirstLine % CACHE_LINE = 0
<1>1. range.start \in 0 .. U64_MAX /\ range.len \in 0 .. U64_MAX
  BY CacheAssumption DEF TypeOK
<1>2. CACHE_LINE \in Nat \ {0} /\ U64_MAX \in Nat
  BY CacheAssumption
<1>3. QED
  BY <1>1, <1>2, RoundDown DEF FirstLine

\* The address space is a whole number of steps.
LEMMA TopIsAligned == U64_MAX + 1 \in Int /\ (U64_MAX + 1) % CACHE_LINE = 0
<1>1. U64_MAX + 1 \in Int /\ (U64_MAX + 1) % HW_LINE = 0
  BY CacheAssumption
<1>2. QED
  BY <1>1, MultipleOfStep

\* When a loop has reached its end it has passed every line of the range, also
\* where the loader's end is saturated and excludes the last byte.
LEMMA AllPassed ==
  ASSUME TypeOK, EndIs, Covered, addr >= end
  PROVE  Lines \subseteq Passed
<1>1. U64_MAX \in Nat /\ CACHE_LINE \in Nat /\ CACHE_LINE >= 2
  BY CacheAssumption
<1>2. /\ range.start \in 0 .. U64_MAX /\ range.len \in 0 .. U64_MAX
      /\ FirstLine \in 0 .. range.start /\ FirstLine % CACHE_LINE = 0
  BY FirstLineFacts
<1>3. addr \in 0 .. U64_MAX /\ end \in 0 .. U64_MAX
  BY DEF TypeOK
<1>4. ASSUME NEW b \in RangeBytes \intersect (0 .. U64_MAX)
      PROVE  LineOf(b) \in Passed
  <2>1. b \in range.start .. range.start + range.len - 1 /\ b \in 0 .. U64_MAX
    BY <1>4 DEF RangeBytes
  <2>2. CASE b < end
    <3>1. b \in FirstLine .. addr - 1
      BY <1>1, <1>2, <1>3, <2>1, <2>2
    <3>2. QED
      BY <3>1 DEF Passed
  <2>3. CASE b >= end
    <3> DEFINE c == U64_MAX + 1 - CACHE_LINE
    <3>1. variant = "loader" /\ end = U64_MAX /\ b = U64_MAX
      BY <1>1, <1>2, <1>3, <2>1, <2>3 DEF EndIs, Covered, RangeFits
    <3>2. FirstLine + CACHE_LINE <= U64_MAX + 1
      <4>1. FirstLine \in Int /\ FirstLine < U64_MAX + 1 /\ CACHE_LINE \in Nat \ {0}
        BY <1>1, <1>2
      <4>2. QED
        BY <1>2, <4>1, TopIsAligned, MultiplesApart
    <3>3. c \in FirstLine .. addr - 1 /\ c \in 0 .. U64_MAX /\ b \in c .. c + CACHE_LINE - 1
      BY <1>1, <1>2, <1>3, <2>1, <3>1, <3>2
    <3>4. c % CACHE_LINE = 0
      <4> DEFINE q == (U64_MAX + 1) \div CACHE_LINE
      <4>1. U64_MAX + 1 = CACHE_LINE * q /\ q \in Int
        BY <1>1, TopIsAligned, ModBounds
      <4> HIDE DEF q
      <4>2. c = CACHE_LINE * (q - 1) /\ q - 1 \in Int
        BY <1>1, <4>1
      <4>3. QED
        BY <1>1, <4>2, ModMultiple
    <3> HIDE DEF c
    <3>5. LineOf(b) = LineOf(c)
      BY <3>3, <3>4, SameLine
    <3>6. QED
      BY <3>3, <3>5 DEF Passed
  <2>4. QED
    BY <1>3, <2>1, <2>2, <2>3
<1>5. QED
  BY <1>4 DEF Lines

\* The loop variable after a step: aligned, and what was passed is what had
\* been passed before and the line of addr.
LEMMA NextLineFacts ==
  ASSUME TypeOK, Aligned, addr < end, NextLine
  PROVE  /\ addr' \in 0 .. U64_MAX
         /\ Aligned'
         /\ pc' \in {pc, "panic"}
         /\ Passed' \subseteq Passed \union {LineOf(addr)}
<1>1. U64_MAX \in Nat /\ CACHE_LINE \in Nat \ {0}
  BY CacheAssumption
<1>2. addr \in 0 .. U64_MAX /\ end \in 0 .. U64_MAX
  BY DEF TypeOK
<1>3. addr < U64_MAX /\ addr % CACHE_LINE = 0
  BY <1>1, <1>2 DEF Aligned
<1>4. addr + CACHE_LINE <= U64_MAX + 1
  <2>1. addr \in Int /\ addr < U64_MAX + 1
    BY <1>1, <1>2
  <2>2. QED
    BY <1>1, <1>3, <2>1, TopIsAligned, MultiplesApart
<1>5. (addr + CACHE_LINE) % CACHE_LINE = 0
  <2> DEFINE q == addr \div CACHE_LINE
  <2>1. addr = CACHE_LINE * q /\ q \in Int
    BY <1>1, <1>2, <1>3, ModBounds
  <2> HIDE DEF q
  <2>2. addr + CACHE_LINE = CACHE_LINE * (q + 1) /\ q + 1 \in Int
    BY <1>1, <2>1
  <2>3. QED
    BY <1>1, <2>2, ModMultiple
<1>6. /\ variant' = variant /\ range' = range
      /\ pc' \in {pc, "panic"}
      /\ \/ addr' = addr
         \/ addr' = Add(addr, CACHE_LINE)
  BY DEF NextLine
<1>7. \/ addr' = addr
      \/ addr' = addr + CACHE_LINE /\ addr + CACHE_LINE <= U64_MAX
      \/ addr' = 0
      \/ addr' = U64_MAX /\ variant = "loader" /\ addr + CACHE_LINE = U64_MAX + 1
  <2>1. CASE variant = "loader"
    BY <1>1, <1>2, <1>4, <1>6, <2>1 DEF Add, Overflows
  <2>2. CASE variant # "loader" /\ addr + CACHE_LINE <= U64_MAX
    <3>1. Wrap(addr + CACHE_LINE) = addr + CACHE_LINE
      BY <1>1, <1>2, <2>2, ModSmall DEF Wrap
    <3>2. QED
      BY <1>6, <2>2, <3>1 DEF Add
  <2>3. CASE variant # "loader" /\ addr + CACHE_LINE > U64_MAX
    <3>1. addr + CACHE_LINE = U64_MAX + 1
      BY <1>1, <1>2, <1>4, <2>3
    <3>2. (U64_MAX + 1) % (U64_MAX + 1) = 0
      BY <1>1
    <3>3. QED
      BY <1>6, <2>3, <3>1, <3>2 DEF Add, Wrap
  <2>4. QED
    BY <1>1, <1>2, <2>1, <2>2, <2>3
<1>8. addr' \in 0 .. U64_MAX
  BY <1>1, <1>2, <1>7
<1>9. 0 % CACHE_LINE = 0
  BY <1>1, ModSmall
<1>10. Aligned'
  BY <1>3, <1>5, <1>6, <1>7, <1>9 DEF Aligned
<1>11. FirstLine' = FirstLine /\ FirstLine \in 0 .. U64_MAX
  BY <1>6, FirstLineFacts, <1>1 DEF FirstLine
<1>12. ASSUME NEW a \in FirstLine .. addr' - 1
       PROVE  LineOf(a) \in Passed \union {LineOf(addr)}
  <2>1. CASE a < addr
    BY <1>1, <1>2, <1>11, <2>1 DEF Passed
  <2>2. CASE a >= addr
    <3>1. a \in addr .. addr + CACHE_LINE - 1
      BY <1>1, <1>2, <1>7, <1>11, <1>12, <2>2
    <3>2. QED
      BY <1>2, <1>3, <3>1, SameLine
  <2>3. QED
    BY <1>2, <1>11, <2>1, <2>2
<1>13. Passed' \subseteq Passed \union {LineOf(addr)}
  BY <1>11, <1>12 DEF Passed, LineOf
<1>14. QED
  BY <1>6, <1>8, <1>10, <1>13

-----------------------------------------------------------------------------
(* The invariant.                                                           *)

LEMMA InitEstablishesIInv == Init => IInv
<1> SUFFICES ASSUME Init
             PROVE  IInv
  OBVIOUS
<1>1. TypeOK
  BY CacheAssumption DEF Init, TypeOK
<1>2. Progress
  BY DEF Init, Progress, AfterClean
<1>3. QED
  BY <1>1, <1>2 DEF IInv

\* The call computes the aligned start and the end of its loops.
LEMMA BeginStep ==
  ASSUME IInv, Begin
  PROVE  IInv'
<1>1. CASE Panics(range.start + range.len)
  BY <1>1 DEF IInv, Begin, Panic, TypeOK, Progress, AfterClean, caches, Lines, RangeBytes
<1>2. CASE ~Panics(range.start + range.len)
  <2>1. /\ pc = "begin" /\ pc' = "clean"
        /\ end' = Add(range.start, range.len) /\ addr' = FirstLine
        /\ UNCHANGED <<variant, range, unwritten, icache, cleaning, dropping, pipeline>>
    BY <1>2 DEF Begin, caches
  <2>2. /\ range.start \in 0 .. U64_MAX /\ range.len \in 0 .. U64_MAX
        /\ FirstLine \in 0 .. range.start /\ FirstLine % CACHE_LINE = 0
    BY FirstLineFacts DEF IInv
  <2>3. U64_MAX \in Nat /\ U64_MAX + 1 \in Nat \ {0}
    BY CacheAssumption
  <2>4. end' \in 0 .. U64_MAX /\ EndIs'
    <3>1. CASE variant = "loader"
      BY <2>1, <2>2, <2>3, <3>1 DEF Add, Overflows, EndIs
    <3>2. CASE variant # "loader"
      <4> DEFINE e == range.start + range.len
      <4>1. e \in Nat /\ end' = e % (U64_MAX + 1)
        BY <2>1, <2>2, <2>3, <3>2 DEF Add, Wrap
      <4>2. e <= U64_MAX => end' = e
        BY <2>3, <4>1, ModSmall
      <4>3. end' \in 0 .. U64_MAX
        BY <2>3, <4>1, ModBounds
      <4>4. QED
        BY <2>1, <3>2, <4>2, <4>3 DEF EndIs
    <3>3. QED
      BY <3>1, <3>2
  <2>5. TypeOK'
    BY <2>1, <2>2, <2>3, <2>4 DEF IInv, TypeOK, Lines, RangeBytes
  <2>6. Aligned'
    BY <2>1, <2>2 DEF Aligned
  <2>7. Passed' = {}
    <3>1. FirstLine' = FirstLine
      BY <2>1 DEF FirstLine
    <3>2. FirstLine .. FirstLine - 1 = {}
      BY <2>2, <2>3
    <3>3. QED
      BY <2>1, <3>1, <3>2 DEF Passed
  <2>8. QED
    BY <2>1, <2>4, <2>5, <2>6, <2>7 DEF IInv, Progress, AfterClean
<1>3. QED
  BY <1>1, <1>2

\* What depends on the arguments of the call alone.
LEMMA SameCall ==
  ASSUME UNCHANGED <<variant, range>>
  PROVE  /\ Lines' = Lines /\ FirstLine' = FirstLine /\ Covered' = Covered
         /\ addr' = addr => Passed' = Passed /\ Aligned' = Aligned
         /\ end' = end => (EndIs => EndIs')
  BY DEF Lines, RangeBytes, FirstLine, Covered, RangeFits, Passed, Aligned, EndIs, LineOf

\* A turn of the first loop issues a clean for the line at the loop variable.
LEMMA CleanStep ==
  ASSUME IInv, Clean
  PROVE  IInv'
<1>1. /\ pc = "clean" /\ addr < end /\ NextLine
      /\ cleaning' = cleaning \union {LineOf(addr)}
      /\ UNCHANGED <<variant, range, end, unwritten, icache, dropping, pipeline>>
  BY DEF Clean, NextLine
<1>2. TypeOK /\ Aligned /\ EndIs /\ \A l \in Passed : l \in unwritten => l \in cleaning
  BY <1>1 DEF IInv, Progress
<1>3. /\ addr' \in 0 .. U64_MAX /\ Aligned' /\ pc' \in {"clean", "panic"}
      /\ Passed' \subseteq Passed \union {LineOf(addr)}
  BY <1>1, <1>2, NextLineFacts
<1>4. Lines' = Lines /\ EndIs'
  BY <1>1, <1>2, SameCall
<1>5. LineOf(addr) \in AllLines
  BY <1>2, LineFacts DEF TypeOK
<1>6. TypeOK'
  BY <1>1, <1>2, <1>3, <1>4, <1>5 DEF TypeOK
<1>7. \A l \in Passed' : l \in unwritten' => l \in cleaning'
  BY <1>1, <1>2, <1>3
<1>8. QED
  BY <1>3, <1>4, <1>6, <1>7 DEF IInv, Progress, AfterClean

\* The first loop ends when it has passed the whole range.
LEMMA CleanDoneStep ==
  ASSUME IInv, CleanDone
  PROVE  IInv'
<1>1. /\ pc = "clean" /\ addr >= end /\ pc' = "clean_dsb"
      /\ UNCHANGED <<variant, range, addr, end, unwritten, icache, cleaning, dropping, pipeline>>
  BY DEF CleanDone, caches
<1>2. TypeOK /\ EndIs /\ \A l \in Passed : l \in unwritten => l \in cleaning
  BY <1>1 DEF IInv, Progress
<1>3. Lines' = Lines /\ EndIs' /\ Covered' = Covered
  BY <1>1, <1>2, SameCall
<1>4. TypeOK'
  BY <1>1, <1>2, <1>3 DEF TypeOK
<1>5. Covered => unwritten \subseteq cleaning
  <2>1. Covered => Lines \subseteq Passed
    BY <1>1, <1>2, AllPassed
  <2>2. QED
    BY <1>2, <2>1 DEF TypeOK
<1>6. QED
  BY <1>1, <1>3, <1>4, <1>5 DEF IInv, Progress, AfterClean

\* Behind the first barrier every line of the range is written back.
LEMMA DsbAfterCleanStep ==
  ASSUME IInv, DsbAfterClean
  PROVE  IInv'
<1>1. /\ pc = "clean_dsb" /\ cleaning = {} /\ pc' = "inval" /\ addr' = FirstLine
      /\ UNCHANGED <<variant, range, end, unwritten, icache, cleaning, dropping, pipeline>>
  BY DEF DsbAfterClean, caches
<1>2. TypeOK /\ EndIs /\ (Covered => unwritten \subseteq cleaning)
  BY <1>1 DEF IInv, Progress
<1>3. Lines' = Lines /\ EndIs' /\ Covered' = Covered /\ FirstLine' = FirstLine
  BY <1>1, <1>2, SameCall
<1>4. FirstLine \in 0 .. range.start /\ range.start \in 0 .. U64_MAX /\ FirstLine % CACHE_LINE = 0
  BY <1>2, FirstLineFacts
<1>5. U64_MAX \in Nat
  BY CacheAssumption
<1>6. TypeOK'
  BY <1>1, <1>2, <1>3, <1>4, <1>5 DEF TypeOK
<1>7. Aligned'
  BY <1>1, <1>4 DEF Aligned
<1>8. Passed' = {}
  <2>1. FirstLine .. FirstLine - 1 = {}
    BY <1>4, <1>5
  <2>2. QED
    BY <1>1, <1>3, <2>1 DEF Passed
<1>9. cleaning' = {} /\ (Covered' => unwritten' = {})
  BY <1>1, <1>2, <1>3
<1>10. QED
  BY <1>1, <1>3, <1>6, <1>7, <1>8, <1>9 DEF IInv, Progress, AfterClean

\* A turn of the second loop issues an invalidate for its line.
LEMMA InvalidateStep ==
  ASSUME IInv, Invalidate
  PROVE  IInv'
<1>1. /\ pc = "inval" /\ addr < end /\ NextLine
      /\ dropping' = dropping \union {LineOf(addr)}
      /\ UNCHANGED <<variant, range, end, unwritten, icache, cleaning, pipeline>>
  BY DEF Invalidate, NextLine
<1>2. /\ TypeOK /\ Aligned /\ EndIs /\ cleaning = {} /\ (Covered => unwritten = {})
      /\ Covered => \A l \in Passed \intersect Lines : icache[l] = "old" => l \in dropping
  BY <1>1 DEF IInv, Progress, AfterClean
<1>3. /\ addr' \in 0 .. U64_MAX /\ Aligned' /\ pc' \in {"inval", "panic"}
      /\ Passed' \subseteq Passed \union {LineOf(addr)}
  BY <1>1, <1>2, NextLineFacts
<1>4. Lines' = Lines /\ EndIs' /\ Covered' = Covered
  BY <1>1, <1>2, SameCall
<1>5. LineOf(addr) \in AllLines
  BY <1>2, LineFacts DEF TypeOK
<1>6. TypeOK'
  BY <1>1, <1>2, <1>3, <1>4, <1>5 DEF TypeOK
<1>7. Covered' => \A l \in Passed' \intersect Lines' : icache'[l] = "old" => l \in dropping'
  BY <1>1, <1>2, <1>3, <1>4
<1>8. cleaning' = {} /\ (Covered' => unwritten' = {})
  BY <1>1, <1>2, <1>4
<1>9. QED
  BY <1>3, <1>4, <1>6, <1>7, <1>8 DEF IInv, Progress, AfterClean

\* The second loop ends when it has passed the whole range.
LEMMA InvalidateDoneStep ==
  ASSUME IInv, InvalidateDone
  PROVE  IInv'
<1>1. /\ pc = "inval" /\ addr >= end /\ pc' = "inval_dsb"
      /\ UNCHANGED <<variant, range, addr, end, unwritten, icache, cleaning, dropping, pipeline>>
  BY DEF InvalidateDone, caches
<1>2. /\ TypeOK /\ EndIs /\ cleaning = {} /\ (Covered => unwritten = {})
      /\ Covered => \A l \in Passed \intersect Lines : icache[l] = "old" => l \in dropping
  BY <1>1 DEF IInv, Progress, AfterClean
<1>3. Lines' = Lines /\ EndIs' /\ Covered' = Covered
  BY <1>1, <1>2, SameCall
<1>4. TypeOK'
  BY <1>1, <1>2, <1>3 DEF TypeOK
<1>5. Covered => \A l \in Lines : icache[l] = "old" => l \in dropping
  <2>1. Covered => Lines \subseteq Passed
    BY <1>1, <1>2, AllPassed
  <2>2. QED
    BY <1>2, <2>1
<1>6. QED
  BY <1>1, <1>2, <1>3, <1>4, <1>5 DEF IInv, Progress, AfterClean

\* The second barrier and the ISB.
LEMMA LastSteps ==
  ASSUME IInv, DsbAfterInvalidate \/ Isb
  PROVE  IInv'
<1>1. /\ UNCHANGED <<variant, range, addr, end, unwritten, icache, cleaning, dropping>>
      /\ \/ pc = "inval_dsb" /\ dropping = {} /\ pc' = "isb" /\ pipeline' = pipeline
         \/ pc = "isb" /\ pc' = "done" /\ pipeline' = "empty"
  BY DEF DsbAfterInvalidate, Isb, caches
<1>2. /\ TypeOK /\ EndIs /\ cleaning = {} /\ (Covered => unwritten = {})
      /\ Covered => \A l \in Lines : icache[l] = "old" => l \in dropping /\ pc = "inval_dsb"
  BY <1>1 DEF IInv, Progress, AfterClean
<1>3. Lines' = Lines /\ EndIs' /\ Covered' = Covered
  BY <1>1, <1>2, SameCall
<1>4. TypeOK'
  BY <1>1, <1>2, <1>3 DEF TypeOK
<1>5. Covered' => \A l \in Lines' : icache'[l] # "old"
  BY <1>1, <1>2, <1>3
<1>6. QED
  BY <1>1, <1>2, <1>3, <1>4, <1>5 DEF IInv, Progress, AfterClean

\* The caches may do what they like: a write-back or a completed clean makes
\* fewer lines unwritten, and a line that is fetched when none is unwritten is
\* new.
LEMMA HardwareStep ==
  ASSUME IInv, Hardware
  PROVE  IInv'
<1>1. UNCHANGED <<variant, range, pc, addr, end>>
  BY DEF Hardware, TakesEffect, CleanTakesEffect, InvalidateTakesEffect, WriteBack,
         Prefetch, SpeculateOld, routine
<1>2. /\ Lines' = Lines /\ Covered' = Covered /\ Passed' = Passed
      /\ (Aligned => Aligned') /\ (EndIs => EndIs')
  BY <1>1, SameCall
<1>3. ASSUME NEW l \in AllLines, CleanTakesEffect(l)
      PROVE  IInv'
  <2>1. /\ cleaning' = cleaning \ {l} /\ unwritten' = unwritten \ {l}
        /\ UNCHANGED <<icache, dropping, pipeline>>
    BY <1>3 DEF CleanTakesEffect
  <2>2. TypeOK'
    BY <1>1, <1>2, <2>1 DEF IInv, TypeOK
  <2>3. Progress'
    BY <1>1, <1>2, <2>1 DEF IInv, Progress, AfterClean
  <2>4. QED
    BY <2>2, <2>3 DEF IInv
<1>4. ASSUME NEW l \in AllLines, InvalidateTakesEffect(l)
      PROVE  IInv'
  <2>1. /\ dropping' = dropping \ {l}
        /\ icache' = [k \in Lines |-> IF k = l THEN "none" ELSE icache[k]]
        /\ UNCHANGED <<unwritten, cleaning, pipeline>>
    BY <1>4 DEF InvalidateTakesEffect
  <2>2. TypeOK'
    BY <1>1, <1>2, <2>1 DEF IInv, TypeOK
  <2>3. \A k \in Lines : icache'[k] = "old" => icache[k] = "old" /\ k # l
    BY <2>1
  <2>4. Progress'
    BY <1>1, <1>2, <2>1, <2>3 DEF IInv, Progress, AfterClean
  <2>5. QED
    BY <2>2, <2>4 DEF IInv
<1>5. ASSUME NEW l \in Lines, WriteBack(l)
      PROVE  IInv'
  <2>1. unwritten' = unwritten \ {l} /\ UNCHANGED <<icache, cleaning, dropping, pipeline>>
    BY <1>5 DEF WriteBack
  <2>2. TypeOK'
    BY <1>1, <1>2, <2>1 DEF IInv, TypeOK
  <2>3. Progress'
    BY <1>1, <1>2, <2>1 DEF IInv, Progress, AfterClean
  <2>4. QED
    BY <2>2, <2>3 DEF IInv
<1>6. ASSUME NEW l \in Lines, Prefetch(l)
      PROVE  IInv'
  <2>1. /\ icache' = [icache EXCEPT ![l] = IF l \in unwritten THEN "old" ELSE "new"]
        /\ UNCHANGED <<unwritten, cleaning, dropping, pipeline>>
    BY <1>6 DEF Prefetch
  <2>2. icache \in [Lines -> {"none", "old", "new"}]
    BY DEF IInv, TypeOK
  <2>3. TypeOK'
    BY <1>1, <1>2, <2>1, <2>2 DEF IInv, TypeOK
  <2>4. pc \in AfterClean /\ Covered =>
          \A k \in Lines : icache'[k] = "old" => icache[k] = "old"
    BY <2>1, <2>2 DEF IInv, Progress
  <2>5. Progress'
    BY <1>1, <1>2, <2>1, <2>4 DEF IInv, Progress, AfterClean
  <2>6. QED
    BY <2>3, <2>5 DEF IInv
<1>7. ASSUME NEW l \in Lines, SpeculateOld(l)
      PROVE  IInv'
  <2>1. icache[l] = "old" /\ pipeline' = "old" /\ UNCHANGED <<unwritten, icache, cleaning, dropping>>
    BY <1>7 DEF SpeculateOld
  <2>2. TypeOK'
    BY <1>1, <1>2, <2>1 DEF IInv, TypeOK
  <2>3. ~(pc = "done" /\ Covered)
    BY <2>1 DEF IInv, Progress
  <2>4. Progress'
    BY <1>1, <1>2, <2>1, <2>3 DEF IInv, Progress, AfterClean
  <2>5. QED
    BY <2>2, <2>4 DEF IInv
<1>8. QED
  BY <1>3, <1>4, <1>5, <1>6, <1>7 DEF Hardware, TakesEffect

\* The routine and the hardware keep the invariant.
LEMMA IInvStep == IInv /\ [Next]_vars => IInv'
<1> SUFFICES ASSUME IInv, [Next]_vars
             PROVE  IInv'
  OBVIOUS
<1>1. CASE Routine
  BY <1>1, BeginStep, CleanStep, CleanDoneStep, DsbAfterCleanStep, InvalidateStep,
     InvalidateDoneStep, LastSteps DEF Routine
<1>2. CASE Hardware
  BY <1>2, HardwareStep
<1>3. CASE UNCHANGED vars
  <2>1. UNCHANGED <<variant, range, pc, addr, end, unwritten, icache, cleaning, dropping, pipeline>>
    BY <1>3 DEF vars
  <2>2. /\ Lines' = Lines /\ Covered' = Covered /\ Passed' = Passed
        /\ (Aligned => Aligned') /\ (EndIs => EndIs')
    BY <2>1, SameCall
  <2>3. TypeOK'
    BY <2>1, <2>2 DEF IInv, TypeOK
  <2>4. Progress'
    BY <2>1, <2>2 DEF IInv, Progress
  <2>5. QED
    BY <2>3, <2>4 DEF IInv
<1>4. QED
  BY <1>1, <1>2, <1>3 DEF Next

\* In every reachable state each line that the loops passed has its instruction
\* issued or in effect, and none is unwritten behind the first barrier.
THEOREM InvariantHolds == Spec => []IInv
  BY InitEstablishesIInv, IInvStep, PTL DEF Spec

-----------------------------------------------------------------------------

\* In all three builds the loop variable and the end of the range are 64-bit
\* addresses at every step, and the caches hold lines of the range.
THEOREM TypeCorrect == Spec => []TypeOK
  BY InvariantHolds, PTL DEF IInv

\* After the routine returned, nothing fetched from the range is stale, for any
\* line size, range and behaviour of the caches: the loader's for every range,
\* the kernel's for every range that ends within the address space.
THEOREM FetchedIsNew == Spec => []FetchesNew
<1>1. IInv => FetchesNew
  BY DEF IInv, Progress, AfterClean, FetchesNew, Covered
<1>2. QED
  BY <1>1, InvariantHolds, PTL

\* Between the first barrier and the return no line relapses: one that was
\* dropped or fetched anew is not fetched with old contents again.
THEOREM NoRelapse == Spec => OldLinesStayOut
<1> DEFINE Kept ==
      \A l \in Lines :
        pc \in {"inval", "inval_dsb", "isb", "done"} /\ RangeFits /\ icache[l] # "old"
          => icache'[l] # "old"
<1>1. IInv /\ [Next]_vars => [Kept]_vars
  <2> SUFFICES ASSUME IInv, [Next]_vars,
                      NEW l \in Lines, pc \in AfterClean, RangeFits, icache[l] # "old"
               PROVE  icache'[l] # "old"
    BY DEF AfterClean
  <2>1. unwritten = {} /\ icache \in [Lines -> {"none", "old", "new"}]
    BY DEF IInv, Progress, TypeOK, Covered
  <2>2. CASE icache' = icache
    BY <2>2
  <2>3. ASSUME NEW k \in AllLines, InvalidateTakesEffect(k)
        PROVE  icache'[l] # "old"
    BY <2>3 DEF InvalidateTakesEffect
  <2>4. ASSUME NEW k \in Lines, Prefetch(k)
        PROVE  icache'[l] # "old"
    BY <2>1, <2>4 DEF Prefetch
  <2>5. \/ icache' = icache
        \/ \E k \in AllLines : InvalidateTakesEffect(k)
        \/ \E k \in Lines : Prefetch(k)
    BY DEF Next, Routine, Begin, Panic, Clean, CleanDone, DsbAfterClean, Invalidate,
           InvalidateDone, DsbAfterInvalidate, Isb, Hardware, TakesEffect,
           CleanTakesEffect, WriteBack, SpeculateOld, vars, caches
  <2>6. QED
    BY <2>2, <2>3, <2>4, <2>5
<1>2. QED
  BY <1>1, InvariantHolds, PTL DEF Spec, OldLinesStayOut
=============================================================================
