--------------------------- MODULE UserExecProofs ---------------------------
(***************************************************************************)
(* Proofs about UserExec: for any program, boot arguments, memory and      *)
(* either build profile.                                                   *)
(***************************************************************************)
EXTENDS UserExec, FiniteSetTheorems, WellFoundedInduction, TLAPS

-----------------------------------------------------------------------------
(* Numbers. *)

\* Division with remainder by a positive number.
LEMMA ModBounds ==
  ASSUME NEW y \in Int, NEW a \in Nat \ {0}
  PROVE  /\ y % a \in 0 .. a - 1
         /\ y = a * (y \div a) + (y % a)
         /\ y \div a \in Int
  OBVIOUS

\* A value below the modulus is its own remainder.
LEMMA ModSmall ==
  ASSUME NEW y \in Nat, NEW n \in Nat, y < n
  PROVE  y % n = y
  OBVIOUS

\* A multiple of a leaves no remainder.
LEMMA ModMultiple ==
  ASSUME NEW a \in Nat \ {0}, NEW q \in Int
  PROVE  (a * q) % a = 0
  OBVIOUS

\* Multiplication by a natural number is monotone.
LEMMA TimesMonotone ==
  ASSUME NEW a \in Nat, NEW p \in Int, NEW q \in Int, p <= q
  PROVE  a * p <= a * q
  OBVIOUS

\* Two multiples of a are apart by at least a.
LEMMA MultiplesApart ==
  ASSUME NEW a \in Nat \ {0}, NEW x \in Int, NEW y \in Int,
         x % a = 0, y % a = 0, x < y
  PROVE  x + a <= y
<1> DEFINE p == x \div a
           q == y \div a
<1>1. x = a * p /\ y = a * q /\ p \in Int /\ q \in Int
  BY ModBounds
<1> HIDE DEF p, q
<1>2. CASE q <= p
  BY <1>1, <1>2, TimesMonotone
<1>3. CASE p + 1 <= q
  <2>1. a * (p + 1) <= a * q
    BY <1>1, <1>3, TimesMonotone
  <2>2. a * (p + 1) = a * p + a
    BY <1>1
  <2>3. QED
    BY <1>1, <2>1, <2>2
<1>4. QED
  BY <1>1, <1>2, <1>3

\* v - (v % a) is the greatest multiple of a that is not above v.
LEMMA RoundDown ==
  ASSUME NEW v \in Int, NEW a \in Nat \ {0}
  PROVE  LET r == v - (v % a)
         IN  /\ r \in Int /\ r <= v /\ v < r + a
             /\ r % a = 0
             /\ v >= 0 => r >= 0
             /\ \A m \in Int : m % a = 0 /\ m <= v => m <= r
<1> DEFINE r == v - (v % a)
           q == v \div a
<1>1. v % a \in 0 .. a - 1 /\ v = a * q + (v % a) /\ q \in Int
  BY ModBounds
<1>2. r \in Int /\ r <= v /\ v < r + a /\ r = a * q
  BY <1>1
<1>3. r % a = 0
  BY <1>1, <1>2, ModMultiple
<1> HIDE DEF r, q
<1>4. ASSUME NEW m \in Int, m % a = 0, m <= v
      PROVE  m <= r
  <2>1. CASE r < m
    BY <1>2, <1>3, <1>4, <2>1, MultiplesApart
  <2>2. QED
    BY <1>2, <2>1
<1>5. 0 % a = 0
  BY ModSmall
<1>6. v >= 0 => r >= 0
  BY <1>4, <1>5
<1>7. QED
  BY <1>2, <1>3, <1>4, <1>6 DEF r

\* A set of natural numbers that is not empty has a least element.
LEMMA LeastNat ==
  ASSUME NEW S \in SUBSET Nat, S # {}
  PROVE  \E m \in S : \A k \in S : m <= k
<1> DEFINE R == OpToRel(<, Nat)
<1>1. IsWellFoundedOn(R, Nat)
  BY NatLessThanWellFounded
<1>2. \A x, y \in Nat : y < x => <<y, x>> \in R
  BY DEF OpToRel
<1> HIDE DEF R
<1>3. PICK m \in S : \A y \in S : ~ (<<y, m>> \in R)
  BY <1>1, WFMin
<1>4. \A k \in S : k \in Nat /\ m \in Nat /\ ~ (k < m)
  BY <1>2, <1>3
<1>5. \A k \in S : m <= k
  BY <1>4
<1>6. QED
  BY <1>5

\* A function to the integers takes its greatest value on a finite set.
LEMMA GreatestValue ==
  ASSUME NEW T, IsFiniteSet(T), T # {}, NEW f \in [T -> Int]
  PROVE  \E x \in T : \A y \in T : f[y] <= f[x]
<1> DEFINE Has(S) == \E x \in S : \A y \in S : f[y] <= f[x]
           Bad == {n \in Nat : \E S \in SUBSET T : S # {} /\ Cardinality(S) = n /\ ~Has(S)}
<1>1. SUFFICES ASSUME ~Has(T)
               PROVE  FALSE
  OBVIOUS
<1>2. Cardinality(T) \in Bad
  BY <1>1, FS_CardinalityType
<1>3. PICK n \in Bad : \A k \in Bad : n <= k
  BY <1>2, LeastNat
<1>4. PICK S \in SUBSET T : S # {} /\ Cardinality(S) = n /\ ~Has(S)
  BY <1>3
<1>5. PICK a \in S : TRUE
  BY <1>4
<1>6. IsFiniteSet(S)
  BY FS_Subset
<1>7. Cardinality(S \ {a}) = n - 1 /\ IsFiniteSet(S \ {a})
  BY <1>4, <1>5, <1>6, FS_RemoveElement
<1>8. Cardinality(S \ {a}) \in Nat
  BY <1>7, FS_CardinalityType
<1>9. ~(Cardinality(S \ {a}) \in Bad)
  <2>1. n \in Nat /\ ~(n <= n - 1)
    OBVIOUS
  <2> HIDE DEF Bad
  <2>2. QED
    BY <1>3, <1>7, <2>1
<1>10. S \ {a} = {} \/ Has(S \ {a})
  BY <1>8, <1>9
<1>11. CASE S \ {a} = {}
  <2>1. \A y \in S : y = a
    BY <1>11
  <2>2. QED
    BY <1>4, <1>5, <2>1
<1>12. CASE Has(S \ {a})
  <2>1. PICK b \in S \ {a} : \A y \in S \ {a} : f[y] <= f[b]
    BY <1>12
  <2>2. f[a] \in Int /\ f[b] \in Int /\ \A y \in S : f[y] \in Int
    BY <1>5, <2>1
  <2>3. CASE f[a] <= f[b]
    <3>1. \A y \in S : f[y] <= f[b]
      BY <2>1, <2>3
    <3>2. QED
      BY <1>4, <2>1, <3>1
  <2>4. CASE f[b] <= f[a]
    <3>1. \A y \in S : f[y] <= f[a]
      BY <2>1, <2>2, <2>4
    <3>2. QED
      BY <1>4, <1>5, <3>1
  <2>5. QED
    BY <2>2, <2>3, <2>4
<1>13. QED
  BY <1>10, <1>11, <1>12

\* Max of a finite set is in it and above the others.
LEMMA MaxOfFinite ==
  ASSUME NEW S \in SUBSET Int, IsFiniteSet(S), S # {}
  PROVE  Max(S) \in S /\ \A y \in S : y <= Max(S)
<1> DEFINE f == [x \in S |-> x]
<1>1. PICK x \in S : \A y \in S : f[y] <= f[x]
  BY GreatestValue
<1>2. \A y \in S : x >= y
  BY <1>1
<1>3. QED
  BY <1>2 DEF Max

\* Min of a set of natural numbers is in it and below the others.
LEMMA MinOfNats ==
  ASSUME NEW S \in SUBSET Nat, S # {}
  PROVE  Min(S) \in S /\ \A y \in S : Min(S) <= y
  BY LeastNat DEF Min

\* The image of a finite set is finite.
LEMMA ImageIsFinite ==
  ASSUME NEW T, IsFiniteSet(T), NEW f, DOMAIN f = T
  PROVE  IsFiniteSet({f[x] : x \in T})
<1> DEFINE I == {f[x] : x \in T}
           g == [x \in T |-> f[x]]
<1>1. g \in Surjection(T, I)
  BY DEF Surjection
<1>2. QED
  BY <1>1, FS_Surjection

-----------------------------------------------------------------------------

\* Stages after parse, and those after the region was zeroed.
Parsed == {"zero", "copy", "enter", "el0"}
Zeroed == {"copy", "enter", "el0"}

\* parse has seen the segments of the file below this index.
Limit == IF at \in {"start", "parse"} THEN next ELSE Len(file.segs) + 1

\* Segment k of the image is segment i of the file, which parse has seen.
Is(k, i) == i < Limit /\ segments[k] = file.segs[i]

\* The image holds the segments with memory that parse has seen, in file order,
\* and none is below link_base.
ParseInv ==
  /\ at = "start" => next = 1 /\ segments = <<>>
  /\ \A k \in 1 .. Len(segments) :
       /\ segments[k].vmsize # 0 /\ link_base <= segments[k].vmaddr
       /\ \E i \in 1 .. Len(file.segs) : Is(k, i)
  /\ \A j, k \in 1 .. Len(segments) : j < k =>
       \E i, l \in 1 .. Len(file.segs) : i < l /\ Is(j, i) /\ Is(k, l)
  /\ at \in Parsed \union {"parse"} =>
       \A i \in 1 .. Len(file.segs) : i < Limit /\ file.segs[i].vmsize # 0 =>
         \E k \in 1 .. Len(segments) : segments[k] = file.segs[i]
  /\ at \in Parsed => segments # <<>> /\ entry_va = Wrap(EntryVa(file))

\* Where byte 0 of a segment goes.
Home(s) == load_base + (s.vmaddr - link_base)

\* The region holds the data of the segments below n, and zeroes.
Laid(n) ==
  /\ \A k \in 1 .. Len(segments) : \A o \in 0 .. segments[k].vmsize - 1 :
       mem[Home(segments[k]) + o] =
         IF k < n /\ o < segments[k].filesize THEN segments[k].fileoff + o ELSE ZERO
  /\ \A a \in Region : (\A k \in 1 .. Len(segments) : a \notin InMemory(segments[k])) =>
       mem[a] = ZERO

MemInv ==
  /\ at \in {"start", "parse", "zero"} => written = {}
  /\ NoWrap(file) => written \subseteq Region
  /\ WritesStayInRegion
  /\ at \in Zeroed => Region \subseteq RamBytes
  /\ at = "zero" => next = 1
  /\ at = "copy" /\ WellLinked(file) => Laid(next)
  /\ at \in {"enter", "el0"} /\ WellLinked(file) => Laid(Len(segments) + 1)
  /\ at \in {"enter", "el0"} => Region \subseteq flushed
  /\ at = "el0" =>
       user = [pc |-> Wrap(load_base + Wrap(entry_va - link_base)),
               sp |-> Wrap(StackBase + STACK_SIZE)]

IInv == TypeOK /\ ParseInv /\ MemInv

-----------------------------------------------------------------------------
(* Numbers, segments and the region.                                        *)

USE DEF U64

\* What the assumptions say, in the form the provers use.
LEMMA Constants ==
  /\ U64_MAX \in Nat /\ PAGE_SIZE \in Nat \ {0} /\ ALIGN_2M \in Nat \ {0}
  /\ STACK_SIZE \in Nat \ {0} /\ DEFAULT_TOP \in U64
  /\ RamBytes \subseteq U64 /\ \A a \in RamBytes : a + PAGE_SIZE + STACK_SIZE <= U64_MAX
  /\ U64_MAX + 1 \in Nat \ {0}
<1>1. /\ U64_MAX \in Nat /\ PAGE_SIZE \in Nat \ {0} /\ ALIGN_2M \in Nat \ {0}
      /\ STACK_SIZE \in Nat \ {0} /\ DEFAULT_TOP \in U64
      /\ RamBytes \subseteq U64 /\ \A a \in RamBytes : a + PAGE_SIZE + STACK_SIZE <= U64_MAX
  BY UserExecAssumption
<1>2. QED
  BY <1>1

\* A wrapped result is a 64-bit number.
LEMMA WrapType ==
  ASSUME NEW v \in Int
  PROVE  Wrap(v) \in U64
<1>1. U64_MAX + 1 \in Nat \ {0} /\ U64_MAX \in Nat
  BY Constants
<1>2. v % (U64_MAX + 1) \in 0 .. (U64_MAX + 1) - 1
  BY <1>1, ModBounds
<1>3. QED
  BY <1>1, <1>2 DEF Wrap

\* Nothing in range is changed by wrapping.
LEMMA WrapSmall ==
  ASSUME NEW v \in U64
  PROVE  Wrap(v) = v
<1>1. U64_MAX \in Nat
  BY Constants
<1>2. v \in Nat /\ U64_MAX + 1 \in Nat /\ v < U64_MAX + 1
  BY <1>1
<1>3. QED
  BY <1>2, ModSmall DEF Wrap

\* align_up gives a 64-bit number, wrapped or not.
LEMMA AlignType ==
  ASSUME NEW v \in Int, NEW align \in Nat \ {0}
  PROVE  AlignUp(v, align) \in U64
<1> DEFINE w == Wrap(v + align - 1)
<1>1. w \in U64 /\ U64_MAX \in Nat
  <2>1. v + align - 1 \in Int
    OBVIOUS
  <2>2. QED
    BY <2>1, WrapType, Constants
<1>2. AlignUp(v, align) = w - (w % align)
  BY DEF AlignUp
<1> HIDE DEF w
<1>3. w \in Int /\ w >= 0 /\ w <= U64_MAX
  BY <1>1
<1>4. w - (w % align) \in Int /\ w - (w % align) <= w /\ w - (w % align) >= 0
  BY <1>3, RoundDown
<1>5. QED
  BY <1>1, <1>2, <1>3, <1>4

\* Rounding up does not go down when the sum fits.
LEMMA AlignAbove ==
  ASSUME NEW v \in Nat, NEW align \in Nat \ {0}, v + align - 1 <= U64_MAX
  PROVE  v <= AlignUp(v, align) /\ AlignUp(v, align) <= v + align - 1 /\ AlignUp(v, align) \in Nat
<1> DEFINE w == v + align - 1
<1>1. w \in U64 /\ w \in Nat
  BY Constants
<1>2. AlignUp(v, align) = w - (w % align)
  BY <1>1, WrapSmall DEF AlignUp
<1>3. w = v + align - 1
  OBVIOUS
<1> HIDE DEF w
<1>4. w - (w % align) \in Int /\ w - (w % align) <= w /\ w < (w - (w % align)) + align
  BY <1>1, RoundDown
<1>5. QED
  BY <1>2, <1>3, <1>4

\* The fields of a segment.
LEMMA FieldTypes ==
  ASSUME NEW s \in SegmentType
  PROVE  /\ s.vmaddr \in Nat /\ s.vmaddr <= U64_MAX /\ s.vmsize \in Nat /\ s.vmsize <= U64_MAX
         /\ s.fileoff \in Nat /\ s.fileoff <= U64_MAX /\ s.filesize \in Nat
         /\ CopyLen(s) \in Nat /\ CopyLen(s) <= s.vmsize /\ CopyLen(s) <= s.filesize
<1>1. /\ s.vmaddr \in 0 .. U64_MAX /\ s.vmsize \in 0 .. U64_MAX
      /\ s.fileoff \in 0 .. U64_MAX /\ s.filesize \in 0 .. U64_MAX
  BY DEF SegmentType
<1>2. U64_MAX \in Nat
  BY Constants
<1>3. QED
  BY <1>1, <1>2 DEF CopyLen

\* The segments of a file are typed and their data lies in the file.
LEMMA FileSegs ==
  ASSUME TypeOK
  PROVE  /\ Len(file.segs) \in Nat
         /\ \A i \in 1 .. Len(file.segs) :
              /\ file.segs[i] \in SegmentType
              /\ file.segs[i].fileoff + file.segs[i].filesize <= U64_MAX
<1>1. file \in FileType /\ file \in Files
  BY UserExecAssumption DEF TypeOK
<1>2. file.segs \in Seq(SegmentType)
  BY <1>1 DEF FileType
<1>3. QED
  BY <1>1, <1>2, UserExecAssumption

\* The parsed segments are typed.
LEMMA ImageSegs ==
  ASSUME TypeOK
  PROVE  Len(segments) \in Nat /\ \A k \in 1 .. Len(segments) : segments[k] \in SegmentType
<1>1. segments \in Seq(SegmentType)
  BY DEF TypeOK
<1>2. QED
  BY <1>1

\* Saturating sums and differences, and when they are exact.
LEMMA SatTypes ==
  ASSUME NEW x \in Nat, NEW y \in Nat
  PROVE  /\ SatAdd(x, y) \in U64
         /\ x + y <= U64_MAX => SatAdd(x, y) = x + y
         /\ SatSub(x, y) \in Nat /\ SatSub(x, y) <= x
         /\ y <= x => SatSub(x, y) = x - y
  BY Constants DEF SatAdd, SatSub

\* The end of the image bounds that of every segment.
LEMMA EndFacts ==
  ASSUME TypeOK
  PROVE  /\ ImageEnd \in U64
         /\ \A k \in 1 .. Len(segments) :
              SatAdd(segments[k].vmaddr, segments[k].vmsize) <= ImageEnd
<1> DEFINE T == 1 .. Len(segments)
           End(k) == SatAdd(segments[k].vmaddr, segments[k].vmsize)
           f == [k \in T |-> End(k)]
           ends == {End(k) : k \in T} \union {0}
<1>1. U64_MAX \in Nat
  BY Constants
<1>2. Len(segments) \in Nat /\ \A k \in T : End(k) \in U64
  BY ImageSegs, FieldTypes, SatTypes
<1> HIDE DEF End
<1>3. IsFiniteSet(T)
  BY <1>2, FS_Interval
<1>4. IsFiniteSet({f[k] : k \in T})
  BY <1>3, ImageIsFinite
<1>5. {f[k] : k \in T} = {End(k) : k \in T}
  OBVIOUS
<1>6. IsFiniteSet(ends)
  BY <1>4, <1>5, FS_AddElement
<1>7. ends \in SUBSET Int /\ ends # {} /\ ends \subseteq U64
  BY <1>1, <1>2
<1>8. ImageEnd = Max(ends)
  BY DEF ImageEnd, End
<1>9. \A k \in T : End(k) \in ends
  OBVIOUS
<1> HIDE DEF ends
<1>10. Max(ends) \in ends /\ \A y \in ends : y <= Max(ends)
  BY <1>6, <1>7, MaxOfFinite
<1>11. QED
  BY <1>7, <1>8, <1>9, <1>10 DEF End

\* The span of the image is a 64-bit number.
LEMMA SpanType ==
  ASSUME TypeOK
  PROVE  ImageSpan \in U64 /\ load_base \in Nat /\ link_base \in Nat
<1>1. ImageEnd \in Nat /\ ImageEnd <= U64_MAX /\ link_base \in Nat /\ load_base \in Nat
      /\ U64_MAX \in Nat
  BY EndFacts, Constants DEF TypeOK
<1>2. ImageSpan \in Nat /\ ImageSpan <= ImageEnd
  BY <1>1, SatTypes DEF ImageSpan
<1>3. QED
  BY <1>1, <1>2

\* If no segment wraps around, the region holds them all.
LEMMA SegInRegion ==
  ASSUME TypeOK, ParseInv, NoWrap(file), NEW k \in 1 .. Len(segments)
  PROVE  /\ Home(segments[k]) \in Nat /\ load_base <= Home(segments[k])
         /\ segments[k].vmsize \in Nat \ {0}
         /\ Home(segments[k]) + segments[k].vmsize <= load_base + ImageSpan
<1> DEFINE s == segments[k]
<1>1. s \in SegmentType /\ s.vmaddr \in Nat /\ s.vmsize \in Nat
  BY ImageSegs, FieldTypes
<1>2. s.vmsize # 0 /\ link_base <= s.vmaddr
  BY DEF ParseInv
<1>3. s.vmaddr + s.vmsize <= U64_MAX
  <2>1. PICK i \in 1 .. Len(file.segs) : segments[k] = file.segs[i]
    BY DEF ParseInv, Is
  <2>2. QED
    BY <2>1 DEF NoWrap
<1>4. SatAdd(s.vmaddr, s.vmsize) = s.vmaddr + s.vmsize
  BY <1>1, <1>3, SatTypes
<1>5. s.vmaddr + s.vmsize <= ImageEnd /\ ImageEnd \in Nat
  BY <1>4, EndFacts, Constants
<1>6. load_base \in Nat /\ link_base \in Nat
  BY SpanType
<1> HIDE DEF s
<1>7. ImageSpan = ImageEnd - link_base
  <2>1. link_base <= ImageEnd
    BY <1>1, <1>2, <1>5, <1>6
  <2>2. QED
    BY <1>5, <1>6, <2>1, SatTypes DEF ImageSpan
<1>8. Home(s) = load_base + (s.vmaddr - link_base)
  BY DEF Home
<1>9. Home(s) \in Nat /\ load_base <= Home(s)
  BY <1>1, <1>2, <1>6, <1>8
<1>10. Home(s) + s.vmsize <= load_base + ImageSpan
  BY <1>1, <1>5, <1>6, <1>7, <1>8
<1>11. QED
  BY <1>1, <1>2, <1>9, <1>10 DEF s

\* The bytes of a segment in memory, and where they lie.
LEMMA InMemoryFacts ==
  ASSUME TypeOK, ParseInv, NoWrap(file), NEW k \in 1 .. Len(segments), NEW a
  PROVE  /\ a \in InMemory(segments[k]) <=>
              \E o \in 0 .. segments[k].vmsize - 1 : a = Home(segments[k]) + o
         /\ a \in InMemory(segments[k]) => a \in Region
<1>1. /\ Home(segments[k]) \in Nat /\ load_base <= Home(segments[k])
      /\ segments[k].vmsize \in Nat \ {0}
      /\ Home(segments[k]) + segments[k].vmsize <= load_base + ImageSpan
  BY SegInRegion
<1>2. load_base \in Nat /\ ImageSpan \in Nat
  BY SpanType, Constants
<1>3. InMemory(segments[k]) = Home(segments[k]) .. Home(segments[k]) + segments[k].vmsize - 1
  BY <1>1, <1>2 DEF InMemory, Home, Bytes
<1>4. Region = load_base .. load_base + ImageSpan - 1
  BY <1>2 DEF Region, Bytes
<1> DEFINE h == Home(segments[k])
           v == segments[k].vmsize
<1>5. h \in Nat /\ v \in Nat
  BY <1>1
<1> HIDE DEF h, v
<1>6. a \in h .. h + v - 1 => a - h \in 0 .. v - 1 /\ a = h + (a - h)
  BY <1>5
<1>7. \A o \in 0 .. v - 1 : h + o \in h .. h + v - 1
  BY <1>5
<1>8. a \in h .. h + v - 1 <=> \E o \in 0 .. v - 1 : a = h + o
  BY <1>6, <1>7
<1>9. a \in InMemory(segments[k]) <=>
        \E o \in 0 .. segments[k].vmsize - 1 : a = Home(segments[k]) + o
  BY <1>3, <1>8 DEF h, v
<1>10. a \in InMemory(segments[k]) => a \in Region
  BY <1>1, <1>2, <1>3, <1>4
<1>11. QED
  BY <1>9, <1>10

\* Of a segment that may reach past the address space, the region holds every
\* byte that was linked below u64::MAX.
LEMMA LinkedBelowEnd ==
  ASSUME TypeOK, ParseInv, NEW k \in 1 .. Len(segments), NEW a \in InMemory(segments[k])
  PROVE  a \in Region \/ LinkAddress(a) >= U64_MAX
<1> DEFINE v == segments[k].vmaddr
           z == segments[k].vmsize
<1>1. v \in Nat /\ z \in Nat /\ link_base <= v
  BY ImageSegs, FieldTypes DEF ParseInv
<1>2. SatAdd(v, z) <= ImageEnd /\ ImageEnd \in Nat /\ U64_MAX \in Nat
  BY EndFacts, Constants
<1>3. load_base \in Nat /\ link_base \in Nat
  BY SpanType
<1>4. /\ a \in Int /\ load_base + (v - link_base) <= a
      /\ a < load_base + (v - link_base) + z
  BY <1>1, <1>3 DEF InMemory, Bytes
<1> HIDE DEF v, z
<1>5. ASSUME a - load_base + link_base < U64_MAX
      PROVE  a \in Region
  <2>1. a - load_base + link_base < SatAdd(v, z)
    BY <1>1, <1>2, <1>3, <1>4, <1>5 DEF SatAdd
  <2>2. a - load_base + link_base < ImageEnd
    <3>1. SatAdd(v, z) \in Nat
      BY <1>1, <1>2 DEF SatAdd
    <3>2. QED
      BY <1>2, <1>3, <1>4, <2>1, <3>1
  <2>3. link_base < ImageEnd
    BY <1>1, <1>2, <1>3, <1>4, <2>2
  <2>4. ImageSpan = ImageEnd - link_base
    BY <1>2, <1>3, <2>3, SatTypes DEF ImageSpan
  <2>5. load_base <= a /\ a < load_base + ImageSpan
    BY <1>1, <1>2, <1>3, <1>4, <2>2, <2>4
  <2>6. ImageSpan \in Nat
    BY <1>2, <1>3, <2>3, <2>4
  <2>7. QED
    BY <1>3, <1>4, <2>5, <2>6 DEF Region, Bytes
<1>6. QED
  BY <1>2, <1>3, <1>4, <1>5 DEF LinkAddress

\* Moving an address back by what the image was moved.
LEMMA MovedBack ==
  ASSUME NEW v \in Nat, NEW z \in Nat, NEW base \in Nat, NEW link \in Nat,
         NEW a, a \in base + (v - link) .. (base + (v - link) + z) - 1
  PROVE  a - base + link \in v .. (v + z) - 1
  OBVIOUS

\* Segments of a well-linked program stay apart.
LEMMA SegsApart ==
  ASSUME TypeOK, ParseInv, WellLinked(file),
         NEW j \in 1 .. Len(segments), NEW k \in 1 .. Len(segments), j # k, NEW a
  PROVE  ~(a \in InMemory(segments[j]) /\ a \in InMemory(segments[k]))
<1> DEFINE V(s) == Bytes(s.vmaddr, s.vmaddr + s.vmsize)
           b == a - load_base + link_base
<1>1. V(segments[j]) \intersect V(segments[k]) = {}
  <2>1. ASSUME NEW x \in 1 .. Len(segments), NEW y \in 1 .. Len(segments), x < y
        PROVE  V(segments[x]) \intersect V(segments[y]) = {}
    <3>1. PICK i, l \in 1 .. Len(file.segs) : i < l /\ Is(x, i) /\ Is(y, l)
      BY <2>1 DEF ParseInv
    <3>2. QED
      BY <3>1 DEF WellLinked, Is
  <2>2. j \in Nat /\ k \in Nat
    OBVIOUS
  <2>3. j < k \/ k < j
    BY <2>2
  <2> HIDE DEF V
  <2>4. QED
    BY <2>1, <2>3
<1>2. load_base \in Nat /\ link_base \in Nat
  BY SpanType
<1>3. ASSUME NEW x \in 1 .. Len(segments), a \in InMemory(segments[x])
      PROVE  b \in V(segments[x])
  <2> DEFINE v == segments[x].vmaddr
             z == segments[x].vmsize
  <2>1. v \in Nat /\ z \in Nat
    BY ImageSegs, FieldTypes
  <2>2. a \in load_base + (v - link_base) .. (load_base + (v - link_base) + z) - 1
    BY <1>3 DEF InMemory, Bytes
  <2>3. V(segments[x]) = v .. (v + z) - 1
    BY DEF Bytes
  <2> HIDE DEF v, z, V
  <2>4. a - load_base + link_base \in v .. (v + z) - 1
    BY <1>2, <2>1, <2>2, MovedBack
  <2>5. QED
    BY <2>3, <2>4
<1> HIDE DEF V, b
<1>4. QED
  BY <1>1, <1>3

-----------------------------------------------------------------------------
(* What a step leaves alone.                                                *)

LEMMA RegionFrame ==
  ASSUME UNCHANGED <<load_base, segments, link_base>>
  PROVE  /\ Region' = Region /\ ImageSpan' = ImageSpan /\ StackBase' = StackBase
         /\ \A k : Home(segments[k])' = Home(segments[k])
         /\ \A k : InMemory(segments[k])' = InMemory(segments[k])
  BY DEF Region, ImageSpan, ImageEnd, StackBase, Home, InMemory, Bytes, SatSub, SatAdd, AlignUp, Wrap

\* Bytes stay where they are as long as the region does; no bytes, nowhere.
LEMMA WrittenFrame ==
  ASSUME \/ written' = {}
         \/ WritesStayInRegion /\ UNCHANGED <<written, load_base, segments, link_base>>
  PROVE  WritesStayInRegion'
<1>1. CASE written' = {}
  BY <1>1 DEF WritesStayInRegion
<1>2. CASE WritesStayInRegion /\ UNCHANGED <<written, load_base, segments, link_base>>
  <2>1. Region' = Region
    BY <1>2, RegionFrame
  <2>2. QED
    BY <1>2, <2>1 DEF WritesStayInRegion, LinkAddress
<1>3. QED
  BY <1>1, <1>2

\* What is said of a file depends on the file only.
LEMMA FileFrame ==
  ASSUME file' = file
  PROVE  /\ NoWrap(file)' = NoWrap(file) /\ WellLinked(file)' = WellLinked(file)
         /\ EntryVa(file)' = EntryVa(file)
  BY DEF NoWrap, WellLinked, TextIndices, Bytes, EntryVa, Text, SatSub

\* A step behind the parser keeps its result.
LEMMA ParseFrame ==
  ASSUME TypeOK, ParseInv, UNCHANGED <<file, segments, link_base>>,
         ~(at' \in {"start", "parse"}),
         at' \in Parsed => at \in Parsed /\ entry_va' = entry_va
  PROVE  ParseInv'
<1>1. Limit' = Len(file.segs) + 1 /\ Len(file.segs) \in Nat
  BY FileSegs DEF Limit
<1>2. at \in Parsed => Limit = Len(file.segs) + 1
  BY DEF Limit, Parsed
<1>3. \A k, i : i \in 1 .. Len(file.segs) /\ Is(k, i) => Is(k, i)'
  BY <1>1 DEF Is
<1>4. /\ \A k \in 1 .. Len(segments) :
           /\ segments[k].vmsize # 0 /\ link_base <= segments[k].vmaddr
           /\ \E i \in 1 .. Len(file.segs) : Is(k, i)'
      /\ \A j, k \in 1 .. Len(segments) : j < k =>
           \E i, l \in 1 .. Len(file.segs) : i < l /\ Is(j, i)' /\ Is(k, l)'
  BY <1>3 DEF ParseInv
<1>5. at' \in Parsed \union {"parse"} =>
        \A i \in 1 .. Len(file.segs) : i < Limit' /\ file.segs[i].vmsize # 0 =>
          \E k \in 1 .. Len(segments) : segments[k] = file.segs[i]
  BY <1>1, <1>2 DEF ParseInv
<1>6. at' \in Parsed => segments # <<>> /\ entry_va' = Wrap(EntryVa(file)')
  BY FileFrame DEF ParseInv
<1>7. QED
  BY <1>4, <1>5, <1>6 DEF ParseInv, Wrap

-----------------------------------------------------------------------------
(* The invariant holds at the start and is kept by every step.              *)

LEMMA InitHolds == Init => IInv
<1> SUFFICES ASSUME Init
             PROVE  IInv
  OBVIOUS
<1>1. U64_MAX \in Nat
  BY Constants
<1>2. TypeOK
  <2>1. checked \in BOOLEAN /\ inUse \subseteq RamBytes
    BY UserExecAssumption DEF Init
  <2>2. 0 \in U64 /\ U64_MAX \in U64
    BY <1>1
  <2>3. segments \in Seq(SegmentType)
    BY DEF Init
  <2>4. QED
    BY <2>1, <2>2, <2>3 DEF Init, TypeOK
<1>3. ParseInv
  BY DEF Init, ParseInv, Parsed
<1>4. MemInv
  BY DEF Init, MemInv, Zeroed, WritesStayInRegion
<1>5. QED
  BY <1>2, <1>3, <1>4 DEF IInv

\* Stopping, however it happens, keeps the invariant.
LEMMA StopKeeps ==
  ASSUME IInv, NEW how \in {"spin", "panic", "fault", "oom"}, Stop(how)
  PROVE  IInv'
<1>1. at' = how /\ UNCHANGED <<inputs, load_base, parsed, next, memory, user>>
  BY DEF Stop
<1>2. TypeOK /\ ParseInv /\ MemInv
  BY DEF IInv
<1>3. TypeOK'
  BY <1>1, <1>2 DEF TypeOK, inputs, parsed, memory
<1>4. ParseInv'
  BY <1>1, <1>2, ParseFrame DEF Parsed, inputs, parsed
<1>5. MemInv'
  <2>1. Region' = Region /\ NoWrap(file)' = NoWrap(file) /\ written' = written
    BY <1>1, RegionFrame, FileFrame DEF inputs, parsed, memory
  <2>2. WritesStayInRegion'
    BY <1>1, <1>2, WrittenFrame DEF MemInv, parsed, memory
  <2>3. QED
    BY <1>1, <1>2, <2>1, <2>2 DEF MemInv, Zeroed
<1>6. QED
  BY <1>3, <1>4, <1>5 DEF IInv

\* _start takes the load address from the boot arguments or the default.
LEMMA ChooseLoadBaseKeeps ==
  ASSUME IInv, ChooseLoadBase
  PROVE  IInv'
<1>1. CASE Stop("panic")
  BY <1>1, StopKeeps
<1>2. CASE ~Stop("panic")
  <2>1. /\ at = "start" /\ at' = "parse" /\ load_base' = AlignUp(TopOfKernel, ALIGN_2M)
        /\ UNCHANGED <<inputs, parsed, next, memory, user>>
    BY <1>2 DEF ChooseLoadBase
  <2>2. TypeOK /\ ParseInv /\ MemInv
    BY DEF IInv
  <2>3. TopOfKernel \in Int
    <3>1. args.top_of_kernel_data \in U64 /\ DEFAULT_TOP \in U64
      BY <2>2, UserExecAssumption DEF TypeOK
    <3>2. QED
      BY <3>1, Constants DEF TopOfKernel
  <2>4. load_base' \in U64
    BY <2>1, <2>3, AlignType, Constants
  <2>5. TypeOK'
    BY <2>1, <2>2, <2>4 DEF TypeOK, inputs, parsed, memory
  <2>6. ParseInv'
    <3>1. next' = 1 /\ segments' = <<>>
      BY <2>1, <2>2 DEF ParseInv, parsed
    <3>2. Len(segments') = 0
      BY <3>1
    <3>3. 1 .. Len(segments') = {} /\ Limit' = 1
      BY <2>1, <3>1, <3>2 DEF Limit
    <3>4. \A i \in 1 .. Len(file'.segs) : ~(i < Limit')
      BY <2>5, <3>3
    <3>5. QED
      BY <2>1, <3>1, <3>3, <3>4 DEF ParseInv, Parsed
  <2>7. MemInv'
    <3>1. written' = {}
      BY <2>1, <2>2 DEF MemInv, memory
    <3>2. QED
      BY <2>1, <2>2, <3>1, WrittenFrame DEF MemInv, Zeroed, memory
  <2>8. QED
    BY <2>5, <2>6, <2>7 DEF IInv
<1>3. QED
  BY <1>1, <1>2

\* A turn of the parser's loop lowers link_base to the segment's address if
\* that is smaller, and keeps the segment.
LEMMA ParseSegmentKeeps ==
  ASSUME IInv, ParseSegment
  PROVE  IInv'
<1> DEFINE s == file.segs[next]
           n == Len(segments)
           m == Len(file.segs)
<1>1. /\ at = "parse" /\ at' = "parse" /\ next <= m /\ next' = next + 1
      /\ UNCHANGED <<inputs, load_base, entry_va, memory, user>>
  BY DEF ParseSegment
<1>2. TypeOK /\ ParseInv /\ MemInv
  BY DEF IInv
<1>3. next \in 1 .. m /\ m \in Nat /\ s \in SegmentType
  BY <1>1, <1>2, FileSegs DEF TypeOK
<1>4. n \in Nat /\ link_base \in Nat /\ link_base \in U64 /\ U64_MAX \in Nat
      /\ segments \in Seq(SegmentType)
      /\ \A k \in 1 .. n : segments[k] \in SegmentType /\ segments[k].vmaddr \in Nat
  BY <1>2, ImageSegs, FieldTypes, Constants DEF TypeOK
<1>5. Limit = next /\ Limit' = next + 1 /\ file' = file
  BY <1>1 DEF Limit, inputs
<1>6. MemInv'
  <2>1. written' = {}
    BY <1>1, <1>2 DEF MemInv, memory
  <2>2. QED
    BY <1>1, <1>2, <2>1, WrittenFrame DEF MemInv, Zeroed, memory
<1>7. /\ \A k \in 1 .. n : /\ segments[k].vmsize # 0 /\ link_base <= segments[k].vmaddr
                           /\ \E i \in 1 .. m : i < next /\ segments[k] = file.segs[i]
      /\ \A j, k \in 1 .. n : j < k =>
           \E i, l \in 1 .. m : /\ i < l /\ i < next /\ l < next
                                /\ segments[j] = file.segs[i] /\ segments[k] = file.segs[l]
      /\ \A i \in 1 .. m : i < next /\ file.segs[i].vmsize # 0 =>
           \E k \in 1 .. n : segments[k] = file.segs[i]
  BY <1>1, <1>2, <1>5 DEF ParseInv, Is
<1> DEFINE Q(x, b) ==
      /\ \A k \in 1 .. Len(x) : /\ x[k].vmsize # 0 /\ b <= x[k].vmaddr
                                /\ \E i \in 1 .. m : i < next + 1 /\ x[k] = file.segs[i]
      /\ \A j, k \in 1 .. Len(x) : j < k =>
           \E i, l \in 1 .. m : /\ i < l /\ i < next + 1 /\ l < next + 1
                                /\ x[j] = file.segs[i] /\ x[k] = file.segs[l]
      /\ \A i \in 1 .. m : i < next + 1 /\ file.segs[i].vmsize # 0 =>
           \E k \in 1 .. Len(x) : x[k] = file.segs[i]
<1>8. \A i \in 1 .. m : /\ i < next => i < next + 1
                        /\ i < next + 1 => i < next \/ i = next
  BY <1>3
<1>9. ASSUME Q(segments', link_base')
      PROVE  ParseInv'
  BY <1>1, <1>5, <1>9 DEF ParseInv, Is, Parsed
<1>10. CASE s.vmsize = 0
  <2>1. segments' = segments /\ link_base' = link_base
    BY <1>10 DEF ParseSegment
  <2>2. TypeOK'
    BY <1>1, <1>2, <2>1 DEF TypeOK, inputs, memory
  <2>3. Q(segments, link_base)
    BY <1>7, <1>8, <1>10
  <2>4. QED
    BY <1>6, <1>9, <2>1, <2>2, <2>3 DEF IInv
<1>11. CASE s.vmsize # 0
  <2>1. /\ segments' = Append(segments, s)
        /\ link_base' = IF s.vmaddr < link_base THEN s.vmaddr ELSE link_base
    BY <1>11 DEF ParseSegment
  <2>2. s.vmaddr \in Nat /\ s.vmaddr <= U64_MAX
    BY <1>3, FieldTypes
  <2>3. link_base' \in U64 /\ link_base' <= link_base /\ link_base' <= s.vmaddr
    BY <1>4, <2>1, <2>2
  <2>4. /\ segments' \in Seq(SegmentType) /\ Len(segments') = n + 1 /\ segments'[n + 1] = s
        /\ \A k \in 1 .. n : segments'[k] = segments[k]
    <3> HIDE DEF s
    <3>1. QED
      BY <1>3, <1>4, <2>1
  <2>5. TypeOK'
    BY <1>1, <1>2, <2>3, <2>4 DEF TypeOK, inputs, memory
  <2>6. \A k \in 1 .. n + 1 : k = n + 1 \/ k \in 1 .. n
    BY <1>4
  <2>7. s = file.segs[next] /\ next < next + 1
    BY <1>3
  <2> HIDE DEF s
  <2>8. ASSUME NEW k \in 1 .. n + 1
        PROVE  /\ segments'[k].vmsize # 0 /\ link_base' <= segments'[k].vmaddr
               /\ \E i \in 1 .. m : i < next + 1 /\ segments'[k] = file.segs[i]
    <3>1. CASE k = n + 1
      BY <1>3, <1>11, <2>3, <2>4, <2>7, <3>1
    <3>2. CASE k \in 1 .. n
      <4>1. link_base' <= segments[k].vmaddr
        BY <1>4, <1>7, <2>3, <3>2
      <4>2. segments'[k] = segments[k] /\ segments[k].vmsize # 0
        BY <1>7, <2>4, <3>2
      <4>3. PICK i \in 1 .. m : i < next /\ segments[k] = file.segs[i]
        BY <1>7, <3>2
      <4>4. i < next + 1
        BY <1>8, <4>3
      <4>5. QED
        BY <4>1, <4>2, <4>3, <4>4
    <3>3. QED
      BY <2>6, <3>1, <3>2
  <2>9. ASSUME NEW j \in 1 .. n + 1, NEW k \in 1 .. n + 1, j < k
        PROVE  \E i, l \in 1 .. m : /\ i < l /\ i < next + 1 /\ l < next + 1
                                    /\ segments'[j] = file.segs[i] /\ segments'[k] = file.segs[l]
    <3>1. j \in 1 .. n
      BY <1>4, <2>9
    <3>2. CASE k = n + 1
      <4>1. PICK i \in 1 .. m : i < next /\ segments[j] = file.segs[i]
        BY <1>7, <3>1
      <4>2. QED
        BY <1>3, <1>8, <2>4, <2>7, <3>1, <3>2, <4>1
    <3>3. CASE k \in 1 .. n
      <4>1. PICK i, l \in 1 .. m : /\ i < l /\ i < next /\ l < next
                                   /\ segments[j] = file.segs[i] /\ segments[k] = file.segs[l]
        BY <1>7, <2>9, <3>1, <3>3
      <4>2. QED
        BY <1>8, <2>4, <3>1, <3>3, <4>1
    <3>4. QED
      BY <2>6, <3>2, <3>3
  <2>10. ASSUME NEW i \in 1 .. m, i < next + 1, file.segs[i].vmsize # 0
         PROVE  \E k \in 1 .. n + 1 : segments'[k] = file.segs[i]
    <3>1. CASE i = next
      BY <1>4, <2>4, <2>7, <3>1
    <3>2. CASE i < next
      <4>1. PICK k \in 1 .. n : segments[k] = file.segs[i]
        BY <1>7, <2>10, <3>2
      <4>2. k \in 1 .. n + 1
        BY <1>4
      <4>3. QED
        BY <2>4, <4>1, <4>2
    <3>3. QED
      BY <1>8, <2>10, <3>1, <3>2
  <2>11. Q(segments', link_base')
    BY <2>4, <2>8, <2>9, <2>10
  <2>12. QED
    BY <1>6, <1>9, <2>5, <2>11 DEF IInv
<1>12. QED
  BY <1>10, <1>11

\* The entry point before it wraps, of a file with LC_MAIN and a __TEXT.
LEMMA EntryType ==
  ASSUME TypeOK, file.main # NO_MAIN, TextIndices(file) # {}
  PROVE  /\ Min(TextIndices(file)) \in TextIndices(file)
         /\ Text(file) \in SegmentType /\ file.main \in Nat /\ EntryVa(file) \in Nat
<1>1. TextIndices(file) \in SUBSET Nat /\ TextIndices(file) \subseteq 1 .. Len(file.segs)
  BY DEF TextIndices
<1>2. Min(TextIndices(file)) \in TextIndices(file)
  BY <1>1, MinOfNats
<1>3. Text(file) \in SegmentType
  BY <1>1, <1>2, FileSegs DEF Text
<1>4. file.main \in Nat
  <2>1. file \in FileType
    BY UserExecAssumption DEF TypeOK
  <2>2. file.main \in 0 .. U64_MAX
    BY <2>1 DEF FileType
  <2>3. QED
    BY <2>2, Constants
<1>5. Text(file).vmaddr \in Nat /\ Text(file).fileoff \in Nat
  BY <1>3, FieldTypes
<1>6. SatSub(file.main, Text(file).fileoff) \in Nat
  BY <1>4, <1>5, SatTypes
<1>7. QED
  BY <1>2, <1>3, <1>4, <1>5, <1>6 DEF EntryVa

\* The entry is LC_MAIN's offset in the text segment.
LEMMA ParseEntryKeeps ==
  ASSUME IInv, ParseEntry
  PROVE  IInv'
<1>1. CASE Stop("spin") \/ Stop("panic")
  BY <1>1, StopKeeps
<1>2. CASE ~Stop("spin") /\ ~Stop("panic")
  <2>1. /\ at = "parse" /\ at' = "zero" /\ next > Len(file.segs) /\ ~ParseFails(file)
        /\ entry_va' = Wrap(EntryVa(file)) /\ next' = 1
        /\ UNCHANGED <<inputs, load_base, segments, link_base, memory, user>>
    BY <1>2 DEF ParseEntry
  <2>2. TypeOK /\ ParseInv /\ MemInv
    BY DEF IInv
  <2>3. segments # <<>> /\ file.main # NO_MAIN /\ TextIndices(file) # {}
    BY <2>1 DEF ParseFails
  <2>4. entry_va' \in U64
    BY <2>1, <2>2, <2>3, EntryType, WrapType
  <2>5. TypeOK'
    BY <2>1, <2>2, <2>4 DEF TypeOK, inputs, memory
  <2>6. ParseInv'
    <3>1. Len(file.segs) \in Nat /\ next \in Nat /\ file' = file
      BY <2>1, <2>2, FileSegs DEF TypeOK, inputs
    <3>2. Limit = next /\ Limit' = Len(file.segs) + 1
      BY <2>1, <3>1 DEF Limit
    <3>3. \A i \in 1 .. Len(file.segs) : i < Limit /\ i < Limit'
      BY <2>1, <3>1, <3>2
    <3>4. \A k, i : i \in 1 .. Len(file.segs) /\ Is(k, i) => Is(k, i)'
      BY <2>1, <3>1, <3>3 DEF Is
    <3>5. /\ \A k \in 1 .. Len(segments) :
               /\ segments[k].vmsize # 0 /\ link_base <= segments[k].vmaddr
               /\ \E i \in 1 .. Len(file.segs) : Is(k, i)'
          /\ \A j, k \in 1 .. Len(segments) : j < k =>
               \E i, l \in 1 .. Len(file.segs) : i < l /\ Is(j, i)' /\ Is(k, l)'
      BY <2>2, <3>4 DEF ParseInv
    <3>6. \A i \in 1 .. Len(file.segs) : file.segs[i].vmsize # 0 =>
            \E k \in 1 .. Len(segments) : segments[k] = file.segs[i]
      BY <2>1, <2>2, <3>3 DEF ParseInv
    <3>7. EntryVa(file)' = EntryVa(file)
      BY <3>1, FileFrame
    <3>8. QED
      BY <2>1, <2>3, <3>1, <3>5, <3>6, <3>7 DEF ParseInv, Wrap
  <2>7. MemInv'
    <3>1. written' = {}
      BY <2>1, <2>2 DEF MemInv, memory
    <3>2. QED
      BY <2>1, <2>2, <3>1, WrittenFrame DEF MemInv, Zeroed, memory
  <2>8. QED
    BY <2>5, <2>6, <2>7 DEF IInv
<1>3. QED
  BY <1>1, <1>2

\* The region is cleared from the load address to the end of the stack.
LEMMA ZeroRegionKeeps ==
  ASSUME IInv, ZeroRegion
  PROVE  IInv'
<1>1. CASE Stop("fault")
  BY <1>1, StopKeeps
<1>2. CASE ~Stop("fault")
  <2> DEFINE data == [a \in Bytes(load_base, load_base + ImageSpan) |-> ZERO]
  <2>1. DOMAIN data = Region
    BY DEF Region
  <2>2. /\ at = "zero" /\ at' = "copy" /\ Region \subseteq RamBytes
        /\ mem' = [a \in RamBytes |-> IF a \in DOMAIN data THEN data[a] ELSE mem[a]]
        /\ written' = written \union Region /\ flushed' = flushed \ Region
        /\ UNCHANGED <<inputs, load_base, parsed, user, next>>
    BY <1>2, <2>1 DEF ZeroRegion, Store
  <2>3. mem' = [a \in RamBytes |-> IF a \in Region THEN ZERO ELSE mem[a]]
    BY <2>1, <2>2
  <2>4. TypeOK /\ ParseInv /\ MemInv
    BY DEF IInv
  <2>5. TypeOK'
    <3>1. mem' \in [RamBytes -> U64 \union {ZERO, JUNK}]
      BY <2>3, <2>4 DEF TypeOK
    <3>2. QED
      BY <2>2, <2>4, <3>1 DEF TypeOK, inputs, parsed
  <2>6. ParseInv'
    BY <2>2, <2>4, ParseFrame DEF Parsed, inputs, parsed
  <2>7. written = {} /\ next = 1
    BY <2>2, <2>4 DEF MemInv
  <2>8. /\ Region' = Region /\ NoWrap(file)' = NoWrap(file) /\ WellLinked(file)' = WellLinked(file)
        /\ segments' = segments
        /\ \A k : Home(segments[k])' = Home(segments[k])
    BY <2>2, RegionFrame, FileFrame DEF inputs, parsed
  <2>9. \A a \in Region : mem'[a] = ZERO
    BY <2>2, <2>3
  <2>10. ASSUME WellLinked(file)
         PROVE  Laid(next)'
    <3>1. NoWrap(file)
      BY <2>10 DEF WellLinked
    <3>2. \A k \in 1 .. Len(segments) : \A o \in 0 .. segments[k].vmsize - 1 :
            Home(segments[k]) + o \in Region
      BY <2>4, <3>1, InMemoryFacts
    <3>3. \A k \in 1 .. Len(segments) : ~(k < 1)
      BY <2>4, ImageSegs
    <3>4. \A k \in 1 .. Len(segments) : \A o \in 0 .. segments[k].vmsize - 1 :
            mem'[Home(segments[k]) + o] =
              IF k < 1 /\ o < segments[k].filesize THEN segments[k].fileoff + o ELSE ZERO
      BY <2>9, <3>2, <3>3
    <3>5. next' = 1
      BY <2>2, <2>7
    <3>6. QED
      BY <2>8, <2>9, <3>4, <3>5 DEF Laid
  <2>11. WritesStayInRegion'
    BY <2>2, <2>7, <2>8 DEF WritesStayInRegion
  <2>12. MemInv'
    BY <2>2, <2>7, <2>8, <2>10, <2>11 DEF MemInv
  <2>13. QED
    BY <2>5, <2>6, <2>12 DEF IInv
<1>3. QED
  BY <1>1, <1>2

\* A segment is copied to its place relative to link_base, inside the region
\* and, in a well linked file, beside the other segments.
LEMMA CopySegmentKeeps ==
  ASSUME IInv, CopySegment
  PROVE  IInv'
<1>1. CASE Stop("fault")
  BY <1>1, StopKeeps
<1>2. CASE ~Stop("fault")
  <2> DEFINE s == segments[next]
             dst == load_base + (s.vmaddr - link_base)
             D == Bytes(dst, dst + CopyLen(s))
             data == [a \in D |-> s.fileoff + (a - dst)]
  <2>1. DOMAIN data = D
    OBVIOUS
  <2>2. /\ at = "copy" /\ at' = "copy" /\ next <= Len(segments) /\ next' = next + 1
        /\ D \subseteq RamBytes
        /\ mem' = [a \in RamBytes |-> IF a \in DOMAIN data THEN data[a] ELSE mem[a]]
        /\ written' = written \union D /\ flushed' = flushed \ D
        /\ UNCHANGED <<inputs, load_base, parsed, user>>
    BY <1>2, <2>1 DEF CopySegment, Store
  <2>3. mem' = [a \in RamBytes |-> IF a \in D THEN s.fileoff + (a - dst) ELSE mem[a]]
    BY <2>1, <2>2
  <2>4. TypeOK /\ ParseInv /\ MemInv
    BY DEF IInv
  <2>5. next \in 1 .. Len(segments) /\ Len(segments) \in Nat
    BY <2>2, <2>4, ImageSegs DEF TypeOK
  <2>6. /\ s \in SegmentType /\ s.vmaddr \in Nat /\ s.fileoff \in Nat /\ s.filesize \in Nat
        /\ s.vmsize \in Nat
        /\ CopyLen(s) \in Nat /\ CopyLen(s) <= s.vmsize /\ CopyLen(s) <= s.filesize
    BY <2>4, <2>5, ImageSegs, FieldTypes
  <2>7. s.fileoff + s.filesize <= U64_MAX /\ link_base <= s.vmaddr /\ U64_MAX \in Nat
    <3>1. PICK i \in 1 .. Len(file.segs) : s = file.segs[i]
      BY <2>4, <2>5 DEF ParseInv, Is
    <3>2. file.segs[i].fileoff + file.segs[i].filesize <= U64_MAX
      BY <2>4, FileSegs
    <3>3. link_base <= s.vmaddr
      BY <2>4, <2>5 DEF ParseInv
    <3>4. QED
      BY <3>1, <3>2, <3>3, Constants
  <2>8. load_base \in Nat /\ link_base \in Nat
    BY <2>4, SpanType
  <2>9. dst \in Nat /\ dst = Home(s) /\ \A a : a \in D <=> a \in Int /\ dst <= a /\ a < dst + CopyLen(s)
    BY <2>6, <2>7, <2>8 DEF Home, Bytes
  <2> HIDE DEF s, dst, D
  <2>10. TypeOK'
    <3>1. \A a \in D : s.fileoff + (a - dst) \in U64
      BY <2>6, <2>7, <2>9
    <3>2. mem' \in [RamBytes -> U64 \union {ZERO, JUNK}]
      BY <2>3, <2>4, <3>1 DEF TypeOK
    <3>3. next' \in Nat \ {0}
      BY <2>2, <2>5
    <3>4. QED
      BY <2>2, <2>4, <3>2, <3>3 DEF TypeOK, inputs, parsed
  <2>11. ParseInv'
    BY <2>2, <2>4, ParseFrame DEF Parsed, inputs, parsed
  <2>12. /\ Region' = Region /\ NoWrap(file)' = NoWrap(file) /\ WellLinked(file)' = WellLinked(file)
         /\ segments' = segments
         /\ \A k : Home(segments[k])' = Home(segments[k])
         /\ \A k : InMemory(segments[k])' = InMemory(segments[k])
    BY <2>2, RegionFrame, FileFrame DEF inputs, parsed
  <2>13. ASSUME NEW a \in D
         PROVE  a \in InMemory(segments[next])
    <3>1. InMemory(segments[next]) = Bytes(dst, dst + s.vmsize)
      BY DEF InMemory, dst, s
    <3>2. QED
      BY <2>6, <2>9, <3>1 DEF Bytes
  <2>14. NoWrap(file) => D \subseteq Region
    BY <2>4, <2>5, <2>13, InMemoryFacts
  <2>15. ASSUME WellLinked(file)
         PROVE  Laid(next)'
    <3>1. NoWrap(file)
      BY <2>15 DEF WellLinked
    <3>2. Laid(next) /\ Region \subseteq RamBytes
      BY <2>2, <2>4, <2>15 DEF MemInv, Zeroed
    <3>3. ASSUME NEW k \in 1 .. Len(segments), NEW o \in 0 .. segments[k].vmsize - 1
          PROVE  mem'[Home(segments[k]) + o] =
                   IF k < next + 1 /\ o < segments[k].filesize THEN segments[k].fileoff + o ELSE ZERO
      <4> DEFINE a == Home(segments[k]) + o
      <4>1. a \in InMemory(segments[k]) /\ a \in Region /\ a \in RamBytes
        BY <2>4, <3>1, <3>2, InMemoryFacts
      <4>2. mem[a] = IF k < next /\ o < segments[k].filesize THEN segments[k].fileoff + o ELSE ZERO
        BY <3>2 DEF Laid
      <4>3. mem'[a] = IF a \in D THEN s.fileoff + (a - dst) ELSE mem[a]
        BY <2>3, <4>1
      <4>4. CASE k = next
        <5>1. s = segments[k] /\ CopyLen(s) = s.filesize
          <6>1. s.filesize <= s.vmsize
            <7>1. PICK i \in 1 .. Len(file.segs) : segments[k] = file.segs[i]
              BY <2>4 DEF ParseInv, Is
            <7>2. QED
              BY <2>15, <4>4, <7>1 DEF WellLinked, s
          <6>2. QED
            BY <2>6, <4>4, <6>1 DEF CopyLen, s
        <5>2. o \in Nat /\ a = dst + o
          BY <2>6, <2>9, <5>1
        <5>3. a \in D <=> o < s.filesize
          BY <2>6, <2>9, <5>1, <5>2
        <5>4. a - dst = o
          BY <2>9, <5>2
        <5>5. ~(k < next) /\ k < next + 1
          BY <2>5, <4>4
        <5>6. QED
          BY <4>2, <4>3, <5>1, <5>3, <5>4, <5>5
      <4>5. CASE k # next
        <5>1. a \notin D
          BY <2>4, <2>5, <2>13, <2>15, <4>1, <4>5, SegsApart
        <5>2. k < next <=> k < next + 1
          BY <2>5, <4>5
        <5>3. QED
          BY <4>2, <4>3, <5>1, <5>2
      <4>6. QED
        BY <4>4, <4>5
    <3>4. ASSUME NEW a \in Region, \A k \in 1 .. Len(segments) : a \notin InMemory(segments[k])
          PROVE  mem'[a] = ZERO
      <4>1. a \notin D /\ a \in RamBytes
        BY <2>5, <2>13, <3>2, <3>4
      <4>2. mem[a] = ZERO
        BY <3>2, <3>4 DEF Laid
      <4>3. QED
        BY <2>3, <4>1, <4>2
    <3>5. QED
      BY <2>2, <2>12, <3>3, <3>4 DEF Laid
  <2>16. WritesStayInRegion'
    <3>1. \A a : LinkAddress(a)' = LinkAddress(a)
      BY <2>2 DEF LinkAddress, parsed
    <3>2. \A a \in D : a \in Region \/ LinkAddress(a) >= U64_MAX
      BY <2>4, <2>5, <2>13, LinkedBelowEnd
    <3>3. QED
      BY <2>2, <2>4, <2>12, <3>1, <3>2 DEF MemInv, WritesStayInRegion
  <2>17. MemInv'
    BY <2>2, <2>4, <2>12, <2>14, <2>15, <2>16 DEF MemInv, Zeroed
  <2>18. QED
    BY <2>10, <2>11, <2>17 DEF IInv
<1>3. QED
  BY <1>1, <1>2

\* The cache maintenance writes nothing.
LEMMA FlushImageKeeps ==
  ASSUME IInv, FlushImage
  PROVE  IInv'
<1>1. /\ at = "copy" /\ at' = "enter" /\ next > Len(segments)
      /\ flushed' = flushed \union Region
      /\ UNCHANGED <<inputs, load_base, parsed, next, mem, written, user>>
  BY DEF FlushImage, Region
<1>2. TypeOK /\ ParseInv /\ MemInv
  BY DEF IInv
<1>3. Region \subseteq RamBytes
  BY <1>1, <1>2 DEF MemInv, Zeroed
<1>4. TypeOK'
  BY <1>1, <1>2, <1>3 DEF TypeOK, inputs, parsed
<1>5. ParseInv'
  BY <1>1, <1>2, ParseFrame DEF Parsed, inputs, parsed
<1>6. /\ Region' = Region /\ NoWrap(file)' = NoWrap(file) /\ WellLinked(file)' = WellLinked(file)
      /\ segments' = segments
  BY <1>1, RegionFrame, FileFrame DEF inputs, parsed
<1>7. ASSUME WellLinked(file)
      PROVE  Laid(Len(segments) + 1)'
  <2>1. Laid(next)
    BY <1>1, <1>2, <1>7 DEF MemInv
  <2>2. Len(segments) \in Nat /\ next \in Nat
    BY <1>2, ImageSegs DEF TypeOK
  <2>3. \A k \in 1 .. Len(segments) : k < next /\ k < Len(segments) + 1
    BY <1>1, <2>2
  <2>4. Laid(Len(segments) + 1)
    BY <2>1, <2>3 DEF Laid
  <2>5. \A k : Home(segments[k])' = Home(segments[k])
    BY <1>1, RegionFrame DEF parsed
  <2>6. \A k : InMemory(segments[k])' = InMemory(segments[k])
    BY <1>1, RegionFrame DEF parsed
  <2>7. QED
    BY <1>1, <1>6, <2>4, <2>5, <2>6 DEF Laid
<1>8. WritesStayInRegion'
  BY <1>1, <1>2, WrittenFrame DEF MemInv, parsed
<1>9. MemInv'
  BY <1>1, <1>2, <1>3, <1>6, <1>7, <1>8 DEF MemInv
<1>10. QED
  BY <1>4, <1>5, <1>9 DEF IInv

\* The frame gets the relocated entry and the top of the stack.
LEMMA EnterUserKeeps ==
  ASSUME IInv, EnterUser
  PROVE  IInv'
<1> DEFINE entry == load_base + Wrap(entry_va - link_base)
           top == StackBase + STACK_SIZE
<1>1. CASE Stop("panic")
  BY <1>1, StopKeeps
<1>2. CASE ~Stop("panic")
  <2>1. /\ at = "enter" /\ at' = "el0" /\ user' = [pc |-> Wrap(entry), sp |-> Wrap(top)]
        /\ UNCHANGED <<inputs, load_base, parsed, next, memory>>
    BY <1>2 DEF EnterUser
  <2>2. TypeOK /\ ParseInv /\ MemInv
    BY DEF IInv
  <2>3. entry \in Int /\ top \in Int
    <3>1. load_base \in Nat /\ link_base \in Nat /\ entry_va \in Int /\ ImageSpan \in Int
      BY <2>2, SpanType, Constants DEF TypeOK
    <3>2. entry_va - link_base \in Int /\ load_base + ImageSpan \in Int
      BY <3>1
    <3>3. Wrap(entry_va - link_base) \in U64 /\ Wrap(load_base + ImageSpan) \in U64
      BY <3>2, WrapType
    <3>4. StackBase \in U64
      BY <3>3, AlignType, Constants DEF StackBase
    <3>5. QED
      BY <3>1, <3>3, <3>4, Constants
  <2>4. user' \in [pc : U64, sp : U64]
    <3>1. Wrap(entry) \in U64 /\ Wrap(top) \in U64
      BY <2>3, WrapType
    <3>2. QED
      BY <2>1, <3>1
  <2>5. TypeOK'
    BY <2>1, <2>2, <2>4 DEF TypeOK, inputs, parsed, memory
  <2>6. ParseInv'
    BY <2>1, <2>2, ParseFrame DEF Parsed, inputs, parsed
  <2>7. /\ Region' = Region /\ NoWrap(file)' = NoWrap(file) /\ WellLinked(file)' = WellLinked(file)
        /\ StackBase' = StackBase /\ segments' = segments
        /\ \A k : Home(segments[k])' = Home(segments[k])
        /\ \A k : InMemory(segments[k])' = InMemory(segments[k])
    BY <2>1, RegionFrame, FileFrame DEF inputs, parsed
  <2>8. WellLinked(file) => Laid(Len(segments) + 1)'
    <3>1. WellLinked(file) => Laid(Len(segments) + 1)
      BY <2>1, <2>2 DEF MemInv
    <3>2. mem' = mem
      BY <2>1 DEF memory
    <3>3. QED
      BY <2>7, <3>1, <3>2 DEF Laid
  <2>9. WritesStayInRegion'
    BY <2>1, <2>2, WrittenFrame DEF MemInv, memory, parsed
  <2>10. MemInv'
    BY <2>1, <2>2, <2>7, <2>8, <2>9 DEF MemInv, Zeroed, Wrap, memory, parsed
  <2>11. QED
    BY <2>5, <2>6, <2>10 DEF IInv
<1>3. QED
  BY <1>1, <1>2

\* Every step keeps the invariant.
LEMMA StepKeeps == IInv /\ [Next]_vars => IInv'
<1> SUFFICES ASSUME IInv, [Next]_vars
             PROVE  IInv'
  OBVIOUS
<1>1. CASE ChooseLoadBase
  BY <1>1, ChooseLoadBaseKeeps
<1>2. CASE ParseSegment
  BY <1>2, ParseSegmentKeeps
<1>3. CASE ParseEntry
  BY <1>3, ParseEntryKeeps
<1>4. CASE HeapExhausted
  BY <1>4, StopKeeps DEF HeapExhausted
<1>5. CASE ZeroRegion
  BY <1>5, ZeroRegionKeeps
<1>6. CASE CopySegment
  BY <1>6, CopySegmentKeeps
<1>7. CASE FlushImage
  BY <1>7, FlushImageKeeps
<1>8. CASE EnterUser
  BY <1>8, EnterUserKeeps
<1>9. CASE UNCHANGED vars
  <2>1. /\ UNCHANGED <<at, file, load_base, segments, link_base, entry_va, next, mem>>
        /\ UNCHANGED <<written, flushed, user>>
    BY <1>9 DEF vars
  <2>2. TypeOK'
    BY <1>9 DEF IInv, TypeOK, vars
  <2>3. ParseInv'
    <3>1. EntryVa(file)' = EntryVa(file)
      BY <2>1, FileFrame
    <3>2. \A k, i : Is(k, i)' = Is(k, i)
      BY <2>1 DEF Is, Limit
    <3>3. Limit' = Limit
      BY <2>1 DEF Limit
    <3>4. QED
      BY <2>1, <3>1, <3>2, <3>3 DEF IInv, ParseInv, Wrap
  <2>4. MemInv'
    <3>1. /\ Region' = Region /\ NoWrap(file)' = NoWrap(file) /\ WellLinked(file)' = WellLinked(file)
          /\ StackBase' = StackBase
          /\ \A k : Home(segments[k])' = Home(segments[k])
          /\ \A k : InMemory(segments[k])' = InMemory(segments[k])
      BY <2>1, RegionFrame, FileFrame
    <3>2. /\ Laid(next) => Laid(next)'
          /\ Laid(Len(segments) + 1) => Laid(Len(segments) + 1)'
      BY <2>1, <3>1 DEF Laid
    <3>3. WritesStayInRegion'
      BY <2>1, WrittenFrame DEF IInv, MemInv
    <3>4. QED
      BY <2>1, <3>1, <3>2, <3>3 DEF IInv, MemInv, Wrap
  <2>5. QED
    BY <2>2, <2>3, <2>4 DEF IInv
<1>10. QED
  BY <1>1, <1>2, <1>3, <1>4, <1>5, <1>6, <1>7, <1>8, <1>9 DEF Next, Step, Stopped

-----------------------------------------------------------------------------

\* The invariant holds in every state of the kernel's loader.
THEOREM InvariantHolds == Spec => []IInv
  BY InitHolds, StepKeeps, PTL DEF Spec

\* Every address that _start, parse and load_and_run compute is a u64, with and
\* without overflow checks, and memory holds bytes of the file.
THEOREM TypeCorrect == Spec => []TypeOK
<1>1. IInv => TypeOK
  BY DEF IInv
<1>2. QED
  BY <1>1, InvariantHolds, PTL

\* The copies of load_and_run stay "Within the zeroed region", but for bytes
\* linked at the end of the address space and beyond.
THEOREM WritesInRegion == Spec => []WritesStayInRegion
<1>1. IInv => WritesStayInRegion
  BY DEF IInv, MemInv
<1>2. QED
  BY <1>1, InvariantHolds, PTL

\* A region that holds a segment ends in RAM, so that the stack that is placed
\* behind it fits below the end of the address space.
LEMMA StackBehind ==
  ASSUME IInv, at = "el0", WellLinked(file)
  PROVE  /\ user.sp \in Nat /\ user.sp - STACK_SIZE \in Nat
         /\ load_base + ImageSpan <= user.sp - STACK_SIZE
<1> DEFINE e == load_base + ImageSpan
<1>1. TypeOK /\ ParseInv /\ MemInv /\ NoWrap(file)
  BY DEF IInv, WellLinked
<1>2. Len(segments) \in Nat /\ 1 \in 1 .. Len(segments)
  <2>1. segments # <<>> /\ segments \in Seq(SegmentType)
    BY <1>1 DEF ParseInv, Parsed, TypeOK
  <2>2. Len(segments) \in Nat /\ Len(segments) # 0
    BY <2>1
  <2>3. QED
    BY <2>2
<1>3. /\ Home(segments[1]) \in Nat /\ load_base <= Home(segments[1])
      /\ segments[1].vmsize \in Nat \ {0}
      /\ Home(segments[1]) + segments[1].vmsize <= e
  BY <1>1, <1>2, SegInRegion
<1>4. load_base \in Nat /\ ImageSpan \in Nat
  BY <1>1, SpanType, Constants
<1>5. e \in Nat /\ load_base <= e - 1
  BY <1>3, <1>4
<1>6. e - 1 \in Region
  BY <1>4, <1>5 DEF Region, Bytes
<1>7. (e - 1) + PAGE_SIZE + STACK_SIZE <= U64_MAX
  <2>1. e - 1 \in RamBytes
    BY <1>1, <1>6 DEF MemInv, Zeroed
  <2>2. QED
    BY <2>1, Constants
<1>8. PAGE_SIZE \in Nat \ {0} /\ STACK_SIZE \in Nat \ {0} /\ U64_MAX \in Nat
  BY Constants
<1>9. StackBase = AlignUp(Wrap(e), PAGE_SIZE)
  BY DEF StackBase
<1> HIDE DEF e
<1>10. e \in U64 /\ e + PAGE_SIZE - 1 <= U64_MAX
  BY <1>5, <1>7, <1>8
<1>11. Wrap(e) = e
  BY <1>10, WrapSmall
<1>12. e <= StackBase /\ StackBase <= e + PAGE_SIZE - 1 /\ StackBase \in Nat
  BY <1>5, <1>8, <1>9, <1>10, <1>11, AlignAbove
<1>13. StackBase + STACK_SIZE \in U64
  BY <1>5, <1>7, <1>8, <1>12
<1>14. user.sp = StackBase + STACK_SIZE
  BY <1>1, <1>13, WrapSmall DEF MemInv
<1>15. QED
  BY <1>8, <1>12, <1>14 DEF e

\* What runs at EL0 is the program: its segments moved to the load address,
\* zeroes around them, no stale instruction, and a stack of its own.
THEOREM ProgramLaidOut == Spec => []ImageLaidOut
<1>1. ASSUME IInv, at = "el0", WellLinked(file)
      PROVE  ImageLaidOut
  <2>1. TypeOK /\ ParseInv /\ MemInv /\ NoWrap(file)
    BY <1>1 DEF IInv, WellLinked
  <2>2. Laid(Len(segments) + 1) /\ Region \subseteq flushed /\ written \subseteq Region
    BY <1>1, <2>1 DEF MemInv
  <2>3. Len(segments) \in Nat /\ \A k \in 1 .. Len(segments) : k < Len(segments) + 1
    BY <2>1, ImageSegs
  <2>4. \A i \in 1 .. Len(segments) : \A k \in 0 .. segments[i].vmsize - 1 :
          mem[load_base + (segments[i].vmaddr - link_base) + k] =
            IF k < segments[i].filesize THEN segments[i].fileoff + k ELSE ZERO
    BY <2>2, <2>3 DEF Laid, Home
  <2>5. \A a \in Region \ UNION {InMemory(segments[i]) : i \in 1 .. Len(segments)} : mem[a] = ZERO
    BY <2>2 DEF Laid
  <2>6. /\ user.sp \in Nat /\ user.sp - STACK_SIZE \in Nat
        /\ load_base + ImageSpan <= user.sp - STACK_SIZE
    BY <1>1, StackBehind
  <2>7. user.sp >= STACK_SIZE
    BY <2>6, Constants
  <2>8. Bytes(user.sp - STACK_SIZE, user.sp) \intersect written = {}
    <3>1. ASSUME NEW a \in Region, a \in Bytes(user.sp - STACK_SIZE, user.sp)
          PROVE  FALSE
      <4>1. load_base \in Nat /\ ImageSpan \in Nat
        BY <2>1, SpanType, Constants
      <4>2. a \in Int /\ a < load_base + ImageSpan
        BY <3>1, <4>1 DEF Region, Bytes
      <4>3. user.sp - STACK_SIZE <= a
        BY <2>6, <3>1 DEF Bytes
      <4>4. QED
        BY <2>6, <4>1, <4>2, <4>3
    <3>2. QED
      BY <2>2, <3>1
  <2>9. QED
    BY <2>2, <2>4, <2>5, <2>7, <2>8 DEF ImageLaidOut
<1>2. IInv => ImageLaidOut
  BY <1>1 DEF ImageLaidOut
<1>3. QED
  BY <1>2, InvariantHolds, PTL

\* user_enter starts the program at the instruction that LC_MAIN names.
THEOREM StartsAtMain == Spec => []EntryIsMain
<1>1. ASSUME IInv, at = "el0", WellLinked(file)
      PROVE  mem[user.pc] = file.main
  <2>1. TypeOK /\ ParseInv /\ MemInv /\ NoWrap(file)
    BY <1>1 DEF IInv, WellLinked
  <2>2. PICK i \in 1 .. Len(file.segs) :
          /\ TextIndices(file) = {i}
          /\ file.main \in Bytes(file.segs[i].fileoff, file.segs[i].fileoff + file.segs[i].filesize)
    BY <1>1 DEF WellLinked
  <2> DEFINE t == file.segs[i]
             o == file.main - t.fileoff
  <2>3. /\ t \in SegmentType /\ t.vmaddr \in Nat /\ t.vmsize \in Nat /\ t.fileoff \in Nat
        /\ t.filesize \in Nat
    BY <2>1, FileSegs, FieldTypes
  <2>4. t.filesize <= t.vmsize /\ t.vmaddr + t.vmsize <= U64_MAX
    BY <1>1, <2>1 DEF WellLinked, NoWrap
  <2>5. file.main \in Int /\ t.fileoff <= file.main /\ file.main < t.fileoff + t.filesize
    BY <2>2, <2>3 DEF Bytes
  <2>6. Text(file) = t
    <3>1. {i} \in SUBSET Nat /\ {i} # {}
      OBVIOUS
    <3>2. Min({i}) = i
      BY <3>1, MinOfNats
    <3>3. QED
      BY <2>2, <3>2 DEF Text
  <2>7. PICK k \in 1 .. Len(segments) : segments[k] = t
    <3>1. t.vmsize # 0
      BY <2>3, <2>4, <2>5
    <3>2. Len(file.segs) \in Nat
      BY <2>1, FileSegs
    <3>3. i < Limit
      BY <1>1, <3>2 DEF Limit
    <3>4. QED
      BY <1>1, <2>1, <3>1, <3>3 DEF ParseInv, Parsed
  <2>8. EntryVa(file) = t.vmaddr + o
    BY <2>3, <2>5, <2>6, SatTypes DEF EntryVa
  <2> HIDE DEF t
  <2>9. o \in Nat /\ o < t.filesize /\ o < t.vmsize /\ o \in 0 .. t.vmsize - 1 /\ t.fileoff + o = file.main
    <3>1. o \in Nat /\ o < t.filesize /\ t.fileoff + o = file.main
      BY <2>3, <2>5
    <3> HIDE DEF o
    <3>2. QED
      BY <2>3, <2>4, <3>1
  <2> HIDE DEF o
  <2>10. U64_MAX \in Nat /\ load_base \in Nat /\ link_base \in Nat
    BY <2>1, SpanType, Constants
  <2>11. entry_va = t.vmaddr + o
    <3>1. t.vmaddr + o \in U64
      <4>1. ASSUME NEW v \in Nat, NEW z \in Nat, v + z <= U64_MAX, o < z
            PROVE  v + o \in U64
        BY <2>9, <2>10, <4>1
      <4>2. QED
        BY <2>3, <2>4, <2>9, <4>1
    <3>2. QED
      BY <1>1, <2>1, <2>8, <3>1, WrapSmall DEF ParseInv, Parsed
  <2>12. link_base <= t.vmaddr
    BY <2>1, <2>7 DEF ParseInv
  <2>13. Wrap(entry_va - link_base) = (t.vmaddr - link_base) + o
    <3>1. ASSUME NEW v \in Nat, NEW b \in Nat, NEW z \in Nat, NEW m \in Nat,
                 b <= v, z < m, v + m <= U64_MAX
          PROVE  (v + z) - b \in U64 /\ (v + z) - b = (v - b) + z
      BY <2>10, <3>1 DEF U64
    <3>2. /\ (t.vmaddr + o) - link_base \in U64
          /\ (t.vmaddr + o) - link_base = (t.vmaddr - link_base) + o
      <4>1. t.vmaddr \in Nat /\ t.vmsize \in Nat /\ o \in Nat /\ link_base \in Nat
        BY <2>3, <2>9, <2>10
      <4>2. link_base <= t.vmaddr /\ o < t.vmsize /\ t.vmaddr + t.vmsize <= U64_MAX
        BY <2>4, <2>9, <2>12
      <4>3. QED
        BY <4>1, <4>2, <3>1, Zenon
    <3>3. QED
      BY <2>11, <3>2, WrapSmall
  <2>14. Home(t) + o \in Region
    BY <2>1, <2>7, <2>9, InMemoryFacts
  <2>15. Home(t) + o \in U64
    BY <1>1, <2>1, <2>14, Constants DEF MemInv, Zeroed
  <2>16. load_base + Wrap(entry_va - link_base) = Home(t) + o
    BY <2>3, <2>9, <2>10, <2>13 DEF Home
  <2>17. user.pc = Home(t) + o
    BY <1>1, <2>1, <2>15, <2>16, WrapSmall DEF MemInv
  <2>18. mem[Home(t) + o] = t.fileoff + o
    <3>1. Laid(Len(segments) + 1)
      BY <1>1, <2>1 DEF MemInv
    <3>2. k < Len(segments) + 1
      BY <2>1, ImageSegs
    <3>3. QED
      BY <2>7, <2>9, <3>1, <3>2 DEF Laid
  <2>19. QED
    BY <2>9, <2>17, <2>18
<1>2. IInv => EntryIsMain
  BY <1>1 DEF EntryIsMain
<1>3. QED
  BY <1>2, InvariantHolds, PTL
=============================================================================
