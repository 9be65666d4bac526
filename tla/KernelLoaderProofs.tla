------------------------- MODULE KernelLoaderProofs -------------------------
(***************************************************************************)
(* Proofs about KernelLoader: for any image, page size, memory and choices *)
(* of the firmware.                                                        *)
(***************************************************************************)
EXTENDS KernelLoader, FiniteSetTheorems, WellFoundedInduction, TLAPS

-----------------------------------------------------------------------------
(* Numbers. *)

\* Division with remainder by a positive number.
LEMMA ModBounds ==
  ASSUME NEW y \in Int, NEW a \in Nat \ {0}
  PROVE  /\ y % a \in 0 .. a - 1
         /\ y = a * (y \div a) + (y % a)
         /\ y \div a \in Int
  OBVIOUS

\* A value below the modulus is its own remainder.
LEMMA ModSmall ==
  ASSUME NEW y \in Nat, NEW n \in Nat, y < n
  PROVE  y % n = y
  OBVIOUS

\* A multiple of a leaves no remainder.
LEMMA ModMultiple ==
  ASSUME NEW a \in Nat \ {0}, NEW q \in Int
  PROVE  (a * q) % a = 0
  OBVIOUS

\* Multiplication by a natural number is monotone.
LEMMA TimesMonotone ==
  ASSUME NEW a \in Nat, NEW p \in Int, NEW q \in Int, p <= q
  PROVE  a * p <= a * q
  OBVIOUS

\* Quotient and remainder are unique.
LEMMA DivUnique ==
  ASSUME NEW a \in Nat \ {0}, NEW q \in Int, NEW r \in 0 .. a - 1
  PROVE  (a * q + r) \div a = q /\ (a * q + r) % a = r
  OBVIOUS

\* Two multiples of a are apart by at least a.
LEMMA MultiplesApart ==
  ASSUME NEW a \in Nat \ {0}, NEW x \in Int, NEW y \in Int,
         x % a = 0, y % a = 0, x < y
  PROVE  x + a <= y
<1> DEFINE p == x \div a
           q == y \div a
<1>1. x = a * p /\ y = a * q /\ p \in Int /\ q \in Int
  BY ModBounds
<1> HIDE DEF p, q
<1>2. CASE q <= p
  BY <1>1, <1>2, TimesMonotone
<1>3. CASE p + 1 <= q
  <2>1. a * (p + 1) <= a * q
    BY <1>1, <1>3, TimesMonotone
  <2>2. a * (p + 1) = a * p + a
    BY <1>1
  <2>3. QED
    BY <1>1, <2>1, <2>2
<1>4. QED
  BY <1>1, <1>2, <1>3

\* v - (v % a) is the greatest multiple of a that is not above v.
LEMMA RoundDown ==
  ASSUME NEW v \in Int, NEW a \in Nat \ {0}
  PROVE  LET r == v - (v % a)
         IN  /\ r \in Int /\ r <= v /\ v < r + a
             /\ r % a = 0
             /\ v >= 0 => r >= 0
             /\ \A m \in Int : m % a = 0 /\ m <= v => m <= r
<1> DEFINE r == v - (v % a)
           q == v \div a
<1>1. v % a \in 0 .. a - 1 /\ v = a * q + (v % a) /\ q \in Int
  BY ModBounds
<1>2. r \in Int /\ r <= v /\ v < r + a /\ r = a * q
  BY <1>1
<1>3. r % a = 0
  BY <1>1, <1>2, ModMultiple
<1> HIDE DEF r, q
<1>4. ASSUME NEW m \in Int, m % a = 0, m <= v
      PROVE  m <= r
  <2>1. CASE r < m
    BY <1>2, <1>3, <1>4, <2>1, MultiplesApart
  <2>2. QED
    BY <1>2, <2>1
<1>5. 0 % a = 0
  BY ModSmall
<1>6. v >= 0 => r >= 0
  BY <1>4, <1>5
<1>7. QED
  BY <1>2, <1>3, <1>4, <1>6 DEF r

\* A set of natural numbers that is not empty has a least element.
LEMMA LeastNat ==
  ASSUME NEW S \in SUBSET Nat, S # {}
  PROVE  \E m \in S : \A k \in S : m <= k
<1> DEFINE R == OpToRel(<, Nat)
<1>1. IsWellFoundedOn(R, Nat)
  BY NatLessThanWellFounded
<1>2. \A x, y \in Nat : y < x => <<y, x>> \in R
  BY DEF OpToRel
<1> HIDE DEF R
<1>3. PICK m \in S : \A y \in S : ~ (<<y, m>> \in R)
  BY <1>1, WFMin
<1>4. \A k \in S : k \in Nat /\ m \in Nat /\ ~ (k < m)
  BY <1>2, <1>3
<1>5. \A k \in S : m <= k
  BY <1>4
<1>6. QED
  BY <1>5

\* A function to the integers takes its greatest value on a finite set.
LEMMA GreatestValue ==
  ASSUME NEW T, IsFiniteSet(T), T # {}, NEW f \in [T -> Int]
  PROVE  \E x \in T : \A y \in T : f[y] <= f[x]
<1> DEFINE Has(S) == \E x \in S : \A y \in S : f[y] <= f[x]
           Bad == {n \in Nat : \E S \in SUBSET T : S # {} /\ Cardinality(S) = n /\ ~Has(S)}
<1>1. SUFFICES ASSUME ~Has(T)
               PROVE  FALSE
  OBVIOUS
<1>2. Cardinality(T) \in Bad
  BY <1>1, FS_CardinalityType
<1>3. PICK n \in Bad : \A k \in Bad : n <= k
  BY <1>2, LeastNat
<1>4. PICK S \in SUBSET T : S # {} /\ Cardinality(S) = n /\ ~Has(S)
  BY <1>3
<1>5. PICK a \in S : TRUE
  BY <1>4
<1>6. IsFiniteSet(S)
  BY FS_Subset
<1>7. Cardinality(S \ {a}) = n - 1 /\ IsFiniteSet(S \ {a})
  BY <1>4, <1>5, <1>6, FS_RemoveElement
<1>8. Cardinality(S \ {a}) \in Nat
  BY <1>7, FS_CardinalityType
<1>9. ~(Cardinality(S \ {a}) \in Bad)
  <2>1. n \in Nat /\ ~(n <= n - 1)
    OBVIOUS
  <2> HIDE DEF Bad
  <2>2. QED
    BY <1>3, <1>7, <2>1
<1>10. S \ {a} = {} \/ Has(S \ {a})
  BY <1>8, <1>9
<1>11. CASE S \ {a} = {}
  <2>1. \A y \in S : y = a
    BY <1>11
  <2>2. QED
    BY <1>4, <1>5, <2>1
<1>12. CASE Has(S \ {a})
  <2>1. PICK b \in S \ {a} : \A y \in S \ {a} : f[y] <= f[b]
    BY <1>12
  <2>2. f[a] \in Int /\ f[b] \in Int /\ \A y \in S : f[y] \in Int
    BY <1>5, <2>1
  <2>3. CASE f[a] <= f[b]
    <3>1. \A y \in S : f[y] <= f[b]
      BY <2>1, <2>3
    <3>2. QED
      BY <1>4, <2>1, <3>1
  <2>4. CASE f[b] <= f[a]
    <3>1. \A y \in S : f[y] <= f[a]
      BY <2>1, <2>2, <2>4
    <3>2. QED
      BY <1>4, <1>5, <3>1
  <2>5. QED
    BY <2>2, <2>3, <2>4
<1>13. QED
  BY <1>10, <1>11, <1>12

\* Max of a finite set is in it and above the others.
LEMMA MaxOfFinite ==
  ASSUME NEW S \in SUBSET Int, IsFiniteSet(S), S # {}
  PROVE  Max(S) \in S /\ \A y \in S : y <= Max(S)
<1> DEFINE f == [x \in S |-> x]
<1>1. PICK x \in S : \A y \in S : f[y] <= f[x]
  BY GreatestValue
<1>2. \A y \in S : x >= y
  BY <1>1
<1>3. QED
  BY <1>2 DEF Max

\* Min of a set of natural numbers is in it and below the others.
LEMMA MinOfNats ==
  ASSUME NEW S \in SUBSET Nat, S # {}
  PROVE  Min(S) \in S /\ \A y \in S : Min(S) <= y
  BY LeastNat DEF Min

\* The image of a finite set is finite.
LEMMA ImageIsFinite ==
  ASSUME NEW T, IsFiniteSet(T), NEW f, DOMAIN f = T
  PROVE  IsFiniteSet({f[x] : x \in T})
<1> DEFINE I == {f[x] : x \in T}
           g == [x \in T |-> f[x]]
<1>1. g \in Surjection(T, I)
  BY DEF Surjection
<1>2. QED
  BY <1>1, FS_Surjection

-----------------------------------------------------------------------------

\* Stages with something done: the ranges computed, merged, their pages
\* allocated, the segments copied, the caches synchronised, the tree and the
\* page of the boot arguments allocated.
Handing == {"boot_args", "stack", "exit", "fill", "jump", "kernel"}
Synced == Handing \union {"adt"}
Copied == Synced \union {"sync"}
Claimed == Copied \union {"load"}
AllMerged == Claimed \union {"alloc"}
Ranged == AllMerged \union {"merge"}
HasArgs == Handing \ {"boot_args"}

\* Range k holds the pages of segment i.
Covers(k, i) ==
  merged[k].start <= LoadRange(Segs[i]).start /\ LoadRange(Segs[i]).end <= merged[k].end

\* The merge loop keeps its ranges in order and apart; they hold the segments
\* merged so far, and none starts behind one that is still to come.
MergeInv ==
  /\ stage \in {"read", "parse"} => merged = <<>>
  /\ stage \in AllMerged => todo = {}
  /\ stage \in Ranged =>
       /\ todo \subseteq Loadable
       /\ \A i \in Loadable : ~RangeOverflows(Segs[i])
       /\ \A k \in 1 .. Len(merged) :
            merged[k].start < merged[k].end /\ merged[k].start % PAGE_SIZE = 0
       /\ \A j, k \in 1 .. Len(merged) : j < k => merged[j].end < merged[k].start
       /\ \A i \in todo : \A k \in 1 .. Len(merged) :
            merged[k].start <= LoadRange(Segs[i]).start
       /\ \A i \in Loadable \ todo : \E k \in 1 .. Len(merged) : Covers(k, i)

\* The image owns the pages of the ranges allocated so far, and no others until
\* all are.
OwnedUpTo(n) ==
  \A k \in 1 .. Len(merged) : k < n =>
    \A p \in PagesOf(merged[k]) : p \in RamPages /\ owner[p] = "image"
OwnerInv ==
  /\ stage \in {"read", "parse", "merge"} =>
       next = 1 /\ \A p \in RamPages : owner[p] # "image"
  /\ stage = "alloc" =>
       /\ OwnedUpTo(next)
       /\ \A p \in RamPages : owner[p] = "image" =>
            \E k \in 1 .. Len(merged) : k < next /\ p \in PagesOf(merged[k])
  /\ stage \in Claimed => OwnedUpTo(Len(merged) + 1)

\* Loadable segments that overlap no other.
Alone == {i \in Loadable : \A j \in Loadable \ {i} : SegBytes(j) \intersect SegBytes(i) = {}}

\* The memory of those: zero, or the data once it was copied.
LaidOut(n) ==
  \A i \in Alone : \A a \in SegBytes(i) :
    mem[a] = IF i < n /\ a - Segs[i].vmaddr < Segs[i].filesize
               THEN FileByte(i, a - Segs[i].vmaddr) ELSE ZERO
MemInv ==
  /\ stage = "alloc" =>
       \A k \in 1 .. Len(merged) : k < next =>
         \A a \in Bytes(merged[k].start, merged[k].end) : mem[a] = ZERO
  /\ stray \subseteq Overruns
  /\ stage \in {"alloc", "load", "sync"} => next >= 1
  /\ stage = "load" /\ WellFormed => LaidOut(next)
  /\ stage \in Copied /\ WellFormed => LaidOut(Len(Segs) + 1)

SyncInv ==
  /\ stage = "sync" => \A i \in Loadable : i < next => SegBytes(i) \subseteq synced
  /\ stage \in Synced => \A i \in Loadable : SegBytes(i) \subseteq synced

\* The device tree and the boot arguments are where handOff says, in pages of
\* their own.
TreeInPages ==
  \E p \in RamPages :
    /\ handOff.adt = p * PAGE_SIZE
    /\ \A q \in p .. p + ADT_PAGES - 1 : q \in RamPages /\ owner[q] = "adt"
    /\ \A a \in PageBytes(p, ADT_PAGES) : mem[a] = ADT
ArgsInPage ==
  \E p \in RamPages : handOff.boot_args = p * PAGE_SIZE /\ owner[p] = "boot_args"

\* What the kernel is told is true of the image, the tree and the memory map.
HandOffInv ==
  /\ stage \in Synced => \A i \in Loadable : SegEnd(Segs[i]) <= handOff.top
  /\ stage \in Handing => TreeInPages
  /\ stage \in HasArgs => ArgsInPage
  /\ stage \in {"jump", "kernel"} =>
       /\ \A a \in Bytes(handOff.boot_args, handOff.boot_args + PAGE_SIZE) : mem[a] = ARGS
       /\ \A d \in map : /\ handOff.phys_base <= d.phys_start
                         /\ DescEnd(d) <= handOff.phys_base + handOff.mem_size

IInv == TypeOK /\ MergeInv /\ OwnerInv /\ MemInv /\ SyncInv /\ HandOffInv

-----------------------------------------------------------------------------
(* Addresses, pages and segments.                                           *)

USE DEF Segs

\* What the assumptions say, in the form the provers use.
LEMMA Constants ==
  /\ PAGE_SIZE \in Nat \ {0} /\ U64_MAX \in Nat
  /\ FILE_PAGES \in Nat \ {0} /\ ADT_PAGES \in Nat \ {0} /\ STACK_PAGES \in Nat \ {0}
  /\ RamPages \subseteq 0 .. (U64_MAX \div PAGE_SIZE)
  /\ RamPages \subseteq Nat
<1>1. /\ PAGE_SIZE \in Nat \ {0} /\ U64_MAX \in Nat
      /\ FILE_PAGES \in Nat \ {0} /\ ADT_PAGES \in Nat \ {0} /\ STACK_PAGES \in Nat \ {0}
      /\ RamPages \subseteq 0 .. (U64_MAX \div PAGE_SIZE)
  BY LoaderAssumption
<1>2. U64_MAX \div PAGE_SIZE \in Int
  BY <1>1, ModBounds
<1>3. QED
  BY <1>1, <1>2

\* The page of an address is the one whose bytes hold it.
LEMMA PageFacts ==
  ASSUME NEW a \in Nat
  PROVE  /\ PageOf(a) \in Nat
         /\ PageOf(a) * PAGE_SIZE <= a
         /\ a < PageOf(a) * PAGE_SIZE + PAGE_SIZE
         /\ PageOf(a) * PAGE_SIZE = AlignDown(a)
<1> DEFINE p == PageOf(a)
<1>1. PAGE_SIZE \in Nat \ {0}
  BY Constants
<1>2. a = PAGE_SIZE * p + (a % PAGE_SIZE) /\ a % PAGE_SIZE \in 0 .. PAGE_SIZE - 1 /\ p \in Int
  BY <1>1, ModBounds DEF PageOf
<1> HIDE DEF p
<1>3. PAGE_SIZE * p \in Int /\ PAGE_SIZE * p = p * PAGE_SIZE
  BY <1>1, <1>2
<1>4. p >= 0
  <2>1. CASE p <= -1
    <3>1. PAGE_SIZE * p <= PAGE_SIZE * (-1)
      BY <1>1, <1>2, <2>1, TimesMonotone
    <3>2. QED
      BY <1>1, <1>2, <1>3, <3>1
  <2>2. QED
    BY <1>2, <2>1
<1>5. QED
  BY <1>1, <1>2, <1>3, <1>4 DEF p, AlignDown

\* A page is determined by any address in it.
LEMMA PageUnique ==
  ASSUME NEW p \in Int, NEW a \in Int, p * PAGE_SIZE <= a, a < p * PAGE_SIZE + PAGE_SIZE
  PROVE  PageOf(a) = p
<1>1. PAGE_SIZE \in Nat \ {0}
  BY Constants
<1>2. PAGE_SIZE * p \in Int /\ PAGE_SIZE * p = p * PAGE_SIZE
  BY <1>1
<1>3. a - PAGE_SIZE * p \in 0 .. PAGE_SIZE - 1 /\ a = PAGE_SIZE * p + (a - PAGE_SIZE * p)
  BY <1>1, <1>2
<1>4. QED
  BY <1>1, <1>3, DivUnique DEF PageOf

\* The bytes of n pages from p lie in pages p to p + n - 1.
LEMMA PageRun ==
  ASSUME NEW p \in Nat, NEW n \in Nat, NEW a \in PageBytes(p, n)
  PROVE  a \in Nat /\ PageOf(a) \in p .. p + n - 1
<1>1. PAGE_SIZE \in Nat \ {0}
  BY Constants
<1>2. p * PAGE_SIZE \in Nat /\ (p + n) * PAGE_SIZE \in Nat
  BY <1>1
<1>3. a \in p * PAGE_SIZE .. (p + n) * PAGE_SIZE - 1 /\ a \in Nat
  BY <1>2 DEF PageBytes, Bytes
<1> DEFINE q == PageOf(a)
<1>4. q \in Nat /\ q * PAGE_SIZE <= a /\ a < q * PAGE_SIZE + PAGE_SIZE
  BY <1>3, PageFacts
<1> HIDE DEF q
<1>5. q * PAGE_SIZE \in Nat /\ q * PAGE_SIZE = PAGE_SIZE * q
  BY <1>1, <1>4
<1>6. ASSUME q < p
      PROVE  FALSE
  <2>1. PAGE_SIZE * (q + 1) <= PAGE_SIZE * p
    BY <1>1, <1>4, <1>6, TimesMonotone
  <2>2. PAGE_SIZE * (q + 1) = PAGE_SIZE * q + PAGE_SIZE /\ PAGE_SIZE * p = p * PAGE_SIZE
    BY <1>1, <1>4
  <2>3. QED
    BY <1>1, <1>2, <1>3, <1>4, <1>5, <2>1, <2>2
<1>7. ASSUME q >= p + n
      PROVE  FALSE
  <2>1. PAGE_SIZE * (p + n) <= PAGE_SIZE * q
    BY <1>1, <1>4, <1>7, TimesMonotone
  <2>2. PAGE_SIZE * (p + n) = (p + n) * PAGE_SIZE
    BY <1>1
  <2>3. QED
    BY <1>1, <1>2, <1>3, <1>4, <1>5, <2>1, <2>2
<1>8. q \in p .. p + n - 1
  BY <1>4, <1>6, <1>7
<1>9. QED
  BY <1>3, <1>8 DEF q

\* RAM is what lies in pages of RAM.
LEMMA RamByPage ==
  ASSUME NEW a \in Nat
  PROVE  a \in RamBytes <=> PageOf(a) \in RamPages
<1>1. PAGE_SIZE \in Nat \ {0} /\ RamPages \subseteq Nat
  BY Constants
<1>2. ASSUME PageOf(a) \in RamPages
      PROVE  a \in RamBytes
  <2> DEFINE p == PageOf(a)
  <2>1. p \in Nat /\ p * PAGE_SIZE <= a /\ a < p * PAGE_SIZE + PAGE_SIZE
    BY PageFacts
  <2> HIDE DEF p
  <2>2. p * PAGE_SIZE \in Nat /\ (p + 1) * PAGE_SIZE = p * PAGE_SIZE + PAGE_SIZE
    BY <1>1, <2>1
  <2>3. a \in Bytes(p * PAGE_SIZE, (p + 1) * PAGE_SIZE)
    BY <1>1, <2>1, <2>2 DEF Bytes
  <2>4. QED
    BY <1>2, <2>3 DEF RamBytes, p
<1>3. ASSUME a \in RamBytes
      PROVE  PageOf(a) \in RamPages
  <2>1. PICK p \in RamPages : a \in Bytes(p * PAGE_SIZE, (p + 1) * PAGE_SIZE)
    BY <1>3 DEF RamBytes
  <2>2. p \in Nat
    BY <1>1
  <2>3. p * PAGE_SIZE \in Nat /\ (p + 1) * PAGE_SIZE = p * PAGE_SIZE + PAGE_SIZE
    BY <1>1, <2>2
  <2>4. p * PAGE_SIZE <= a /\ a < p * PAGE_SIZE + PAGE_SIZE
    BY <1>1, <2>1, <2>3 DEF Bytes
  <2>5. PageOf(a) = p
    BY <2>2, <2>4, PageUnique
  <2>6. QED
    BY <2>5
<1>4. QED
  BY <1>2, <1>3

\* The last page of the address space.
LEMMA LastPage ==
  /\ U64_MAX \div PAGE_SIZE \in Int
  /\ U64_MAX = PAGE_SIZE * (U64_MAX \div PAGE_SIZE) + (U64_MAX % PAGE_SIZE)
  /\ U64_MAX % PAGE_SIZE \in 0 .. PAGE_SIZE - 1
<1>1. PAGE_SIZE \in Nat \ {0} /\ U64_MAX \in Int
  BY Constants
<1>2. QED
  BY <1>1, ModBounds

\* RamBytes are addresses of 64 bits.
LEMMA PageAddress ==
  ASSUME NEW p \in RamPages
  PROVE  p * PAGE_SIZE \in 0 .. U64_MAX
<1> DEFINE q == U64_MAX \div PAGE_SIZE
<1>1. PAGE_SIZE \in Nat \ {0} /\ U64_MAX \in Nat /\ p \in Nat /\ p \in 0 .. q
  BY Constants
<1>2. U64_MAX = PAGE_SIZE * q + (U64_MAX % PAGE_SIZE) /\ U64_MAX % PAGE_SIZE \in 0 .. PAGE_SIZE - 1
      /\ q \in Int
  BY LastPage
<1> HIDE DEF q
<1>3. PAGE_SIZE * p <= PAGE_SIZE * q
  BY <1>1, <1>2, TimesMonotone
<1>4. PAGE_SIZE * p \in Nat /\ PAGE_SIZE * p = p * PAGE_SIZE /\ PAGE_SIZE * q \in Int
  BY <1>1, <1>2
<1>5. QED
  BY <1>1, <1>2, <1>3, <1>4

\* The fields of a segment.
LEMMA SegTypes ==
  ASSUME TypeOK
  PROVE  /\ Len(Segs) \in Nat
         /\ \A i \in 1 .. Len(Segs) :
              /\ Segs[i].vmaddr \in 0 .. U64_MAX
              /\ Segs[i].vmsize \in 0 .. U64_MAX
              /\ Segs[i].filesize \in 0 .. U64_MAX
              /\ SegEnd(Segs[i]) \in Nat
<1> DEFINE S == [vmaddr : 0 .. U64_MAX, vmsize : 0 .. U64_MAX, filesize : 0 .. U64_MAX]
<1>1. image \in Seq(S)
  BY LoaderAssumption DEF TypeOK
<1>2. U64_MAX \in Nat
  BY Constants
<1> HIDE DEF S
<1>3. Len(image) \in Nat /\ \A i \in 1 .. Len(image) : image[i] \in S
  BY <1>1
<1>4. QED
  BY <1>2, <1>3 DEF SegEnd, S

\* The range of a segment whose end does not overflow: whole pages around it.
LEMMA LoadRangeFacts ==
  ASSUME TypeOK, NEW i \in Loadable, ~RangeOverflows(Segs[i])
  PROVE  LET r == LoadRange(Segs[i])
         IN  /\ r \in [start : 0 .. U64_MAX, end : 0 .. U64_MAX]
             /\ r.start <= Segs[i].vmaddr /\ SegEnd(Segs[i]) <= r.end
             /\ r.start < r.end
             /\ r.start % PAGE_SIZE = 0
             /\ SegEnd(Segs[i]) <= U64_MAX
<1> DEFINE s == Segs[i]
           e == SegEnd(s) + PAGE_SIZE - 1
<1>1. PAGE_SIZE \in Nat \ {0} /\ U64_MAX \in Nat
  BY Constants
<1>2. s.vmaddr \in 0 .. U64_MAX /\ s.vmsize \in 0 .. U64_MAX /\ SegEnd(s) \in Nat /\ s.vmsize # 0
  BY SegTypes DEF Loadable
<1>3. SegEnd(s) <= U64_MAX /\ e <= U64_MAX /\ s.vmaddr < SegEnd(s) /\ e \in Nat
  BY <1>1, <1>2 DEF RangeOverflows, SegEnd
<1>4. /\ AlignDown(s.vmaddr) \in 0 .. s.vmaddr
      /\ AlignDown(s.vmaddr) % PAGE_SIZE = 0
  BY <1>1, <1>2, RoundDown DEF AlignDown
<1>5. AlignDown(e) \in Int /\ AlignDown(e) <= e /\ e < AlignDown(e) + PAGE_SIZE
  BY <1>1, <1>3, RoundDown DEF AlignDown
<1>6. LoadRange(s) = [start |-> AlignDown(s.vmaddr), end |-> AlignDown(e)]
  BY DEF LoadRange, AlignUp
<1> HIDE DEF s, e
<1>7. AlignDown(e) \in 0 .. U64_MAX /\ SegEnd(s) <= AlignDown(e)
  <2>1. e = SegEnd(s) + PAGE_SIZE - 1
    BY DEF e
  <2>2. QED
    BY <1>1, <1>2, <1>3, <1>5, <2>1
<1>8. QED
  BY <1>1, <1>2, <1>3, <1>4, <1>6, <1>7 DEF s

\* The pages that allocate_pages is asked for hold the bytes of the range.
LEMMA RangePages ==
  ASSUME NEW r \in [start : 0 .. U64_MAX, end : 0 .. U64_MAX], r.start % PAGE_SIZE = 0,
         NEW a \in Bytes(r.start, r.end)
  PROVE  a \in Nat /\ PageOf(a) \in PagesOf(r)
<1> DEFINE p == PageOf(a)
           d == U64_MAX \div PAGE_SIZE
<1>1. PAGE_SIZE \in Nat \ {0} /\ U64_MAX \in Nat
  BY Constants
<1>2. r.start \in 0 .. U64_MAX /\ r.end \in 0 .. U64_MAX
  OBVIOUS
<1>3. a \in Nat /\ r.start <= a /\ a < r.end
  BY <1>1, <1>2 DEF Bytes
<1>4. p \in Nat /\ p * PAGE_SIZE <= a /\ p * PAGE_SIZE = a - (a % PAGE_SIZE)
  BY <1>3, PageFacts DEF AlignDown
<1>5. r.start <= a - (a % PAGE_SIZE)
  BY <1>1, <1>2, <1>3, RoundDown
<1>6. /\ U64_MAX = PAGE_SIZE * d + (U64_MAX % PAGE_SIZE) /\ d \in Int
      /\ U64_MAX % PAGE_SIZE \in 0 .. PAGE_SIZE - 1
  BY LastPage
<1> HIDE DEF p, d
<1>7. ASSUME d < p
      PROVE  FALSE
  <2>1. PAGE_SIZE * (d + 1) <= PAGE_SIZE * p
    BY <1>1, <1>4, <1>6, <1>7, TimesMonotone
  <2>2. PAGE_SIZE * (d + 1) = PAGE_SIZE * d + PAGE_SIZE /\ PAGE_SIZE * p = p * PAGE_SIZE
        /\ PAGE_SIZE * d \in Int /\ PAGE_SIZE * p \in Int
    BY <1>1, <1>4, <1>6
  <2>3. QED
    BY <1>1, <1>2, <1>3, <1>4, <1>6, <2>1, <2>2
<1>8. p \in 0 .. d
  BY <1>4, <1>6, <1>7
<1>9. p * PAGE_SIZE >= r.start /\ p * PAGE_SIZE < r.end
  <2>1. p * PAGE_SIZE \in Int
    BY <1>1, <1>4
  <2>2. QED
    BY <1>2, <1>3, <1>4, <1>5, <2>1
<1>10. QED
  BY <1>3, <1>8, <1>9 DEF PagesOf, p, d

\* The merged ranges are pairs of 64-bit addresses.
LEMMA MergedTypes ==
  ASSUME TypeOK
  PROVE  /\ Len(merged) \in Nat
         /\ \A k \in 1 .. Len(merged) :
              /\ merged[k] \in [start : 0 .. U64_MAX, end : 0 .. U64_MAX]
              /\ merged[k].start \in 0 .. U64_MAX /\ merged[k].end \in 0 .. U64_MAX
<1> DEFINE R == [start : 0 .. U64_MAX, end : 0 .. U64_MAX]
<1>1. merged \in Seq(R)
  BY DEF TypeOK
<1> HIDE DEF R
<1>2. Len(merged) \in Nat /\ \A k \in 1 .. Len(merged) : merged[k] \in R
  BY <1>1
<1>3. QED
  BY <1>2 DEF R

\* When the ranges are merged, one of them holds a given byte of a segment.
LEMMA SegInRange ==
  ASSUME TypeOK, MergeInv, stage \in AllMerged, NEW i \in Loadable, NEW a \in SegBytes(i)
  PROVE  /\ a \in 0 .. U64_MAX /\ Segs[i].vmaddr <= a /\ a < SegEnd(Segs[i])
         /\ \E k \in 1 .. Len(merged) :
              a \in Bytes(merged[k].start, merged[k].end) /\ PageOf(a) \in PagesOf(merged[k])
<1>1. stage \in Ranged
  BY DEF Ranged
<1>2. i \in Loadable \ todo /\ ~RangeOverflows(Segs[i])
  BY <1>1 DEF MergeInv
<1>3. PICK k \in 1 .. Len(merged) : Covers(k, i)
  BY <1>1, <1>2 DEF MergeInv
<1>4. /\ LoadRange(Segs[i]) \in [start : 0 .. U64_MAX, end : 0 .. U64_MAX]
      /\ LoadRange(Segs[i]).start <= Segs[i].vmaddr /\ SegEnd(Segs[i]) <= LoadRange(Segs[i]).end
      /\ SegEnd(Segs[i]) <= U64_MAX
  BY <1>2, LoadRangeFacts
<1>5. Segs[i].vmaddr \in 0 .. U64_MAX /\ SegEnd(Segs[i]) \in Nat /\ U64_MAX \in Nat
  BY SegTypes, Constants DEF Loadable
<1>6. a \in 0 .. U64_MAX /\ Segs[i].vmaddr <= a /\ a < SegEnd(Segs[i])
  BY <1>4, <1>5 DEF SegBytes, Bytes
<1>7. /\ merged[k] \in [start : 0 .. U64_MAX, end : 0 .. U64_MAX]
      /\ merged[k].start \in 0 .. U64_MAX /\ merged[k].end \in 0 .. U64_MAX
      /\ merged[k].start % PAGE_SIZE = 0
  BY <1>1, MergedTypes DEF MergeInv
<1>8. merged[k].start <= a /\ a < merged[k].end
  BY <1>3, <1>4, <1>5, <1>6, <1>7 DEF Covers
<1>9. a \in Bytes(merged[k].start, merged[k].end)
  BY <1>5, <1>6, <1>7, <1>8 DEF Bytes
<1>10. PageOf(a) \in PagesOf(merged[k])
  BY <1>7, <1>9, RangePages
<1>11. QED
  BY <1>6, <1>9, <1>10

\* Once the ranges are allocated, every byte of a segment is in a page of RAM
\* that the image owns.
LEMMA SegOwned ==
  ASSUME TypeOK, MergeInv, OwnerInv, stage \in Claimed,
         NEW i \in Loadable, NEW a \in SegBytes(i)
  PROVE  /\ a \in 0 .. U64_MAX /\ Segs[i].vmaddr <= a /\ a < SegEnd(Segs[i])
         /\ a \in RamBytes /\ Owned(a)
<1>1. stage \in AllMerged
  BY DEF AllMerged
<1>2. a \in 0 .. U64_MAX /\ Segs[i].vmaddr <= a /\ a < SegEnd(Segs[i])
  BY <1>1, SegInRange
<1>3. PICK k \in 1 .. Len(merged) : PageOf(a) \in PagesOf(merged[k])
  BY <1>1, SegInRange
<1>4. k < Len(merged) + 1
  BY MergedTypes
<1>5. PageOf(a) \in RamPages /\ owner[PageOf(a)] = "image"
  BY <1>3, <1>4 DEF OwnerInv, OwnedUpTo
<1>6. QED
  BY <1>2, <1>5, RamByPage DEF Owned

\* The bytes of a free run of pages are RAM in free pages.
LEMMA FreeRunBytes ==
  ASSUME NEW n \in Nat, NEW p \in FreeRuns(n), NEW a \in PageBytes(p, n)
  PROVE  a \in RamBytes /\ owner[PageOf(a)] = "free" /\ PageOf(a) \in RamPages
<1>1. p \in RamPages /\ \A q \in p .. p + n - 1 : q \in RamPages /\ owner[q] = "free"
  BY DEF FreeRuns
<1>2. p \in Nat
  BY <1>1, Constants
<1>3. a \in Nat /\ PageOf(a) \in p .. p + n - 1
  BY <1>2, PageRun
<1>4. QED
  BY <1>1, <1>3, RamByPage

-----------------------------------------------------------------------------
(* What a step leaves alone.                                                *)

LEMMA ImageFrame ==
  ASSUME image' = image
  PROVE  /\ Loadable' = Loadable /\ WellFormed' = WellFormed /\ Overruns' = Overruns /\ Alone' = Alone
         /\ \A i : SegBytes(i)' = SegBytes(i)
  BY DEF Loadable, WellFormed, Overruns, Alone, SegBytes, SegEnd, Bytes

\* A step behind the merge keeps what is known of the ranges.
LEMMA MergeFrame ==
  ASSUME MergeInv, UNCHANGED <<image, todo, merged>>,
         \/ stage' = "returned"
         \/ stage \in AllMerged /\ stage' \in AllMerged
         \/ stage = "read" /\ stage' = "parse"
  PROVE  MergeInv'
<1>1. CASE stage' = "returned"
  BY <1>1 DEF MergeInv, Ranged, AllMerged, Claimed, Copied, Synced, Handing
<1>2. CASE stage = "read" /\ stage' = "parse"
  BY <1>2 DEF MergeInv, Ranged, AllMerged, Claimed, Copied, Synced, Handing
<1>3. CASE stage \in AllMerged /\ stage' \in AllMerged
  <2>1. stage \in Ranged /\ ~(stage' \in {"read", "parse"})
    BY <1>3 DEF Ranged, AllMerged, Claimed, Copied, Synced, Handing
  <2>2. QED
    BY <1>3, <2>1 DEF MergeInv, Covers, Loadable, LoadRange, RangeOverflows, SegEnd, AlignDown, AlignUp
<1>4. QED
  BY <1>1, <1>2, <1>3

\* A step that takes no page from the image keeps what it owns.
LEMMA OwnerFrame ==
  ASSUME OwnerInv, merged' = merged, stage \in Claimed, stage' \in Claimed,
         \A p \in RamPages : owner[p] = "image" => owner'[p] = "image"
  PROVE  OwnerInv'
<1>1. OwnedUpTo(Len(merged) + 1)
  BY DEF OwnerInv
<1>2. OwnedUpTo(Len(merged) + 1)'
  BY <1>1 DEF OwnedUpTo, PagesOf
<1>3. ~(stage' \in {"read", "parse", "merge", "alloc"})
  BY DEF Claimed, Copied, Synced, Handing
<1>4. QED
  BY <1>2, <1>3 DEF OwnerInv

\* A step that writes no byte of a segment keeps the copies.
LEMMA MemFrame ==
  ASSUME MemInv, UNCHANGED <<image, stray>>, stage \in Copied, stage' \in Copied,
         stage' = "sync" => next' >= 1,
         \A i \in Loadable : \A a \in SegBytes(i) : mem'[a] = mem[a]
  PROVE  MemInv'
<1>1. Loadable' = Loadable /\ WellFormed' = WellFormed /\ Overruns' = Overruns /\ Alone' = Alone
      /\ \A i : SegBytes(i)' = SegBytes(i)
  BY ImageFrame
<1>2. ~(stage' \in {"alloc", "load"})
  BY DEF Copied, Synced, Handing
<1>3. Alone \subseteq Loadable
  BY DEF Alone
<1>4. ASSUME WellFormed
      PROVE  LaidOut(Len(Segs) + 1)'
  <2>1. LaidOut(Len(Segs) + 1)
    BY <1>4 DEF MemInv
  <2>2. QED
    BY <1>1, <1>3, <2>1 DEF LaidOut
<1>5. QED
  BY <1>1, <1>2, <1>4 DEF MemInv

\* A step behind the cache maintenance keeps what it covered.
LEMMA SyncFrame ==
  ASSUME SyncInv, UNCHANGED <<image, synced>>, stage \in Synced, stage' \in Synced
  PROVE  SyncInv'
<1>1. Loadable' = Loadable /\ \A i : SegBytes(i)' = SegBytes(i)
  BY ImageFrame
<1>2. stage' # "sync"
  BY DEF Synced, Handing
<1>3. QED
  BY <1>1, <1>2 DEF SyncInv

\* Before the first of these stages the parts of the invariant say nothing.
LEMMA EarlyParts ==
  ASSUME ~(stage \in Claimed), stage # "alloc"
  PROVE  /\ SyncInv /\ HandOffInv
         /\ stray \subseteq Overruns => MemInv
<1>1. ~(stage \in Copied) /\ ~(stage \in Synced) /\ ~(stage \in Handing) /\ ~(stage \in HasArgs)
      /\ ~(stage \in {"load", "sync", "jump", "kernel"})
  BY DEF Claimed, Copied, Synced, Handing, HasArgs
<1>2. QED
  BY <1>1 DEF SyncInv, HandOffInv, MemInv

-----------------------------------------------------------------------------
(* The invariant holds at the start and is kept by every step.              *)

LEMMA InitHolds == Init => IInv
<1> SUFFICES ASSUME Init
             PROVE  IInv
  OBVIOUS
<1>1. TypeOK
  <2>1. U64_MAX \in Nat
    BY Constants
  <2>2. owner \in [RamPages -> Owners]
    BY DEF Init, Owners
  <2>3. 0 \in 0 .. U64_MAX
    BY <2>1
  <2>4. QED
    BY <2>2, <2>3 DEF Init, TypeOK, Stages, JUNK
<1>2. MergeInv
  BY DEF Init, MergeInv, Ranged, AllMerged, Claimed, Copied, Synced, Handing
<1>3. OwnerInv
  <2>1. \A p \in RamPages : owner[p] # "image"
    BY DEF Init
  <2>2. QED
    BY <2>1 DEF Init, OwnerInv, Claimed, Copied, Synced, Handing
<1>4. MemInv /\ SyncInv /\ HandOffInv
  <2>1. ~(stage \in Claimed) /\ stage # "alloc" /\ stray = {}
    BY DEF Init, Claimed, Copied, Synced, Handing
  <2>2. QED
    BY <2>1, EarlyParts
<1>5. QED
  BY <1>1, <1>2, <1>3, <1>4 DEF IInv

\* Stages at which the parts about memory say nothing.
LEMMA EarlyStep ==
  ASSUME MemInv, UNCHANGED <<image, stray>>,
         stage' \in {"read", "parse", "merge", "returned"}
  PROVE  MemInv' /\ SyncInv' /\ HandOffInv'
<1>1. WellFormed' = WellFormed /\ Overruns' = Overruns
  BY ImageFrame
<1>2. stray' \subseteq Overruns'
  BY <1>1 DEF MemInv
<1>3. ~(stage' \in Claimed) /\ stage' # "alloc"
  BY DEF Claimed, Copied, Synced, Handing
<1>4. ~(stage' \in Copied) /\ ~(stage' \in Synced) /\ ~(stage' \in Handing) /\ ~(stage' \in HasArgs)
      /\ ~(stage' \in {"load", "sync", "jump", "kernel"})
  BY DEF Claimed, Copied, Synced, Handing, HasArgs
<1>5. QED
  BY <1>2, <1>3, <1>4 DEF SyncInv, HandOffInv, MemInv

\* An error ends the loader without a jump.
LEMMA ReturnKeeps ==
  ASSUME IInv, Return
  PROVE  IInv'
<1>1. /\ stage' = "returned"
      /\ UNCHANGED <<services, image, map, todo, merged, next, owner, mem, synced, stray, handOff>>
  BY DEF Return, Goto
<1>2. TypeOK'
  BY <1>1 DEF IInv, TypeOK, Stages
<1>3. MergeInv'
  BY <1>1, MergeFrame DEF IInv
<1>4. OwnerInv'
  BY <1>1 DEF OwnerInv, Claimed, Copied, Synced, Handing
<1>5. MemInv' /\ SyncInv' /\ HandOffInv'
  BY <1>1, EarlyStep DEF IInv
<1>6. QED
  BY <1>2, <1>3, <1>4, <1>5 DEF IInv

\* Reading the file takes pages from the firmware and decides the image.
LEMMA ReadKernelKeeps ==
  ASSUME IInv, ReadKernel
  PROVE  IInv'
<1>1. /\ stage = "read" /\ stage' = "parse"
      /\ UNCHANGED <<services, image, map, todo, merged, next, mem, synced, stray, handOff>>
  BY DEF ReadKernel, Goto
<1>2. PICK p \in FreeRuns(FILE_PAGES) : Give(p .. p + FILE_PAGES - 1, "file")
  BY DEF ReadKernel
<1>3. TypeOK'
  <2>1. owner' \in [RamPages -> Owners]
    BY <1>2 DEF Give, IInv, TypeOK, Owners
  <2>2. QED
    BY <1>1, <2>1 DEF IInv, TypeOK, Stages
<1>4. MergeInv'
  BY <1>1, MergeFrame DEF IInv
<1>5. OwnerInv'
  <2>1. next = 1 /\ \A q \in RamPages : owner[q] # "image"
    BY <1>1 DEF IInv, OwnerInv
  <2>2. \A q \in RamPages : owner'[q] # "image"
    BY <1>2, <2>1 DEF Give
  <2>3. QED
    BY <1>1, <2>1, <2>2 DEF OwnerInv, Claimed, Copied, Synced, Handing
<1>6. MemInv' /\ SyncInv' /\ HandOffInv'
  BY <1>1, EarlyStep DEF IInv
<1>7. QED
  BY <1>3, <1>4, <1>5, <1>6 DEF IInv

\* load_ranges's first loop: one range for every loadable segment.
LEMMA ParseAndRangeKeeps ==
  ASSUME IInv, ParseAndRange
  PROVE  IInv'
<1>1. CASE Return
  BY <1>1, ReturnKeeps
<1>2. CASE ~Return
  <2>1. /\ stage = "parse" /\ stage' = "merge" /\ todo' = Loadable
        /\ \A i \in Loadable : ~RangeOverflows(Segs[i])
        /\ UNCHANGED <<services, image, map, merged, next, owner, mem, synced, stray, handOff>>
    BY <1>2 DEF ParseAndRange, Goto, Loadable
  <2>2. Loadable \subseteq 1 .. Len(Segs)
    BY DEF Loadable
  <2>3. TypeOK'
    BY <2>1, <2>2 DEF IInv, TypeOK, Stages
  <2>4. MergeInv'
    <3>1. merged' = <<>>
      BY <2>1 DEF IInv, MergeInv
    <3>2. Loadable' = Loadable /\ \A i \in Loadable' : ~RangeOverflows(Segs[i])'
      BY <2>1 DEF Loadable, RangeOverflows, SegEnd
    <3>3. Len(merged') = 0 /\ 1 .. Len(merged') = {}
      BY <3>1
    <3>4. ~(stage' \in AllMerged)
      BY <2>1 DEF AllMerged, Claimed, Copied, Synced, Handing
    <3>5. QED
      BY <2>1, <3>1, <3>2, <3>3, <3>4 DEF MergeInv
  <2>5. OwnerInv'
    BY <2>1 DEF IInv, OwnerInv, Claimed, Copied, Synced, Handing
  <2>6. MemInv' /\ SyncInv' /\ HandOffInv'
    BY <2>1, EarlyStep DEF IInv
  <2>7. QED
    BY <2>3, <2>4, <2>5, <2>6 DEF IInv
<1>3. QED
  BY <1>1, <1>2

\* Ranges of addresses, as load_ranges computes them.
Ranges == [start : 0 .. U64_MAX, end : 0 .. U64_MAX]

\* The last range is extended by r, or r is added behind it.
Extended(r) ==
  LET n == Len(merged)
  IN  /\ n > 0 /\ r.start <= merged[n].end
      /\ Len(merged') = n
      /\ \A k \in 1 .. n - 1 : merged'[k] = merged[k]
      /\ merged'[n].start = merged[n].start
      /\ merged[n].end <= merged'[n].end /\ r.end <= merged'[n].end
Added(r) ==
  LET n == Len(merged)
  IN  /\ n > 0 => merged[n].end < r.start
      /\ Len(merged') = n + 1
      /\ \A k \in 1 .. n : merged'[k] = merged[k]
      /\ merged'[n + 1] = r

\* A turn of the merge loop does one or the other.
LEMMA MergeOneFacts ==
  ASSUME TypeOK, NEW r \in Ranges, merged' = MergeOne(merged, r)
  PROVE  merged' \in Seq(Ranges) /\ (Extended(r) \/ Added(r))
<1> DEFINE n == Len(merged)
<1>1. U64_MAX \in Nat
  BY Constants
<1>2. merged \in Seq(Ranges) /\ n \in Nat /\ n = Len(merged)
  BY DEF TypeOK, Ranges
<1>3. r.start \in 0 .. U64_MAX /\ r.end \in 0 .. U64_MAX
  BY DEF Ranges
<1>4. n > 0 => merged[n] \in Ranges
  BY <1>2
<1>5. n > 0 => merged[n].start \in 0 .. U64_MAX /\ merged[n].end \in 0 .. U64_MAX
  BY <1>4 DEF Ranges
<1>6. CASE n > 0 /\ r.start <= merged[n].end
  <2> DEFINE e == IF r.end > merged[n].end THEN r.end ELSE merged[n].end
             y == [merged[n] EXCEPT !.end = e]
  <2>1. e \in 0 .. U64_MAX /\ merged[n].end <= e /\ r.end <= e
    BY <1>1, <1>3, <1>5, <1>6
  <2>2. merged' = [merged EXCEPT ![n] = y]
    BY <1>6 DEF MergeOne
  <2>3. y \in Ranges /\ y.start = merged[n].start /\ y.end = e
    BY <1>4, <1>6, <2>1 DEF Ranges
  <2> HIDE DEF y, e, n
  <2>4. /\ merged' \in Seq(Ranges) /\ Len(merged') = n /\ merged'[n] = y
        /\ \A k \in 1 .. n - 1 : merged'[k] = merged[k]
    BY <1>2, <1>6, <2>2, <2>3
  <2>5. Extended(r)
    BY <1>6, <2>1, <2>3, <2>4 DEF Extended, n
  <2>6. QED
    BY <2>4, <2>5
<1>7. CASE ~(n > 0 /\ r.start <= merged[n].end)
  <2>1. merged' = Append(merged, r)
    BY <1>7 DEF MergeOne
  <2>2. n > 0 => merged[n].end < r.start
    BY <1>1, <1>3, <1>5, <1>7
  <2> HIDE DEF n
  <2>3. /\ merged' \in Seq(Ranges) /\ Len(merged') = n + 1 /\ merged'[n + 1] = r
        /\ \A k \in 1 .. n : merged'[k] = merged[k]
    BY <1>2, <2>1
  <2>4. Added(r)
    BY <2>2, <2>3 DEF Added, n
  <2>5. QED
    BY <2>3, <2>4
<1>8. QED
  BY <1>6, <1>7

\* The next range in order of address starts a new one or extends the last;
\* the merged ranges stay apart and cover all that was merged.
LEMMA MergeRangeKeeps ==
  ASSUME IInv, NEW i \in todo, MergeRange(i)
  PROVE  IInv'
<1> DEFINE r == LoadRange(Segs[i])
           n == Len(merged)
<1>1. /\ stage = "merge" /\ stage' = "merge" /\ todo' = todo \ {i}
      /\ \A j \in todo : r.start <= LoadRange(Segs[j]).start
      /\ merged' = MergeOne(merged, r)
      /\ UNCHANGED <<services, image, map, next, owner, mem, synced, stray, handOff>>
  BY DEF MergeRange, Goto
<1>2. TypeOK /\ MergeInv /\ OwnerInv /\ MemInv
  BY DEF IInv
<1>3. stage \in Ranged
  BY <1>1 DEF Ranged
<1>4. todo \subseteq Loadable /\ \A j \in Loadable : ~RangeOverflows(Segs[j])
  BY <1>2, <1>3 DEF MergeInv
<1>5. \A j \in Loadable :
        /\ LoadRange(Segs[j]) \in [start : 0 .. U64_MAX, end : 0 .. U64_MAX]
        /\ LoadRange(Segs[j]).start < LoadRange(Segs[j]).end
        /\ LoadRange(Segs[j]).start % PAGE_SIZE = 0
  BY <1>2, <1>4, LoadRangeFacts
<1>6. /\ r \in [start : 0 .. U64_MAX, end : 0 .. U64_MAX]
      /\ r.start < r.end /\ r.start % PAGE_SIZE = 0
  BY <1>4, <1>5
<1>7. merged \in Seq([start : 0 .. U64_MAX, end : 0 .. U64_MAX]) /\ n \in Nat
  BY <1>2, MergedTypes DEF TypeOK
<1>8. merged' \in Seq(Ranges) /\ (Extended(r) \/ Added(r))
  <2>1. merged' = MergeOne(merged, r)
    BY <1>1
  <2>2. r \in Ranges
    BY <1>6 DEF Ranges
  <2> HIDE DEF r
  <2>3. QED
    BY <1>2, <2>1, <2>2, MergeOneFacts
<1>9. TypeOK'
  BY <1>1, <1>2, <1>8 DEF TypeOK, Ranges
<1>10. \A k \in 1 .. n : merged[k].start \in 0 .. U64_MAX /\ merged[k].end \in 0 .. U64_MAX
  BY <1>2, MergedTypes
<1>11. U64_MAX \in Nat
  BY Constants
<1>12. \A j \in Loadable : LoadRange(Segs[j]).start \in 0 .. U64_MAX /\ LoadRange(Segs[j]).end \in 0 .. U64_MAX
  BY <1>5
<1>13. /\ \A k \in 1 .. n : merged[k].start < merged[k].end /\ merged[k].start % PAGE_SIZE = 0
       /\ \A j, k \in 1 .. n : j < k => merged[j].end < merged[k].start
       /\ \A j \in todo : \A k \in 1 .. n : merged[k].start <= LoadRange(Segs[j]).start
       /\ \A j \in Loadable \ todo : \E k \in 1 .. n : Covers(k, j)
  BY <1>2, <1>3 DEF MergeInv
<1>14. /\ Loadable' = Loadable
       /\ \A j : LoadRange(Segs[j])' = LoadRange(Segs[j])
       /\ \A j : RangeOverflows(Segs[j])' = RangeOverflows(Segs[j])
  BY <1>1 DEF Loadable, LoadRange, RangeOverflows, SegEnd, AlignDown, AlignUp
<1>15. MergeInv'
  <2> DEFINE Parts(x, t) ==
        /\ \A k \in 1 .. Len(x) : x[k].start < x[k].end /\ x[k].start % PAGE_SIZE = 0
        /\ \A j, k \in 1 .. Len(x) : j < k => x[j].end < x[k].start
        /\ \A j \in t : \A k \in 1 .. Len(x) : x[k].start <= LoadRange(Segs[j]).start
        /\ \A j \in Loadable \ t : \E k \in 1 .. Len(x) :
             x[k].start <= LoadRange(Segs[j]).start /\ LoadRange(Segs[j]).end <= x[k].end
  <2>0. \A j \in Loadable \ todo : \E k \in 1 .. n :
          merged[k].start <= LoadRange(Segs[j]).start /\ LoadRange(Segs[j]).end <= merged[k].end
    BY <1>13 DEF Covers
  <2>i. i \in Loadable /\ \A k \in 1 .. n : merged[k].start <= r.start
    BY <1>4, <1>13
  <2>1. ASSUME Extended(r)
        PROVE  Parts(merged', todo \ {i})
    <3>0. /\ n > 0 /\ r.start <= merged[n].end /\ Len(merged') = n
          /\ \A k \in 1 .. n - 1 : merged'[k] = merged[k]
          /\ merged'[n].start = merged[n].start
          /\ merged[n].end <= merged'[n].end /\ r.end <= merged'[n].end
      BY <2>1 DEF Extended
    <3>1. merged'[n].end \in Int
      <4>1. merged'[n] \in Ranges
        BY <1>7, <1>8, <3>0
      <4>2. QED
        BY <1>11, <4>1 DEF Ranges
    <3>2. \A k \in 1 .. n : /\ merged'[k].start = merged[k].start
                            /\ merged'[k].end \in Int /\ merged[k].end <= merged'[k].end
                            /\ k < n => merged'[k].end = merged[k].end
      <4>1. \A k \in 1 .. n : k = n \/ k \in 1 .. n - 1
        BY <1>7
      <4>2. ASSUME NEW k \in 1 .. n, k = n
            PROVE  /\ merged'[k].start = merged[k].start
                   /\ merged'[k].end \in Int /\ merged[k].end <= merged'[k].end
        BY <3>0, <3>1, <4>2
      <4>3. ASSUME NEW k \in 1 .. n, k \in 1 .. n - 1
            PROVE  /\ merged'[k] = merged[k]
                   /\ merged'[k].end \in Int /\ merged[k].end <= merged'[k].end
        BY <1>10, <1>11, <3>0, <4>3
      <4>4. \A k \in 1 .. n : k < n => k \in 1 .. n - 1
        BY <1>7
      <4>5. QED
        BY <4>1, <4>2, <4>3, <4>4
    <3>3. \A k \in 1 .. n : merged'[k].start < merged'[k].end /\ merged'[k].start % PAGE_SIZE = 0
      <4>1. ASSUME NEW k \in 1 .. n
            PROVE  merged'[k].start < merged'[k].end /\ merged'[k].start % PAGE_SIZE = 0
        <5>1. /\ merged'[k].start = merged[k].start /\ merged[k].end <= merged'[k].end
              /\ merged'[k].end \in Int
          BY <3>2
        <5>2. /\ merged[k].start \in Int /\ merged[k].end \in Int
              /\ merged[k].start < merged[k].end /\ merged[k].start % PAGE_SIZE = 0
          BY <1>10, <1>11, <1>13
        <5>3. QED
          BY <5>1, <5>2
      <4>2. QED
        BY <4>1
    <3>4. ASSUME NEW j \in 1 .. n, NEW k \in 1 .. n, j < k
          PROVE  merged'[j].end < merged'[k].start
      <4>1. j < n
        BY <1>7, <3>4
      <4>2. merged'[j].end = merged[j].end /\ merged'[k].start = merged[k].start
        BY <3>2, <4>1
      <4>3. merged[j].end < merged[k].start
        BY <1>13, <3>4
      <4>4. QED
        BY <4>2, <4>3
    <3>5. \A j \in todo \ {i} : \A k \in 1 .. n : merged'[k].start <= LoadRange(Segs[j]).start
      BY <1>13, <3>2
    <3>6. ASSUME NEW j \in Loadable \ (todo \ {i})
          PROVE  \E k \in 1 .. n :
             merged'[k].start <= LoadRange(Segs[j]).start /\ LoadRange(Segs[j]).end <= merged'[k].end
      <4>1. CASE j = i
        BY <1>7, <3>0, <2>i, <4>1
      <4>2. CASE j # i
        <5>1. PICK k \in 1 .. n : merged[k].start <= LoadRange(Segs[j]).start /\ LoadRange(Segs[j]).end <= merged[k].end
          BY <2>0, <4>2
        <5>2. merged'[k].start <= LoadRange(Segs[j]).start /\ LoadRange(Segs[j]).end <= merged'[k].end
          BY <1>10, <1>11, <1>12, <3>2, <5>1
        <5>3. QED
          BY <5>2
      <4>3. QED
        BY <4>1, <4>2
    <3>7. QED
      BY <3>0, <3>3, <3>4, <3>5, <3>6
  <2>2. ASSUME Added(r)
        PROVE  Parts(merged', todo \ {i})
    <3>0. /\ n > 0 => merged[n].end < r.start
          /\ Len(merged') = n + 1
          /\ \A k \in 1 .. n : merged'[k] = merged[k]
          /\ merged'[n + 1] = r
      BY <2>2 DEF Added
    <3>1. \A k \in 1 .. n + 1 : k = n + 1 \/ k \in 1 .. n
      BY <1>7
    <3>2. \A j \in 1 .. n : merged[j].end < r.start
      <4>1. \A j \in 1 .. n : j = n \/ j < n
        BY <1>7
      <4>2. \A j \in 1 .. n : n \in 1 .. n /\ n > 0
        BY <1>7
      <4>3. QED
        BY <1>6, <1>10, <1>11, <1>13, <3>0, <4>1, <4>2
    <3>3. \A k \in 1 .. n + 1 : merged'[k].start < merged'[k].end /\ merged'[k].start % PAGE_SIZE = 0
      BY <1>6, <1>13, <3>0, <3>1
    <3>4. ASSUME NEW j \in 1 .. n + 1, NEW k \in 1 .. n + 1, j < k
          PROVE  merged'[j].end < merged'[k].start
      <4>1. j \in 1 .. n
        BY <1>7, <3>4
      <4>2. CASE k \in 1 .. n
        BY <1>13, <3>0, <3>4, <4>1, <4>2
      <4>3. CASE k = n + 1
        BY <3>0, <3>2, <4>1, <4>3
      <4>4. QED
        BY <3>1, <4>2, <4>3
    <3>5. \A j \in todo \ {i} : \A k \in 1 .. n + 1 : merged'[k].start <= LoadRange(Segs[j]).start
      BY <1>1, <1>13, <3>0, <3>1
    <3>6. ASSUME NEW j \in Loadable \ (todo \ {i})
          PROVE  \E k \in 1 .. n + 1 :
             merged'[k].start <= LoadRange(Segs[j]).start /\ LoadRange(Segs[j]).end <= merged'[k].end
      <4>1. CASE j = i
        BY <1>7, <1>12, <3>0, <2>i, <1>11, <4>1
      <4>2. CASE j # i
        BY <1>7, <2>0, <3>0, <4>2
      <4>3. QED
        BY <4>1, <4>2
    <3>7. QED
      BY <3>0, <3>3, <3>4, <3>5, <3>6
  <2>3. Parts(merged', todo \ {i})
    BY <1>8, <2>1, <2>2
  <2>4. ~(stage' \in AllMerged) /\ ~(stage' \in {"read", "parse"})
    BY <1>1 DEF AllMerged, Claimed, Copied, Synced, Handing
  <2>5. QED
    BY <1>1, <1>4, <1>14, <2>3, <2>4 DEF MergeInv, Covers
<1>16. OwnerInv'
  BY <1>1, <1>2 DEF OwnerInv, Claimed, Copied, Synced, Handing
<1>17. MemInv' /\ SyncInv' /\ HandOffInv'
  BY <1>1, <1>2, EarlyStep
<1>18. QED
  BY <1>9, <1>15, <1>16, <1>17 DEF IInv

\* After the last range, every loadable segment lies in a merged range.
LEMMA MergeDoneKeeps ==
  ASSUME IInv, MergeDone
  PROVE  IInv'
<1>1. /\ stage = "merge" /\ stage' = "alloc" /\ todo = {}
      /\ UNCHANGED <<services, image, map, todo, merged, next, owner, mem, synced, stray, handOff>>
  BY DEF MergeDone, Goto
<1>2. TypeOK'
  BY <1>1 DEF IInv, TypeOK, Stages
<1>3. stage \in Ranged /\ stage' \notin {"read", "parse"} /\ stage' \notin Claimed
  BY <1>1 DEF Ranged, Claimed, Copied, Synced, Handing
<1>4. MergeInv'
  BY <1>1, <1>3 DEF IInv, MergeInv, Covers, Loadable, LoadRange, RangeOverflows, SegEnd,
                    AlignDown, AlignUp
<1>5. next = 1 /\ \A p \in RamPages : owner[p] # "image"
  BY <1>1 DEF IInv, OwnerInv
<1>6. Len(merged) \in Nat /\ \A k \in 1 .. Len(merged) : ~(k < 1)
  BY MergedTypes DEF IInv
<1>7. OwnerInv'
  BY <1>1, <1>3, <1>5, <1>6 DEF OwnerInv, OwnedUpTo
<1>8. MemInv' /\ SyncInv' /\ HandOffInv'
  <2>1. ~(stage' \in {"load", "sync", "jump", "kernel"}) /\ ~(stage' \in Copied)
        /\ ~(stage' \in Synced) /\ ~(stage' \in Handing) /\ ~(stage' \in HasArgs)
    BY <1>1 DEF HasArgs, Copied, Synced, Handing
  <2>2. WellFormed' = WellFormed /\ Overruns' = Overruns
    BY <1>1, ImageFrame
  <2>3. QED
    BY <1>1, <1>5, <1>6, <2>1, <2>2 DEF IInv, MemInv, SyncInv, HandOffInv
<1>9. QED
  BY <1>2, <1>4, <1>7, <1>8 DEF IInv

\* The firmware gives the pages of a range; those of earlier ranges are kept.
LEMMA AllocateRangeKeeps ==
  ASSUME IInv, AllocateRange
  PROVE  IInv'
<1> DEFINE r == merged[next]
<1>1. /\ stage = "alloc" /\ stage' = "alloc" /\ next <= Len(merged) /\ next' = next + 1
      /\ \A p \in PagesOf(r) : p \in RamPages /\ owner[p] = "free"
      /\ Give(PagesOf(r), "image") /\ Fill(Bytes(r.start, r.end), ZERO)
      /\ synced' = synced \ Bytes(r.start, r.end)
      /\ UNCHANGED <<services, image, map, todo, merged, stray, handOff>>
  BY DEF AllocateRange, Goto
<1>2. TypeOK /\ MergeInv /\ OwnerInv /\ MemInv
  BY DEF IInv
<1>3. next \in 1 .. Len(merged) /\ Len(merged) \in Nat
  BY <1>1, <1>2, MergedTypes DEF MemInv, TypeOK
<1>4. /\ owner' = [p \in RamPages |-> IF p \in PagesOf(r) THEN "image" ELSE owner[p]]
      /\ mem' = [a \in RamBytes |-> IF a \in Bytes(r.start, r.end) THEN ZERO ELSE mem[a]]
  BY <1>1 DEF Give, Fill
<1>5. TypeOK'
  <2>1. owner' \in [RamPages -> Owners]
    BY <1>2, <1>4 DEF TypeOK, Owners
  <2>2. mem' \in [RamBytes -> Int]
    BY <1>2, <1>4 DEF TypeOK, ZERO
  <2>3. synced' \subseteq 0 .. U64_MAX
    BY <1>1, <1>2 DEF TypeOK
  <2>4. next' \in Nat
    BY <1>1, <1>2 DEF TypeOK
  <2>5. QED
    BY <1>1, <1>2, <2>1, <2>2, <2>3, <2>4 DEF TypeOK
<1>6. MergeInv'
  <2>1. stage \in AllMerged /\ stage' \in AllMerged
    BY <1>1 DEF AllMerged
  <2>2. QED
    BY <1>1, <1>2, <2>1, MergeFrame
<1>7. OwnerInv'
  <2>1. /\ OwnedUpTo(next)
        /\ \A p \in RamPages : owner[p] = "image" =>
             \E k \in 1 .. Len(merged) : k < next /\ p \in PagesOf(merged[k])
    BY <1>1, <1>2 DEF OwnerInv
  <2>2. ASSUME NEW k \in 1 .. Len(merged), k < next + 1, NEW p \in PagesOf(merged[k])
        PROVE  p \in RamPages /\ owner'[p] = "image"
    <3>1. CASE k = next
      BY <1>1, <1>4, <2>2, <3>1
    <3>2. CASE k < next
      BY <1>4, <2>1, <2>2, <3>2 DEF OwnedUpTo
    <3>3. QED
      BY <1>3, <2>2, <3>1, <3>2
  <2>3. ASSUME NEW p \in RamPages, owner'[p] = "image"
        PROVE  \E k \in 1 .. Len(merged) : k < next + 1 /\ p \in PagesOf(merged[k])
    <3>1. CASE p \in PagesOf(r)
      BY <1>3, <3>1
    <3>2. CASE p \notin PagesOf(r)
      <4>1. PICK k \in 1 .. Len(merged) : k < next /\ p \in PagesOf(merged[k])
        BY <1>4, <2>1, <2>3, <3>2
      <4>2. k < next + 1
        BY <1>3, <4>1
      <4>3. QED
        BY <4>1, <4>2
    <3>3. QED
      BY <3>1, <3>2
  <2>4. OwnedUpTo(next)'
    BY <1>1, <2>2 DEF OwnedUpTo, PagesOf
  <2>5. ~(stage' \in {"read", "parse", "merge"}) /\ ~(stage' \in Claimed)
    BY <1>1 DEF Claimed, Copied, Synced, Handing
  <2>6. QED
    BY <1>1, <2>3, <2>4, <2>5 DEF OwnerInv, PagesOf
<1>8. MemInv'
  <2>1. ASSUME NEW k \in 1 .. Len(merged), k < next + 1,
               NEW a \in Bytes(merged[k].start, merged[k].end)
        PROVE  mem'[a] = ZERO
    <3>1. merged[k] \in [start : 0 .. U64_MAX, end : 0 .. U64_MAX] /\ merged[k].start % PAGE_SIZE = 0
      <4>1. stage \in Ranged
        BY <1>1 DEF Ranged, AllMerged
      <4>2. QED
        BY <1>2, <4>1, MergedTypes DEF MergeInv
    <3>2. a \in Nat /\ PageOf(a) \in PagesOf(merged[k])
      BY <3>1, RangePages
    <3>3. CASE k = next
      BY <1>1, <1>4, <3>2, <3>3, <2>1, RamByPage
    <3>4. CASE k < next
      <4>1. PageOf(a) \in RamPages
        BY <1>1, <1>2, <3>2, <3>4 DEF OwnerInv, OwnedUpTo
      <4>2. a \in RamBytes /\ mem[a] = ZERO
        BY <1>1, <1>2, <2>1, <3>2, <3>4, <4>1, RamByPage DEF MemInv
      <4>3. QED
        BY <1>4, <4>2
    <3>5. QED
      BY <1>3, <2>1, <3>3, <3>4
  <2>2. ~(stage' \in {"load", "sync"}) /\ ~(stage' \in Copied)
    BY <1>1 DEF Copied, Synced, Handing
  <2>3. WellFormed' = WellFormed /\ Overruns' = Overruns
    BY <1>1, ImageFrame
  <2>4. next' >= 1
    BY <1>1, <1>3
  <2>5. QED
    BY <1>1, <1>2, <2>1, <2>2, <2>3, <2>4 DEF MemInv
<1>9. SyncInv' /\ HandOffInv'
  BY <1>1 DEF SyncInv, HandOffInv, HasArgs, Synced, Handing
<1>10. QED
  BY <1>5, <1>6, <1>7, <1>8, <1>9 DEF IInv

\* After the last allocation the image owns every page of its ranges.
LEMMA AllocateDoneKeeps ==
  ASSUME IInv, AllocateDone
  PROVE  IInv'
<1>1. /\ stage = "alloc" /\ stage' = "load" /\ next > Len(merged) /\ next' = 1
      /\ UNCHANGED <<services, image, map, todo, merged, owner, mem, synced, stray, handOff>>
  BY DEF AllocateDone, Goto
<1>2. TypeOK /\ MergeInv /\ OwnerInv /\ MemInv
  BY DEF IInv
<1>3. Len(merged) \in Nat /\ next \in Nat /\ \A k \in 1 .. Len(merged) : k < next
  BY <1>1, <1>2, MergedTypes DEF TypeOK
<1>4. TypeOK'
  BY <1>1, <1>2 DEF TypeOK, Stages
<1>5. stage \in AllMerged /\ stage' \in AllMerged
  BY <1>1 DEF AllMerged, Claimed
<1>6. MergeInv'
  BY <1>1, <1>2, <1>5, MergeFrame
<1>7. OwnerInv'
  <2>1. OwnedUpTo(Len(merged) + 1)'
    BY <1>1, <1>2, <1>3 DEF OwnerInv, OwnedUpTo, PagesOf
  <2>2. QED
    BY <1>1, <2>1 DEF OwnerInv
<1>8. MemInv'
  <2>1. ASSUME NEW i \in Loadable, NEW a \in SegBytes(i)
        PROVE  mem[a] = ZERO
    <3>1. PICK k \in 1 .. Len(merged) : a \in Bytes(merged[k].start, merged[k].end)
      BY <1>2, <1>5, SegInRange
    <3>2. QED
      BY <1>1, <1>2, <1>3, <3>1 DEF MemInv
  <2>2. Len(Segs) \in Nat /\ \A i \in Loadable : ~(i < 1)
    BY <1>2, SegTypes DEF Loadable
  <2>3. LaidOut(1)
    BY <2>1, <2>2 DEF LaidOut, Alone
  <2>4. /\ WellFormed' = WellFormed /\ Overruns' = Overruns /\ Alone' = Alone
        /\ \A i : SegBytes(i)' = SegBytes(i)
    BY <1>1, ImageFrame
  <2>5. LaidOut(next)'
    BY <1>1, <2>3, <2>4 DEF LaidOut
  <2>6. ~(stage' \in Copied) /\ stage' # "alloc"
    BY <1>1 DEF Copied, Synced, Handing
  <2>7. QED
    BY <1>1, <1>2, <2>4, <2>5, <2>6 DEF MemInv
<1>9. SyncInv' /\ HandOffInv'
  BY <1>1 DEF SyncInv, HandOffInv, HasArgs, Synced, Handing
<1>10. QED
  BY <1>4, <1>6, <1>7, <1>8, <1>9 DEF IInv

\* The data of a segment goes into the segment or beyond its end.
LEMMA DataPlace ==
  ASSUME TypeOK, NEW i \in 1 .. Len(Segs),
         NEW a \in Bytes(Segs[i].vmaddr, Segs[i].vmaddr + Segs[i].filesize),
         a \notin Overruns
  PROVE  i \in Loadable /\ a \in SegBytes(i)
<1>1. /\ Segs[i].vmaddr \in 0 .. U64_MAX /\ Segs[i].vmsize \in 0 .. U64_MAX
      /\ Segs[i].filesize \in 0 .. U64_MAX /\ U64_MAX \in Nat
  BY SegTypes, Constants
<1>2. a \in Int /\ Segs[i].vmaddr <= a /\ a < Segs[i].vmaddr + Segs[i].filesize
  BY <1>1 DEF Bytes
<1>3. a \notin Bytes(SegEnd(Segs[i]), Segs[i].vmaddr + Segs[i].filesize)
  BY DEF Overruns
<1>4. a < Segs[i].vmaddr + Segs[i].vmsize
  BY <1>1, <1>2, <1>3 DEF Bytes, SegEnd
<1>5. Segs[i].vmsize # 0
  BY <1>1, <1>2, <1>4
<1>6. a \in Bytes(Segs[i].vmaddr, Segs[i].vmaddr + Segs[i].vmsize)
  BY <1>1, <1>2, <1>4 DEF Bytes
<1>7. QED
  BY <1>5, <1>6 DEF Loadable, SegBytes, SegEnd

\* In a well-formed image it is copied into the segment.
LEMMA DataInSegment ==
  ASSUME TypeOK, WellFormed, NEW i \in 1 .. Len(Segs),
         NEW a \in Bytes(Segs[i].vmaddr, Segs[i].vmaddr + Segs[i].filesize)
  PROVE  i \in Loadable /\ a \in SegBytes(i)
<1>1. /\ Segs[i].vmaddr \in 0 .. U64_MAX /\ Segs[i].vmsize \in 0 .. U64_MAX
      /\ Segs[i].filesize \in 0 .. U64_MAX /\ U64_MAX \in Nat
  BY SegTypes, Constants
<1>2. Segs[i].filesize <= Segs[i].vmsize
  BY DEF WellFormed
<1>3. a \in Int /\ Segs[i].vmaddr <= a /\ a < Segs[i].vmaddr + Segs[i].filesize
  BY <1>1 DEF Bytes
<1>4. Segs[i].vmsize # 0
  BY <1>1, <1>2, <1>3
<1>5. a \in Bytes(Segs[i].vmaddr, Segs[i].vmaddr + Segs[i].vmsize)
  BY <1>1, <1>2, <1>3 DEF Bytes
<1>6. QED
  BY <1>4, <1>5 DEF Loadable, SegBytes, SegEnd

\* A segment is zeroed and copied into pages owned, and no byte of another
\* segment changes if the image is well formed.
LEMMA LoadSegmentKeeps ==
  ASSUME IInv, LoadSegment
  PROVE  IInv'
<1> DEFINE s == Segs[next]
           dst == Bytes(s.vmaddr, s.vmaddr + s.filesize)
<1>1. /\ stage = "load" /\ stage' = "load" /\ next <= Len(Segs) /\ next' = next + 1
      /\ mem' = [a \in RamBytes |-> IF a \in dst THEN FileByte(next, a - s.vmaddr) ELSE mem[a]]
      /\ synced' = synced \ dst
      /\ stray' = stray \union {a \in dst : ~Owned(a)}
      /\ UNCHANGED <<services, image, map, todo, merged, owner, handOff>>
  BY DEF LoadSegment, Goto
<1>2. TypeOK /\ MergeInv /\ OwnerInv /\ MemInv
  BY DEF IInv
<1>3. next \in 1 .. Len(Segs) /\ Len(Segs) \in Nat
  BY <1>1, <1>2, SegTypes DEF MemInv, TypeOK
<1>4. s.vmaddr \in 0 .. U64_MAX /\ s.filesize \in 0 .. U64_MAX /\ U64_MAX \in Nat
  BY <1>2, <1>3, SegTypes, Constants
<1>5. \A a \in dst : a \in Nat
  BY <1>4 DEF Bytes
<1>6. stage \in Claimed /\ stage' \in Claimed /\ stage \in AllMerged /\ stage' \in AllMerged
  BY <1>1 DEF Claimed, AllMerged
<1>7. TypeOK'
  <2>1. mem' \in [RamBytes -> Int]
    <3>1. \A a \in dst : FileByte(next, a - s.vmaddr) \in Int
      BY <1>3, <1>4, <1>5 DEF FileByte
    <3> HIDE DEF dst, s
    <3>2. QED
      BY <1>1, <1>2, <3>1 DEF TypeOK
  <2>2. synced' \subseteq 0 .. U64_MAX /\ stray' \subseteq Nat
    BY <1>1, <1>2, <1>5 DEF TypeOK
  <2>3. next' \in Nat
    BY <1>1, <1>2 DEF TypeOK
  <2>4. QED
    BY <1>1, <1>2, <2>1, <2>2, <2>3 DEF TypeOK
<1>8. MergeInv'
  BY <1>1, <1>2, <1>6, MergeFrame
<1>9. OwnerInv'
  BY <1>1, <1>2, <1>6, OwnerFrame
<1>10. /\ WellFormed' = WellFormed /\ Overruns' = Overruns /\ Alone' = Alone
       /\ \A i : SegBytes(i)' = SegBytes(i)
  BY <1>1, ImageFrame
<1>11. stray' \subseteq Overruns'
  <2>1. ASSUME NEW a \in dst, ~Owned(a)
        PROVE  a \in Overruns
    BY <1>2, <1>3, <1>6, <2>1, DataPlace, SegOwned
  <2>2. stray \subseteq Overruns
    BY <1>2 DEF MemInv
  <2>3. QED
    BY <1>1, <1>10, <2>1, <2>2
<1>12. ASSUME WellFormed
       PROVE  LaidOut(next)'
  <2>1. LaidOut(next)
    BY <1>1, <1>2, <1>12 DEF MemInv
  <2>2. ASSUME NEW i \in Alone, NEW a \in SegBytes(i)
        PROVE  mem'[a] = IF i < next + 1 /\ a - Segs[i].vmaddr < Segs[i].filesize
                           THEN FileByte(i, a - Segs[i].vmaddr) ELSE ZERO
    <3>1. i \in Loadable /\ i \in Nat
      BY DEF Alone, Loadable
    <3>2. a \in 0 .. U64_MAX /\ Segs[i].vmaddr <= a /\ a \in RamBytes
      BY <1>2, <1>6, <3>1, SegOwned
    <3>3. mem[a] = IF i < next /\ a - Segs[i].vmaddr < Segs[i].filesize
                     THEN FileByte(i, a - Segs[i].vmaddr) ELSE ZERO
      BY <2>1 DEF LaidOut
    <3>4. mem'[a] = IF a \in dst THEN FileByte(next, a - s.vmaddr) ELSE mem[a]
      BY <1>1, <3>2
    <3>5. CASE i = next
      <4>1. a \in dst <=> a - s.vmaddr < s.filesize
        BY <1>4, <3>2, <3>5 DEF Bytes
      <4>2. ~(i < next) /\ i < next + 1
        BY <1>3, <3>5
      <4>3. QED
        BY <3>3, <3>4, <3>5, <4>1, <4>2
    <3>6. CASE i # next
      <4>1. a \notin dst
        <5>1. SUFFICES ASSUME a \in dst
                       PROVE  FALSE
          OBVIOUS
        <5>2. next \in Loadable /\ a \in SegBytes(next)
          BY <1>2, <1>3, <1>12, <5>1, DataInSegment
        <5>3. SegBytes(next) \intersect SegBytes(i) = {}
          BY <3>6, <5>2 DEF Alone
        <5>4. QED
          BY <2>2, <5>2, <5>3
      <4>2. i < next <=> i < next + 1
        BY <1>3, <3>1, <3>6
      <4>3. QED
        BY <3>3, <3>4, <4>1, <4>2
    <3>7. QED
      BY <3>5, <3>6
  <2>3. QED
    BY <1>1, <1>10, <2>2 DEF LaidOut
<1>13. MemInv'
  <2>1. ~(stage' \in Copied) /\ stage' # "alloc" /\ next' >= 1
    BY <1>1, <1>3 DEF Copied, Synced, Handing
  <2>2. QED
    BY <1>1, <1>10, <1>11, <1>12, <2>1 DEF MemInv
<1>14. SyncInv' /\ HandOffInv'
  BY <1>1 DEF SyncInv, HandOffInv, HasArgs, Synced, Handing
<1>15. QED
  BY <1>7, <1>8, <1>9, <1>13, <1>14 DEF IInv

\* After the last copy every segment is in memory.
LEMMA LoadDoneKeeps ==
  ASSUME IInv, LoadDone
  PROVE  IInv'
<1>1. /\ stage = "load" /\ stage' = "sync" /\ next > Len(Segs) /\ next' = 1
      /\ UNCHANGED <<services, image, map, todo, merged, owner, mem, synced, stray, handOff>>
  BY DEF LoadDone, Goto
<1>2. TypeOK /\ MergeInv /\ OwnerInv /\ MemInv
  BY DEF IInv
<1>3. Len(Segs) \in Nat /\ next \in Nat
  BY <1>2, SegTypes DEF TypeOK
<1>4. \A i \in Loadable : i < next /\ i < Len(Segs) + 1 /\ ~(i < 1)
  BY <1>1, <1>3 DEF Loadable
<1>5. stage \in Claimed /\ stage' \in Claimed /\ stage \in AllMerged /\ stage' \in AllMerged
  BY <1>1 DEF Claimed, AllMerged, Copied
<1>6. TypeOK'
  BY <1>1, <1>2 DEF TypeOK, Stages
<1>7. MergeInv'
  BY <1>1, <1>2, <1>5, MergeFrame
<1>8. OwnerInv'
  BY <1>1, <1>2, <1>5, OwnerFrame
<1>9. /\ Loadable' = Loadable /\ WellFormed' = WellFormed /\ Overruns' = Overruns /\ Alone' = Alone
      /\ \A i : SegBytes(i)' = SegBytes(i)
  BY <1>1, ImageFrame
<1>10. MemInv'
  <2>1. ASSUME WellFormed
        PROVE  LaidOut(Len(Segs) + 1)'
    <3>1. LaidOut(next)
      BY <1>1, <1>2, <2>1 DEF MemInv
    <3>2. Alone \subseteq Loadable
      BY DEF Alone
    <3>3. QED
      BY <1>1, <1>4, <1>9, <3>1, <3>2 DEF LaidOut
  <2>2. QED
    BY <1>1, <1>2, <1>9, <2>1 DEF MemInv
<1>11. SyncInv' /\ HandOffInv'
  BY <1>1, <1>4, <1>9 DEF SyncInv, HandOffInv, HasArgs, Synced, Handing
<1>12. QED
  BY <1>6, <1>7, <1>8, <1>10, <1>11 DEF IInv

\* The cache routine covers one more segment.
LEMMA SyncSegmentKeeps ==
  ASSUME IInv, SyncSegment
  PROVE  IInv'
<1> DEFINE new == SegBytes(next)
<1>1. /\ stage = "sync" /\ stage' = "sync" /\ next <= Len(Segs) /\ next' = next + 1
      /\ synced' = synced \union new
      /\ UNCHANGED <<services, image, map, todo, merged, owner, mem, stray, handOff>>
  BY DEF SyncSegment, Goto, SegBytes
<1>2. TypeOK /\ MergeInv /\ OwnerInv /\ MemInv /\ SyncInv
  BY DEF IInv
<1>3. next \in 1 .. Len(Segs) /\ Len(Segs) \in Nat
  BY <1>1, <1>2, SegTypes DEF MemInv, TypeOK
<1>4. stage \in Copied /\ stage' \in Copied /\ stage \in Claimed /\ stage' \in Claimed
      /\ stage \in AllMerged /\ stage' \in AllMerged
  BY <1>1 DEF Copied, Claimed, AllMerged
<1>5. new \subseteq 0 .. U64_MAX
  <2>1. CASE next \in Loadable
    BY <1>2, <1>4, <2>1, SegOwned
  <2>2. CASE next \notin Loadable
    <3>1. Segs[next].vmsize = 0 /\ Segs[next].vmaddr \in 0 .. U64_MAX /\ U64_MAX \in Nat
      BY <1>2, <1>3, <2>2, SegTypes, Constants DEF Loadable
    <3>2. new = {}
      BY <3>1 DEF SegBytes, SegEnd, Bytes
    <3>3. QED
      BY <3>2
  <2>3. QED
    BY <2>1, <2>2
<1>6. TypeOK'
  <2>1. synced' \subseteq 0 .. U64_MAX
    BY <1>1, <1>2, <1>5 DEF TypeOK
  <2>2. next' \in Nat
    BY <1>1, <1>2 DEF TypeOK
  <2>3. QED
    BY <1>1, <1>2, <2>1, <2>2 DEF TypeOK
<1>7. MergeInv'
  BY <1>1, <1>2, <1>4, MergeFrame
<1>8. OwnerInv'
  BY <1>1, <1>2, <1>4, OwnerFrame
<1>9. next' >= 1
  BY <1>1, <1>3
<1>10. MemInv'
  BY <1>1, <1>2, <1>4, <1>9, MemFrame
<1>11. SyncInv'
  <2>1. Loadable' = Loadable /\ \A i : SegBytes(i)' = SegBytes(i)
    BY <1>1, ImageFrame
  <2>2. \A i \in Loadable : i < next + 1 => i = next \/ i < next
    BY <1>3 DEF Loadable
  <2>3. \A i \in Loadable : i < next + 1 => SegBytes(i) \subseteq synced'
    BY <1>1, <1>2, <2>2 DEF SyncInv
  <2>4. ~(stage' \in Synced)
    BY <1>1 DEF Synced, Handing
  <2>5. QED
    BY <1>1, <2>1, <2>3, <2>4 DEF SyncInv
<1>12. HandOffInv'
  BY <1>1 DEF HandOffInv, HasArgs, Synced, Handing
<1>13. QED
  BY <1>6, <1>7, <1>8, <1>10, <1>11, <1>12 DEF IInv

\* kernel_top: Max takes a value, which bounds the end of every segment.
LEMMA TopFacts ==
  ASSUME TypeOK
  PROVE  LET ends == {SegEnd(Segs[i]) : i \in 1 .. Len(Segs)}
             top == Max(ends \union {0})
         IN  top \in ends \union {0} /\ \A i \in 1 .. Len(Segs) : SegEnd(Segs[i]) <= top
<1> DEFINE T == 1 .. Len(Segs)
           f == [i \in T |-> SegEnd(Segs[i])]
           ends == {SegEnd(Segs[i]) : i \in T}
<1>1. Len(Segs) \in Nat /\ \A i \in T : SegEnd(Segs[i]) \in Nat
  BY SegTypes
<1>2. IsFiniteSet(T)
  BY <1>1, FS_Interval
<1>3. IsFiniteSet({f[x] : x \in T})
  BY <1>2, ImageIsFinite
<1>4. {f[x] : x \in T} = ends
  OBVIOUS
<1>5. IsFiniteSet(ends \union {0})
  BY <1>3, <1>4, FS_AddElement
<1>6. ends \union {0} \in SUBSET Int /\ ends \union {0} # {}
  BY <1>1
<1>7. \A i \in T : SegEnd(Segs[i]) \in ends \union {0}
  OBVIOUS
<1> HIDE DEF ends
<1>8. /\ Max(ends \union {0}) \in ends \union {0}
      /\ \A y \in ends \union {0} : y <= Max(ends \union {0})
  BY <1>5, <1>6, MaxOfFinite
<1>9. QED
  BY <1>7, <1>8 DEF ends

\* After the last call every segment is covered.
LEMMA SyncDoneKeeps ==
  ASSUME IInv, SyncDone
  PROVE  IInv'
<1> DEFINE ends == {SegEnd(Segs[i]) : i \in 1 .. Len(Segs)}
           top == Max(ends \union {0})
<1>1. CASE Return
  BY <1>1, ReturnKeeps
<1>2. CASE ~Return
  <2>1. /\ stage = "sync" /\ stage' = "adt" /\ next > Len(Segs)
        /\ handOff' = [handOff EXCEPT !.top = top]
        /\ \A e \in ends : ~(e > U64_MAX)
        /\ UNCHANGED <<services, image, map, todo, merged, next, owner, mem, synced, stray>>
    BY <1>2 DEF SyncDone, Goto
  <2>2. TypeOK /\ MergeInv /\ OwnerInv /\ MemInv /\ SyncInv
    BY DEF IInv
  <2>3. top \in ends \union {0} /\ \A i \in 1 .. Len(Segs) : SegEnd(Segs[i]) <= top
    BY <2>2, TopFacts
  <2>4. Len(Segs) \in Nat /\ next \in Nat /\ U64_MAX \in Nat /\ ends \subseteq Nat
    BY <2>2, SegTypes, Constants DEF TypeOK
  <2> HIDE DEF ends, top
  <2>5. top \in 0 .. U64_MAX
    BY <2>1, <2>3, <2>4
  <2>6. stage \in Copied /\ stage' \in Copied /\ stage \in Claimed /\ stage' \in Claimed
        /\ stage \in AllMerged /\ stage' \in AllMerged /\ stage' # "sync"
    BY <2>1 DEF Synced, Copied, Claimed, AllMerged
  <2>7. TypeOK'
    <3>1. handOff' \in [adt : 0 .. U64_MAX, boot_args : 0 .. U64_MAX, stack_top : 0 .. U64_MAX,
                  top : 0 .. U64_MAX, phys_base : 0 .. U64_MAX, mem_size : 0 .. U64_MAX]
      BY <2>1, <2>2, <2>5 DEF TypeOK
    <3>2. QED
      BY <2>1, <2>2, <3>1 DEF TypeOK, Stages
  <2>8. MergeInv'
    BY <2>1, <2>2, <2>6, MergeFrame
  <2>9. OwnerInv'
    BY <2>1, <2>2, <2>6, OwnerFrame
  <2>10. MemInv'
    BY <2>1, <2>2, <2>6, MemFrame
  <2>11. Loadable' = Loadable /\ Loadable \subseteq 1 .. Len(Segs)
         /\ \A i : SegBytes(i)' = SegBytes(i)
    BY <2>1, ImageFrame DEF Loadable
  <2>12. SyncInv'
    <3>1. \A i \in Loadable : i < next
      BY <2>1, <2>4, <2>11
    <3>2. QED
      BY <2>1, <2>2, <2>6, <2>11, <3>1 DEF SyncInv
  <2>13. HandOffInv'
    <3>1. ~(stage' \in Handing) /\ ~(stage' \in HasArgs)
      BY <2>1 DEF Handing, HasArgs
    <3>2. handOff'.top = top
      BY <2>1, <2>2 DEF TypeOK
    <3>3. \A i \in Loadable' : SegEnd(Segs[i])' <= handOff'.top
      BY <2>1, <2>3, <2>11, <3>2 DEF SegEnd
    <3>4. QED
      BY <2>1, <3>1, <3>3 DEF HandOffInv
  <2>14. QED
    BY <2>7, <2>8, <2>9, <2>10, <2>12, <2>13 DEF IInv
<1>3. QED
  BY <1>1, <1>2

\* A page that is given away was free.
LEMMA GiveFree ==
  ASSUME NEW n \in Nat, NEW p \in FreeRuns(n), NEW who, Give(p .. p + n - 1, who)
  PROVE  /\ \A q \in RamPages : owner[q] # "free" => owner'[q] = owner[q]
         /\ \A q \in p .. p + n - 1 : q \in RamPages /\ owner'[q] = who
<1>1. \A q \in p .. p + n - 1 : q \in RamPages /\ owner[q] = "free"
  BY DEF FreeRuns
<1>2. owner' = [q \in RamPages |-> IF q \in p .. p + n - 1 THEN who ELSE owner[q]]
  BY DEF Give
<1>3. QED
  BY <1>1, <1>2

\* The tree stays as long as its pages and their contents do.
LEMMA TreeFrame ==
  ASSUME TreeInPages, handOff'.adt = handOff.adt,
         \A q \in RamPages : owner[q] = "adt" => owner'[q] = "adt",
         \A a \in RamBytes : owner[PageOf(a)] = "adt" => mem'[a] = mem[a]
  PROVE  TreeInPages'
<1>1. PICK p \in RamPages :
        /\ handOff.adt = p * PAGE_SIZE
        /\ \A q \in p .. p + ADT_PAGES - 1 : q \in RamPages /\ owner[q] = "adt"
        /\ \A a \in PageBytes(p, ADT_PAGES) : mem[a] = ADT
  BY DEF TreeInPages
<1>2. p \in Nat /\ ADT_PAGES \in Nat
  BY Constants
<1>3. ASSUME NEW a \in PageBytes(p, ADT_PAGES)
      PROVE  mem'[a] = ADT
  <2>1. a \in Nat /\ PageOf(a) \in p .. p + ADT_PAGES - 1
    BY <1>2, PageRun
  <2>2. a \in RamBytes /\ owner[PageOf(a)] = "adt"
    BY <1>1, <2>1, RamByPage
  <2>3. QED
    BY <1>1, <2>2
<1>4. \A a \in PageBytes(p, ADT_PAGES)' : mem'[a] = ADT
  BY <1>3 DEF PageBytes, Bytes
<1>5. QED
  BY <1>1, <1>4 DEF TreeInPages, PageBytes

\* The device tree is written to pages that were free.
LEMMA BuildDeviceTreeKeeps ==
  ASSUME IInv, BuildDeviceTree
  PROVE  IInv'
<1>1. /\ stage = "adt" /\ stage' = "boot_args"
      /\ UNCHANGED <<services, image, map, todo, merged, next, synced, stray>>
  BY DEF BuildDeviceTree, Goto
<1>2. PICK p \in FreeRuns(ADT_PAGES) :
        /\ Give(p .. p + ADT_PAGES - 1, "adt")
        /\ Fill(PageBytes(p, ADT_PAGES), ADT)
        /\ handOff' = [handOff EXCEPT !.adt = p * PAGE_SIZE]
  BY DEF BuildDeviceTree
<1>3. TypeOK /\ MergeInv /\ OwnerInv /\ MemInv /\ SyncInv /\ HandOffInv
  BY DEF IInv
<1>4. p \in RamPages /\ p * PAGE_SIZE \in 0 .. U64_MAX /\ ADT_PAGES \in Nat
  BY PageAddress, Constants DEF FreeRuns
<1>5. /\ \A q \in RamPages : owner[q] # "free" => owner'[q] = owner[q]
      /\ \A q \in p .. p + ADT_PAGES - 1 : q \in RamPages /\ owner'[q] = "adt"
  BY <1>2, <1>4, GiveFree
<1>6. mem' = [a \in RamBytes |-> IF a \in PageBytes(p, ADT_PAGES) THEN ADT ELSE mem[a]]
  BY <1>2 DEF Fill
<1>7. TypeOK'
  <2>1. owner' \in [RamPages -> Owners]
    BY <1>2, <1>3 DEF Give, TypeOK, Owners
  <2>2. mem' \in [RamBytes -> Int]
    BY <1>3, <1>6 DEF TypeOK, ADT
  <2>3. handOff' \in [adt : 0 .. U64_MAX, boot_args : 0 .. U64_MAX, stack_top : 0 .. U64_MAX,
                  top : 0 .. U64_MAX, phys_base : 0 .. U64_MAX, mem_size : 0 .. U64_MAX]
    BY <1>2, <1>3, <1>4 DEF TypeOK
  <2>4. QED
    BY <1>1, <1>3, <2>1, <2>2, <2>3 DEF TypeOK, Stages
<1>8. /\ stage \in Synced /\ stage' \in Synced /\ stage \in Copied /\ stage' \in Copied
      /\ stage \in Claimed /\ stage' \in Claimed /\ stage \in AllMerged /\ stage' \in AllMerged
      /\ stage' # "sync"
  BY <1>1 DEF Handing, Synced, Copied, Claimed, AllMerged
<1>9. MergeInv'
  BY <1>1, <1>3, <1>8, MergeFrame
<1>10. OwnerInv'
  BY <1>1, <1>3, <1>5, <1>8, OwnerFrame
<1>11. MemInv'
  <2>1. ASSUME NEW i \in Loadable, NEW a \in SegBytes(i)
        PROVE  mem'[a] = mem[a]
    <3>1. a \in RamBytes /\ owner[PageOf(a)] = "image"
      BY <1>3, <1>8, SegOwned DEF Owned
    <3>2. a \notin PageBytes(p, ADT_PAGES)
      BY <1>4, <3>1, FreeRunBytes
    <3>3. QED
      BY <1>6, <3>1, <3>2
  <2>2. QED
    BY <1>1, <1>3, <1>8, <2>1, MemFrame
<1>12. SyncInv'
  BY <1>1, <1>3, <1>8, SyncFrame
<1>13. HandOffInv'
  <2>1. \A a \in PageBytes(p, ADT_PAGES) : mem'[a] = ADT
    BY <1>4, <1>6, FreeRunBytes
  <2>2. handOff'.adt = p * PAGE_SIZE /\ handOff'.top = handOff.top
    BY <1>2, <1>3 DEF TypeOK
  <2>3. TreeInPages'
    BY <1>4, <1>5, <2>1, <2>2 DEF TreeInPages, PageBytes, Bytes
  <2>4. \A i \in Loadable' : SegEnd(Segs[i])' <= handOff'.top
    BY <1>1, <1>3, <1>8, <2>2 DEF HandOffInv, Loadable, SegEnd
  <2>5. ~(stage' \in HasArgs) /\ ~(stage' \in {"jump", "kernel"})
    BY <1>1 DEF HasArgs
  <2>6. QED
    BY <2>3, <2>4, <2>5 DEF HandOffInv
<1>14. QED
  BY <1>7, <1>9, <1>10, <1>11, <1>12, <1>13 DEF IInv

\* The boot arguments get a page of their own.
LEMMA AllocateBootArgsKeeps ==
  ASSUME IInv, AllocateBootArgs
  PROVE  IInv'
<1>1. /\ stage = "boot_args" /\ stage' = "stack"
      /\ UNCHANGED <<services, image, map, todo, merged, next, mem, synced, stray>>
  BY DEF AllocateBootArgs, Goto
<1>2. PICK p \in FreeRuns(1) :
        /\ Give({p}, "boot_args")
        /\ handOff' = [handOff EXCEPT !.boot_args = p * PAGE_SIZE]
  BY DEF AllocateBootArgs
<1>3. TypeOK /\ MergeInv /\ OwnerInv /\ MemInv /\ SyncInv /\ HandOffInv
  BY DEF IInv
<1>4. p \in RamPages /\ p * PAGE_SIZE \in 0 .. U64_MAX /\ p \in Nat
  BY PageAddress, Constants DEF FreeRuns
<1>5. {p} = p .. p + 1 - 1
  BY <1>4
<1>6. /\ \A q \in RamPages : owner[q] # "free" => owner'[q] = owner[q]
      /\ owner'[p] = "boot_args"
  <2>1. Give(p .. p + 1 - 1, "boot_args")
    BY <1>2, <1>5
  <2>2. /\ \A q \in RamPages : owner[q] # "free" => owner'[q] = owner[q]
        /\ \A q \in p .. p + 1 - 1 : q \in RamPages /\ owner'[q] = "boot_args"
    BY <2>1, GiveFree
  <2>3. QED
    BY <1>5, <2>2
<1>7. TypeOK'
  <2>1. owner' \in [RamPages -> Owners]
    BY <1>2, <1>3 DEF Give, TypeOK, Owners
  <2>2. handOff' \in [adt : 0 .. U64_MAX, boot_args : 0 .. U64_MAX, stack_top : 0 .. U64_MAX,
                  top : 0 .. U64_MAX, phys_base : 0 .. U64_MAX, mem_size : 0 .. U64_MAX]
    BY <1>2, <1>3, <1>4 DEF TypeOK
  <2>3. QED
    BY <1>1, <1>3, <2>1, <2>2 DEF TypeOK, Stages
<1>8. /\ stage \in Synced /\ stage' \in Synced /\ stage \in Copied /\ stage' \in Copied
      /\ stage \in Claimed /\ stage' \in Claimed /\ stage \in AllMerged /\ stage' \in AllMerged
      /\ stage' # "sync"
  BY <1>1 DEF Handing, Synced, Copied, Claimed, AllMerged
<1>9. MergeInv'
  BY <1>1, <1>3, <1>8, MergeFrame
<1>10. OwnerInv'
  BY <1>1, <1>3, <1>6, <1>8, OwnerFrame
<1>11. MemInv'
  BY <1>1, <1>3, <1>8, MemFrame
<1>12. SyncInv'
  BY <1>1, <1>3, <1>8, SyncFrame
<1>13. HandOffInv'
  <2>1. handOff'.adt = handOff.adt /\ handOff'.boot_args = p * PAGE_SIZE /\ handOff'.top = handOff.top
    BY <1>2, <1>3 DEF TypeOK
  <2>2. TreeInPages
    BY <1>1, <1>3 DEF HandOffInv, Handing
  <2>3. TreeInPages'
    BY <1>1, <1>6, <2>1, <2>2, TreeFrame
  <2>4. ArgsInPage'
    BY <1>4, <1>6, <2>1 DEF ArgsInPage
  <2>5. \A i \in Loadable' : SegEnd(Segs[i])' <= handOff'.top
    BY <1>1, <1>3, <1>8, <2>1 DEF HandOffInv, Loadable, SegEnd
  <2>6. ~(stage' \in {"jump", "kernel"})
    BY <1>1
  <2>7. QED
    BY <2>3, <2>4, <2>5, <2>6 DEF HandOffInv
<1>14. QED
  BY <1>7, <1>9, <1>10, <1>11, <1>12, <1>13 DEF IInv

\* The stack gets pages of its own.
LEMMA AllocateStackKeeps ==
  ASSUME IInv, AllocateStack
  PROVE  IInv'
<1>1. /\ stage = "stack" /\ stage' = "exit"
      /\ UNCHANGED <<services, image, map, todo, merged, next, mem, synced, stray>>
  BY DEF AllocateStack, Goto
<1>2. PICK p \in FreeRuns(STACK_PAGES) :
        /\ (p + STACK_PAGES) * PAGE_SIZE <= U64_MAX
        /\ Give(p .. p + STACK_PAGES - 1, "stack")
        /\ handOff' = [handOff EXCEPT !.stack_top = (p + STACK_PAGES) * PAGE_SIZE]
  BY DEF AllocateStack
<1>3. TypeOK /\ MergeInv /\ OwnerInv /\ MemInv /\ SyncInv /\ HandOffInv
  BY DEF IInv
<1>4. p \in RamPages /\ p \in Nat /\ STACK_PAGES \in Nat /\ PAGE_SIZE \in Nat /\ U64_MAX \in Nat
  BY Constants DEF FreeRuns
<1>5. \A q \in RamPages : owner[q] # "free" => owner'[q] = owner[q]
  BY <1>2, <1>4, GiveFree
<1>6. (p + STACK_PAGES) * PAGE_SIZE \in 0 .. U64_MAX
  <2>1. (p + STACK_PAGES) * PAGE_SIZE \in Nat
    BY <1>4
  <2>2. QED
    BY <1>2, <1>4, <2>1
<1>7. TypeOK'
  <2>1. owner' \in [RamPages -> Owners]
    BY <1>2, <1>3 DEF Give, TypeOK, Owners
  <2>2. handOff' \in [adt : 0 .. U64_MAX, boot_args : 0 .. U64_MAX, stack_top : 0 .. U64_MAX,
                  top : 0 .. U64_MAX, phys_base : 0 .. U64_MAX, mem_size : 0 .. U64_MAX]
    BY <1>2, <1>3, <1>6 DEF TypeOK
  <2>3. QED
    BY <1>1, <1>3, <2>1, <2>2 DEF TypeOK, Stages
<1>8. /\ stage \in Synced /\ stage' \in Synced /\ stage \in Copied /\ stage' \in Copied
      /\ stage \in Claimed /\ stage' \in Claimed /\ stage \in AllMerged /\ stage' \in AllMerged
      /\ stage' # "sync" /\ stage \in Handing /\ stage \in HasArgs
  BY <1>1 DEF Handing, HasArgs, Synced, Copied, Claimed, AllMerged
<1>9. MergeInv'
  BY <1>1, <1>3, <1>8, MergeFrame
<1>10. OwnerInv'
  BY <1>1, <1>3, <1>5, <1>8, OwnerFrame
<1>11. MemInv'
  BY <1>1, <1>3, <1>8, MemFrame
<1>12. SyncInv'
  BY <1>1, <1>3, <1>8, SyncFrame
<1>13. HandOffInv'
  <2>1. handOff'.adt = handOff.adt /\ handOff'.boot_args = handOff.boot_args
        /\ handOff'.top = handOff.top
    BY <1>2, <1>3 DEF TypeOK
  <2>2. TreeInPages /\ ArgsInPage
    BY <1>3, <1>8 DEF HandOffInv
  <2>3. TreeInPages'
    BY <1>1, <1>5, <2>1, <2>2, TreeFrame
  <2>4. ArgsInPage'
    BY <1>5, <2>1, <2>2 DEF ArgsInPage
  <2>5. \A i \in Loadable' : SegEnd(Segs[i])' <= handOff'.top
    BY <1>1, <1>3, <1>8, <2>1 DEF HandOffInv, Loadable, SegEnd
  <2>6. ~(stage' \in {"jump", "kernel"})
    BY <1>1
  <2>7. QED
    BY <2>3, <2>4, <2>5, <2>6 DEF HandOffInv
<1>14. QED
  BY <1>7, <1>9, <1>10, <1>11, <1>12, <1>13 DEF IInv

\* memory_extent: every descriptor lies between its two results.
LEMMA ExtentFacts ==
  ASSUME TypeOK
  PROVE  /\ LowestStart \in 0 .. U64_MAX /\ HighestEnd \in Nat
         /\ \A d \in map : /\ d.phys_start \in Nat /\ DescEnd(d) \in Nat
                           /\ LowestStart <= d.phys_start /\ DescEnd(d) <= HighestEnd
<1> DEFINE starts == {d.phys_start : d \in map} \union {U64_MAX}
           f == [d \in map |-> DescEnd(d)]
           ends == {DescEnd(d) : d \in map} \union {0}
<1>1. U64_MAX \in Nat /\ PAGE_SIZE \in Nat
  BY Constants
<1>2. IsFiniteSet(map) /\ map \subseteq [phys_start : 0 .. U64_MAX, page_count : 0 .. U64_MAX]
  BY LoaderAssumption DEF TypeOK
<1>3. \A d \in map : d.phys_start \in 0 .. U64_MAX /\ d.page_count \in Nat
  BY <1>1, <1>2
<1>4. ASSUME NEW d \in map
      PROVE  DescEnd(d) \in Nat
  <2>1. d.page_count * PAGE_SIZE \in Nat
    BY <1>1, <1>3
  <2>2. QED
    BY <1>1, <1>3, <2>1 DEF DescEnd
<1>5. LowestStart = Min(starts) /\ HighestEnd = Max(ends)
  BY DEF LowestStart, HighestEnd
<1>6. starts \in SUBSET Nat /\ starts # {} /\ starts \subseteq 0 .. U64_MAX
  BY <1>1, <1>3
<1>7. ends \in SUBSET Int /\ ends # {} /\ ends \subseteq Nat
  BY <1>4
<1>8. IsFiniteSet(ends)
  <2>1. IsFiniteSet({f[d] : d \in map})
    BY <1>2, ImageIsFinite
  <2>2. {f[d] : d \in map} = {DescEnd(d) : d \in map}
    OBVIOUS
  <2>3. QED
    BY <2>1, <2>2, FS_AddElement
<1>9. \A d \in map : d.phys_start \in starts /\ DescEnd(d) \in ends
  OBVIOUS
<1> HIDE DEF starts, ends
<1>10. Min(starts) \in starts /\ \A y \in starts : Min(starts) <= y
  BY <1>6, MinOfNats
<1>11. Max(ends) \in ends /\ \A y \in ends : y <= Max(ends)
  BY <1>7, <1>8, MaxOfFinite
<1>12. QED
  BY <1>1, <1>3, <1>4, <1>5, <1>6, <1>7, <1>9, <1>10, <1>11

\* A step that changes the stage alone, from allocating the stack on.
LEMMA LateStep ==
  ASSUME IInv, services' \in BOOLEAN,
         UNCHANGED <<image, map, todo, merged, next, owner, mem, synced, stray, handOff>>,
         \/ stage = "exit" /\ stage' = "fill"
         \/ stage = "jump" /\ stage' = "kernel"
  PROVE  IInv'
<1>1. TypeOK /\ MergeInv /\ OwnerInv /\ MemInv /\ SyncInv /\ HandOffInv
  BY DEF IInv
<1>2. /\ stage \in Synced /\ stage' \in Synced /\ stage \in Copied /\ stage' \in Copied
      /\ stage \in Claimed /\ stage' \in Claimed /\ stage \in AllMerged /\ stage' \in AllMerged
      /\ stage' # "sync" /\ stage \in Handing /\ stage \in HasArgs
  BY DEF Handing, HasArgs, Synced, Copied, Claimed, AllMerged
<1>3. TypeOK'
  BY <1>1 DEF TypeOK, Stages
<1>4. MergeInv'
  BY <1>1, <1>2, MergeFrame
<1>5. OwnerInv'
  BY <1>1, <1>2, OwnerFrame
<1>6. MemInv'
  BY <1>1, <1>2, MemFrame
<1>7. SyncInv'
  BY <1>1, <1>2, SyncFrame
<1>8. HandOffInv'
  <2>1. TreeInPages' /\ ArgsInPage'
    BY <1>1, <1>2 DEF HandOffInv, TreeInPages, ArgsInPage, PageBytes, Bytes
  <2>2. \A i \in Loadable' : SegEnd(Segs[i])' <= handOff'.top
    BY <1>1, <1>2 DEF HandOffInv, Loadable, SegEnd
  <2>3. stage' \in {"jump", "kernel"} => stage \in {"jump", "kernel"}
    OBVIOUS
  <2>4. QED
    BY <1>1, <2>1, <2>2, <2>3 DEF HandOffInv, Bytes, DescEnd
<1>9. QED
  BY <1>3, <1>4, <1>5, <1>6, <1>7, <1>8 DEF IInv

\* The boot arguments describe the image, the tree and the extent of memory.
LEMMA FillBootArgsKeeps ==
  ASSUME IInv, FillBootArgs
  PROVE  IInv'
<1> DEFINE args == Bytes(handOff.boot_args, handOff.boot_args + PAGE_SIZE)
<1>1. CASE Return
  BY <1>1, ReturnKeeps
<1>2. CASE ~Return
  <2>1. /\ stage = "fill" /\ stage' = "jump" /\ ~ExtentFails
        /\ handOff' = [handOff EXCEPT !.phys_base = LowestStart, !.mem_size = MemSize]
        /\ Fill(args, ARGS)
        /\ UNCHANGED <<services, image, map, todo, merged, next, owner, synced, stray>>
    BY <1>2 DEF FillBootArgs, Goto
  <2>2. TypeOK /\ MergeInv /\ OwnerInv /\ MemInv /\ SyncInv /\ HandOffInv
    BY DEF IInv
  <2>3. /\ LowestStart \in 0 .. U64_MAX /\ HighestEnd \in Nat
        /\ \A d \in map : /\ d.phys_start \in Nat /\ DescEnd(d) \in Nat
                          /\ LowestStart <= d.phys_start /\ DescEnd(d) <= HighestEnd
    BY <2>2, ExtentFacts
  <2>4. U64_MAX \in Nat /\ HighestEnd <= U64_MAX /\ LowestStart < HighestEnd
    BY <2>1, <2>3, Constants DEF ExtentFails
  <2>5. MemSize \in 0 .. U64_MAX /\ LowestStart + MemSize = HighestEnd
    BY <2>3, <2>4 DEF MemSize
  <2>6. mem' = [a \in RamBytes |-> IF a \in args THEN ARGS ELSE mem[a]]
    BY <2>1 DEF Fill
  <2>7. TypeOK'
    <3>1. handOff' \in [adt : 0 .. U64_MAX, boot_args : 0 .. U64_MAX, stack_top : 0 .. U64_MAX,
                  top : 0 .. U64_MAX, phys_base : 0 .. U64_MAX, mem_size : 0 .. U64_MAX]
      BY <2>1, <2>2, <2>3, <2>5 DEF TypeOK
    <3>2. mem' \in [RamBytes -> Int]
      BY <2>2, <2>6 DEF TypeOK, ARGS
    <3>3. QED
      BY <2>1, <2>2, <3>1, <3>2 DEF TypeOK, Stages
  <2>8. /\ stage \in Synced /\ stage' \in Synced /\ stage \in Copied /\ stage' \in Copied
        /\ stage \in Claimed /\ stage' \in Claimed /\ stage \in AllMerged /\ stage' \in AllMerged
        /\ stage' # "sync" /\ stage \in Handing /\ stage \in HasArgs
    BY <2>1 DEF Handing, HasArgs, Synced, Copied, Claimed, AllMerged
  <2>9. PICK p \in RamPages : handOff.boot_args = p * PAGE_SIZE /\ owner[p] = "boot_args"
    BY <2>2, <2>8 DEF HandOffInv, ArgsInPage
  <2>10. ASSUME NEW a \in args
         PROVE  a \in RamBytes /\ owner[PageOf(a)] = "boot_args"
    <3>1. p \in Nat /\ PAGE_SIZE \in Nat
      BY Constants
    <3>2. (p + 1) * PAGE_SIZE = p * PAGE_SIZE + PAGE_SIZE
      BY <3>1
    <3>3. a \in PageBytes(p, 1)
      BY <2>9, <3>2 DEF PageBytes
    <3>4. a \in Nat /\ PageOf(a) \in p .. p + 1 - 1
      BY <3>1, <3>3, PageRun
    <3>5. PageOf(a) = p
      BY <3>1, <3>4
    <3>6. QED
      BY <2>9, <3>4, <3>5, RamByPage
  <2>11. \A a \in RamBytes : owner[PageOf(a)] # "boot_args" => mem'[a] = mem[a]
    BY <2>6, <2>10
  <2>12. MergeInv'
    BY <2>1, <2>2, <2>8, MergeFrame
  <2>13. OwnerInv'
    BY <2>1, <2>2, <2>8, OwnerFrame
  <2>14. MemInv'
    <3>1. \A i \in Loadable : \A a \in SegBytes(i) : a \in RamBytes /\ owner[PageOf(a)] = "image"
      BY <2>2, <2>8, SegOwned DEF Owned
    <3>2. \A i \in Loadable : \A a \in SegBytes(i) : mem'[a] = mem[a]
      BY <2>11, <3>1
    <3>3. QED
      BY <2>1, <2>2, <2>8, <3>2, MemFrame
  <2>15. SyncInv'
    BY <2>1, <2>2, <2>8, SyncFrame
  <2>16. HandOffInv'
    <3>1. /\ handOff'.adt = handOff.adt /\ handOff'.boot_args = handOff.boot_args
          /\ handOff'.top = handOff.top /\ handOff'.phys_base = LowestStart
          /\ handOff'.mem_size = MemSize
      BY <2>1, <2>2 DEF TypeOK
    <3>2. TreeInPages /\ ArgsInPage
      BY <2>2, <2>8 DEF HandOffInv
    <3>3. TreeInPages'
      BY <2>1, <2>11, <3>1, <3>2, TreeFrame
    <3>4. ArgsInPage'
      BY <2>1, <3>1, <3>2 DEF ArgsInPage
    <3>5. \A i \in Loadable' : SegEnd(Segs[i])' <= handOff'.top
      BY <2>1, <2>2, <2>8, <3>1 DEF HandOffInv, Loadable, SegEnd
    <3>6. \A a \in args : mem'[a] = ARGS
      BY <2>6, <2>10
    <3>7. \A d \in map : /\ handOff'.phys_base <= d.phys_start
                         /\ DescEnd(d) <= handOff'.phys_base + handOff'.mem_size
      BY <2>3, <2>5, <3>1
    <3>8. QED
      BY <2>1, <3>1, <3>3, <3>4, <3>5, <3>6, <3>7 DEF HandOffInv, Bytes, DescEnd
  <2>17. QED
    BY <2>7, <2>12, <2>13, <2>14, <2>15, <2>16 DEF IInv
<1>3. QED
  BY <1>1, <1>2

\* Every step keeps the invariant.
LEMMA StepKeeps == IInv /\ [Next]_vars => IInv'
<1> SUFFICES ASSUME IInv, [Next]_vars
             PROVE  IInv'
  OBVIOUS
<1>1. CASE CallFails
  BY <1>1, ReturnKeeps DEF CallFails
<1>2. CASE ReadKernel
  BY <1>2, ReadKernelKeeps
<1>3. CASE ParseAndRange
  BY <1>3, ParseAndRangeKeeps
<1>4. CASE \E i \in todo : MergeRange(i)
  BY <1>4, MergeRangeKeeps
<1>5. CASE MergeDone
  BY <1>5, MergeDoneKeeps
<1>6. CASE AllocateRange
  BY <1>6, AllocateRangeKeeps
<1>7. CASE AllocateDone
  BY <1>7, AllocateDoneKeeps
<1>8. CASE LoadSegment
  BY <1>8, LoadSegmentKeeps
<1>9. CASE LoadDone
  BY <1>9, LoadDoneKeeps
<1>10. CASE SyncSegment
  BY <1>10, SyncSegmentKeeps
<1>11. CASE SyncDone
  BY <1>11, SyncDoneKeeps
<1>12. CASE BuildDeviceTree
  BY <1>12, BuildDeviceTreeKeeps
<1>13. CASE AllocateBootArgs
  BY <1>13, AllocateBootArgsKeeps
<1>14. CASE AllocateStack
  BY <1>14, AllocateStackKeeps
<1>15. CASE ExitBootServices
  BY <1>15, LateStep DEF ExitBootServices
<1>16. CASE FillBootArgs
  BY <1>16, FillBootArgsKeeps
<1>17. CASE JumpToEntry
  <2>1. services' \in BOOLEAN
    BY <1>17 DEF JumpToEntry, Goto, IInv, TypeOK
  <2>2. QED
    BY <1>17, <2>1, LateStep DEF JumpToEntry, Goto
<1>18. CASE UNCHANGED vars
  <2>1. TypeOK'
    BY <1>18 DEF IInv, TypeOK, vars
  <2>2. MergeInv'
    BY <1>18 DEF IInv, MergeInv, Covers, Loadable, LoadRange, RangeOverflows, SegEnd,
                 AlignDown, AlignUp, vars
  <2>3. OwnerInv'
    BY <1>18 DEF IInv, OwnerInv, OwnedUpTo, PagesOf, vars
  <2>4. image' = image
    BY <1>18 DEF vars
  <2>5. /\ Loadable' = Loadable /\ WellFormed' = WellFormed /\ Overruns' = Overruns /\ Alone' = Alone
        /\ \A i : SegBytes(i)' = SegBytes(i)
    BY <2>4, ImageFrame
  <2>6. MemInv' /\ SyncInv'
    BY <1>18, <2>5 DEF IInv, MemInv, SyncInv, LaidOut, Bytes, vars
  <2>7. HandOffInv'
    BY <1>18, <2>5 DEF IInv, HandOffInv, TreeInPages, ArgsInPage, PageBytes, Bytes, SegEnd,
                       DescEnd, vars
  <2>8. QED
    BY <2>1, <2>2, <2>3, <2>6, <2>7 DEF IInv
<1>19. QED
  BY <1>1, <1>2, <1>3, <1>4, <1>5, <1>6, <1>7, <1>8, <1>9, <1>10, <1>11, <1>12, <1>13,
     <1>14, <1>15, <1>16, <1>17, <1>18 DEF Next, Step, Stopped

-----------------------------------------------------------------------------

\* The invariant holds in every state of the loader.
THEOREM InvariantHolds == Spec => []IInv
  BY InitHolds, StepKeeps, PTL DEF Spec

\* The loader's state is well typed: whatever the image and the memory map
\* say, no address or size it computes wraps around.
THEOREM TypeCorrect == Spec => []TypeOK
<1>1. IInv => TypeOK
  BY DEF IInv
<1>2. QED
  BY <1>1, InvariantHolds, PTL

\* allocate_load_ranges never asks the firmware for a page it already holds:
\* load_ranges merges segments that share a page.
THEOREM RangesApart == Spec => []NoSelfConflict
<1>1. ASSUME IInv, stage = "alloc", next <= Len(merged),
             NEW p \in PagesOf(merged[next]), p \in RamPages, owner[p] = "image"
      PROVE  FALSE
  <2>1. TypeOK /\ MergeInv /\ OwnerInv /\ MemInv
    BY <1>1 DEF IInv
  <2>2. next \in 1 .. Len(merged)
    BY <1>1, <2>1, MergedTypes DEF MemInv, TypeOK
  <2>3. PICK k \in 1 .. Len(merged) : k < next /\ p \in PagesOf(merged[k])
    BY <1>1, <2>1 DEF OwnerInv
  <2>4. stage \in Ranged
    BY <1>1 DEF Ranged, AllMerged
  <2>5. merged[k].end < merged[next].start
    BY <2>1, <2>2, <2>3, <2>4 DEF MergeInv
  <2>6. merged[k].end \in 0 .. U64_MAX /\ merged[next].start \in 0 .. U64_MAX
    BY <2>1, <2>2, MergedTypes
  <2>7. p * PAGE_SIZE < merged[k].end /\ p * PAGE_SIZE >= merged[next].start
    BY <1>1, <2>3 DEF PagesOf
  <2>8. p * PAGE_SIZE \in 0 .. U64_MAX /\ U64_MAX \in Nat
    BY <1>1, PageAddress, Constants
  <2>9. QED
    BY <2>5, <2>6, <2>7, <2>8
<1>2. IInv => NoSelfConflict
  BY <1>1 DEF NoSelfConflict
<1>3. QED
  BY <1>2, InvariantHolds, PTL

\* load_segments writes outside the pages allocated for the image only what lies
\* beyond the memory of its own segment.
THEOREM WritesOwned == Spec => []NoStrayWrite
<1>1. IInv => NoStrayWrite
  BY DEF IInv, MemInv, NoStrayWrite
<1>2. QED
  BY <1>1, InvariantHolds, PTL

\* The kernel starts with its segments in memory and in the caches.
THEOREM KernelStartsIntact == Spec => []ImageIntact
<1>1. ASSUME IInv, stage = "kernel", WellFormed, NEW i \in Loadable
      PROVE  /\ SegBytes(i) \subseteq synced
             /\ (\A j \in Loadable \ {i} : SegBytes(j) \intersect SegBytes(i) = {}) =>
                  \A a \in SegBytes(i) :
                    LET k == a - Segs[i].vmaddr
                    IN  mem[a] = IF k < Segs[i].filesize THEN FileByte(i, k) ELSE ZERO
  <2>1. stage \in Synced /\ stage \in Copied
    BY <1>1 DEF Handing, Synced, Copied
  <2>2. SegBytes(i) \subseteq synced
    BY <1>1, <2>1 DEF IInv, SyncInv
  <2>3. LaidOut(Len(Segs) + 1)
    BY <1>1, <2>1 DEF IInv, MemInv
  <2>4. i < Len(Segs) + 1
    BY <1>1, SegTypes DEF IInv, Loadable
  <2>5. (\A j \in Loadable \ {i} : SegBytes(j) \intersect SegBytes(i) = {}) => i \in Alone
    BY <1>1 DEF Alone
  <2>6. QED
    BY <2>2, <2>3, <2>4, <2>5 DEF LaidOut
<1>2. IInv => ImageIntact
  BY <1>1 DEF ImageIntact
<1>3. QED
  BY <1>2, InvariantHolds, PTL

\* What the kernel is handed is true: the extent of memory, a top above the
\* image, and the boot arguments and the device tree where it is told.
THEOREM HandOffIsTrue == Spec => []HandOffDescribesMemory
<1>1. ASSUME IInv, stage = "kernel"
      PROVE  HandOffDescribesMemory
  <2>1. TypeOK /\ HandOffInv /\ stage \in Synced /\ stage \in Handing
    BY <1>1 DEF IInv, Synced, Handing
  <2>2. PAGE_SIZE \in Nat /\ ADT_PAGES \in Nat
    BY Constants
  <2>3. handOff.boot_args \in Nat /\ handOff.adt \in Nat
    BY <2>1, Constants DEF TypeOK
  <2>4. ASSUME NEW k \in 0 .. PAGE_SIZE - 1
        PROVE  mem[handOff.boot_args + k] = ARGS
    <3>1. handOff.boot_args + k \in Bytes(handOff.boot_args, handOff.boot_args + PAGE_SIZE)
      BY <2>2, <2>3 DEF Bytes
    <3>2. QED
      BY <1>1, <2>1, <3>1 DEF HandOffInv
  <2>5. ASSUME NEW k \in 0 .. ADT_PAGES * PAGE_SIZE - 1
        PROVE  mem[handOff.adt + k] = ADT
    <3>1. PICK p \in RamPages :
            /\ handOff.adt = p * PAGE_SIZE
            /\ \A a \in PageBytes(p, ADT_PAGES) : mem[a] = ADT
      BY <2>1 DEF HandOffInv, TreeInPages
    <3>2. p \in Nat
      BY Constants
    <3>3. (p + ADT_PAGES) * PAGE_SIZE = p * PAGE_SIZE + ADT_PAGES * PAGE_SIZE
          /\ ADT_PAGES * PAGE_SIZE \in Nat /\ p * PAGE_SIZE \in Nat
      BY <2>2, <3>2
    <3>4. p * PAGE_SIZE + k \in PageBytes(p, ADT_PAGES)
      BY <3>3 DEF PageBytes, Bytes
    <3>5. QED
      BY <3>1, <3>4
  <2>6. QED
    BY <1>1, <2>1, <2>4, <2>5 DEF HandOffDescribesMemory, HandOffInv
<1>2. IInv => HandOffDescribesMemory
  BY <1>1 DEF HandOffDescribesMemory
<1>3. QED
  BY <1>2, InvariantHolds, PTL
=============================================================================
