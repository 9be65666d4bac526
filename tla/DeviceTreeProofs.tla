-------------------------- MODULE DeviceTreeProofs --------------------------
(***************************************************************************)
(* Proofs about DeviceTree: for any configuration table and blob, any      *)
(* number of values of a byte, and any length another boot loader passes.  *)
(*                                                                         *)
(* The inductive invariant has three parts.  The parser's says that its    *)
(* position stays in the blob and that every node it returns has a name,   *)
(* down to the leaves: its nodes are in a set that is closed under         *)
(* children, so no recursion over trees is needed.  The writer's relates   *)
(* the bytes of out to the items of written: each at its offset, one after *)
(* the other, the properties of a node behind it, and the calls of         *)
(* write_adt_node left after a node, which say whose child the next one    *)
(* is.  The reader's says where in written the kernel is: what is on the   *)
(* console is a beginning of it, each call of dump_node in progress is for *)
(* a node of it, and a loop of child_at that passes nodes is at the end of *)
(* an item, with as many nodes to go as the writer's count says.           *)
(***************************************************************************)
EXTENDS DeviceTree, SequenceTheorems, WellFoundedInduction, TLAPS

-----------------------------------------------------------------------------
(* Numbers. *)

\* Division with remainder by a positive number.
LEMMA ModBounds ==
  ASSUME NEW y \in Int, NEW a \in Nat \ {0}
  PROVE  /\ y % a \in 0 .. a - 1
         /\ y = a * (y \div a) + (y % a)
         /\ y \div a \in Int
  OBVIOUS

\* A value below the modulus is its own remainder.
LEMMA ModSmall ==
  ASSUME NEW y \in Nat, NEW n \in Nat, y < n
  PROVE  y % n = y
  OBVIOUS

\* Multiplication by a natural number is monotone.
LEMMA TimesMonotone ==
  ASSUME NEW a \in Nat, NEW p \in Int, NEW q \in Int, p <= q
  PROVE  a * p <= a * q
  OBVIOUS

\* A set of natural numbers that is not empty has a least element.
LEMMA LeastNat ==
  ASSUME NEW S \in SUBSET Nat, S # {}
  PROVE  \E m \in S : \A k \in S : m <= k
<1> DEFINE R == OpToRel(<, Nat)
<1>1. IsWellFoundedOn(R, Nat)
  BY NatLessThanWellFounded
<1>2. \A x, y \in Nat : y < x => <<y, x>> \in R
  BY DEF OpToRel
<1> HIDE DEF R
<1>3. PICK m \in S : \A y \in S : ~ (<<y, m>> \in R)
  BY <1>1, WFMin
<1>4. \A k \in S : k \in Nat /\ m \in Nat /\ ~ (k < m)
  BY <1>2, <1>3
<1>5. \A k \in S : m <= k
  BY <1>4
<1>6. QED
  BY <1>5

\* Min of a set of natural numbers is in it and below the others.
LEMMA MinOfNats ==
  ASSUME NEW S \in SUBSET Nat, S # {}
  PROVE  Min(S) \in S /\ \A y \in S : Min(S) <= y
  BY LeastNat DEF Min

-----------------------------------------------------------------------------
(* Bytes and words. *)

\* A byte has at least sixteen values, and letters are ASCII and not zero.
LEMMA ByteFacts ==
  /\ BYTE \in Nat /\ BYTE >= 16
  /\ 0 \in Bytes
  /\ BYTE \div 2 \in Nat /\ BYTE \div 2 >= 8 /\ BYTE \div 2 <= BYTE
  /\ LETTER \in Nat /\ LETTER >= 4 /\ LETTER + 1 < BYTE \div 2
  BY TablesAssumption DEF Bytes, LETTER

\* A number below a * b has a quotient by a below b.
LEMMA DivBelow ==
  ASSUME NEW a \in Nat \ {0}, NEW b \in Nat, NEW n \in Nat, n < a * b
  PROVE  n \div a \in Nat /\ n \div a < b
<1> DEFINE q == n \div a
<1>1. n % a \in 0 .. a - 1 /\ n = a * q + (n % a) /\ q \in Int
  BY ModBounds
<1> HIDE DEF q
<1>2. CASE q < 0
  <2>1. a * q <= a * (-1)
    BY <1>1, <1>2, TimesMonotone
  <2>2. a * (-1) = -a
    OBVIOUS
  <2>3. QED
    BY <1>1, <2>1, <2>2
<1>3. CASE q >= b
  <2>1. a * b <= a * q
    BY <1>1, <1>3, TimesMonotone
  <2>2. a * b \in Int /\ a * q \in Int
    BY <1>1
  <2>3. QED
    BY <1>1, <2>1, <2>2
<1>4. QED
  BY <1>1, <1>2, <1>3 DEF q

\* Quotient and remainder by BYTE.
LEMMA DivNat ==
  ASSUME NEW n \in Nat
  PROVE  n \div BYTE \in Nat /\ n % BYTE \in Bytes
<1>1. n % BYTE \in 0 .. BYTE - 1 /\ n = BYTE * (n \div BYTE) + (n % BYTE) /\ n \div BYTE \in Int
  BY ByteFacts, ModBounds
<1> DEFINE q == n \div BYTE
<1> HIDE DEF q
<1>2. CASE q < 0
  <2>1. BYTE * q <= BYTE * (-1)
    BY <1>1, <1>2, ByteFacts, TimesMonotone DEF q
  <2>2. BYTE * (-1) = -BYTE
    BY ByteFacts
  <2>3. QED
    BY <1>1, <2>1, <2>2, ByteFacts DEF q
<1>3. QED
  BY <1>1, <1>2 DEF q, Bytes

\* write_le_u32 writes four bytes.
LEMMA LeType ==
  ASSUME NEW n \in Nat
  PROVE  /\ Le(n) \in Seq(Bytes) /\ Len(Le(n)) = 4
         /\ \A i \in 1 .. 4 : Le(n)[i] \in Bytes
<1>1. n % BYTE \in Bytes /\ n \div BYTE \in Nat
  BY DivNat
<1>2. (n \div BYTE) % BYTE \in Bytes /\ (n \div BYTE) \div BYTE \in Nat
  BY <1>1, DivNat
<1>3. ((n \div BYTE) \div BYTE) % BYTE \in Bytes /\ ((n \div BYTE) \div BYTE) \div BYTE \in Nat
  BY <1>2, DivNat
<1>4. (((n \div BYTE) \div BYTE) \div BYTE) % BYTE \in Bytes
  BY <1>3, DivNat
<1>5. QED
  BY <1>1, <1>2, <1>3, <1>4 DEF Le

\* What write_le_u32 writes of a u32, read_le_u32 reads.
LEMMA LeRead ==
  ASSUME NEW n \in Nat, FitsU32(n)
  PROVE  n = Le(n)[1] + BYTE * (Le(n)[2] + BYTE * (Le(n)[3] + BYTE * Le(n)[4]))
<1> DEFINE a == n \div BYTE
           b == a \div BYTE
           c == b \div BYTE
<1>0. BYTE \in Nat \ {0} /\ BYTE * BYTE \in Nat /\ BYTE * (BYTE * BYTE) \in Nat
  BY ByteFacts
<1>1. a \in Nat /\ a < BYTE * (BYTE * BYTE)
  BY <1>0, DivBelow DEF FitsU32
<1> HIDE DEF a
<1>2. b \in Nat /\ b < BYTE * BYTE
  BY <1>0, <1>1, DivBelow
<1> HIDE DEF b
<1>3. c \in Nat /\ c < BYTE
  BY <1>0, <1>2, DivBelow
<1> HIDE DEF c
<1>4. c % BYTE = c
  BY <1>0, <1>3, ModSmall
<1>5. b = BYTE * c + (b % BYTE) /\ b % BYTE \in Int
  BY <1>0, <1>2, ModBounds DEF c
<1>6. a = BYTE * b + (a % BYTE) /\ a % BYTE \in Int
  BY <1>0, <1>1, ModBounds DEF b
<1>7. n = BYTE * a + (n % BYTE) /\ n % BYTE \in Int
  BY <1>0, ModBounds DEF a
<1>8. Le(n) = <<n % BYTE, a % BYTE, b % BYTE, c % BYTE>>
  BY DEF Le, a, b, c
<1>9. b = (b % BYTE) + BYTE * (c % BYTE)
  <2>1. BYTE * c \in Int
    BY <1>0, <1>3
  <2>2. b = (b % BYTE) + BYTE * c
    BY <1>5, <2>1
  <2>3. QED
    BY <1>4, <2>2
<1>10. a = (a % BYTE) + BYTE * ((b % BYTE) + BYTE * (c % BYTE))
  BY <1>0, <1>2, <1>6, <1>9
<1>11. n = (n % BYTE) + BYTE * ((a % BYTE) + BYTE * ((b % BYTE) + BYTE * (c % BYTE)))
  BY <1>0, <1>1, <1>7, <1>10
<1>12. QED
  BY <1>8, <1>11

\* Rounding up to a multiple of four.
LEMMA AlignFacts ==
  ASSUME NEW n \in Nat
  PROVE  /\ AlignUp4(n) \in Nat /\ AlignUp4(n) % 4 = 0
         /\ n <= AlignUp4(n) /\ AlignUp4(n) <= n + 3
         /\ AlignUp4(n) = n + ((4 - (n % 4)) % 4)
         /\ AlignPos(n) = AlignUp4(n)
         /\ n % 4 = 0 => AlignUp4(n) = n
  BY DEF AlignUp4, AlignPos

-----------------------------------------------------------------------------
(* A word, a node's header and a property in a sequence of bytes. *)

LeAt(s, o, n) == \A i \in 1 .. 4 : s[o + i] = Le(n)[i]

HeaderAt(s, o, n) ==
  LeAt(s, o, Len(n.props)) /\ LeAt(s, o + 4, Len(n.children))

NameAt(s, o, name) ==
  /\ \A i \in 1 .. Len(name) : s[o + i] = name[i]
  /\ \A i \in Len(name) + 1 .. 32 : s[o + i] = 0

ValueAt(s, o, value) == \A i \in 1 .. Len(value) : s[o + i] = value[i]

PropAt(s, o, p) ==
  /\ NameAt(s, o, p.name)
  /\ LeAt(s, o + 32, Len(p.value))
  /\ ValueAt(s, o + 36, p.value)

\* Names are texts without a zero; a property's name leaves room for one.
Letters == 1 .. (BYTE \div 2) - 1
PropType == {p \in [name : Seq(Letters), value : Seq(Bytes)] : Len(p.name) < 32}

\* Where a property at o ends.
PropEnd(o, p) == AlignUp4((o + 36) + Len(p.value))

\* t begins with s.
Extends(t, s) == Len(s) <= Len(t) /\ \A i \in 1 .. Len(s) : t[i] = s[i]

\* A letter is a byte of a text, and never its terminator.
LEMMA LetterFacts ==
  ASSUME NEW x \in Letters
  PROVE  x \in Bytes /\ x # 0 /\ x < BYTE \div 2
  BY ByteFacts DEF Letters, Bytes

\* The parts of a property.
LEMMA PropTypeFacts ==
  ASSUME NEW p \in PropType
  PROVE  /\ p.name \in Seq(Letters) /\ Len(p.name) \in Nat /\ Len(p.name) < 32
         /\ p.value \in Seq(Bytes) /\ Len(p.value) \in Nat
         /\ p = Prop(p.name, p.value)
         /\ DOMAIN p = {"name", "value"}
  BY DEF PropType, Prop

\* The kernel's read_le_u32 on the beginning of the loader's bytes.
LEMMA ReadLeAt ==
  ASSUME NEW s \in Seq(Bytes), tree \in Seq(Bytes), Extends(s, tree),
         NEW o \in Nat, NEW n \in Nat, FitsU32(n), LeAt(s, o, n)
  PROVE  ReadLe(o) = IF o + 4 > Len(tree) THEN NONE ELSE n
<1>1. CASE o + 4 > Len(tree)
  BY <1>1 DEF ReadLe
<1>2. CASE ~(o + 4 > Len(tree))
  <2>1. /\ tree[o + 1] = Le(n)[1] /\ tree[o + 2] = Le(n)[2]
        /\ tree[o + 3] = Le(n)[3] /\ tree[o + 4] = Le(n)[4]
    <3>1. \A i \in 1 .. 4 : o + i \in 1 .. Len(tree)
      BY <1>2
    <3>2. \A i \in 1 .. 4 : tree[o + i] = s[o + i]
      BY <3>1 DEF Extends
    <3>3. QED
      BY <3>2 DEF LeAt
  <2>2. /\ At(tree, o) = Le(n)[1] /\ At(tree, o + 1) = Le(n)[2]
        /\ At(tree, o + 2) = Le(n)[3] /\ At(tree, o + 3) = Le(n)[4]
    <3>1. (o + 1) + 1 = o + 2 /\ (o + 2) + 1 = o + 3 /\ (o + 3) + 1 = o + 4
      OBVIOUS
    <3>2. QED
      BY <2>1, <3>1 DEF At
  <2>3. ReadLe(o) = At(tree, o) + BYTE * (At(tree, o + 1)
                      + BYTE * (At(tree, o + 2) + BYTE * At(tree, o + 3)))
    BY <1>2 DEF ReadLe
  <2>4. ReadLe(o) = n
    BY <2>2, <2>3, LeRead
  <2>5. QED
    BY <1>2, <2>4
<1>3. QED
  BY <1>1, <1>2

\* The counts of a header.
LEMMA ReadHeader ==
  ASSUME NEW s \in Seq(Bytes), tree \in Seq(Bytes), Extends(s, tree),
         NEW o \in Nat, NEW n, Len(n.props) \in Nat, Len(n.children) \in Nat,
         FitsU32(Len(n.props)), FitsU32(Len(n.children)), HeaderAt(s, o, n)
  PROVE  /\ o + 8 <= Len(tree) => /\ PropertyCount(o) = Len(n.props)
                                  /\ ChildCount(o) = Len(n.children)
                                  /\ PropertyCount(o) # NONE /\ ChildCount(o) # NONE
         /\ ~(o + 8 <= Len(tree)) => ChildCount(o) = NONE
<1>1. ReadLe(o) = IF o + 4 > Len(tree) THEN NONE ELSE Len(n.props)
  BY ReadLeAt DEF HeaderAt
<1>2. ReadLe(o + 4) = IF (o + 4) + 4 > Len(tree) THEN NONE ELSE Len(n.children)
  BY ReadLeAt DEF HeaderAt
<1>3. QED
  BY <1>1, <1>2 DEF PropertyCount, ChildCount, NONE

\* A part of a sequence that agrees with another one.
LEMMA SubSeqIs ==
  ASSUME NEW S, NEW s \in Seq(S), NEW t \in Seq(S), NEW m \in Nat, NEW n \in Nat,
         n = Len(t), m + n <= Len(s), \A i \in 1 .. n : s[m + i] = t[i]
  PROVE  SubSeq(s, m + 1, m + n) = t
<1> DEFINE u == SubSeq(s, m + 1, m + n)
<1>1. \A i \in m + 1 .. m + n : s[i] \in S
  BY ElementOfSeq
<1>2. /\ u \in Seq(S)
      /\ Len(u) = IF m + 1 <= m + n THEN ((m + n) - (m + 1)) + 1 ELSE 0
      /\ \A i \in 1 .. ((m + n) - (m + 1)) + 1 : u[i] = s[((m + 1) + i) - 1]
  BY <1>1, SubSeqProperties
<1> HIDE DEF u
<1>3. Len(u) = n
  BY <1>2
<1>4. \A i \in 1 .. n : ((m + 1) + i) - 1 = m + i /\ i \in 1 .. ((m + n) - (m + 1)) + 1
  OBVIOUS
<1>5. \A i \in 1 .. n : u[i] = t[i]
  BY <1>2, <1>4
<1>6. QED
  BY <1>2, <1>3, <1>5, SeqEqual DEF u

\* The field of a name.
LEMMA ReadName ==
  ASSUME NEW s \in Seq(Bytes), tree \in Seq(Bytes), Extends(s, tree),
         NEW o \in Nat, NEW name \in Seq(Letters), Len(name) < 32, NameAt(s, o, name),
         o + 32 <= Len(tree)
  PROVE  PropertyName(o) = name /\ Utf8(name)
<1> DEFINE field == Slice(tree, o, o + PROPERTY_NAME_LEN)
           zeros == {i \in 1 .. Len(field) : field[i] = 0}
           L == Len(name)
<1>1. L \in Nat /\ L < 32
  OBVIOUS
<1>2. \A i \in 1 .. L : name[i] \in Letters
  OBVIOUS
<1>3. \A i \in 1 .. L : name[i] \in Bytes /\ name[i] # 0 /\ name[i] < BYTE \div 2
  BY <1>2, LetterFacts
<1>4. /\ \A i \in 1 .. L : s[o + i] = name[i]
      /\ \A i \in L + 1 .. 32 : s[o + i] = 0
  BY DEF NameAt
<1>n. name \in Seq(Bytes)
  BY <1>3
<1>u. Utf8(name)
  BY <1>3 DEF Utf8
<1> HIDE DEF L
<1>5. /\ field \in Seq(Bytes) /\ Len(field) = 32
      /\ \A i \in 1 .. 32 : field[i] = s[o + i]
  <2>1. field = SubSeq(tree, o + 1, o + 32)
    BY DEF Slice, PROPERTY_NAME_LEN
  <2>2. \A i \in o + 1 .. o + 32 : tree[i] \in Bytes
    BY ElementOfSeq
  <2>3. /\ SubSeq(tree, o + 1, o + 32) \in Seq(Bytes)
        /\ Len(SubSeq(tree, o + 1, o + 32)) = IF o + 1 <= o + 32 THEN ((o + 32) - (o + 1)) + 1 ELSE 0
        /\ \A i \in 1 .. ((o + 32) - (o + 1)) + 1 :
             SubSeq(tree, o + 1, o + 32)[i] = tree[((o + 1) + i) - 1]
    BY <2>2, SubSeqProperties
  <2>4. /\ (IF o + 1 <= o + 32 THEN ((o + 32) - (o + 1)) + 1 ELSE 0) = 32
        /\ ((o + 32) - (o + 1)) + 1 = 32
        /\ \A i \in 1 .. 32 : ((o + 1) + i) - 1 = o + i /\ o + i \in 1 .. Len(tree)
    OBVIOUS
  <2>5. \A i \in 1 .. 32 : tree[o + i] = s[o + i]
    BY <2>4 DEF Extends
  <2>6. QED
    BY <2>1, <2>3, <2>4, <2>5
<1> HIDE DEF field
<1>6. ASSUME NEW i \in 1 .. 32
      PROVE  field[i] = 0 <=> i \in L + 1 .. 32
  <2>1. CASE i \in 1 .. L
    BY <1>3, <1>4, <1>5, <2>1
  <2>2. CASE i \in L + 1 .. 32
    BY <1>4, <1>5, <2>2
  <2>3. QED
    BY <1>1, <2>1, <2>2
<1>7. zeros = L + 1 .. 32
  <2>1. zeros = {i \in 1 .. 32 : field[i] = 0}
    BY <1>5
  <2>2. L + 1 .. 32 \subseteq 1 .. 32
    BY <1>1
  <2>3. QED
    BY <1>6, <2>1, <2>2
<1>z. PropertyName(o) = IF zeros = {} THEN field ELSE SubSeq(field, 1, Min(zeros) - 1)
  BY DEF PropertyName, field
<1> HIDE DEF zeros
<1>8. Min(zeros) = L + 1 /\ zeros # {}
  <2>1. zeros \in SUBSET Nat /\ zeros # {} /\ L + 1 \in zeros
    <3>1. L + 1 .. 32 \in SUBSET Nat /\ L + 1 \in L + 1 .. 32
      BY <1>1
    <3>2. QED
      BY <1>7, <3>1
  <2>2. Min(zeros) \in zeros /\ \A y \in zeros : Min(zeros) <= y
    BY <2>1, MinOfNats
  <2>3. Min(zeros) >= L + 1 /\ Min(zeros) \in Nat
    BY <1>1, <1>7, <2>2
  <2>4. QED
    BY <1>1, <2>1, <2>2, <2>3
<1>9. PropertyName(o) = SubSeq(field, 0 + 1, 0 + L)
  BY <1>1, <1>8, <1>z
<1>10. SubSeq(field, 0 + 1, 0 + L) = name
  <2>1. ASSUME NEW i \in 1 .. L
        PROVE  field[0 + i] = name[i]
    <3>1. 0 + i = i /\ i \in 1 .. 32
      BY <1>1
    <3>2. QED
      BY <1>4, <1>5, <3>1
  <2>2. L = Len(name)
    BY DEF L
  <2>3. QED
    BY <1>1, <1>5, <1>n, <2>1, <2>2, SubSeqIs
<1>11. QED
  BY <1>9, <1>10, <1>u

\* Property::parse reads the property at o, if it is not cut.
LEMMA ReadPropParts ==
  ASSUME NEW s \in Seq(Bytes), tree \in Seq(Bytes), Extends(s, tree), NEW o \in Nat,
         NEW name \in Seq(Letters), Len(name) < 32, NameAt(s, o, name),
         NEW value \in Seq(Bytes), LeAt(s, o + 32, Len(value)), ValueAt(s, o + 36, value),
         FitsU32(Len(value)), NEW end, end = AlignUp4((o + 36) + Len(value))
  PROVE  /\ end <= Len(tree) => /\ PropertyEnd(o) = end /\ PropertyEnd(o) # NONE
                                /\ PropertyName(o) = name /\ PropertyValue(o) = value
         /\ ~(end <= Len(tree)) => PropertyEnd(o) = NONE
<1> DEFINE v == Len(value)
<1>1. v \in Nat /\ Len(tree) \in Nat
  OBVIOUS
<1>2. ValueLen(o) = IF (o + 32) + 4 > Len(tree) THEN NONE ELSE v
  BY <1>1, ReadLeAt DEF ValueLen, PROPERTY_NAME_LEN
<1>v. \A i \in 1 .. v : s[(o + 36) + i] = value[i]
  BY DEF ValueAt
<1> HIDE DEF v
<1>3. end \in Nat /\ (o + 36) + v <= end /\ end = AlignUp4((o + 36) + v)
  <2>1. (o + 36) + v \in Nat
    BY <1>1
  <2>2. QED
    BY <2>1, AlignFacts DEF v
<1>4. ValueStart(o) = o + 36
  BY DEF ValueStart, PROPERTY_NAME_LEN
<1>5. ASSUME end <= Len(tree)
      PROVE  /\ PropertyEnd(o) = end /\ PropertyEnd(o) # NONE
             /\ PropertyName(o) = name /\ PropertyValue(o) = value
  <2>1. o + 32 <= Len(tree) /\ (o + 32) + 4 <= Len(tree) /\ (o + 36) + v <= Len(tree)
    BY <1>1, <1>3, <1>5
  <2>2. PropertyName(o) = name /\ Utf8(PropertyName(o))
    BY <2>1, ReadName
  <2>3. ValueLen(o) = v /\ v # NONE
    BY <1>1, <1>2, <2>1 DEF NONE
  <2>4. AlignUp4(ValueStart(o) + ValueLen(o)) = end
    BY <1>3, <1>4, <2>3
  <2>5. PropertyEnd(o) = end /\ end # NONE
    <3>1. ~(o + PROPERTY_NAME_LEN > Len(tree)) /\ ~(end > Len(tree)) /\ end # NONE
      BY <1>1, <1>3, <1>5, <2>1 DEF PROPERTY_NAME_LEN, NONE
    <3>2. QED
      BY <2>2, <2>3, <2>4, <3>1 DEF PropertyEnd
  <2>6. PropertyValue(o) = value
    <3>1. PropertyValue(o) = SubSeq(tree, (o + 36) + 1, (o + 36) + v)
      BY <1>4, <2>3 DEF PropertyValue, Slice
    <3>2. \A i \in 1 .. v : (o + 36) + i \in 1 .. Len(tree)
      BY <1>1, <2>1
    <3>3. \A i \in 1 .. v : tree[(o + 36) + i] = value[i]
      BY <1>v, <3>2 DEF Extends
    <3>4. o + 36 \in Nat /\ v = Len(value)
      BY DEF v
    <3>5. SubSeq(tree, (o + 36) + 1, (o + 36) + v) = value
      BY <1>1, <2>1, <3>3, <3>4, SubSeqIs
    <3>6. QED
      BY <3>1, <3>5
  <2>7. QED
    BY <2>2, <2>5, <2>6
<1>6. ASSUME ~(end <= Len(tree))
      PROVE  PropertyEnd(o) = NONE
  <2>1. CASE (o + 32) + 4 > Len(tree)
    BY <1>2, <2>1 DEF PropertyEnd
  <2>2. CASE ~((o + 32) + 4 > Len(tree))
    <3>1. AlignUp4(ValueStart(o) + ValueLen(o)) = end
      BY <1>2, <1>3, <1>4, <2>2
    <3>2. end > Len(tree)
      BY <1>1, <1>3, <1>6
    <3>3. QED
      BY <3>1, <3>2 DEF PropertyEnd
  <2>3. QED
    BY <2>1, <2>2
<1>7. QED
  BY <1>5, <1>6

\* Property::parse on the beginning of the loader's bytes: the property that was
\* written, or Err when its end is not there.
LEMMA ReadProp ==
  ASSUME NEW s \in Seq(Bytes), tree \in Seq(Bytes), Extends(s, tree),
         NEW o \in Nat, NEW p \in PropType, PropAt(s, o, p), FitsU32(Len(p.value))
  PROVE  /\ PropEnd(o, p) <= Len(tree) => /\ PropertyEnd(o) = PropEnd(o, p) /\ PropertyEnd(o) # NONE
                                          /\ Prop(PropertyName(o), PropertyValue(o)) = p
         /\ ~(PropEnd(o, p) <= Len(tree)) => PropertyEnd(o) = NONE
<1>1. p.name \in Seq(Letters) /\ Len(p.name) < 32 /\ p.value \in Seq(Bytes) /\ p = Prop(p.name, p.value)
  BY PropTypeFacts
<1>2. NameAt(s, o, p.name) /\ LeAt(s, o + 32, Len(p.value)) /\ ValueAt(s, o + 36, p.value)
  BY DEF PropAt
<1>3. PropEnd(o, p) = AlignUp4((o + 36) + Len(p.value))
  BY DEF PropEnd
<1> HIDE DEF PropEnd, PropAt
<1>4. /\ PropEnd(o, p) <= Len(tree) => /\ PropertyEnd(o) = PropEnd(o, p) /\ PropertyEnd(o) # NONE
                                       /\ PropertyName(o) = p.name /\ PropertyValue(o) = p.value
      /\ ~(PropEnd(o, p) <= Len(tree)) => PropertyEnd(o) = NONE
  BY <1>1, <1>2, <1>3, ReadPropParts
<1>5. QED
  BY <1>1, <1>4

-----------------------------------------------------------------------------
(* What the loader writes. *)

\* Concatenation, index by index.
LEMMA ConcatFacts ==
  ASSUME NEW S, NEW s \in Seq(S), NEW t \in Seq(S)
  PROVE  /\ s \o t \in Seq(S) /\ Len(s \o t) = Len(s) + Len(t)
         /\ Len(s) \in Nat /\ Len(t) \in Nat
         /\ \A i \in 1 .. Len(s) : (s \o t)[i] = s[i]
         /\ \A i \in 1 .. Len(t) : (s \o t)[Len(s) + i] = t[i]
<1>1. /\ s \o t \in Seq(S) /\ Len(s \o t) = Len(s) + Len(t)
      /\ \A i \in 1 .. Len(s) + Len(t) : (s \o t)[i] = IF i <= Len(s) THEN s[i] ELSE t[i - Len(s)]
  BY ConcatProperties
<1>2. Len(s) \in Nat /\ Len(t) \in Nat
  OBVIOUS
<1> DEFINE u == s \o t
           a == Len(s)
           b == Len(t)
<1> HIDE DEF u, a, b
<1>3. \A i \in 1 .. a + b : u[i] = IF i <= a THEN s[i] ELSE t[i - a]
  BY <1>1 DEF u, a, b
<1>4. a \in Nat /\ b \in Nat
  BY <1>2 DEF a, b
<1>5. \A i \in 1 .. a : u[i] = s[i]
  BY <1>3, <1>4
<1>6. ASSUME NEW i \in 1 .. b
      PROVE  u[a + i] = t[i]
  <2>1. a + i \in 1 .. a + b /\ ~(a + i <= a) /\ (a + i) - a = i
    BY <1>4
  <2>2. QED
    BY <1>3, <2>1
<1>7. QED
  BY <1>1, <1>2, <1>5, <1>6 DEF u, a, b

\* u is s followed by the n bytes t.
Joined(u, s, t, n) ==
  /\ u \in Seq(Bytes) /\ Len(u) = Len(s) + n /\ Extends(u, s)
  /\ \A i \in 1 .. n : u[Len(s) + i] = t[i]

\* extend_from_slice: what was there stays, and the rest follows.
LEMMA JoinedFacts ==
  ASSUME NEW s \in Seq(Bytes), NEW t \in Seq(Bytes), NEW n, n = Len(t)
  PROVE  Joined(s \o t, s, t, n)
<1>1. /\ s \o t \in Seq(Bytes) /\ Len(s \o t) = Len(s) + n /\ Len(s) \in Nat /\ n \in Nat
      /\ \A i \in 1 .. Len(s) : (s \o t)[i] = s[i]
      /\ \A i \in 1 .. n : (s \o t)[Len(s) + i] = t[i]
  BY ConcatFacts
<1>2. Len(s) <= Len(s \o t)
  BY <1>1
<1>3. QED
  BY <1>1, <1>2 DEF Joined, Extends

\* A beginning of a beginning is a beginning.
LEMMA ExtendsTrans ==
  ASSUME NEW S, NEW s \in Seq(S), NEW t \in Seq(S), NEW u \in Seq(S),
         Extends(t, s), Extends(u, t)
  PROVE  Extends(u, s)
<1>1. Len(s) \in Nat /\ Len(t) \in Nat /\ Len(u) \in Nat
  OBVIOUS
<1>2. 1 .. Len(s) \subseteq 1 .. Len(t) /\ Len(s) <= Len(u)
  BY <1>1 DEF Extends
<1>3. QED
  BY <1>2 DEF Extends

\* What is in a sequence is in its extensions.
LEMMA LeAtExtends ==
  ASSUME NEW s \in Seq(Bytes), NEW t, Extends(t, s), NEW o \in Nat, NEW n,
         LeAt(s, o, n), o + 4 <= Len(s)
  PROVE  LeAt(t, o, n)
<1>1. \A i \in 1 .. 4 : o + i \in 1 .. Len(s)
  OBVIOUS
<1>2. \A i \in 1 .. 4 : t[o + i] = s[o + i]
  BY <1>1 DEF Extends
<1>3. QED
  BY <1>2 DEF LeAt

\* So is a name,
LEMMA NameAtExtends ==
  ASSUME NEW s \in Seq(Bytes), NEW t, Extends(t, s), NEW o \in Nat, NEW L \in Nat, NEW name,
         L = Len(name), L < 32, NameAt(s, o, name), o + 32 <= Len(s)
  PROVE  NameAt(t, o, name)
<1>1. \A i \in 1 .. 32 : o + i \in 1 .. Len(s)
  OBVIOUS
<1>2. \A i \in 1 .. 32 : t[o + i] = s[o + i]
  BY <1>1 DEF Extends
<1>3. /\ \A i \in 1 .. L : i \in 1 .. 32
      /\ \A i \in L + 1 .. 32 : i \in 1 .. 32
  OBVIOUS
<1>4. /\ \A i \in 1 .. L : t[o + i] = s[o + i]
      /\ \A i \in L + 1 .. 32 : t[o + i] = s[o + i]
  BY <1>2, <1>3
<1>5. QED
  BY <1>4 DEF NameAt

\* a value,
LEMMA ValueAtExtends ==
  ASSUME NEW s \in Seq(Bytes), NEW t, Extends(t, s), NEW o \in Nat, NEW n \in Nat, NEW value,
         n = Len(value), ValueAt(s, o, value), o + n <= Len(s)
  PROVE  ValueAt(t, o, value)
<1>1. \A i \in 1 .. n : o + i \in 1 .. Len(s)
  OBVIOUS
<1>2. \A i \in 1 .. n : t[o + i] = s[o + i]
  BY <1>1 DEF Extends
<1>3. QED
  BY <1>2 DEF ValueAt

\* a node's header,
LEMMA HeaderAtExtends ==
  ASSUME NEW s \in Seq(Bytes), NEW t, Extends(t, s), NEW o \in Nat, NEW n,
         HeaderAt(s, o, n), o + 8 <= Len(s)
  PROVE  HeaderAt(t, o, n)
<1>1. LeAt(s, o, Len(n.props)) /\ LeAt(s, o + 4, Len(n.children))
  BY DEF HeaderAt
<1>2. o + 4 <= Len(s) /\ (o + 4) + 4 <= Len(s) /\ o + 4 \in Nat
  OBVIOUS
<1>3. LeAt(t, o, Len(n.props)) /\ LeAt(t, o + 4, Len(n.children))
  BY <1>1, <1>2, LeAtExtends
<1>4. QED
  BY <1>3 DEF HeaderAt

\* Where a property ends.
LEMMA PropEndFacts ==
  ASSUME NEW o \in Nat, NEW p \in PropType
  PROVE  /\ PropEnd(o, p) \in Nat /\ PropEnd(o, p) % 4 = 0
         /\ (o + 36) + Len(p.value) <= PropEnd(o, p) /\ o + 36 <= PropEnd(o, p)
<1> DEFINE v == Len(p.value)
<1>1. v \in Nat
  BY PropTypeFacts
<1>2. PropEnd(o, p) = AlignUp4((o + 36) + v)
  BY DEF PropEnd
<1> HIDE DEF v
<1>3. (o + 36) + v \in Nat
  BY <1>1
<1>4. PropEnd(o, p) \in Nat /\ PropEnd(o, p) % 4 = 0 /\ (o + 36) + v <= PropEnd(o, p)
  BY <1>2, <1>3, AlignFacts
<1>5. o + 36 <= PropEnd(o, p)
  BY <1>1, <1>4
<1>6. (o + 36) + Len(p.value) <= PropEnd(o, p)
  BY <1>4 DEF v
<1>7. QED
  BY <1>4, <1>5, <1>6

\* and a property.
LEMMA PropAtExtends ==
  ASSUME NEW s \in Seq(Bytes), NEW t, Extends(t, s), NEW o \in Nat, NEW p \in PropType,
         PropAt(s, o, p), PropEnd(o, p) <= Len(s)
  PROVE  PropAt(t, o, p)
<1>1. Len(p.name) \in Nat /\ Len(p.name) < 32 /\ Len(p.value) \in Nat
  BY PropTypeFacts
<1>2. /\ PropEnd(o, p) \in Nat /\ (o + 36) + Len(p.value) <= PropEnd(o, p)
      /\ o + 36 <= PropEnd(o, p)
  BY PropEndFacts
<1>3. NameAt(s, o, p.name) /\ LeAt(s, o + 32, Len(p.value)) /\ ValueAt(s, o + 36, p.value)
  BY DEF PropAt
<1> DEFINE v == Len(p.value)
<1> HIDE DEF v
<1>4. v \in Nat /\ (o + 36) + v <= PropEnd(o, p)
  BY <1>1, <1>2 DEF v
<1>5. /\ o + 32 <= Len(s) /\ (o + 32) + 4 <= Len(s) /\ (o + 36) + v <= Len(s)
      /\ o + 32 \in Nat /\ o + 36 \in Nat
  BY <1>2, <1>4
<1>6. NameAt(t, o, p.name)
  BY <1>1, <1>3, <1>5, NameAtExtends
<1>7. LeAt(t, o + 32, Len(p.value))
  BY <1>3, <1>5, LeAtExtends
<1>8. ValueAt(t, o + 36, p.value)
  BY <1>1, <1>3, <1>5, ValueAtExtends DEF v
<1>9. QED
  BY <1>6, <1>7, <1>8 DEF PropAt

\* The header that WriteNode writes.
LEMMA WroteHeader ==
  ASSUME NEW s \in Seq(Bytes), NEW a \in Nat, NEW b \in Nat
  PROVE  LET t == s \o Le(a) \o Le(b)
         IN  /\ t \in Seq(Bytes) /\ Len(t) = Len(s) + 8 /\ Extends(t, s)
             /\ LeAt(t, Len(s), a) /\ LeAt(t, Len(s) + 4, b)
<1> DEFINE u == s \o Le(a)
           t == u \o Le(b)
<1>1. Le(a) \in Seq(Bytes) /\ Len(Le(a)) = 4 /\ Le(b) \in Seq(Bytes) /\ Len(Le(b)) = 4
  BY LeType
<1>2. Joined(u, s, Le(a), 4)
  BY <1>1, JoinedFacts
<1>3. /\ u \in Seq(Bytes) /\ Len(u) = Len(s) + 4 /\ Extends(u, s) /\ Len(s) \in Nat
      /\ LeAt(u, Len(s), a)
  BY <1>2 DEF Joined, LeAt
<1> HIDE DEF u
<1>4. Joined(t, u, Le(b), 4)
  BY <1>1, <1>3, JoinedFacts
<1>5. t \in Seq(Bytes) /\ Len(t) = Len(u) + 4 /\ Extends(t, u) /\ LeAt(t, Len(u), b)
  BY <1>4 DEF Joined, LeAt
<1> HIDE DEF t
<1>6. Len(t) = Len(s) + 8
  BY <1>3, <1>5
<1>7. Extends(t, s)
  BY <1>3, <1>5, ExtendsTrans
<1>8. LeAt(t, Len(s), a)
  <2>1. Len(s) + 4 <= Len(u)
    BY <1>3
  <2>2. QED
    BY <1>3, <1>5, <2>1, LeAtExtends
<1>9. LeAt(t, Len(s) + 4, b)
  BY <1>3, <1>5
<1>10. QED
  BY <1>5, <1>6, <1>7, <1>8, <1>9 DEF t, u

\* A text of equal bytes.
LEMMA TextFacts ==
  ASSUME NEW n \in Nat, NEW S, NEW c \in S
  PROVE  /\ Text(n, c) \in Seq(S) /\ Len(Text(n, c)) = n
         /\ \A i \in 1 .. n : Text(n, c)[i] = c
  BY DEF Text

\* Pad.
LEMMA PadFacts ==
  ASSUME NEW s \in Seq(Bytes)
  PROVE  /\ Pad(s) \in Seq(Bytes) /\ Extends(Pad(s), s)
         /\ Len(Pad(s)) = AlignUp4(Len(s))
<1> DEFINE n == (4 - (Len(s) % 4)) % 4
<1>1. Len(s) \in Nat
  OBVIOUS
<1>2. n \in Nat
  BY <1>1
<1>3. AlignUp4(Len(s)) = Len(s) + n
  BY <1>1, AlignFacts
<1>4. Pad(s) = s \o Text(n, 0)
  BY DEF Pad
<1> HIDE DEF n
<1>5. Text(n, 0) \in Seq(Bytes) /\ Len(Text(n, 0)) = n
  BY <1>2, TextFacts, ByteFacts
<1>6. Joined(Pad(s), s, Text(n, 0), n)
  BY <1>4, <1>5, JoinedFacts
<1>7. QED
  BY <1>3, <1>6 DEF Joined

\* t is s with a property behind it.
Wrote(t, s, name, value) ==
  /\ t \in Seq(Bytes) /\ Extends(t, s)
  /\ Len(t) = AlignUp4((Len(s) + 36) + Len(value))
  /\ NameAt(t, Len(s), name)
  /\ LeAt(t, Len(s) + 32, Len(value)) /\ ValueAt(t, Len(s) + 36, value)

\* The property that WriteProp writes.
LEMMA WrotePropParts ==
  ASSUME NEW s \in Seq(Bytes), NEW name \in Seq(Letters), NEW value \in Seq(Bytes),
         Len(name) < 32
  PROVE  Wrote(Pad(s \o (name \o Text(NAME_LEN - Len(name), 0) \o Le(Len(value)) \o value)),
               s, name, value)
<1> DEFINE t == Pad(s \o (name \o Text(NAME_LEN - Len(name), 0) \o Le(Len(value)) \o value))
<1> DEFINE L == Len(name)
           v == Len(value)
           o == Len(s)
           zeros == Text(NAME_LEN - L, 0)
           u1 == name \o zeros
           u2 == u1 \o Le(v)
           u3 == u2 \o value
           u4 == s \o u3
<1>1. L \in Nat /\ L < 32 /\ v \in Nat /\ o \in Nat /\ 32 - L \in Nat
  OBVIOUS
<1>2. name \in Seq(Bytes)
  BY LetterFacts
<1>l. L = Len(name) /\ v = Len(value) /\ o = Len(s)
  OBVIOUS
<1>d. t = Pad(u4)
  OBVIOUS
<1>w. Wrote(t, s, name, value) => Wrote(Pad(s \o (name \o Text(NAME_LEN - Len(name), 0)
                                                    \o Le(Len(value)) \o value)), s, name, value)
  OBVIOUS
<1> HIDE DEF L, v, o, t
<1>4. /\ zeros \in Seq(Bytes) /\ Len(zeros) = 32 - L
      /\ \A i \in 1 .. 32 - L : zeros[i] = 0
  <2>1. zeros = Text(32 - L, 0)
    BY DEF NAME_LEN
  <2>2. QED
    BY <1>1, <2>1, TextFacts, ByteFacts
<1> HIDE DEF zeros
<1>j1. Joined(u1, name, zeros, 32 - L)
  BY <1>2, <1>4, JoinedFacts
<1>5. /\ u1 \in Seq(Bytes) /\ Len(u1) = L + (32 - L) /\ Extends(u1, name)
      /\ \A i \in 1 .. 32 - L : u1[L + i] = zeros[i]
  BY <1>j1, <1>l DEF Joined
<1>6. Le(v) \in Seq(Bytes) /\ Len(Le(v)) = 4
  BY <1>1, LeType
<1> HIDE DEF u1
<1>7. Len(u1) = 32
  BY <1>1, <1>5
<1>8. /\ u2 \in Seq(Bytes) /\ Len(u2) = 32 + 4 /\ Extends(u2, u1)
      /\ \A i \in 1 .. 4 : u2[32 + i] = Le(v)[i]
  <2>1. Joined(u2, u1, Le(v), 4)
    BY <1>5, <1>6, JoinedFacts
  <2>2. QED
    BY <1>7, <2>1 DEF Joined
<1> HIDE DEF u2
<1>9. /\ u3 \in Seq(Bytes) /\ Len(u3) = Len(u2) + v /\ Extends(u3, u2)
      /\ \A i \in 1 .. v : u3[Len(u2) + i] = value[i]
  <2>1. Joined(u3, u2, value, v)
    BY <1>8, <1>l, JoinedFacts
  <2>2. QED
    BY <2>1 DEF Joined
<1> HIDE DEF u3
<1>10. /\ Len(u3) = 36 + v
       /\ \A i \in 1 .. v : u3[36 + i] = value[i]
  BY <1>8, <1>9
<1>11. /\ u4 \in Seq(Bytes) /\ Len(u4) = o + (36 + v) /\ Extends(u4, s)
       /\ \A i \in 1 .. 36 + v : u4[o + i] = u3[i]
  <2>1. Joined(u4, s, u3, 36 + v)
    BY <1>9, <1>10, JoinedFacts
  <2>2. QED
    BY <2>1, <1>l DEF Joined
<1> HIDE DEF u4
<1>12. t \in Seq(Bytes) /\ Extends(t, u4) /\ Len(t) = AlignUp4(Len(u4))
  BY <1>d, <1>11, PadFacts
<1>13. Extends(t, s)
  BY <1>11, <1>12, ExtendsTrans
<1>14. Len(t) = AlignUp4((o + 36) + v)
  <2>1. Len(u4) = (o + 36) + v
    BY <1>1, <1>11
  <2>2. QED
    BY <1>12, <2>1
<1>15. \A i \in 1 .. 36 + v : t[o + i] = u3[i]
  <2>1. \A i \in 1 .. 36 + v : o + i \in 1 .. Len(u4)
    BY <1>1, <1>11
  <2>2. \A i \in 1 .. 36 + v : t[o + i] = u4[o + i]
    BY <1>12, <2>1 DEF Extends
  <2>3. QED
    BY <1>11, <2>2
<1>16. \A i \in 1 .. 36 : u3[i] = u2[i]
  <2>1. Len(u2) = 36
    BY <1>8
  <2>2. QED
    BY <1>9, <2>1 DEF Extends
<1>17. \A i \in 1 .. 32 : u2[i] = u1[i]
  BY <1>7, <1>8 DEF Extends
<1>18. \A i \in 1 .. 32 : t[o + i] = u1[i]
  <2>1. \A i \in 1 .. 32 : i \in 1 .. 36 /\ i \in 1 .. 36 + v
    BY <1>1
  <2>2. QED
    BY <1>15, <1>16, <1>17, <2>1
<1>19. NameAt(t, o, name)
  <2>1. ASSUME NEW i \in 1 .. L
        PROVE  t[o + i] = name[i]
    <3>1. i \in 1 .. 32
      BY <1>1
    <3>2. u1[i] = name[i]
      BY <1>5, <1>l DEF Extends
    <3>3. QED
      BY <1>18, <3>1, <3>2
  <2>2. ASSUME NEW i \in L + 1 .. 32
        PROVE  t[o + i] = 0
    <3>1. i \in 1 .. 32 /\ i - L \in 1 .. 32 - L /\ L + (i - L) = i
      BY <1>1
    <3>2. u1[i] = 0
      BY <1>4, <1>5, <3>1
    <3>3. QED
      BY <1>18, <3>1, <3>2
  <2>3. QED
    BY <2>1, <2>2, <1>l DEF NameAt
<1>20. LeAt(t, o + 32, v)
  <2>1. ASSUME NEW i \in 1 .. 4
        PROVE  t[(o + 32) + i] = Le(v)[i]
    <3>1. 32 + i \in 1 .. 36 /\ 32 + i \in 1 .. 36 + v /\ (o + 32) + i = o + (32 + i)
      BY <1>1
    <3>2. t[o + (32 + i)] = u2[32 + i]
      BY <1>15, <1>16, <3>1
    <3>3. QED
      BY <1>8, <3>1, <3>2
  <2>2. QED
    BY <2>1 DEF LeAt
<1>21. ValueAt(t, o + 36, value)
  <2>1. ASSUME NEW i \in 1 .. v
        PROVE  t[(o + 36) + i] = value[i]
    <3>1. 36 + i \in 1 .. 36 + v /\ (o + 36) + i = o + (36 + i)
      BY <1>1
    <3>2. t[o + (36 + i)] = u3[36 + i]
      BY <1>15, <3>1
    <3>3. QED
      BY <1>10, <3>1, <3>2
  <2>2. QED
    BY <2>1, <1>l DEF ValueAt
<1>22. Wrote(t, s, name, value)
  BY <1>12, <1>13, <1>14, <1>19, <1>20, <1>21, <1>l DEF Wrote
<1>23. QED
  BY <1>22, <1>w

\* write_adt_prop puts the property at the end, and pads it.
LEMMA WroteProp ==
  ASSUME NEW s \in Seq(Bytes), NEW p \in PropType
  PROVE  LET t == Pad(s \o PropBytes(p))
         IN  /\ t \in Seq(Bytes) /\ Extends(t, s)
             /\ Len(t) = PropEnd(Len(s), p) /\ PropAt(t, Len(s), p)
<1>1. p.name \in Seq(Letters) /\ Len(p.name) < 32 /\ p.value \in Seq(Bytes)
  BY PropTypeFacts
<1> DEFINE t == Pad(s \o PropBytes(p))
<1>2. t = Pad(s \o (p.name \o Text(NAME_LEN - Len(p.name), 0) \o Le(Len(p.value)) \o p.value))
  BY DEF PropBytes
<1> HIDE DEF t
<1>3. Wrote(t, s, p.name, p.value)
  BY <1>1, <1>2, WrotePropParts
<1>4. QED
  BY <1>3 DEF Wrote, PropEnd, PropAt, t

-----------------------------------------------------------------------------
(* The boot arguments. *)

\* The ends of the fields of BootArgs.
Ends == <<0, 2, 4, 16, 24, 32, 40, 88, 92, 104, 108, 1132, 1144, 1152>>

\* The fields of the loader's BootArgs.
LEMMA FieldFacts ==
  /\ Len(LoaderBootArgs) = 13
  /\ LoaderBootArgs[1] = <<"revision", 2, 2>> /\ LoaderBootArgs[2] = <<"version", 2, 2>>
  /\ LoaderBootArgs[3] = <<"virt_base", 8, 8>> /\ LoaderBootArgs[4] = <<"phys_base", 8, 8>>
  /\ LoaderBootArgs[5] = <<"mem_size", 8, 8>> /\ LoaderBootArgs[6] = <<"top_of_kernel_data", 8, 8>>
  /\ LoaderBootArgs[7] = <<"video", 48, 8>> /\ LoaderBootArgs[8] = <<"machine_type", 4, 4>>
  /\ LoaderBootArgs[9] = <<"device_tree_p", 8, 8>>
  /\ LoaderBootArgs[10] = <<"device_tree_length", 4, 4>>
  /\ LoaderBootArgs[11] = <<"command_line", 1024, 1>> /\ LoaderBootArgs[12] = <<"boot_flags", 8, 8>>
  /\ LoaderBootArgs[13] = <<"mem_size_actual", 8, 8>>
  BY DEF LoaderBootArgs

\* The values of Ends.
LEMMA EndsFacts ==
  /\ Ends[1] = 0 /\ Ends[2] = 2 /\ Ends[3] = 4 /\ Ends[4] = 16 /\ Ends[5] = 24 /\ Ends[6] = 32
  /\ Ends[7] = 40 /\ Ends[8] = 88 /\ Ends[9] = 92 /\ Ends[10] = 104 /\ Ends[11] = 108
  /\ Ends[12] = 1132 /\ Ends[13] = 1144 /\ Ends[14] = 1152
  BY DEF Ends

\* FieldEnds is defined: Ends satisfies its recursion.
LEMMA FieldEndsFacts ==
  LET E == FieldEnds(LoaderBootArgs)
  IN  E = [i \in 0 .. 13 |-> IF i = 0 THEN 0 ELSE RoundUp(E[i - 1], LoaderBootArgs[i][3])
                                                    + LoaderBootArgs[i][2]]
<1> DEFINE Step(e) == [i \in 0 .. 13 |-> IF i = 0 THEN 0
                         ELSE RoundUp(e[i - 1], LoaderBootArgs[i][3]) + LoaderBootArgs[i][2]]
           w == [i \in 0 .. 13 |-> Ends[i + 1]]
           E == FieldEnds(LoaderBootArgs)
<1>1. E = CHOOSE e : e = Step(e)
  BY FieldFacts DEF FieldEnds
<1>2. w = Step(w)
  <2>1. ASSUME NEW i \in 0 .. 13
        PROVE  w[i] = IF i = 0 THEN 0 ELSE RoundUp(w[i - 1], LoaderBootArgs[i][3]) + LoaderBootArgs[i][2]
    <3>0. /\ w[0] = 0 /\ w[1] = 2 /\ w[2] = 4 /\ w[3] = 16 /\ w[4] = 24 /\ w[5] = 32
          /\ w[6] = 40 /\ w[7] = 88 /\ w[8] = 92 /\ w[9] = 104 /\ w[10] = 108
          /\ w[11] = 1132 /\ w[12] = 1144 /\ w[13] = 1152
      BY EndsFacts
    <3> HIDE DEF w
    <3>1. CASE i \in 0 .. 3
      BY <3>0, <3>1, FieldFacts DEF RoundUp
    <3>2. CASE i \in 4 .. 6
      BY <3>0, <3>2, FieldFacts DEF RoundUp
    <3>3. CASE i \in 7 .. 9
      BY <3>0, <3>3, FieldFacts DEF RoundUp
    <3>4. CASE i \in 10 .. 11
      BY <3>0, <3>4, FieldFacts DEF RoundUp
    <3>5. CASE i \in 12 .. 13
      BY <3>0, <3>5, FieldFacts DEF RoundUp
    <3>6. QED
      BY <3>1, <3>2, <3>3, <3>4, <3>5
  <2>2. w = [i \in 0 .. 13 |-> w[i]]
    OBVIOUS
  <2> HIDE DEF w
  <2>3. QED
    BY <2>1, <2>2
<1> HIDE DEF w, E, Step
<1>3. E = Step(E)
  BY <1>1, <1>2
<1>4. QED
  BY <1>3 DEF E, Step

\* The ends before the fields that are read.
LEMMA FieldEndValues ==
  LET E == FieldEnds(LoaderBootArgs)
  IN  E[0] = 0 /\ E[1] = 2 /\ E[8] = 92 /\ E[9] = 104
<1> DEFINE E == FieldEnds(LoaderBootArgs)
<1>1. E = [i \in 0 .. 13 |-> IF i = 0 THEN 0 ELSE RoundUp(E[i - 1], LoaderBootArgs[i][3])
                                                    + LoaderBootArgs[i][2]]
  BY FieldEndsFacts
<1> HIDE DEF E
<1>2. E[0] = 0
  BY <1>1
<1>3. \A i \in 1 .. 13 : E[i] = RoundUp(E[i - 1], LoaderBootArgs[i][3]) + LoaderBootArgs[i][2]
  <2>1. \A i \in 1 .. 13 : i \in 0 .. 13 /\ i # 0
    OBVIOUS
  <2>2. QED
    BY <1>1, <2>1
<1>4. E[1] = 2
  BY <1>2, <1>3, FieldFacts DEF RoundUp
<1>5. E[2] = 4
  BY <1>3, <1>4, FieldFacts DEF RoundUp
<1>6. E[3] = 16
  BY <1>3, <1>5, FieldFacts DEF RoundUp
<1>7. E[4] = 24
  BY <1>3, <1>6, FieldFacts DEF RoundUp
<1>8. E[5] = 32
  BY <1>3, <1>7, FieldFacts DEF RoundUp
<1>9. E[6] = 40
  BY <1>3, <1>8, FieldFacts DEF RoundUp
<1>10. E[7] = 88
  BY <1>3, <1>9, FieldFacts DEF RoundUp
<1>11. E[8] = 92
  BY <1>3, <1>10, FieldFacts DEF RoundUp
<1>12. E[9] = 104
  BY <1>3, <1>11, FieldFacts DEF RoundUp
<1>13. QED
  BY <1>2, <1>4, <1>11, <1>12 DEF E

\* Where the loader puts what it passes, and the kernel looks for it.
LEMMA OffsetFacts ==
  /\ LoaderOffset["revision"] = 0 /\ LoaderOffset["version"] = 2
  /\ LoaderOffset["device_tree_p"] = 96 /\ LoaderOffset["device_tree_length"] = 104
  /\ KernelOffset = LoaderOffset
<1> DEFINE F == LoaderBootArgs
           names == {F[i][1] : i \in 1 .. 13}
           k(name) == CHOOSE i \in 1 .. 13 : F[i][1] = name
<1>1. LoaderOffset = [name \in names |-> RoundUp(FieldEnds(F)[k(name) - 1], F[k(name)][3])]
  BY FieldFacts DEF LoaderOffset, Offsets
<1>2. /\ k("revision") = 1 /\ "revision" \in names
  <2>1. F[1][1] = "revision" /\ \A i \in 1 .. 13 : F[i][1] = "revision" => i = 1
    BY FieldFacts
  <2>2. QED
    BY <2>1
<1>3. /\ k("version") = 2 /\ "version" \in names
  <2>1. F[2][1] = "version" /\ \A i \in 1 .. 13 : F[i][1] = "version" => i = 2
    BY FieldFacts
  <2>2. QED
    BY <2>1
<1>4. /\ k("device_tree_p") = 9 /\ "device_tree_p" \in names
  <2>1. F[9][1] = "device_tree_p" /\ \A i \in 1 .. 13 : F[i][1] = "device_tree_p" => i = 9
    BY FieldFacts
  <2>2. QED
    BY <2>1
<1>5. /\ k("device_tree_length") = 10 /\ "device_tree_length" \in names
  <2>1. F[10][1] = "device_tree_length" /\ \A i \in 1 .. 13 : F[i][1] = "device_tree_length" => i = 10
    BY FieldFacts
  <2>2. QED
    BY <2>1
<1> HIDE DEF names, k
<1>6. LoaderOffset["revision"] = RoundUp(FieldEnds(F)[0], F[1][3])
  BY <1>1, <1>2
<1>7. LoaderOffset["version"] = RoundUp(FieldEnds(F)[1], F[2][3])
  BY <1>1, <1>3
<1>8. LoaderOffset["device_tree_p"] = RoundUp(FieldEnds(F)[8], F[9][3])
  BY <1>1, <1>4
<1>9. LoaderOffset["device_tree_length"] = RoundUp(FieldEnds(F)[9], F[10][3])
  BY <1>1, <1>5
<1>10. /\ F[1][3] = 2 /\ F[2][3] = 2 /\ F[9][3] = 8 /\ F[10][3] = 4
  BY FieldFacts
<1>11. KernelOffset = LoaderOffset
  BY DEF KernelOffset, LoaderOffset, KernelBootArgs, LoaderBootArgs
<1>12. /\ RoundUp(0, 2) = 0 /\ RoundUp(2, 2) = 2 /\ RoundUp(92, 8) = 96 /\ RoundUp(104, 4) = 104
  BY DEF RoundUp
<1>13. QED
  BY <1>6, <1>7, <1>8, <1>9, <1>10, <1>11, <1>12, FieldEndValues

\* Each field of a page has its own place.
LEMMA BootArgsFacts ==
  ASSUME NEW len
  PROVE  LET pg == BootArgs(len)
         IN  /\ DOMAIN pg = {0, 2, 96, 104}
             /\ pg[0] = VERSION2 /\ pg[2] = VERSION2 /\ pg[96] = ADT_ADDRESS /\ pg[104] = len
<1> DEFINE values == [revision |-> VERSION2, version |-> VERSION2,
                      device_tree_p |-> ADT_ADDRESS, device_tree_length |-> len]
           D == DOMAIN values
           field(o) == CHOOSE f \in D : LoaderOffset[f] = o
           pg == BootArgs(len)
<1>1. D = {"revision", "version", "device_tree_p", "device_tree_length"}
  OBVIOUS
<1>2. pg = [o \in {LoaderOffset[f] : f \in D} |-> values[field(o)]]
  BY DEF BootArgs
<1>v. /\ values["revision"] = VERSION2 /\ values["version"] = VERSION2
      /\ values["device_tree_p"] = ADT_ADDRESS /\ values["device_tree_length"] = len
  OBVIOUS
<1> HIDE DEF values, D, pg
<1>3. {LoaderOffset[f] : f \in D} = {0, 2, 96, 104}
  BY <1>1, OffsetFacts
<1>4. field(0) = "revision"
  <2>1. "revision" \in D /\ \A f \in D : LoaderOffset[f] = 0 <=> f = "revision"
    BY <1>1, OffsetFacts
  <2>2. QED
    BY <2>1
<1>5. field(2) = "version"
  <2>1. "version" \in D /\ \A f \in D : LoaderOffset[f] = 2 <=> f = "version"
    BY <1>1, OffsetFacts
  <2>2. QED
    BY <2>1
<1>6. field(96) = "device_tree_p"
  <2>1. "device_tree_p" \in D /\ \A f \in D : LoaderOffset[f] = 96 <=> f = "device_tree_p"
    BY <1>1, OffsetFacts
  <2>2. QED
    BY <2>1
<1>7. field(104) = "device_tree_length"
  <2>1. "device_tree_length" \in D /\ \A f \in D : LoaderOffset[f] = 104 <=> f = "device_tree_length"
    BY <1>1, OffsetFacts
  <2>2. QED
    BY <2>1
<1> HIDE DEF field
<1>8. QED
  BY <1>2, <1>3, <1>4, <1>5, <1>6, <1>7, <1>v DEF pg

\* What the kernel reads of a page is what the loader passed.
LEMMA ArgFacts ==
  ASSUME NEW len, page = BootArgs(len)
  PROVE  /\ Arg("revision") = VERSION2 /\ Arg("version") = VERSION2
         /\ Arg("device_tree_p") # NULL /\ Arg("device_tree_length") = len
         /\ page[LoaderOffset["device_tree_length"]] = len
<1>1. /\ DOMAIN page = {0, 2, 96, 104}
      /\ page[0] = VERSION2 /\ page[2] = VERSION2 /\ page[96] = ADT_ADDRESS /\ page[104] = len
  BY BootArgsFacts
<1>2. QED
  BY <1>1, OffsetFacts DEF Arg, ADT_ADDRESS, NULL
-----------------------------------------------------------------------------
(* The parser. *)

\* A set of nodes that holds the children of its nodes; each of them has a name.
NodeType(T) == [props : Seq(PropType), children : Seq(T)]
Named(n) == \E i \in 1 .. Len(n.props) : n.props[i].name = NAME
Trees(T) == \A n \in T : n \in NodeType(T) /\ Named(n)

OpenType(T) == [name : Seq(Bytes), props : Seq(PropType), children : Seq(T)]
CallType(T) == [node : T, depth : Nat]

ParserInv ==
  /\ stage \in {"find", "new", "parse", "write", "built", "kernel", "refused", "no_memory"}
  /\ tables \in ConfigTables
  /\ fdt \in Seq(Bytes)
  /\ stage = "find" => pos = 0 /\ strings_offset = 0 /\ open = <<>>
  /\ stage \in {"new", "parse"} => Len(fdt) >= 40
  /\ pos \in 0 .. Len(fdt) + 3 /\ strings_offset \in 0 .. Len(fdt)
  /\ pending \in Seq(PropType)
  /\ \E T : Trees(T) /\ open \in Seq(OpenType(T)) /\ work \in Seq(CallType(T))

\* One byte more of a big-endian number.
LEMMA HornerNat ==
  ASSUME NEW a \in Nat, NEW b \in Nat
  PROVE  a * BYTE + b \in Nat
  BY ByteFacts

\* read_be_u32 returns a number, or NONE past the end.
LEMMA ReadBeFacts ==
  ASSUME NEW s \in Seq(Bytes), NEW o \in Nat
  PROVE  /\ o + 4 > Len(s) => ReadBe(s, o) = NONE
         /\ o + 4 <= Len(s) => ReadBe(s, o) \in Nat
         /\ ReadBe(s, o) # NONE => o + 4 <= Len(s) /\ ReadBe(s, o) \in Nat
<1>1. Len(s) \in Nat
  OBVIOUS
<1>2. ASSUME o + 4 <= Len(s)
      PROVE  ReadBe(s, o) \in Nat
  <2>1. /\ At(s, o) \in Nat /\ At(s, o + 1) \in Nat /\ At(s, o + 2) \in Nat /\ At(s, o + 3) \in Nat
    <3>1. \A i \in 1 .. Len(s) : s[i] \in Nat
      BY ByteFacts DEF Bytes
    <3>2. /\ o + 1 \in 1 .. Len(s) /\ (o + 1) + 1 \in 1 .. Len(s)
          /\ (o + 2) + 1 \in 1 .. Len(s) /\ (o + 3) + 1 \in 1 .. Len(s)
      BY <1>1, <1>2
    <3>3. QED
      BY <3>1, <3>2 DEF At
  <2>2. At(s, o) * BYTE + At(s, o + 1) \in Nat
    BY <2>1, HornerNat
  <2>3. (At(s, o) * BYTE + At(s, o + 1)) * BYTE + At(s, o + 2) \in Nat
    BY <2>1, <2>2, HornerNat
  <2>4. ((At(s, o) * BYTE + At(s, o + 1)) * BYTE + At(s, o + 2)) * BYTE + At(s, o + 3) \in Nat
    BY <2>1, <2>3, HornerNat
  <2>5. QED
    BY <1>1, <1>2, <2>4 DEF ReadBe
<1>3. ASSUME o + 4 > Len(s)
      PROVE  ReadBe(s, o) = NONE
  BY <1>3 DEF ReadBe
<1>4. QED
  BY <1>1, <1>2, <1>3

\* A part of a sequence of bytes.
LEMMA SliceFacts ==
  ASSUME NEW s \in Seq(Bytes), NEW a \in Nat, NEW b \in Nat, a <= b, b <= Len(s)
  PROVE  /\ Slice(s, a, b) \in Seq(Bytes) /\ Len(Slice(s, a, b)) = b - a
         /\ \A i \in 1 .. b - a : Slice(s, a, b)[i] = s[a + i]
<1>1. \A i \in a + 1 .. b : s[i] \in Bytes
  BY ElementOfSeq
<1>2. /\ SubSeq(s, a + 1, b) \in Seq(Bytes)
      /\ Len(SubSeq(s, a + 1, b)) = IF a + 1 <= b THEN (b - (a + 1)) + 1 ELSE 0
      /\ \A i \in 1 .. (b - (a + 1)) + 1 : SubSeq(s, a + 1, b)[i] = s[((a + 1) + i) - 1]
  BY <1>1, SubSeqProperties
<1>3. /\ (IF a + 1 <= b THEN (b - (a + 1)) + 1 ELSE 0) = b - a
      /\ (b - (a + 1)) + 1 = b - a
      /\ \A i \in 1 .. b - a : ((a + 1) + i) - 1 = a + i
  OBVIOUS
<1>4. QED
  BY <1>2, <1>3 DEF Slice

\* read_cstr and string_at return a text without a zero.
LEMMA StringFacts ==
  ASSUME fdt \in Seq(Bytes), NEW o \in Nat, HasString(o)
  PROVE  /\ NulAt(o) \in Nat /\ o <= NulAt(o) /\ NulAt(o) < Len(fdt)
         /\ String(o) \in Seq(Letters) /\ Len(String(o)) \in Nat
<1> DEFINE zeros == {e \in o .. Len(fdt) - 1 : At(fdt, e) = 0}
           e == NulAt(o)
<1>1. zeros # {} /\ e = Min(zeros)
  BY DEF HasString, NulAt, NONE
<1>2. zeros \in SUBSET Nat
  OBVIOUS
<1>3. e \in zeros /\ \A y \in zeros : e <= y
  BY <1>1, <1>2, MinOfNats
<1>4. e \in Nat /\ o <= e /\ e < Len(fdt) /\ Len(fdt) \in Nat
  BY <1>3
<1>5. ASSUME NEW i \in o .. e - 1
      PROVE  At(fdt, i) # 0
  <2>1. i \in o .. Len(fdt) - 1 /\ ~(e <= i)
    BY <1>4
  <2>2. QED
    BY <1>3, <2>1
<1> HIDE DEF zeros
<1>6. String(o) = Slice(fdt, o, e) /\ Utf8(String(o))
  BY DEF String, HasString
<1> HIDE DEF e
<1>7. /\ String(o) \in Seq(Bytes) /\ Len(String(o)) = e - o
      /\ \A i \in 1 .. e - o : String(o)[i] = fdt[o + i]
  <2>1. o <= e /\ e <= Len(fdt)
    BY <1>4
  <2>2. /\ Slice(fdt, o, e) \in Seq(Bytes) /\ Len(Slice(fdt, o, e)) = e - o
        /\ \A i \in 1 .. e - o : Slice(fdt, o, e)[i] = fdt[o + i]
    BY <1>4, <2>1, SliceFacts
  <2>3. QED
    BY <1>6, <2>2
<1>8. ASSUME NEW i \in 1 .. e - o
      PROVE  String(o)[i] \in Letters
  <2>1. (o + i) - 1 \in o .. e - 1 /\ ((o + i) - 1) + 1 = o + i
    BY <1>4
  <2>2. At(fdt, (o + i) - 1) # 0
    BY <1>5, <2>1
  <2>3. String(o)[i] # 0
    BY <1>7, <2>1, <2>2 DEF At
  <2>4. String(o)[i] < BYTE \div 2
    BY <1>6, <1>7 DEF Utf8
  <2>5. String(o)[i] \in Bytes
    BY <1>7
  <2>6. QED
    BY <2>3, <2>4, <2>5, ByteFacts DEF Bytes, Letters
<1>9. String(o) \in Seq(Letters)
  BY <1>7, <1>8
<1>10. QED
  BY <1>4, <1>7, <1>9 DEF e

\* The names the loader writes of its own accord.
LEMMA TextTypes ==
  /\ NAME \in Seq(Letters) /\ Len(NAME) < 32
  /\ SLASH \in Seq(Bytes)
<1>1. LETTER \in Letters /\ LETTER + 1 \in Bytes
  BY ByteFacts DEF Letters, Bytes
<1>2. QED
  BY <1>1, TextFacts DEF NAME, SLASH

\* A property with a name that fits,
LEMMA PropInType ==
  ASSUME NEW name \in Seq(Letters), Len(name) < 32, NEW value \in Seq(Bytes)
  PROVE  Prop(name, value) \in PropType /\ Prop(name, value).name = name
  BY DEF Prop, PropType

\* the name property,
LEMMA NameInType ==
  ASSUME NEW value \in Seq(Bytes)
  PROVE  Prop(NAME, value) \in PropType /\ Prop(NAME, value).name = NAME
<1>1. NAME \in Seq(Letters) /\ Len(NAME) < 32
  BY TextTypes
<1> HIDE DEF NAME
<1>2. QED
  BY <1>1, PropInType

\* and those of the fallback tree.
LEMMA WordInType ==
  ASSUME NEW n \in 0 .. 31, NEW c \in Letters, NEW value \in Seq(Bytes)
  PROVE  Prop(Text(n, c), value) \in PropType
<1>0. n \in Nat
  OBVIOUS
<1>1. Text(n, c) \in Seq(Letters) /\ Len(Text(n, c)) = n
  BY <1>0, TextFacts
<1>2. Len(Text(n, c)) < 32
  BY <1>1
<1>3. QED
  BY <1>1, <1>2, PropInType

\* A node that parse_node returns has a name.
LEMMA FinishedFacts ==
  ASSUME NEW T, NEW n \in OpenType(T)
  PROVE  Finished(n) \in NodeType(T) /\ Named(Finished(n))
<1> DEFINE own == IF n.name = <<>> THEN SLASH ELSE n.name
           named == \E i \in 1 .. Len(n.props) : n.props[i].name = NAME
           ps == IF named THEN n.props ELSE <<Prop(NAME, own)>> \o n.props
<1>1. n.props \in Seq(PropType) /\ n.children \in Seq(T) /\ own \in Seq(Bytes)
  BY TextTypes DEF OpenType
<1>2. Finished(n) = [props |-> ps, children |-> n.children]
  BY DEF Finished, Node
<1>3. Prop(NAME, own) \in PropType /\ Prop(NAME, own).name = NAME
  BY <1>1, NameInType
<1> HIDE DEF own
<1>4. ps \in Seq(PropType) /\ \E i \in 1 .. Len(ps) : ps[i].name = NAME
  <2>1. CASE named
    BY <1>1, <2>1
  <2>2. CASE ~named
    <3> DEFINE q == <<Prop(NAME, own)>>
               r == n.props
    <3>1. q \in Seq(PropType) /\ Len(q) = 1 /\ q[1] = Prop(NAME, own)
      BY <1>3
    <3>2. r \in Seq(PropType)
      BY <1>1
    <3>3. ps = q \o r
      BY <2>2
    <3> HIDE DEF q, r, ps
    <3>4. /\ q \o r \in Seq(PropType) /\ Len(q \o r) = Len(q) + Len(r) /\ Len(r) \in Nat
          /\ \A i \in 1 .. Len(q) : (q \o r)[i] = q[i]
      BY <3>1, <3>2, ConcatFacts
    <3>5. 1 \in 1 .. Len(q \o r) /\ (q \o r)[1] = Prop(NAME, own)
      BY <3>1, <3>4
    <3>6. QED
      BY <1>3, <3>3, <3>4, <3>5
  <2>3. QED
    BY <2>1, <2>2
<1> HIDE DEF ps
<1>5. QED
  BY <1>1, <1>2, <1>4 DEF NodeType, Named

\* A node more.
LEMMA TreesGrow ==
  ASSUME NEW T, Trees(T), NEW n \in NodeType(T), Named(n)
  PROVE  LET U == T \union {n}
         IN  /\ Trees(U) /\ T \subseteq U /\ n \in U
             /\ OpenType(T) \subseteq OpenType(U) /\ CallType(T) \subseteq CallType(U)
<1> DEFINE U == T \union {n}
<1>1. T \subseteq U /\ n \in U
  OBVIOUS
<1>2. \A c \in Seq(T) : c \in Seq(U)
  BY <1>1, SeqMonotonic
<1> HIDE DEF U
<1>3. NodeType(T) \subseteq NodeType(U) /\ OpenType(T) \subseteq OpenType(U)
  BY <1>2 DEF NodeType, OpenType
<1>4. CallType(T) \subseteq CallType(U)
  BY <1>1 DEF CallType
<1>5. Trees(U)
  BY <1>3 DEF Trees, U
<1>6. QED
  BY <1>1, <1>3, <1>4, <1>5 DEF U

\* The tree for a firmware without one.
LEMMA FallbackFacts ==
  \E T : Trees(T) /\ FallbackTree \in T
<1> DEFINE A == LETTER
           B == LETTER + 1
           p1 == Prop(NAME, SLASH)
           p2 == Prop(Text(10, A), Text(16, A))
           p3 == Prop(Text(5, A), Text(16, B))
           p4 == Prop(Text(14, A), <<0, 0, 0, 2>>)
           p5 == Prop(Text(11, A), <<0, 0, 0, 2>>)
           q1 == Prop(NAME, Text(6, A))
           q2 == Prop(Text(8, A), Text(9, A))
           r1 == Prop(NAME, Text(6, B))
           r2 == Prop(Text(11, B), Text(6, B))
           r3 == Prop(Text(3, A), Text(16, 4))
           chosen == Node(<<q1, q2>>, <<>>)
           memory == Node(<<r1, r2, r3>>, <<>>)
           root == Node(<<p1, p2, p3, p4, p5>>, <<chosen, memory>>)
           T == {chosen, memory, root}
<1>1. A \in Letters /\ B \in Letters /\ A \in Bytes /\ B \in Bytes /\ 4 \in Bytes /\ 2 \in Bytes
  BY ByteFacts DEF Letters, Bytes
<1>2. FallbackTree = root
  BY DEF FallbackTree
<1>3. <<0, 0, 0, 2>> \in Seq(Bytes)
  BY <1>1, ByteFacts
<1>5. \A n \in Nat : Text(n, A) \in Seq(Bytes) /\ Text(n, B) \in Seq(Bytes)
                     /\ Text(n, 4) \in Seq(Bytes)
  BY <1>1, TextFacts
<1>4. \A n \in 0 .. 31, v \in Seq(Bytes) :
        Prop(Text(n, A), v) \in PropType /\ Prop(Text(n, B), v) \in PropType
  BY <1>1, WordInType
<1>n. /\ 3 \in 0 .. 31 /\ 5 \in 0 .. 31 /\ 8 \in 0 .. 31
      /\ 10 \in 0 .. 31 /\ 11 \in 0 .. 31 /\ 14 \in 0 .. 31
  OBVIOUS
<1> HIDE DEF A, B
<1>v. Text(16, A) \in Seq(Bytes) /\ Text(16, B) \in Seq(Bytes) /\ Text(9, A) \in Seq(Bytes)
      /\ Text(6, B) \in Seq(Bytes) /\ Text(16, 4) \in Seq(Bytes)
  BY <1>5
<1>6. p1 \in PropType /\ q1 \in PropType /\ r1 \in PropType
      /\ p1.name = NAME /\ q1.name = NAME /\ r1.name = NAME
  BY <1>5, TextTypes, NameInType
<1>7. p2 \in PropType /\ p3 \in PropType
  BY <1>4, <1>n, <1>v
<1>8. p4 \in PropType /\ p5 \in PropType
  BY <1>3, <1>4, <1>n
<1>9. q2 \in PropType /\ r2 \in PropType /\ r3 \in PropType
  BY <1>4, <1>n, <1>v
<1> HIDE DEF p1, p2, p3, p4, p5, q1, q2, r1, r2, r3
<1>10. chosen \in NodeType(T) /\ Named(chosen)
  <2>1. <<q1, q2>> \in Seq(PropType) /\ Len(<<q1, q2>>) = 2 /\ <<q1, q2>>[1] = q1
    BY <1>6, <1>9
  <2>2. QED
    BY <1>6, <2>1 DEF NodeType, Named, Node
<1>11. memory \in NodeType(T) /\ Named(memory)
  <2>1. <<r1, r2, r3>> \in Seq(PropType) /\ Len(<<r1, r2, r3>>) = 3 /\ <<r1, r2, r3>>[1] = r1
    BY <1>6, <1>9
  <2>2. QED
    BY <1>6, <2>1 DEF NodeType, Named, Node
<1>12. root \in NodeType(T) /\ Named(root)
  <2> DEFINE ps == <<p1, p2, p3, p4, p5>>
             cs == <<chosen, memory>>
  <2>1. ps \in Seq(PropType) /\ Len(ps) = 5 /\ ps[1] = p1
    BY <1>6, <1>7, <1>8
  <2>2. root.props = ps /\ root = [props |-> ps, children |-> cs]
    BY DEF Node
  <2>3. cs \in Seq(T)
    OBVIOUS
  <2> HIDE DEF ps, cs, root, T
  <2>4. root \in NodeType(T)
    BY <2>1, <2>2, <2>3 DEF NodeType
  <2>5. 1 \in 1 .. Len(root.props) /\ root.props[1] = p1
    <3>1. root.props = ps
      BY <2>2
    <3>2. 1 \in 1 .. Len(ps) /\ ps[1] = p1
      BY <2>1
    <3>3. QED
      BY <3>1, <3>2
  <2>6. QED
    BY <1>6, <2>4, <2>5 DEF Named
<1>13. QED
  BY <1>2, <1>10, <1>11, <1>12 DEF Trees

\* Initially there is nothing.
LEMMA ParserInit == Init => ParserInv
<1> SUFFICES ASSUME Init PROVE ParserInv
  OBVIOUS
<1>1. Trees({}) /\ open \in Seq(OpenType({})) /\ work \in Seq(CallType({}))
  BY DEF Init, LoaderInit, Trees
<1>2. QED
  BY <1>1 DEF Init, LoaderInit, ParserInv

\* find_fdt.
LEMMA FindStep == ParserInv /\ FindFdt => ParserInv'
<1> SUFFICES ASSUME ParserInv, FindFdt PROVE ParserInv'
  OBVIOUS
<1> DEFINE usable == {i \in 1 .. Len(tables) : Usable(tables[i])}
           blob == tables[Min(usable)].bytes
<1>1. /\ stage = "find" /\ pos = 0 /\ strings_offset = 0 /\ UNCHANGED <<tables, parser, pending, out, written>>
  BY DEF FindFdt, ParserInv
<1>2. PICK T : Trees(T) /\ open \in Seq(OpenType(T)) /\ work \in Seq(CallType(T))
  BY DEF ParserInv
<1>3. /\ tables' = tables /\ pos' = pos /\ strings_offset' = strings_offset /\ open' = open
      /\ pending' = pending
  BY <1>1 DEF parser
<1>4. /\ tables \in ConfigTables /\ pending \in Seq(PropType) /\ fdt \in Seq(Bytes)
  BY DEF ParserInv
<1>5. CASE usable = {}
  <2>1. stage' = "write" /\ work' = <<Call(FallbackTree, 0)>> /\ fdt' = fdt
    BY <1>5 DEF FindFdt
  <2>2. PICK U : Trees(U) /\ FallbackTree \in U
    BY FallbackFacts
  <2>3. open' \in Seq(OpenType(U)) /\ work' \in Seq(CallType(U))
    <3>1. Call(FallbackTree, 0) \in CallType(U)
      BY <2>2 DEF Call, CallType
    <3>2. work' \in Seq(CallType(U))
      BY <2>1, <3>1
    <3>3. open' = <<>>
      BY <1>1, <1>3 DEF ParserInv
    <3>4. QED
      BY <3>2, <3>3
  <2>4. QED
    BY <1>1, <1>3, <1>4, <2>1, <2>2, <2>3 DEF ParserInv
<1>6. CASE usable # {}
  <2>1. stage' = "new" /\ fdt' = Slice(blob, 0, ReadBe(blob, 4)) /\ work' = work
    BY <1>6 DEF FindFdt
  <2>2. Min(usable) \in usable
    <3>1. usable \in SUBSET Nat
      OBVIOUS
    <3> HIDE DEF usable
    <3>2. QED
      BY <1>6, <3>1, MinOfNats
  <2> DEFINE e == tables[Min(usable)]
  <2>3. /\ e \in EntryType /\ ~e.null /\ ReadBe(e.bytes, 4) >= 40
        /\ ReadBe(e.bytes, 4) <= Len(e.bytes)
    BY <1>4, <2>2, TablesAssumption DEF Usable
  <2>4. blob \in Seq(Bytes)
    BY <2>3 DEF EntryType
  <2> HIDE DEF usable, e
  <2> DEFINE n == ReadBe(blob, 4)
  <2>5. n \in Nat /\ n >= 40 /\ n <= Len(blob)
    <3>1. ReadBe(blob, 4) # NONE => ReadBe(blob, 4) \in Nat
      BY <2>4, ReadBeFacts
    <3>2. QED
      BY <2>3, <3>1 DEF e, NONE
  <2> HIDE DEF n, blob
  <2>6. Slice(blob, 0, n) \in Seq(Bytes) /\ Len(Slice(blob, 0, n)) = n - 0
    <3>1. 0 \in Nat /\ 0 <= n
      BY <2>5
    <3>2. QED
      BY <2>4, <2>5, <3>1, SliceFacts
  <2>7. fdt' \in Seq(Bytes) /\ Len(fdt') = n
    BY <2>1, <2>5, <2>6 DEF n
  <2>8. QED
    BY <1>1, <1>2, <1>3, <1>4, <2>1, <2>5, <2>7 DEF ParserInv
<1>7. QED
  BY <1>5, <1>6

\* FdtParser::new.
LEMMA NewStep == ParserInv /\ NewParser => ParserInv'
<1> SUFFICES ASSUME ParserInv, NewParser PROVE ParserInv'
  OBVIOUS
<1>1. /\ stage = "new" /\ fdt \in Seq(Bytes) /\ Len(fdt) >= 40 /\ Len(fdt) \in Nat
  BY DEF NewParser, ParserInv
<1>2. /\ ReadBe(fdt, 8) \in Nat /\ ReadBe(fdt, 12) \in Nat
  BY <1>1, ReadBeFacts
<1>3. CASE Refuse
  BY <1>3 DEF Refuse, ParserInv, parser, writer
<1>4. CASE ~(ReadBe(fdt, 8) >= Len(fdt) \/ ReadBe(fdt, 12) >= Len(fdt))
  <2>1. /\ stage' = "parse" /\ pos' = ReadBe(fdt, 8) /\ strings_offset' = ReadBe(fdt, 12)
        /\ UNCHANGED <<tables, fdt, open, writer>>
    BY <1>4 DEF NewParser
  <2>2. pos' \in 0 .. Len(fdt) + 3 /\ strings_offset' \in 0 .. Len(fdt)
    BY <1>1, <1>2, <1>4, <2>1
  <2>3. QED
    BY <1>1, <2>1, <2>2 DEF ParserInv, writer
<1>5. QED
  BY <1>3, <1>4 DEF NewParser

\* A position that was rounded up.
LEMMA AlignedPos ==
  ASSUME NEW p \in Nat, NEW n \in Nat, p <= n
  PROVE  AlignPos(p) \in 0 .. n + 3
<1>1. AlignUp4(p) \in Nat /\ AlignUp4(p) <= p + 3 /\ AlignPos(p) = AlignUp4(p)
  BY AlignFacts
<1>2. QED
  BY <1>1

\* parse_node begins: the name ends inside the blob.
LEMMA BeginStep == ParserInv /\ BeginNode => ParserInv'
<1> SUFFICES ASSUME ParserInv, BeginNode PROVE ParserInv'
  OBVIOUS
<1>1. /\ stage = "parse" /\ HasString(pos + 4)
      /\ open' = Append(open, [name |-> String(pos + 4), props |-> <<>>, children |-> <<>>])
      /\ pos' = AlignPos(NulAt(pos + 4) + 1)
      /\ UNCHANGED <<stage, tables, fdt, strings_offset, writer>>
  BY DEF BeginNode
<1>2. fdt \in Seq(Bytes) /\ pos + 4 \in Nat /\ Len(fdt) \in Nat
  BY DEF ParserInv
<1>3. /\ NulAt(pos + 4) \in Nat /\ NulAt(pos + 4) < Len(fdt) /\ String(pos + 4) \in Seq(Letters)
  BY <1>1, <1>2, StringFacts
<1>4. pos' \in 0 .. Len(fdt) + 3
  <2>1. NulAt(pos + 4) + 1 \in Nat /\ NulAt(pos + 4) + 1 <= Len(fdt)
    BY <1>2, <1>3
  <2>2. QED
    BY <1>1, <1>2, <2>1, AlignedPos
<1>5. PICK T : Trees(T) /\ open \in Seq(OpenType(T)) /\ work \in Seq(CallType(T))
  BY DEF ParserInv
<1>6. String(pos + 4) \in Seq(Bytes)
  BY <1>3, LetterFacts
<1>7. open' \in Seq(OpenType(T))
  <2>1. [name |-> String(pos + 4), props |-> <<>>, children |-> <<>>] \in OpenType(T)
    BY <1>6 DEF OpenType
  <2>2. QED
    BY <1>1, <1>5, <2>1
<1>8. QED
  BY <1>1, <1>4, <1>5, <1>7 DEF ParserInv, writer

\* The innermost open node.
LEMMA TopFacts ==
  ASSUME NEW S, open \in Seq(S), open # <<>>
  PROVE  Len(open) \in 1 .. Len(open) /\ Top \in S /\ Len(open) \in Nat
  BY DEF Top

\* parse_prop: the value ends inside the blob.
LEMMA PropStep == ParserInv /\ ParseProp => ParserInv'
<1> SUFFICES ASSUME ParserInv, ParseProp PROVE ParserInv'
  OBVIOUS
<1> DEFINE end == (pos + 12) + PropLen
           p == Prop(String(PropName), Slice(fdt, pos + 12, end))
<1>1. /\ stage = "parse" /\ open # <<>> /\ PropReadable
      /\ open' = [open EXCEPT ![Len(open)] = [Top EXCEPT !.props = Append(@, p)]]
      /\ pos' = AlignPos(end)
      /\ UNCHANGED <<stage, tables, fdt, strings_offset, writer>>
  BY DEF ParseProp, SetTop
<1>2. fdt \in Seq(Bytes) /\ pos \in Nat /\ Len(fdt) \in Nat /\ strings_offset \in Nat
  BY DEF ParserInv
<1>3. /\ ReadBe(fdt, pos + 8) # NONE /\ HasString(PropName) /\ Len(String(PropName)) < 32
      /\ end <= Len(fdt)
  BY <1>1 DEF PropReadable, NAME_LEN
<1>4. ReadBe(fdt, pos + 8) \in Nat /\ (pos + 8) + 4 <= Len(fdt)
  <2>1. pos + 8 \in Nat
    BY <1>2
  <2>2. QED
    BY <1>2, <1>3, <2>1, ReadBeFacts
<1>5. PropLen \in Nat
  <2>1. pos + 4 \in Nat /\ (pos + 4) + 4 <= Len(fdt)
    BY <1>2, <1>4
  <2>2. QED
    BY <1>2, <2>1, ReadBeFacts DEF PropLen
<1>6. PropName \in Nat
  BY <1>2, <1>4 DEF PropName
<1>7. String(PropName) \in Seq(Letters)
  BY <1>2, <1>3, <1>6, StringFacts
<1>8. end \in Nat /\ pos + 12 \in Nat /\ pos + 12 <= end
  BY <1>2, <1>5
<1> HIDE DEF end
<1>9. Slice(fdt, pos + 12, end) \in Seq(Bytes)
  BY <1>2, <1>3, <1>8, SliceFacts
<1>10. p \in PropType
  BY <1>3, <1>7, <1>9, PropInType
<1> HIDE DEF p
<1>11. PICK T : Trees(T) /\ open \in Seq(OpenType(T)) /\ work \in Seq(CallType(T))
  BY DEF ParserInv
<1>12. Len(open) \in 1 .. Len(open) /\ Top \in OpenType(T)
  BY <1>1, <1>11, TopFacts
<1>13. [Top EXCEPT !.props = Append(@, p)] \in OpenType(T)
  <2>1. Top.props \in Seq(PropType)
    BY <1>12 DEF OpenType
  <2> DEFINE ps == Append(Top.props, p)
  <2>2. ps \in Seq(PropType)
    BY <1>10, <2>1
  <2> HIDE DEF ps
  <2>3. [Top EXCEPT !.props = ps] \in OpenType(T)
    BY <1>12, <2>2 DEF OpenType
  <2>4. QED
    BY <2>3 DEF ps
<1>14. open' \in Seq(OpenType(T))
  BY <1>1, <1>11, <1>12, <1>13, ExceptSeq
<1>15. pos' \in 0 .. Len(fdt) + 3
  BY <1>1, <1>2, <1>3, <1>8, AlignedPos
<1>16. QED
  BY <1>1, <1>11, <1>14, <1>15 DEF ParserInv, writer

\* FDT_NOP is skipped.
LEMMA NopStep == ParserInv /\ SkipNop => ParserInv'
<1> SUFFICES ASSUME ParserInv, SkipNop PROVE ParserInv'
  OBVIOUS
<1>1. fdt \in Seq(Bytes) /\ pos \in Nat /\ Len(fdt) \in Nat
  BY DEF ParserInv
<1>2. ReadBe(fdt, pos) # NONE
  BY DEF SkipNop, Token, FDT_NOP, NONE
<1>3. pos + 4 <= Len(fdt)
  BY <1>1, <1>2, ReadBeFacts
<1>4. pos' \in 0 .. Len(fdt) + 3
  BY <1>1, <1>3 DEF SkipNop
<1>5. QED
  BY <1>4 DEF ParserInv, SkipNop, writer

\* All but the last.
LEMMA FrontFacts ==
  ASSUME NEW S, NEW s \in Seq(S), s # <<>>
  PROVE  Front(s) \in Seq(S) /\ Len(Front(s)) = Len(s) - 1 /\ Len(s) \in Nat /\ Len(s) >= 1
         /\ \A i \in 1 .. Len(s) - 1 : Front(s)[i] = s[i]
<1>1. Len(s) \in Nat /\ Len(s) >= 1 /\ \A i \in 1 .. Len(s) - 1 : s[i] \in S
  BY ElementOfSeq
<1>2. /\ SubSeq(s, 1, Len(s) - 1) \in Seq(S)
      /\ Len(SubSeq(s, 1, Len(s) - 1)) = IF 1 <= Len(s) - 1 THEN ((Len(s) - 1) - 1) + 1 ELSE 0
      /\ \A i \in 1 .. ((Len(s) - 1) - 1) + 1 : SubSeq(s, 1, Len(s) - 1)[i] = s[(1 + i) - 1]
  BY <1>1, SubSeqProperties
<1>3. /\ (IF 1 <= Len(s) - 1 THEN ((Len(s) - 1) - 1) + 1 ELSE 0) = Len(s) - 1
      /\ ((Len(s) - 1) - 1) + 1 = Len(s) - 1
      /\ \A i \in 1 .. Len(s) - 1 : (1 + i) - 1 = i
  <2> DEFINE n == Len(s)
  <2>1. n \in Nat /\ n >= 1
    BY <1>1
  <2> HIDE DEF n
  <2>2. /\ (IF 1 <= n - 1 THEN ((n - 1) - 1) + 1 ELSE 0) = n - 1
        /\ ((n - 1) - 1) + 1 = n - 1
        /\ \A i \in 1 .. n - 1 : (1 + i) - 1 = i
    BY <2>1
  <2>3. QED
    BY <2>2 DEF n
<1>4. Front(s) = SubSeq(s, 1, Len(s) - 1)
  BY DEF Front
<1>5. QED
  BY <1>1, <1>2, <1>3, <1>4

\* parse_node returns a node that has a name.
LEMMA EndStep == ParserInv /\ EndNode => ParserInv'
<1> SUFFICES ASSUME ParserInv, EndNode PROVE ParserInv'
  OBVIOUS
<1>1. fdt \in Seq(Bytes) /\ pos \in Nat /\ pos \in 0 .. Len(fdt) + 3 /\ Len(fdt) \in Nat
  BY DEF ParserInv
<1>2. ReadBe(fdt, pos) # NONE
  BY DEF EndNode, Token, FDT_END, FDT_END_NODE, NONE
<1>3. pos + 4 <= Len(fdt)
  BY <1>1, <1>2, ReadBeFacts
<1>4. pos' \in 0 .. Len(fdt) + 3
  BY <1>1, <1>3 DEF EndNode
<1>5. PICK T : Trees(T) /\ open \in Seq(OpenType(T)) /\ work \in Seq(CallType(T))
  BY DEF ParserInv
<1> DEFINE n == Finished(Top)
           U == T \union {n}
           rest == Front(open)
<1>6. Top \in OpenType(T) /\ open # <<>> /\ stage = "parse"
  BY <1>5, TopFacts DEF EndNode
<1>7. n \in NodeType(T) /\ Named(n)
  BY <1>6, FinishedFacts
<1> HIDE DEF n
<1>8. /\ Trees(U) /\ n \in U /\ T \subseteq U
      /\ OpenType(T) \subseteq OpenType(U) /\ CallType(T) \subseteq CallType(U)
  BY <1>5, <1>7, TreesGrow
<1>9. rest \in Seq(OpenType(T))
  BY <1>5, <1>6, FrontFacts
<1> HIDE DEF U, rest
<1>10. rest \in Seq(OpenType(U)) /\ work \in Seq(CallType(U))
  BY <1>5, <1>8, <1>9, SeqMonotonic
<1>11. open' \in Seq(OpenType(U)) /\ work' \in Seq(CallType(U)) /\ stage' \in {"parse", "write"}
  <2>1. CASE rest = <<>>
    <3>1. open' = <<>> /\ work' = <<Call(n, 0)>> /\ stage' = "write"
      BY <2>1 DEF EndNode, n, rest
    <3>2. Call(n, 0) \in CallType(U)
      BY <1>8 DEF Call, CallType
    <3>3. QED
      BY <3>1, <3>2
  <2>2. CASE rest # <<>>
    <3> DEFINE m == [rest[Len(rest)] EXCEPT !.children = Append(@, n)]
    <3>1. open' = [rest EXCEPT ![Len(rest)] = m] /\ work' = work /\ stage' = stage
      BY <2>2 DEF EndNode, n, rest
    <3>2. Len(rest) \in 1 .. Len(rest) /\ rest[Len(rest)] \in OpenType(U)
      BY <1>10, <2>2
    <3>3. m \in OpenType(U)
      <4> DEFINE r == rest[Len(rest)]
                 cs == Append(r.children, n)
      <4>1. r.children \in Seq(U)
        BY <3>2 DEF OpenType
      <4>2. cs \in Seq(U)
        BY <1>8, <4>1
      <4> HIDE DEF cs
      <4>3. [r EXCEPT !.children = cs] = [name |-> r.name, props |-> r.props, children |-> cs]
        BY <3>2 DEF OpenType
      <4>4. r.name \in Seq(Bytes) /\ r.props \in Seq(PropType)
        BY <3>2 DEF OpenType
      <4>5. [name |-> r.name, props |-> r.props, children |-> cs] \in OpenType(U)
        BY <4>2, <4>4 DEF OpenType
      <4>6. QED
        BY <4>3, <4>5 DEF cs
    <3> HIDE DEF m
    <3>4. open' \in Seq(OpenType(U))
      BY <1>10, <3>1, <3>2, <3>3, ExceptSeq
    <3>5. QED
      BY <1>6, <1>10, <3>1, <3>4
  <2>3. QED
    BY <2>1, <2>2
<1>12. /\ tables' = tables /\ fdt' = fdt /\ strings_offset' = strings_offset /\ pending' = pending
  BY DEF EndNode
<1>13. QED
  BY <1>4, <1>6, <1>8, <1>11, <1>12 DEF ParserInv

\* LOAD_ERROR changes only the stage.
LEMMA RefuseStep == ParserInv /\ Refuse => ParserInv'
  BY DEF Refuse, ParserInv, parser, writer

\* The calls for the children of a node.
LEMMA DueFacts ==
  ASSUME NEW T, Trees(T), work \in Seq(CallType(T)), work # <<>>
  PROVE  LET call == Head(work)
             n    == call.node
             due  == [i \in 1 .. Len(n.children) |-> Call(n.children[i], call.depth + 1)]
         IN  /\ call \in CallType(T) /\ n \in NodeType(T) /\ Named(n)
             /\ due \in Seq(CallType(T)) /\ Len(due) = Len(n.children)
             /\ Tail(work) \in Seq(CallType(T)) /\ Len(Tail(work)) = Len(work) - 1
             /\ due \o Tail(work) \in Seq(CallType(T))
             /\ Len(due \o Tail(work)) = Len(n.children) + (Len(work) - 1)
             /\ \A i \in 1 .. Len(due) : (due \o Tail(work))[i] = due[i]
             /\ \A i \in 1 .. Len(work) - 1 : (due \o Tail(work))[Len(due) + i] = work[i + 1]
<1> DEFINE call == Head(work)
           n    == call.node
           due  == [i \in 1 .. Len(n.children) |-> Call(n.children[i], call.depth + 1)]
<1>1. call \in CallType(T) /\ Tail(work) \in Seq(CallType(T)) /\ Len(Tail(work)) = Len(work) - 1
      /\ Len(work) \in Nat /\ \A i \in 1 .. Len(work) - 1 : Tail(work)[i] = work[i + 1]
  BY HeadTailProperties
<1>2. n \in T /\ call.depth \in Nat
  BY <1>1 DEF CallType
<1>3. n \in NodeType(T) /\ Named(n)
  BY <1>2 DEF Trees
<1>4. n.children \in Seq(T)
  BY <1>3 DEF NodeType
<1> HIDE DEF n
<1>5. \A i \in 1 .. Len(n.children) : Call(n.children[i], call.depth + 1) \in CallType(T)
  BY <1>2, <1>4 DEF Call, CallType
<1>6. due \in Seq(CallType(T)) /\ Len(due) = Len(n.children)
  BY <1>4, <1>5
<1> HIDE DEF due
<1>7. /\ due \o Tail(work) \in Seq(CallType(T))
      /\ Len(due \o Tail(work)) = Len(due) + Len(Tail(work))
      /\ \A i \in 1 .. Len(due) : (due \o Tail(work))[i] = due[i]
      /\ \A i \in 1 .. Len(Tail(work)) : (due \o Tail(work))[Len(due) + i] = Tail(work)[i]
  <2> DEFINE S == CallType(T)
             t == Tail(work)
  <2>1. due \in Seq(S) /\ t \in Seq(S)
    BY <1>1, <1>6
  <2> HIDE DEF S, t
  <2>2. /\ due \o t \in Seq(S) /\ Len(due \o t) = Len(due) + Len(t)
        /\ \A i \in 1 .. Len(due) : (due \o t)[i] = due[i]
        /\ \A i \in 1 .. Len(t) : (due \o t)[Len(due) + i] = t[i]
    BY <2>1, ConcatFacts
  <2>3. QED
    BY <2>2 DEF S, t
<1>8. \A i \in 1 .. Len(work) - 1 : (due \o Tail(work))[Len(due) + i] = work[i + 1]
  BY <1>1, <1>7
<1>9. QED
  BY Zenon, <1>1, <1>3, <1>6, <1>7, <1>8 DEF due, n

\* write_adt_node: the children of a tree's node are nodes of the tree.
LEMMA WriteNodeTypes == ParserInv /\ WriteNode => ParserInv'
<1> SUFFICES ASSUME ParserInv, WriteNode PROVE ParserInv'
  OBVIOUS
<1>1. CASE Refuse
  BY <1>1, RefuseStep
<1>2. CASE ~Refuse
  <2>1. PICK T : Trees(T) /\ open \in Seq(OpenType(T)) /\ work \in Seq(CallType(T))
    BY DEF ParserInv
  <2> DEFINE call == Head(work)
             n    == call.node
             due  == [i \in 1 .. Len(n.children) |-> Call(n.children[i], call.depth + 1)]
  <2>2. n \in NodeType(T) /\ due \o Tail(work) \in Seq(CallType(T))
    BY <2>1, DueFacts DEF WriteNode
  <2>3. n.props \in Seq(PropType)
    BY <2>2 DEF NodeType
  <2>4. /\ pending' = n.props /\ work' = due \o Tail(work) /\ stage = "write"
        /\ UNCHANGED <<stage, tables, fdt, parser>>
    BY <1>2 DEF WriteNode
  <2> HIDE DEF n, due
  <2>5. QED
    BY <2>1, <2>2, <2>3, <2>4 DEF ParserInv, parser
<1>3. QED
  BY <1>1, <1>2

\* write_adt_prop: a property less is pending.
LEMMA WritePropTypes == ParserInv /\ WriteProp => ParserInv'
<1> SUFFICES ASSUME ParserInv, WriteProp PROVE ParserInv'
  OBVIOUS
<1>1. CASE Refuse
  BY <1>1, RefuseStep
<1>2. CASE ~Refuse
  <2>1. pending' = Tail(pending) /\ UNCHANGED <<stage, tables, fdt, parser, work>>
    BY <1>2 DEF WriteProp
  <2>2. Tail(pending) \in Seq(PropType)
    BY HeadTailProperties DEF WriteProp, ParserInv
  <2>3. QED
    BY <2>1, <2>2 DEF ParserInv, parser
<1>3. QED
  BY <1>1, <1>2

\* The parser's invariant is inductive.
LEMMA ParserNext == ParserInv /\ [Next]_vars => ParserInv'
<1> SUFFICES ASSUME ParserInv, [Next]_vars PROVE ParserInv'
  OBVIOUS
<1>1. CASE LoaderStep
  <2>1. CASE ParseFails
    BY <2>1, RefuseStep DEF ParseFails
  <2>2. CASE AllocateTree
    BY <2>2 DEF AllocateTree, ParserInv, parser, writer
  <2>3. QED
    BY <1>1, <2>1, <2>2, FindStep, NewStep, BeginStep, PropStep, NopStep, EndStep,
       WriteNodeTypes, WritePropTypes DEF LoaderStep, LoaderNext
<1>2. CASE FillBootArgs
  BY <1>2 DEF FillBootArgs, ParserInv, parser, writer
<1>3. CASE OtherLoader
  BY <1>3 DEF OtherLoader, ParserInv, parser, writer
<1>4. CASE UNCHANGED loaderVars
  BY <1>4 DEF loaderVars, ParserInv, parser, writer
<1>5. QED
  BY <1>1, <1>2, <1>3, <1>4 DEF Next, ValidateBootArgs, DumpStep, Stopped, vars

-----------------------------------------------------------------------------
(* The layout: what written says of out. *)

IsHeader(w, k) == w[k].header = TRUE
AtOf(w, k) == w[k].at
PropOf(w, k) == w[k].prop
Props(w, k) == w[k].node.props
NProps(w, k) == Len(w[k].node.props)
NChildren(w, k) == Len(w[k].node.children)
Depth(w, k) == w[k].depth

\* The calls left once the children of the node at k are due, and before that.
Left(w, k) == w[k].left
Base(w, k) == Left(w, k) - NChildren(w, k)

\* The index of what follows the properties of the node at k.
After(w, k) == (k + NProps(w, k)) + 1

EndOf(x) == IF x.header = TRUE THEN x.at + 8 ELSE PropEnd(x.at, x.prop)
End(w, k) == EndOf(w[k])

\* An item and the bytes at its offset.
HeaderOK(x, s) ==
  /\ x.node.props \in Seq(PropType) /\ Named(x.node) /\ Len(x.node.children) \in Nat
  /\ FitsU32(Len(x.node.props)) /\ FitsU32(Len(x.node.children))
  /\ x.left \in Nat /\ x.left >= Len(x.node.children) /\ x.depth \in Nat
  /\ HeaderAt(s, x.at, x.node)
PropOK(x, s) ==
  x.prop \in PropType /\ FitsU32(Len(x.prop.value)) /\ PropAt(s, x.at, x.prop)
ItemOK(x, s) ==
  /\ x.at \in Nat /\ x.at % 4 = 0 /\ x.header \in BOOLEAN
  /\ x.header = TRUE => HeaderOK(x, s)
  /\ x.header # TRUE => PropOK(x, s)

Items(w, s) ==
  /\ \E S : w \in Seq(S)
  /\ \A k \in 1 .. Len(w) : ItemOK(w[k], s)

\* Items follow one another, without a gap, from the root's header on.
Order(w, s) ==
  /\ Len(w) = 0 => s = <<>>
  /\ Len(w) > 0 =>
       /\ IsHeader(w, 1) /\ AtOf(w, 1) = 0 /\ Depth(w, 1) = 0 /\ Base(w, 1) = 0
       /\ Len(s) = End(w, Len(w))
  /\ \A k \in 1 .. Len(w) - 1 : AtOf(w, k + 1) = End(w, k)
  /\ \A i, k \in 1 .. Len(w) : i < k => End(w, i) <= AtOf(w, k)

\* An item ends at a multiple of four, after eight bytes or more.
LEMMA EndFacts ==
  ASSUME NEW x, NEW s, ItemOK(x, s)
  PROVE  EndOf(x) \in Nat /\ EndOf(x) % 4 = 0 /\ x.at + 8 <= EndOf(x) /\ x.at \in Nat
<1>1. x.at \in Nat /\ x.at % 4 = 0
  BY DEF ItemOK
<1>2. CASE x.header = TRUE
  <2>1. EndOf(x) = x.at + 8
    BY <1>2 DEF EndOf
  <2>2. QED
    BY <1>1, <2>1
<1>3. CASE x.header # TRUE
  <2>1. EndOf(x) = PropEnd(x.at, x.prop) /\ x.prop \in PropType
    BY <1>3 DEF EndOf, ItemOK, PropOK
  <2>2. PropEnd(x.at, x.prop) \in Nat /\ PropEnd(x.at, x.prop) % 4 = 0 /\ x.at + 36 <= PropEnd(x.at, x.prop)
    BY <1>1, <2>1, PropEndFacts
  <2>3. QED
    BY <1>1, <2>1, <2>2
<1>4. QED
  BY <1>2, <1>3

\* Bytes written later leave an item as it is.
LEMMA ItemExtends ==
  ASSUME NEW x, NEW s \in Seq(Bytes), NEW t, Extends(t, s), ItemOK(x, s), EndOf(x) <= Len(s)
  PROVE  ItemOK(x, t)
<1>1. x.at \in Nat /\ x.at % 4 = 0
  BY DEF ItemOK
<1>2. CASE x.header = TRUE
  <2>1. HeaderOK(x, s) /\ x.at + 8 <= Len(s)
    BY <1>2 DEF EndOf, ItemOK
  <2>2. HeaderAt(t, x.at, x.node)
    BY <1>1, <2>1, HeaderAtExtends DEF HeaderOK
  <2>3. HeaderOK(x, t)
    BY <2>1, <2>2 DEF HeaderOK
  <2>4. QED
    BY <1>1, <1>2, <2>3 DEF ItemOK
<1>3. CASE x.header # TRUE
  <2>1. PropOK(x, s) /\ PropEnd(x.at, x.prop) <= Len(s)
    BY <1>3 DEF EndOf, ItemOK
  <2>2. PropAt(t, x.at, x.prop)
    BY <1>1, <2>1, PropAtExtends DEF PropOK
  <2>3. PropOK(x, t)
    BY <2>1, <2>2 DEF PropOK
  <2>4. QED
    BY <1>1, <1>3, <2>3 DEF ItemOK
<1>4. QED
  BY <1>2, <1>3

\* One element more.
LEMMA AppendItem ==
  ASSUME NEW w, NEW x, \E S : w \in Seq(S)
  PROVE  /\ Len(w) \in Nat /\ Len(Append(w, x)) = Len(w) + 1
         /\ \A k \in 1 .. Len(w) : Append(w, x)[k] = w[k]
         /\ Append(w, x)[Len(w) + 1] = x
         /\ \E S : Append(w, x) \in Seq(S)
<1>1. PICK S : w \in Seq(S)
  OBVIOUS
<1> DEFINE U == S \union {x}
<1>2. w \in Seq(U) /\ x \in U
  BY <1>1, SeqMonotonic
<1> HIDE DEF U
<1>3. /\ Append(w, x) \in Seq(U) /\ Len(Append(w, x)) = Len(w) + 1 /\ Len(w) \in Nat
      /\ \A i \in 1 .. Len(w) : Append(w, x)[i] = w[i]
      /\ Append(w, x)[Len(w) + 1] = x
  BY <1>2, AppendProperties
<1>4. QED
  BY <1>3

\* Indices keep what they had.
SameItems(u, w) ==
  \A k \in 1 .. Len(w) :
    /\ IsHeader(u, k) <=> IsHeader(w, k)
    /\ AtOf(u, k) = AtOf(w, k) /\ End(u, k) = End(w, k) /\ PropOf(u, k) = PropOf(w, k)
    /\ Props(u, k) = Props(w, k) /\ NProps(u, k) = NProps(w, k) /\ NChildren(u, k) = NChildren(w, k)
    /\ Depth(u, k) = Depth(w, k) /\ Left(u, k) = Left(w, k) /\ Base(u, k) = Base(w, k)
    /\ After(u, k) = After(w, k)

\* What is said of an item does not depend on later ones.
LEMMA SameItemsFacts ==
  ASSUME NEW w, NEW u, \A k \in 1 .. Len(w) : u[k] = w[k]
  PROVE  SameItems(u, w)
  BY DEF SameItems, IsHeader, AtOf, End, PropOf, Props, NProps, NChildren, Depth, Left, Base, After

\* One item more.
LEMMA OrderGrows ==
  ASSUME NEW w, NEW s \in Seq(Bytes), NEW t \in Seq(Bytes), NEW x,
         Items(w, s), Order(w, s), Extends(t, s),
         ItemOK(x, t), x.at = Len(s), Len(t) = EndOf(x),
         Len(w) = 0 => x.header = TRUE /\ x.depth = 0 /\ x.left = Len(x.node.children)
  PROVE  Items(Append(w, x), t) /\ Order(Append(w, x), t)
<1> DEFINE u == Append(w, x)
           N == Len(w)
<1>1. /\ N \in Nat /\ Len(u) = N + 1
      /\ \A k \in 1 .. N : u[k] = w[k]
      /\ u[N + 1] = x
      /\ \E S : u \in Seq(S)
  BY AppendItem DEF Items
<1>2. SameItems(u, w)
  BY <1>1, SameItemsFacts
<1>3. \A k \in 1 .. N : ItemOK(w[k], s)
  BY DEF Items
<1>4. \A k \in 1 .. N : End(w, k) \in Nat /\ AtOf(w, k) \in Nat /\ AtOf(w, k) + 8 <= End(w, k)
  BY <1>3, EndFacts DEF End, AtOf
<1>5. AtOf(u, N + 1) = Len(s) /\ End(u, N + 1) = Len(t) /\ Len(s) \in Nat
  BY <1>1 DEF AtOf, End
<1> HIDE DEF u, N
<1>6. \A k \in 1 .. N : End(w, k) <= Len(s)
  <2> SUFFICES ASSUME NEW k \in 1 .. N PROVE End(w, k) <= Len(s)
    OBVIOUS
  <2>1. N > 0 /\ N \in 1 .. N /\ Len(s) = End(w, N)
    BY <1>1 DEF Order, N
  <2>2. CASE k = N
    BY <2>1, <2>2, <1>4
  <2>3. CASE k < N
    <3>1. End(w, k) <= AtOf(w, N)
      BY <2>1, <2>3 DEF Order, N
    <3>2. QED
      BY <2>1, <3>1, <1>4
  <2>4. QED
    BY <1>1, <2>2, <2>3
<1>7. Items(u, t)
  <2>1. ASSUME NEW k \in 1 .. N + 1
        PROVE  ItemOK(u[k], t)
    <3>1. CASE k \in 1 .. N
      <4>1. ItemOK(w[k], t)
        BY <1>3, <1>6, <3>1, ItemExtends DEF End
      <4>2. QED
        BY <1>1, <3>1, <4>1
    <3>2. CASE k = N + 1
      BY <1>1, <3>2
    <3>3. QED
      BY <1>1, <3>1, <3>2
  <2>2. QED
    BY <1>1, <2>1 DEF Items
<1>8. ASSUME NEW k \in 1 .. N
      PROVE  AtOf(u, k + 1) = End(u, k)
  <2>1. CASE k = N
    <3>1. Len(s) = End(w, N)
      BY <1>1, <2>1 DEF Order, N
    <3>2. QED
      BY <1>2, <1>5, <2>1, <3>1 DEF SameItems, N
  <2>2. CASE k < N
    <3>1. k + 1 \in 1 .. N /\ k \in 1 .. N - 1
      BY <1>1, <2>2
    <3>2. AtOf(w, k + 1) = End(w, k)
      BY <3>1 DEF Order, N
    <3>3. QED
      BY <1>2, <3>1, <3>2 DEF SameItems, N
  <2>3. QED
    BY <1>1, <2>1, <2>2
<1>9. ASSUME NEW i \in 1 .. N + 1, NEW k \in 1 .. N + 1, i < k
      PROVE  End(u, i) <= AtOf(u, k)
  <2>1. i \in 1 .. N /\ End(u, i) = End(w, i)
    BY <1>1, <1>2, <1>9 DEF SameItems, N
  <2>2. CASE k = N + 1
    BY <1>5, <1>6, <2>1, <2>2
  <2>3. CASE k \in 1 .. N
    <3>1. AtOf(u, k) = AtOf(w, k)
      BY <1>2, <2>3 DEF SameItems, N
    <3>2. End(w, i) <= AtOf(w, k)
      BY <1>9, <2>1, <2>3 DEF Order, N
    <3>3. QED
      BY <2>1, <3>1, <3>2
  <2>4. QED
    BY <1>1, <2>2, <2>3
<1>10. IsHeader(u, 1) /\ AtOf(u, 1) = 0 /\ Depth(u, 1) = 0 /\ Base(u, 1) = 0
  <2>1. CASE N = 0
    <3>1. u[1] = x /\ s = <<>> /\ Len(s) = 0
      BY <1>1, <2>1 DEF Order, N
    <3>2. HeaderOK(x, t) /\ x.header = TRUE /\ x.depth = 0 /\ x.left = Len(x.node.children)
      BY <2>1 DEF ItemOK, N
    <3>3. x.left \in Nat
      BY <3>2 DEF HeaderOK
    <3>4. QED
      BY <3>1, <3>2, <3>3 DEF IsHeader, AtOf, Depth, Base, Left, NChildren
  <2>2. CASE N > 0
    <3>1. 1 \in 1 .. N
      BY <1>1, <2>2
    <3>2. IsHeader(w, 1) /\ AtOf(w, 1) = 0 /\ Depth(w, 1) = 0 /\ Base(w, 1) = 0
      BY <2>2 DEF Order, N
    <3>3. QED
      BY <1>2, <3>1, <3>2 DEF SameItems, N
  <2>3. QED
    BY <1>1, <2>1, <2>2
<1>11. Order(u, t)
  <2>1. Len(u) # 0 /\ Len(u) = N + 1 /\ Len(u) - 1 = N
    BY <1>1
  <2>2. QED
    BY <1>5, <1>8, <1>9, <1>10, <2>1 DEF Order
<1>12. QED
  BY <1>7, <1>11 DEF u

\* The properties of the node at k follow it.
Owns(w, k) ==
  \A j \in 1 .. NProps(w, k) :
    k + j <= Len(w) => ~IsHeader(w, k + j) /\ PropOf(w, k + j) = Props(w, k)[j]

\* The node at k is the one being written: the properties pd are to come, and
\* then n calls.
Open(w, pd, n, k) ==
  /\ k + NProps(w, k) = Len(w) + Len(pd) /\ Left(w, k) = n
  /\ \A j \in 1 .. Len(pd) : pd[j] = Props(w, k)[(Len(w) - k) + j]

\* A node follows the one at k, and its children take its place in what is left.
Followed(w, k) ==
  /\ After(w, k) <= Len(w) /\ IsHeader(w, After(w, k)) /\ Left(w, k) >= 1
  /\ Left(w, After(w, k)) = (Left(w, k) - 1) + NChildren(w, After(w, k))

Groups(w, pd, n) ==
  /\ \A k \in 1 .. Len(w) :
       IsHeader(w, k) => Owns(w, k) /\ (Open(w, pd, n, k) \/ Followed(w, k))
  /\ Len(w) > 0 => \E k \in 1 .. Len(w) : IsHeader(w, k) /\ Open(w, pd, n, k)

\* Of the calls made for children of the node at k, the one q from the last is
\* still to be made.
Waits(w, k, q) ==
  \A m \in k .. Len(w) : IsHeader(w, m) /\ After(w, m) <= Len(w) => Left(w, m) > q

Due(w, wk) ==
  \A k \in 1 .. Len(w), q \in Nat :
    IsHeader(w, k) /\ Base(w, k) < q /\ q <= Left(w, k) /\ Waits(w, k, q) =>
      q \in 1 .. Len(wk) /\ wk[(Len(wk) + 1) - q].depth = Depth(w, k) + 1

\* The node after the one at i is a child of the node at k.
ChildAfter(w, k, i) ==
  /\ IsHeader(w, k) /\ IsHeader(w, i) /\ k <= i /\ After(w, i) <= Len(w)
  /\ Base(w, k) < Left(w, i) /\ Left(w, i) <= Left(w, k)
  /\ \A m \in k .. i - 1 : IsHeader(w, m) => Left(w, m) > Left(w, i)

Deep(w) ==
  \A k, i \in 1 .. Len(w) : ChildAfter(w, k, i) => Depth(w, After(w, i)) = Depth(w, k) + 1

\* The numbers of the node at k.
LEMMA HeaderFacts ==
  ASSUME NEW w, NEW s, Items(w, s), NEW k \in 1 .. Len(w), IsHeader(w, k)
  PROVE  /\ NProps(w, k) \in Nat /\ NChildren(w, k) \in Nat /\ Left(w, k) \in Nat
         /\ Base(w, k) \in Nat /\ Base(w, k) <= Left(w, k) /\ Left(w, k) = Base(w, k) + NChildren(w, k)
         /\ Depth(w, k) \in Nat
         /\ Props(w, k) \in Seq(PropType) /\ NProps(w, k) = Len(Props(w, k))
         /\ After(w, k) \in Nat /\ After(w, k) = (k + NProps(w, k)) + 1 /\ After(w, k) > k
         /\ End(w, k) = AtOf(w, k) + 8
         /\ Len(w) \in Nat /\ k \in Nat
<1>1. HeaderOK(w[k], s) /\ Len(w) \in Nat /\ k \in Nat
  <2>1. ItemOK(w[k], s)
    BY DEF Items
  <2>2. PICK S : w \in Seq(S)
    BY DEF Items
  <2>3. Len(w) \in Nat
    BY <2>2
  <2>4. QED
    BY <2>1, <2>3 DEF ItemOK, IsHeader
<1>2. /\ Props(w, k) \in Seq(PropType) /\ NProps(w, k) = Len(Props(w, k))
      /\ NChildren(w, k) \in Nat /\ Left(w, k) \in Nat /\ Left(w, k) >= NChildren(w, k)
      /\ Depth(w, k) \in Nat
  BY <1>1 DEF HeaderOK, Props, NProps, NChildren, Left, Depth
<1>3. NProps(w, k) \in Nat
  BY <1>2
<1>4. Base(w, k) = Left(w, k) - NChildren(w, k) /\ After(w, k) = (k + NProps(w, k)) + 1
  BY DEF Base, After
<1>5. End(w, k) = AtOf(w, k) + 8
  BY DEF End, EndOf, AtOf, IsHeader
<1>6. QED
  BY <1>1, <1>2, <1>3, <1>4, <1>5

\* A later header comes after the properties of an earlier one.
LEMMA HeadersApart ==
  ASSUME NEW w, NEW s, Items(w, s), NEW k \in 1 .. Len(w), NEW m \in 1 .. Len(w),
         IsHeader(w, k), IsHeader(w, m), Owns(w, k), k < m
  PROVE  After(w, k) <= m
<1>1. NProps(w, k) \in Nat /\ After(w, k) = (k + NProps(w, k)) + 1 /\ k \in Nat /\ Len(w) \in Nat
  BY HeaderFacts
<1>2. SUFFICES ASSUME m <= k + NProps(w, k) PROVE FALSE
  BY <1>1
<1>3. m - k \in 1 .. NProps(w, k) /\ k + (m - k) = m /\ m <= Len(w)
  BY <1>1, <1>2
<1>4. QED
  BY <1>3 DEF Owns

\* write_adt_node: one header more.
LEMMA GroupsHeader ==
  ASSUME NEW w, NEW s, NEW t, NEW x, NEW n \in Nat, Items(w, s), Items(Append(w, x), t),
         Groups(w, <<>>, n), x.header = TRUE,
         Len(w) > 0 => n >= 1 /\ x.left = (n - 1) + Len(x.node.children)
  PROVE  Groups(Append(w, x), x.node.props, x.left)
<1> DEFINE u == Append(w, x)
           N == Len(w)
           pd == x.node.props
<1>1. /\ N \in Nat /\ Len(u) = N + 1
      /\ \A k \in 1 .. N : u[k] = w[k]
      /\ u[N + 1] = x
  BY AppendItem DEF Items
<1>2. SameItems(u, w)
  BY <1>1, SameItemsFacts
<1>3. /\ IsHeader(u, N + 1) /\ Left(u, N + 1) = x.left /\ Props(u, N + 1) = pd
      /\ NProps(u, N + 1) = Len(pd) /\ NChildren(u, N + 1) = Len(x.node.children)
  BY <1>1 DEF IsHeader, Left, Props, NProps, NChildren
<1>4. N + 1 \in 1 .. Len(u) /\ Len(pd) \in Nat
  <2>1. N + 1 \in 1 .. Len(u)
    BY <1>1
  <2>2. NProps(u, N + 1) \in Nat
    BY <1>3, <2>1, HeaderFacts
  <2>3. QED
    BY <1>3, <2>1, <2>2
<1> HIDE DEF u, N, pd
<1>5. Open(u, pd, x.left, N + 1)
  <2>1. \A j \in 1 .. Len(pd) : (Len(u) - (N + 1)) + j = j
    BY <1>1, <1>4
  <2>2. QED
    BY <1>1, <1>3, <2>1 DEF Open
<1>6. Owns(u, N + 1)
  <2>1. ASSUME NEW j \in 1 .. NProps(u, N + 1)
        PROVE  ~((N + 1) + j <= Len(u))
    BY <1>1, <1>3, <1>4
  <2>2. QED
    BY <2>1 DEF Owns
<1>7. ASSUME NEW k \in 1 .. N, IsHeader(u, k)
      PROVE  Owns(u, k) /\ Followed(u, k)
  <2>1. IsHeader(w, k) /\ N > 0
    BY <1>1, <1>2, <1>7 DEF SameItems, N
  <2>2. Owns(w, k) /\ (Open(w, <<>>, n, k) \/ Followed(w, k))
    BY <2>1 DEF Groups, N
  <2>3. /\ NProps(w, k) \in Nat /\ Left(w, k) \in Nat /\ k \in Nat
        /\ After(w, k) = (k + NProps(w, k)) + 1 /\ After(w, k) > k
    BY <2>1, HeaderFacts DEF N
  <2>4. /\ NProps(u, k) = NProps(w, k) /\ Left(u, k) = Left(w, k) /\ Props(u, k) = Props(w, k)
        /\ After(u, k) = After(w, k)
    BY <1>2 DEF SameItems, N
  <2>5. CASE Open(w, <<>>, n, k)
    <3>1. After(w, k) = N + 1 /\ Left(w, k) = n
      <4>1. k + NProps(w, k) = N + 0 /\ Left(w, k) = n
        BY <2>5 DEF Open, N
      <4>2. QED
        BY <1>1, <2>3, <4>1
    <3>2. Followed(u, k)
      BY <1>1, <1>3, <2>1, <2>4, <3>1 DEF Followed, N
    <3>3. ASSUME NEW j \in 1 .. NProps(u, k), k + j <= Len(u)
          PROVE  ~IsHeader(u, k + j) /\ PropOf(u, k + j) = Props(u, k)[j]
      <4>1. k + j \in 1 .. N /\ j \in 1 .. NProps(w, k)
        BY <1>1, <2>3, <2>4, <3>1, <3>3
      <4>2. ~IsHeader(w, k + j) /\ PropOf(w, k + j) = Props(w, k)[j]
        BY <1>1, <2>2, <4>1 DEF Owns, N
      <4>3. QED
        BY <1>2, <2>4, <4>1, <4>2 DEF SameItems, N
    <3>4. QED
      BY <3>2, <3>3 DEF Owns
  <2>6. CASE Followed(w, k)
    <3> DEFINE a == After(w, k)
    <3>1. /\ a \in 1 .. N /\ IsHeader(w, a) /\ Left(w, k) >= 1
          /\ Left(w, a) = (Left(w, k) - 1) + NChildren(w, a)
      BY <1>1, <2>3, <2>6 DEF Followed, N
    <3>2. IsHeader(u, a) /\ Left(u, a) = Left(w, a) /\ NChildren(u, a) = NChildren(w, a)
      BY <1>2, <3>1 DEF SameItems, N
    <3>3. Followed(u, k)
      <4>1. a <= Len(u)
        BY <1>1, <3>1
      <4>2. QED
        BY <2>4, <3>1, <3>2, <4>1 DEF Followed
    <3>4. ASSUME NEW j \in 1 .. NProps(u, k), k + j <= Len(u)
          PROVE  ~IsHeader(u, k + j) /\ PropOf(u, k + j) = Props(u, k)[j]
      <4>1. k + j \in 1 .. N /\ j \in 1 .. NProps(w, k)
        BY <1>1, <2>3, <2>4, <3>1, <3>4
      <4>2. ~IsHeader(w, k + j) /\ PropOf(w, k + j) = Props(w, k)[j]
        BY <1>1, <2>2, <4>1 DEF Owns, N
      <4>3. QED
        BY <1>2, <2>4, <4>1, <4>2 DEF SameItems, N
    <3>5. QED
      BY <3>3, <3>4 DEF Owns
  <2>7. QED
    BY <2>2, <2>5, <2>6
<1>8. ASSUME NEW k \in 1 .. Len(u), IsHeader(u, k)
      PROVE  Owns(u, k) /\ (Open(u, pd, x.left, k) \/ Followed(u, k))
  <2>1. k \in 1 .. N \/ k = N + 1
    BY <1>1
  <2>2. QED
    BY <1>5, <1>6, <1>7, <1>8, <2>1
<1>9. QED
  BY <1>3, <1>4, <1>5, <1>8 DEF Groups, u, pd

\* write_adt_prop: one property more.
LEMMA GroupsProp ==
  ASSUME NEW w, NEW s, NEW x, NEW n \in Nat, NEW pd \in Seq(PropType), pd # <<>>, Items(w, s),
         Groups(w, pd, n), Len(w) > 0, x.header = FALSE, x.prop = Head(pd)
  PROVE  Groups(Append(w, x), Tail(pd), n)
<1> DEFINE u == Append(w, x)
           N == Len(w)
           qd == Tail(pd)
<1>1. /\ N \in Nat /\ Len(u) = N + 1
      /\ \A k \in 1 .. N : u[k] = w[k]
      /\ u[N + 1] = x
  BY AppendItem DEF Items
<1>2. SameItems(u, w)
  BY <1>1, SameItemsFacts
<1>3. ~IsHeader(u, N + 1) /\ PropOf(u, N + 1) = pd[1]
  BY <1>1 DEF IsHeader, PropOf
<1>4. /\ Len(pd) \in Nat /\ Len(pd) >= 1 /\ Len(qd) = Len(pd) - 1
      /\ \A j \in 1 .. Len(pd) - 1 : qd[j] = pd[j + 1]
  BY HeadTailProperties
<1> HIDE DEF u, N, qd
<1>5. ASSUME NEW k \in 1 .. N, IsHeader(u, k)
      PROVE  Owns(u, k) /\ (Open(u, qd, n, k) \/ Followed(u, k)) /\ (Open(w, pd, n, k) => Open(u, qd, n, k))
  <2>1. IsHeader(w, k)
    BY <1>2, <1>5 DEF SameItems, N
  <2>2. Owns(w, k) /\ (Open(w, pd, n, k) \/ Followed(w, k))
    BY <2>1 DEF Groups, N
  <2>3. /\ NProps(w, k) \in Nat /\ Left(w, k) \in Nat /\ k \in Nat
        /\ After(w, k) = (k + NProps(w, k)) + 1 /\ After(w, k) > k
    BY <2>1, HeaderFacts DEF N
  <2>4. /\ NProps(u, k) = NProps(w, k) /\ Left(u, k) = Left(w, k) /\ Props(u, k) = Props(w, k)
        /\ After(u, k) = After(w, k)
    BY <1>2 DEF SameItems, N
  <2>5. ASSUME Open(w, pd, n, k)
        PROVE  Owns(u, k) /\ Open(u, qd, n, k)
    <3>1. /\ k + NProps(w, k) = N + Len(pd) /\ Left(w, k) = n
          /\ \A j \in 1 .. Len(pd) : pd[j] = Props(w, k)[(N - k) + j]
      BY <2>5 DEF Open, N
    <3>2. ASSUME NEW j \in 1 .. Len(qd)
          PROVE  qd[j] = Props(w, k)[(Len(u) - k) + j]
      <4>1. j + 1 \in 1 .. Len(pd) /\ j \in 1 .. Len(pd) - 1 /\ (N - k) + (j + 1) = (Len(u) - k) + j
        <5>1. j \in Nat /\ 1 <= j /\ j <= Len(pd) - 1 /\ N \in Nat /\ k \in Nat /\ Len(u) = N + 1
              /\ Len(pd) \in Nat
          BY <1>1, <1>4, <2>3
        <5>2. QED
          BY <5>1
      <4>2. qd[j] = pd[j + 1] /\ pd[j + 1] = Props(w, k)[(N - k) + (j + 1)]
        BY <1>4, <3>1, <4>1
      <4>3. QED
        BY <4>1, <4>2
    <3>3. Open(u, qd, n, k)
      <4>1. k + NProps(w, k) = Len(u) + Len(qd)
        BY <1>1, <1>4, <3>1
      <4>2. QED
        BY <2>4, <3>1, <3>2, <4>1 DEF Open
    <3>4. ASSUME NEW j \in 1 .. NProps(u, k), k + j <= Len(u)
          PROVE  ~IsHeader(u, k + j) /\ PropOf(u, k + j) = Props(u, k)[j]
      <4>1. CASE k + j <= N
        <5>1. k + j \in 1 .. N /\ j \in 1 .. NProps(w, k)
          BY <2>3, <2>4, <4>1
        <5>2. ~IsHeader(w, k + j) /\ PropOf(w, k + j) = Props(w, k)[j]
          BY <2>2, <4>1, <5>1 DEF Owns, N
        <5>3. QED
          BY <1>2, <2>4, <5>1, <5>2 DEF SameItems, N
      <4>2. CASE k + j = N + 1
        <5>1. (N - k) + 1 = j /\ 1 \in 1 .. Len(pd)
          BY <1>1, <1>4, <2>3, <4>2
        <5>2. pd[1] = Props(w, k)[j]
          BY <3>1, <5>1
        <5>3. QED
          BY <1>3, <2>4, <4>2, <5>2
      <4>3. QED
        BY <1>1, <2>3, <2>4, <3>4, <4>1, <4>2
    <3>5. QED
      BY <3>3, <3>4 DEF Owns
  <2>6. CASE Followed(w, k)
    <3> DEFINE a == After(w, k)
    <3>1. /\ a \in 1 .. N /\ IsHeader(w, a) /\ Left(w, k) >= 1
          /\ Left(w, a) = (Left(w, k) - 1) + NChildren(w, a)
      BY <1>1, <2>3, <2>6 DEF Followed, N
    <3>2. IsHeader(u, a) /\ Left(u, a) = Left(w, a) /\ NChildren(u, a) = NChildren(w, a)
      BY <1>2, <3>1 DEF SameItems, N
    <3>3. Followed(u, k)
      <4>1. a <= Len(u)
        BY <1>1, <3>1
      <4>2. QED
        BY <2>4, <3>1, <3>2, <4>1 DEF Followed
    <3>4. ASSUME NEW j \in 1 .. NProps(u, k), k + j <= Len(u)
          PROVE  ~IsHeader(u, k + j) /\ PropOf(u, k + j) = Props(u, k)[j]
      <4>1. k + j \in 1 .. N /\ j \in 1 .. NProps(w, k)
        BY <1>1, <2>3, <2>4, <3>1, <3>4
      <4>2. ~IsHeader(w, k + j) /\ PropOf(w, k + j) = Props(w, k)[j]
        BY <1>1, <2>2, <4>1 DEF Owns, N
      <4>3. QED
        BY <1>2, <2>4, <4>1, <4>2 DEF SameItems, N
    <3>5. QED
      BY <2>5, <3>3, <3>4 DEF Owns
  <2>7. QED
    BY <2>2, <2>5, <2>6
<1>6. PICK k \in 1 .. N : IsHeader(w, k) /\ Open(w, pd, n, k)
  BY DEF Groups, N
<1>7. k \in 1 .. Len(u) /\ IsHeader(u, k) /\ Open(u, qd, n, k)
  <2>1. IsHeader(u, k) /\ k \in 1 .. Len(u)
    BY <1>1, <1>2, <1>6 DEF SameItems, N
  <2>2. QED
    BY <1>5, <1>6, <2>1
<1>8. ASSUME NEW m \in 1 .. Len(u), IsHeader(u, m)
      PROVE  Owns(u, m) /\ (Open(u, qd, n, m) \/ Followed(u, m))
  <2>1. m \in 1 .. N
    BY <1>1, <1>3, <1>8
  <2>2. QED
    BY <1>5, <1>8, <2>1
<1>9. QED
  BY <1>7, <1>8 DEF Groups, u, qd

\* The last header: no other node waits for its properties.
LEMMA LastHeader ==
  ASSUME NEW w, NEW s, NEW n, Items(w, s), Groups(w, <<>>, n), Len(w) > 0
  PROVE  \E i \in 1 .. Len(w) :
           /\ IsHeader(w, i) /\ After(w, i) = Len(w) + 1 /\ Left(w, i) = n
           /\ \A m \in 1 .. Len(w) :
                IsHeader(w, m) => m <= i /\ (m < i => After(w, m) <= i) /\ (After(w, m) > Len(w) => m = i)
<1>1. PICK i \in 1 .. Len(w) : IsHeader(w, i) /\ Open(w, <<>>, n, i)
  BY DEF Groups
<1>2. /\ NProps(w, i) \in Nat /\ After(w, i) = (i + NProps(w, i)) + 1 /\ i \in Nat
      /\ Len(w) \in Nat
  BY <1>1, HeaderFacts
<1>3. i + NProps(w, i) = Len(w) + 0 /\ Left(w, i) = n
  BY <1>1 DEF Open
<1>4. After(w, i) = Len(w) + 1
  BY <1>2, <1>3
<1>5. ASSUME NEW m \in 1 .. Len(w), IsHeader(w, m)
      PROVE  m <= i /\ (m < i => After(w, m) <= i) /\ (After(w, m) > Len(w) => m = i)
  <2>1. Owns(w, i) /\ Owns(w, m)
    BY <1>1, <1>5 DEF Groups
  <2>2. ~(i < m)
    <3>1. SUFFICES ASSUME i < m PROVE FALSE
      OBVIOUS
    <3>2. After(w, i) <= m
      BY <1>1, <1>5, <2>1, <3>1, HeadersApart
    <3>3. QED
      BY <1>2, <1>4, <3>2
  <2>3. m < i => After(w, m) <= i
    BY <1>1, <1>5, <2>1, HeadersApart
  <2>4. After(w, m) \in Nat
    BY <1>5, HeaderFacts
  <2>5. QED
    BY <1>2, <2>2, <2>3, <2>4
<1>6. QED
  BY <1>1, <1>3, <1>4, <1>5

\* write_adt_node: the depth of its children.
LEMMA DeepHeader ==
  ASSUME NEW w, NEW s, NEW t, NEW x, NEW wk, NEW vk, NEW C \in Nat,
         Items(w, s), Items(Append(w, x), t),
         Len(wk) \in Nat, Len(wk) >= 1, Groups(w, <<>>, Len(wk)), Due(w, wk), Deep(w),
         x.header = TRUE, x.depth = wk[1].depth, C = Len(x.node.children),
         x.left = Len(vk), Len(vk) = C + (Len(wk) - 1),
         \A j \in 1 .. C : vk[j].depth = x.depth + 1,
         \A j \in 1 .. Len(wk) - 1 : vk[C + j] = wk[j + 1]
  PROVE  Due(Append(w, x), vk) /\ Deep(Append(w, x))
<1> DEFINE u == Append(w, x)
           N == Len(w)
           L == Len(wk)
<1>1. /\ N \in Nat /\ Len(u) = N + 1
      /\ \A k \in 1 .. N : u[k] = w[k]
      /\ u[N + 1] = x
  BY AppendItem DEF Items
<1>2. SameItems(u, w)
  BY <1>1, SameItemsFacts
<1>3. /\ IsHeader(u, N + 1) /\ Left(u, N + 1) = C + (L - 1) /\ Depth(u, N + 1) = x.depth
      /\ NChildren(u, N + 1) = C /\ Base(u, N + 1) = Left(u, N + 1) - C
  BY <1>1 DEF IsHeader, Left, Depth, NChildren, Base
<1>4. N + 1 \in 1 .. Len(u) /\ L \in Nat /\ L >= 1
  BY <1>1
<1>5. After(u, N + 1) > Len(u) /\ After(u, N + 1) \in Nat
  <2>1. After(u, N + 1) > N + 1 /\ After(u, N + 1) \in Nat
    BY <1>3, <1>4, HeaderFacts
  <2>2. QED
    BY <1>1, <2>1
<1> HIDE DEF u, N, L
<1>6. ASSUME NEW k \in 1 .. N, IsHeader(w, k)
      PROVE  \E i \in 1 .. N :
               /\ IsHeader(w, i) /\ After(w, i) = N + 1 /\ Left(w, i) = L /\ k <= i
               /\ \A m \in 1 .. N : IsHeader(w, m) => m <= i /\ (m < i => After(w, m) <= i)
                                                     /\ (After(w, m) > N => m = i)
  <2>1. Len(w) > 0
    BY <1>1 DEF N
  <2>2. QED
    BY <1>6, <2>1, LastHeader DEF N, L
<1>7. Due(u, vk)
  <2> SUFFICES ASSUME NEW k \in 1 .. Len(u), NEW q \in Nat,
                      IsHeader(u, k), Base(u, k) < q, q <= Left(u, k), Waits(u, k, q)
               PROVE  q \in 1 .. Len(vk) /\ vk[(Len(vk) + 1) - q].depth = Depth(u, k) + 1
    BY DEF Due
  <2>0. Len(vk) = C + (L - 1) /\ L \in Nat /\ C \in Nat
    BY <1>4 DEF L
  <2>1. CASE k = N + 1
    <3>1. L - 1 < q /\ q <= C + (L - 1)
      BY <1>3, <1>4, <2>0, <2>1
    <3> DEFINE j == (Len(vk) + 1) - q
    <3>2. j \in 1 .. C /\ q \in 1 .. Len(vk)
      <4> DEFINE V == Len(vk)
      <4>1. V = C + (L - 1) /\ V \in Nat /\ L >= 1
        BY <1>4, <2>0
      <4> HIDE DEF V
      <4>2. (V + 1) - q \in 1 .. C /\ q \in 1 .. V
        BY <2>0, <3>1, <4>1
      <4>3. QED
        BY <4>2 DEF V
    <3> HIDE DEF j
    <3>3. vk[j].depth = x.depth + 1
      BY <3>2
    <3>4. QED
      BY <1>3, <2>1, <3>2, <3>3 DEF j
  <2>2. CASE k \in 1 .. N
    <3>1. /\ IsHeader(w, k) /\ Base(w, k) < q /\ q <= Left(w, k) /\ Depth(u, k) = Depth(w, k)
      BY <1>2, <2>2 DEF SameItems, N
    <3>2. PICK i \in 1 .. N : IsHeader(w, i) /\ After(w, i) = N + 1 /\ Left(w, i) = L /\ k <= i
      BY <1>6, <2>2, <3>1
    <3>3. L > q
      <4>1. i \in k .. Len(u) /\ IsHeader(u, i) /\ After(u, i) <= Len(u) /\ Left(u, i) = L
        BY <1>1, <1>2, <2>2, <3>2 DEF SameItems, N
      <4>2. QED
        BY <4>1 DEF Waits
    <3>4. Waits(w, k, q)
      <4> SUFFICES ASSUME NEW m \in k .. Len(w), IsHeader(w, m), After(w, m) <= Len(w)
                   PROVE  Left(w, m) > q
        BY DEF Waits
      <4>1. m \in 1 .. N /\ m \in k .. Len(u) /\ After(w, m) \in Nat
        <5>1. m \in 1 .. N /\ m \in k .. Len(u)
          BY <1>1, <2>2 DEF N
        <5>2. QED
          BY <5>1, HeaderFacts DEF N
      <4>2. IsHeader(u, m) /\ After(u, m) <= Len(u) /\ Left(u, m) = Left(w, m)
        <5>1. (IsHeader(u, m) <=> IsHeader(w, m)) /\ After(u, m) = After(w, m) /\ Left(u, m) = Left(w, m)
          BY <1>2, <4>1 DEF SameItems, N
        <5>2. After(w, m) <= N
          BY DEF N
        <5>3. QED
          BY <1>1, <4>1, <5>1, <5>2
      <4>3. QED
        BY <4>1, <4>2 DEF Waits
    <3>5. q \in 1 .. L /\ wk[(L + 1) - q].depth = Depth(w, k) + 1
      BY <2>2, <3>1, <3>4 DEF Due, N, L
    <3>6. /\ (L + 1) - q = (L - q) + 1 /\ L - q \in 1 .. L - 1 /\ q \in 1 .. Len(vk)
          /\ (Len(vk) + 1) - q = C + (L - q)
      <4> DEFINE V == Len(vk)
      <4>0. q >= 1 /\ q <= L
        BY <2>0, <3>5
      <4>1. V = C + (L - 1) /\ V \in Nat /\ L >= 1
        BY <1>4, <2>0
      <4> HIDE DEF V
      <4>2. (L + 1) - q = (L - q) + 1 /\ L - q \in 1 .. L - 1 /\ q \in 1 .. V
            /\ (V + 1) - q = C + (L - q)
        BY <2>0, <3>3, <4>0, <4>1
      <4>3. QED
        BY <4>2 DEF V
    <3>7. vk[C + (L - q)] = wk[(L - q) + 1]
      BY <3>6 DEF L
    <3>8. QED
      BY <3>1, <3>5, <3>6, <3>7
  <2>3. QED
    BY <1>1, <2>1, <2>2
<1>8. Deep(u)
  <2> SUFFICES ASSUME NEW k \in 1 .. Len(u), NEW i \in 1 .. Len(u), ChildAfter(u, k, i)
               PROVE  Depth(u, After(u, i)) = Depth(u, k) + 1
    BY DEF Deep
  <2>1. /\ IsHeader(u, k) /\ IsHeader(u, i) /\ k <= i /\ After(u, i) <= Len(u)
        /\ Base(u, k) < Left(u, i) /\ Left(u, i) <= Left(u, k)
        /\ \A m \in k .. i - 1 : IsHeader(u, m) => Left(u, m) > Left(u, i)
    BY DEF ChildAfter
  <2>2. i \in 1 .. N /\ k \in 1 .. N
    <3>1. i # N + 1
      BY <1>1, <1>5, <2>1
    <3>2. QED
      BY <1>1, <2>1, <3>1
  <2>3. /\ IsHeader(w, k) /\ IsHeader(w, i) /\ After(u, i) = After(w, i) /\ Depth(u, k) = Depth(w, k)
        /\ Base(u, k) = Base(w, k) /\ Left(u, i) = Left(w, i) /\ Left(u, k) = Left(w, k)
    BY <1>2, <2>1, <2>2 DEF SameItems, N
  <2>4. \A m \in k .. i - 1 : IsHeader(w, m) => Left(w, m) > Left(w, i)
    <3> SUFFICES ASSUME NEW m \in k .. i - 1, IsHeader(w, m) PROVE Left(w, m) > Left(w, i)
      OBVIOUS
    <3>1. m \in 1 .. N
      BY <1>1, <2>2
    <3>2. IsHeader(u, m) /\ Left(u, m) = Left(w, m)
      BY <1>2, <3>1 DEF SameItems, N
    <3>3. QED
      BY <2>1, <2>3, <3>2
  <2>5. After(w, i) \in Nat /\ After(w, i) > i /\ Left(w, i) \in Nat
    BY <2>2, <2>3, HeaderFacts DEF N
  <2>6. CASE After(w, i) <= N
    <3>1. ChildAfter(w, k, i)
      BY <2>1, <2>3, <2>4, <2>6 DEF ChildAfter, N
    <3>2. Depth(w, After(w, i)) = Depth(w, k) + 1
      BY <2>2, <3>1 DEF Deep, N
    <3>3. After(w, i) \in 1 .. N
      BY <2>2, <2>5, <2>6
    <3>4. Depth(u, After(w, i)) = Depth(w, After(w, i))
      BY <1>2, <3>3 DEF SameItems, N
    <3>5. QED
      BY <2>3, <3>2, <3>4
  <2>7. CASE After(w, i) = N + 1
    <3>1. PICK h \in 1 .. N :
             /\ IsHeader(w, h) /\ Left(w, h) = L
             /\ \A m \in 1 .. N : IsHeader(w, m) => m <= h /\ (After(w, m) > N => m = h)
      BY <1>6, <2>2, <2>3
    <3>2. h = i
      BY <1>1, <2>2, <2>3, <2>7, <3>1
    <3>3. Waits(w, k, L)
      <4> SUFFICES ASSUME NEW m \in k .. N, IsHeader(w, m), After(w, m) <= N
                   PROVE  Left(w, m) > L
        BY DEF Waits, N
      <4>1. m \in 1 .. N /\ m # i
        BY <1>1, <2>2, <2>7
      <4>2. m <= i
        BY <3>1, <3>2, <4>1
      <4>3. m \in k .. i - 1
        BY <2>2, <4>1, <4>2
      <4>4. QED
        BY <2>4, <3>1, <3>2, <4>3
    <3>4. L \in 1 .. L /\ wk[(L + 1) - L].depth = Depth(w, k) + 1
      <4>1. Base(w, k) < L /\ L <= Left(w, k)
        BY <2>1, <2>3, <3>1, <3>2
      <4>2. QED
        BY <1>4, <2>2, <2>3, <3>3, <4>1 DEF Due, N, L
    <3>5. (L + 1) - L = 1
      BY <1>4
    <3>6. QED
      BY <1>3, <2>3, <2>7, <3>4, <3>5
  <2>8. QED
    BY <1>1, <2>1, <2>3, <2>5, <2>6, <2>7
<1>9. QED
  BY <1>7, <1>8 DEF u

\* write_adt_prop leaves the depths alone.
LEMMA DeepProp ==
  ASSUME NEW w, NEW s, NEW x, NEW wk, NEW pd, NEW n, Len(pd) \in Nat, Len(pd) >= 1, Items(w, s),
         Groups(w, pd, n), Due(w, wk), Deep(w), x.header = FALSE
  PROVE  Due(Append(w, x), wk) /\ Deep(Append(w, x))
<1> DEFINE u == Append(w, x)
           N == Len(w)
<1>1. /\ N \in Nat /\ Len(u) = N + 1
      /\ \A k \in 1 .. N : u[k] = w[k]
      /\ u[N + 1] = x
  BY AppendItem DEF Items
<1>2. SameItems(u, w)
  BY <1>1, SameItemsFacts
<1>3. ~IsHeader(u, N + 1)
  BY <1>1 DEF IsHeader
<1> HIDE DEF u, N
<1>4. ASSUME NEW k \in 1 .. N, IsHeader(w, k)
      PROVE  After(w, k) \in Nat /\ After(w, k) > k /\ After(w, k) # N + 1
  <2>1. NProps(w, k) \in Nat /\ After(w, k) = (k + NProps(w, k)) + 1 /\ k \in Nat
    BY <1>4, HeaderFacts DEF N
  <2>2. Open(w, pd, n, k) \/ Followed(w, k)
    BY <1>4 DEF Groups, N
  <2>3. k + NProps(w, k) = N + Len(pd) \/ After(w, k) <= N
    BY <2>2 DEF Open, Followed, N
  <2>4. QED
    BY <1>1, <2>1, <2>3
<1>5. ASSUME NEW k \in 1 .. Len(u), IsHeader(u, k)
      PROVE  /\ k \in 1 .. N /\ IsHeader(w, k) /\ Base(u, k) = Base(w, k) /\ Left(u, k) = Left(w, k)
             /\ Depth(u, k) = Depth(w, k) /\ After(u, k) = After(w, k)
             /\ (After(w, k) <= Len(u) => After(w, k) <= N)
  <2>1. k \in 1 .. N
    BY <1>1, <1>3, <1>5
  <2>2. /\ IsHeader(w, k) /\ Base(u, k) = Base(w, k) /\ Left(u, k) = Left(w, k)
        /\ Depth(u, k) = Depth(w, k) /\ After(u, k) = After(w, k)
    BY <1>2, <1>5, <2>1 DEF SameItems, N
  <2>3. After(w, k) \in Nat /\ After(w, k) # N + 1
    BY <1>4, <2>1, <2>2
  <2>4. QED
    BY <1>1, <2>1, <2>2, <2>3
<1>6. ASSUME NEW k \in 1 .. N, IsHeader(w, k)
      PROVE  IsHeader(u, k) /\ k \in 1 .. Len(u)
  BY <1>1, <1>2, <1>6 DEF SameItems, N
<1>7. Due(u, wk)
  <2> SUFFICES ASSUME NEW k \in 1 .. Len(u), NEW q \in Nat,
                      IsHeader(u, k), Base(u, k) < q, q <= Left(u, k), Waits(u, k, q)
               PROVE  q \in 1 .. Len(wk) /\ wk[(Len(wk) + 1) - q].depth = Depth(u, k) + 1
    BY DEF Due
  <2>1. /\ k \in 1 .. N /\ IsHeader(w, k) /\ Base(u, k) = Base(w, k) /\ Left(u, k) = Left(w, k)
        /\ Depth(u, k) = Depth(w, k)
    BY <1>5
  <2>2. Waits(w, k, q)
    <3> SUFFICES ASSUME NEW m \in k .. N, IsHeader(w, m), After(w, m) <= N
                 PROVE  Left(w, m) > q
      BY DEF Waits, N
    <3>1. m \in 1 .. N /\ m \in k .. Len(u)
      BY <1>1, <2>1
    <3>2. IsHeader(u, m) /\ m \in 1 .. Len(u)
      BY <1>6, <3>1
    <3>3. After(u, m) = After(w, m) /\ Left(u, m) = Left(w, m) /\ After(w, m) \in Nat
      BY <1>4, <1>5, <3>1, <3>2
    <3>4. After(u, m) <= Len(u)
      BY <1>1, <3>3
    <3>5. QED
      BY <3>1, <3>2, <3>3, <3>4 DEF Waits
  <2>3. QED
    BY <2>1, <2>2 DEF Due, N
<1>8. Deep(u)
  <2> SUFFICES ASSUME NEW k \in 1 .. Len(u), NEW i \in 1 .. Len(u), ChildAfter(u, k, i)
               PROVE  Depth(u, After(u, i)) = Depth(u, k) + 1
    BY DEF Deep
  <2>1. /\ IsHeader(u, k) /\ IsHeader(u, i) /\ k <= i /\ After(u, i) <= Len(u)
        /\ Base(u, k) < Left(u, i) /\ Left(u, i) <= Left(u, k)
        /\ \A m \in k .. i - 1 : IsHeader(u, m) => Left(u, m) > Left(u, i)
    BY DEF ChildAfter
  <2>2. /\ k \in 1 .. N /\ IsHeader(w, k) /\ Base(u, k) = Base(w, k) /\ Left(u, k) = Left(w, k)
        /\ Depth(u, k) = Depth(w, k)
    BY <1>5, <2>1
  <2>3. /\ i \in 1 .. N /\ IsHeader(w, i) /\ Left(u, i) = Left(w, i)
        /\ After(u, i) = After(w, i) /\ After(w, i) <= N
    BY <1>5, <2>1
  <2>4. \A m \in k .. i - 1 : IsHeader(w, m) => Left(w, m) > Left(w, i)
    <3> SUFFICES ASSUME NEW m \in k .. i - 1, IsHeader(w, m) PROVE Left(w, m) > Left(w, i)
      OBVIOUS
    <3>1. m \in 1 .. N
      BY <1>1, <2>2, <2>3
    <3>2. IsHeader(u, m) /\ m \in 1 .. Len(u)
      BY <1>6, <3>1
    <3>3. Left(u, m) = Left(w, m)
      BY <1>5, <3>2
    <3>4. QED
      BY <2>1, <2>3, <3>2, <3>3
  <2>5. ChildAfter(w, k, i)
    BY <2>1, <2>2, <2>3, <2>4 DEF ChildAfter, N
  <2>6. Depth(w, After(w, i)) = Depth(w, k) + 1
    BY <2>2, <2>3, <2>5 DEF Deep, N
  <2>7. After(w, i) \in 1 .. N
    BY <1>1, <1>4, <2>3
  <2>8. Depth(u, After(w, i)) = Depth(w, After(w, i))
    BY <1>2, <2>7 DEF SameItems, N
  <2>9. QED
    BY <2>2, <2>3, <2>6, <2>8
<1>9. QED
  BY <1>7, <1>8 DEF u

-----------------------------------------------------------------------------
(* The writer. *)

Layout(w, s, pd, wk) ==
  /\ s \in Seq(Bytes) /\ Items(w, s) /\ Order(w, s)
  /\ Groups(w, pd, Len(wk)) /\ Due(w, wk) /\ Deep(w)

WriterStages ==
  /\ stage \in {"find", "new", "parse"} => work = <<>> /\ pending = <<>> /\ written = <<>>
  /\ stage = "write" /\ Len(written) = 0 => Len(work) = 1 /\ work[1].depth = 0 /\ pending = <<>>
  /\ stage \in {"built", "kernel"} => work = <<>> /\ pending = <<>> /\ Len(written) > 0

WriterInv == Layout(written, out, pending, work) /\ WriterStages

\* Before anything is written.
LEMMA LayoutEmpty ==
  ASSUME NEW wk
  PROVE  Layout(<<>>, <<>>, <<>>, wk)
<1>1. Len(<<>>) = 0 /\ <<>> \in Seq(Bytes) /\ 1 .. 0 = {} /\ 1 .. 0 - 1 = {} /\ ~(0 > 0)
  OBVIOUS
<1>2. Items(<<>>, <<>>)
  BY <1>1 DEF Items
<1>3. Order(<<>>, <<>>)
  BY <1>1 DEF Order
<1>4. Groups(<<>>, <<>>, Len(wk)) /\ Due(<<>>, wk) /\ Deep(<<>>)
  BY <1>1 DEF Groups, Due, Deep
<1>5. QED
  BY <1>1, <1>2, <1>3, <1>4 DEF Layout

\* Initially nothing is written.
LEMMA WriterInit == Init => WriterInv
<1> SUFFICES ASSUME Init PROVE WriterInv
  OBVIOUS
<1>1. stage = "find" /\ work = <<>> /\ pending = <<>> /\ out = <<>> /\ written = <<>>
  BY DEF Init, LoaderInit
<1>2. Layout(written, out, pending, work)
  BY <1>1, LayoutEmpty
<1>3. WriterStages
  BY <1>1 DEF WriterStages
<1>4. QED
  BY <1>2, <1>3 DEF WriterInv

\* Everything written ends at a multiple of four.
LEMMA WrittenLength ==
  ASSUME NEW w, NEW s \in Seq(Bytes), Items(w, s), Order(w, s)
  PROVE  Len(s) \in Nat /\ Len(s) % 4 = 0
<1>1. Len(s) \in Nat
  OBVIOUS
<1>2. PICK S : w \in Seq(S)
  BY DEF Items
<1>3. Len(w) \in Nat
  BY <1>2
<1>4. CASE Len(w) = 0
  <2>1. s = <<>>
    BY <1>4 DEF Order
  <2>2. Len(s) = 0
    BY <2>1
  <2>3. QED
    BY <2>2
<1>5. CASE Len(w) > 0
  <2>1. Len(w) \in 1 .. Len(w)
    BY <1>3, <1>5
  <2>2. ItemOK(w[Len(w)], s) /\ Len(s) = EndOf(w[Len(w)])
    BY <1>5, <2>1 DEF Items, Order, End
  <2>3. QED
    BY <1>1, <2>2, EndFacts
<1>6. QED
  BY <1>3, <1>4, <1>5

\* write_adt_node.
LEMMA WriteNodeLayout ==
  ASSUME ParserInv, WriterInv, WriteNode, ~Refuse
  PROVE  /\ Layout(written', out', pending', work') /\ Len(written') > 0
         /\ stage' = "write"
<1>1. PICK T : Trees(T) /\ work \in Seq(CallType(T))
  BY DEF ParserInv
<1> DEFINE call == Head(work)
           n    == call.node
           due  == [i \in 1 .. Len(n.children) |-> Call(n.children[i], call.depth + 1)]
           a    == Len(n.props)
           C    == Len(n.children)
           L    == Len(work)
           x    == HeaderItem(call, Len(due \o Tail(work)))
<1>2. /\ stage = "write" /\ pending = <<>> /\ work # <<>>
      /\ FitsU32(a) /\ FitsU32(C)
      /\ out' = out \o Le(a) \o Le(C) /\ pending' = n.props /\ work' = due \o Tail(work)
      /\ written' = Append(written, x) /\ stage' = stage
  BY Zenon DEF WriteNode
<1>3. /\ call \in CallType(T) /\ n \in NodeType(T) /\ Named(n)
      /\ due \in Seq(CallType(T)) /\ Len(due) = C
      /\ Len(due \o Tail(work)) = C + (L - 1)
      /\ \A i \in 1 .. Len(due) : (due \o Tail(work))[i] = due[i]
      /\ \A i \in 1 .. L - 1 : (due \o Tail(work))[Len(due) + i] = work[i + 1]
  BY Zenon, <1>1, <1>2, DueFacts
<1>4. /\ n.props \in Seq(PropType) /\ n.children \in Seq(T) /\ call.depth \in Nat /\ call = work[1]
      /\ L \in Nat /\ L >= 1
  <2>1. n.props \in Seq(PropType) /\ n.children \in Seq(T)
    BY <1>3 DEF NodeType
  <2>2. call.depth \in Nat
    BY <1>3 DEF CallType
  <2>3. L \in Nat /\ L >= 1
    BY <1>1, <1>2
  <2>4. call = work[1]
    BY <1>1, <1>2
  <2>5. QED
    BY Zenon, <2>1, <2>2, <2>3, <2>4
<1>5. a \in Nat /\ C \in Nat
  BY <1>4
<1>6. \A i \in 1 .. C : due[i].depth = call.depth + 1
  BY DEF Call
<1>7. /\ x.at = Len(out) /\ x.header = TRUE /\ x.node = n /\ x.depth = call.depth
      /\ x.left = Len(work')
  BY <1>2 DEF HeaderItem
<1> HIDE DEF x, n, due, call
<1>8. /\ out \in Seq(Bytes) /\ Items(written, out) /\ Order(written, out)
      /\ Groups(written, <<>>, L) /\ Due(written, work) /\ Deep(written)
  BY <1>2 DEF WriterInv, Layout
<1> HIDE DEF a, C, L
<1>9. /\ out' \in Seq(Bytes) /\ Len(out') = Len(out) + 8 /\ Extends(out', out)
      /\ LeAt(out', Len(out), a) /\ LeAt(out', Len(out) + 4, C)
  BY <1>2, <1>5, <1>8, WroteHeader
<1>10. Len(out) \in Nat /\ Len(out) % 4 = 0
  BY <1>8, WrittenLength
<1>11. HeaderAt(out', Len(out), n)
  BY <1>9 DEF HeaderAt, a, C
<1>12. Len(work') = C + (L - 1) /\ Len(work') \in Nat /\ Len(work') >= C
  BY <1>2, <1>3, <1>4, <1>5 DEF L
<1>13. ItemOK(x, out')
  <2>1. HeaderOK(x, out')
    BY <1>2, <1>3, <1>4, <1>5, <1>7, <1>11, <1>12 DEF HeaderOK, a, C
  <2>2. QED
    BY <1>7, <1>10, <2>1 DEF ItemOK
<1>14. Len(out') = EndOf(x)
  BY <1>7, <1>9 DEF EndOf
<1>15. Len(written) = 0 => x.depth = 0 /\ x.left = Len(x.node.children)
  <2>1. SUFFICES ASSUME Len(written) = 0 PROVE x.depth = 0 /\ x.left = C
    BY <1>7 DEF C
  <2>2. L = 1 /\ call.depth = 0
    BY <1>2, <1>4, <2>1 DEF WriterInv, WriterStages, L
  <2>3. QED
    BY <1>5, <1>7, <1>12, <2>2
<1>16. Items(written', out') /\ Order(written', out')
  BY <1>2, <1>7, <1>8, <1>9, <1>13, <1>14, <1>15, OrderGrows
<1>17. Groups(written', pending', Len(work'))
  <2>1. L >= 1 /\ x.left = (L - 1) + Len(x.node.children) /\ L \in Nat
    BY <1>4, <1>5, <1>7, <1>12 DEF C, L
  <2>2. Groups(Append(written, x), x.node.props, x.left)
    BY <1>2, <1>7, <1>8, <1>16, <2>1, GroupsHeader
  <2>3. QED
    BY <1>2, <1>7, <2>2
<1>18. Due(written', work') /\ Deep(written')
  <2>1. Len(work) \in Nat /\ Len(work) >= 1 /\ x.depth = work[1].depth
    BY <1>4, <1>7 DEF L
  <2>2. C = Len(x.node.children)
    BY <1>7 DEF C
  <2>3. x.left = Len(work') /\ Len(work') = C + (Len(work) - 1)
    BY <1>7, <1>12 DEF L
  <2>4. \A j \in 1 .. C : work'[j].depth = x.depth + 1
    BY <1>2, <1>3, <1>6, <1>7
  <2>5. \A j \in 1 .. Len(work) - 1 : work'[C + j] = work[j + 1]
    BY <1>2, <1>3 DEF L
  <2>6. Groups(written, <<>>, Len(work)) /\ Items(Append(written, x), out')
    BY <1>2, <1>8, <1>16 DEF L
  <2>7. Due(Append(written, x), work') /\ Deep(Append(written, x))
    BY <1>5, <1>7, <1>8, <2>1, <2>2, <2>3, <2>4, <2>5, <2>6, DeepHeader
  <2>8. QED
    BY <1>2, <2>7
<1>19. Len(written') > 0
  <2>1. Len(written') = Len(written) + 1 /\ Len(written) \in Nat
    BY <1>2, <1>8, AppendItem DEF Items
  <2>2. QED
    BY <2>1
<1>20. QED
  BY <1>2, <1>9, <1>16, <1>17, <1>18, <1>19 DEF Layout

\* write_adt_prop.
LEMMA WritePropLayout ==
  ASSUME ParserInv, WriterInv, WriteProp, ~Refuse
  PROVE  /\ Layout(written', out', pending', work') /\ Len(written') > 0
         /\ stage' = "write"
<1> DEFINE p == Head(pending)
           x == PropItem(p)
<1>1. /\ stage = "write" /\ pending # <<>> /\ FitsU32(Len(p.value))
      /\ out' = Pad(out \o PropBytes(p)) /\ pending' = Tail(pending)
      /\ written' = Append(written, x) /\ stage' = stage /\ work' = work
  BY DEF WriteProp
<1>2. pending \in Seq(PropType) /\ p \in PropType /\ Len(pending) \in Nat /\ Len(pending) >= 1
  BY <1>1 DEF ParserInv
<1>3. x.at = Len(out) /\ x.header = FALSE /\ x.prop = p
  BY DEF PropItem
<1>4. Len(work) \in Nat
  BY DEF ParserInv
<1> HIDE DEF p, x
<1>5. /\ out \in Seq(Bytes) /\ Items(written, out) /\ Order(written, out)
      /\ Groups(written, pending, Len(work)) /\ Due(written, work) /\ Deep(written)
  BY DEF WriterInv, Layout
<1>6. /\ out' \in Seq(Bytes) /\ Extends(out', out)
      /\ Len(out') = PropEnd(Len(out), p) /\ PropAt(out', Len(out), p)
  BY <1>1, <1>2, <1>5, WroteProp
<1>7. Len(out) \in Nat /\ Len(out) % 4 = 0
  BY <1>5, WrittenLength
<1>8. ItemOK(x, out')
  BY <1>1, <1>2, <1>3, <1>6, <1>7 DEF ItemOK, PropOK
<1>9. Len(out') = EndOf(x)
  BY <1>3, <1>6 DEF EndOf
<1>10. Len(written) # 0 /\ Len(written) \in Nat
  <2>1. Len(written) # 0
    BY <1>1, <1>2 DEF WriterInv, WriterStages
  <2>2. QED
    BY <1>5, <2>1, AppendItem DEF Items
<1>11. Items(written', out') /\ Order(written', out')
  BY <1>1, <1>3, <1>5, <1>6, <1>8, <1>9, <1>10, OrderGrows
<1>12. Groups(written', pending', Len(work'))
  <2>1. Len(written) > 0 /\ x.prop = Head(pending)
    BY <1>3, <1>10 DEF p
  <2>2. Groups(Append(written, x), Tail(pending), Len(work))
    BY <1>1, <1>2, <1>3, <1>4, <1>5, <2>1, GroupsProp
  <2>3. QED
    BY <1>1, <2>2
<1>13. Due(written', work') /\ Deep(written')
  <2>1. Due(Append(written, x), work) /\ Deep(Append(written, x))
    BY <1>2, <1>3, <1>5, DeepProp
  <2>2. QED
    BY <1>1, <2>1
<1>14. Len(written') > 0
  <2>1. Len(written') = Len(written) + 1
    BY <1>1, <1>5, AppendItem DEF Items
  <2>2. QED
    BY <1>10, <2>1
<1>15. QED
  BY <1>1, <1>6, <1>11, <1>12, <1>13, <1>14 DEF Layout

\* The writer's invariant is inductive, given the parser's.
LEMMA WriterNext == ParserInv /\ WriterInv /\ [Next]_vars => WriterInv'
<1> SUFFICES ASSUME ParserInv, WriterInv, [Next]_vars PROVE WriterInv'
  OBVIOUS
<1>1. CASE UNCHANGED writer /\ (stage' = stage \/ stage' \in {"refused", "no_memory"})
  <2>1. UNCHANGED <<work, pending, out, written>>
    BY <1>1 DEF writer
  <2>2. QED
    BY <1>1, <2>1 DEF WriterInv, WriterStages
<1>2. CASE Refuse
  BY <1>1, <1>2 DEF Refuse
<1>3. CASE FindFdt
  <2>1. /\ stage = "find" /\ UNCHANGED <<pending, out, written>>
        /\ (stage' = "write" /\ work' = <<Call(FallbackTree, 0)>>) \/ (stage' = "new" /\ work' = work)
    BY <1>3 DEF FindFdt
  <2>2. written = <<>> /\ pending = <<>> /\ work = <<>> /\ out = <<>>
    <3>1. written = <<>> /\ pending = <<>> /\ work = <<>>
      BY <2>1 DEF WriterInv, WriterStages
    <3>2. QED
      BY <3>1 DEF WriterInv, Layout, Order
  <2>3. Layout(written', out', pending', work')
    BY <2>1, <2>2, LayoutEmpty
  <2>4. WriterStages'
    <3>1. Call(FallbackTree, 0).depth = 0
      BY DEF Call
    <3>2. QED
      BY <2>1, <2>2, <3>1 DEF WriterStages
  <2>5. QED
    BY <2>3, <2>4 DEF WriterInv
<1>4. CASE NewParser
  <2>1. CASE Refuse
    BY <1>2, <2>1
  <2>2. CASE ~Refuse
    <3>1. stage = "new" /\ stage' = "parse" /\ UNCHANGED writer
      BY <1>4, <2>2 DEF NewParser
    <3>2. QED
      BY <3>1 DEF WriterInv, WriterStages, writer
  <2>3. QED
    BY <2>1, <2>2
<1>5. CASE BeginNode \/ ParseProp \/ SkipNop
  BY <1>1, <1>5 DEF BeginNode, ParseProp, SkipNop
<1>6. CASE EndNode
  <2> DEFINE node == Finished(Top)
  <2>1. /\ stage = "parse" /\ UNCHANGED <<pending, out, written>>
        /\ (stage' = "write" /\ work' = <<Call(node, 0)>>) \/ (stage' = stage /\ work' = work)
    BY <1>6 DEF EndNode
  <2> HIDE DEF node
  <2>2. written = <<>> /\ pending = <<>> /\ work = <<>> /\ out = <<>>
    <3>1. written = <<>> /\ pending = <<>> /\ work = <<>>
      BY <2>1 DEF WriterInv, WriterStages
    <3>2. QED
      BY <3>1 DEF WriterInv, Layout, Order
  <2>3. Layout(written', out', pending', work')
    BY <2>1, <2>2, LayoutEmpty
  <2>4. WriterStages'
    <3>1. Call(node, 0).depth = 0
      BY DEF Call
    <3>2. QED
      BY <2>1, <2>2, <3>1 DEF WriterStages
  <2>5. QED
    BY <2>3, <2>4 DEF WriterInv
<1>7. CASE ParseFails
  BY <1>2, <1>7 DEF ParseFails
<1>8. CASE WriteNode
  <2>1. CASE Refuse
    BY <1>2, <2>1
  <2>2. CASE ~Refuse
    <3>1. Layout(written', out', pending', work') /\ Len(written') > 0 /\ stage' = "write"
      BY <1>8, <2>2, WriteNodeLayout
    <3>2. QED
      BY <3>1 DEF WriterInv, WriterStages
  <2>3. QED
    BY <2>1, <2>2
<1>9. CASE WriteProp
  <2>1. CASE Refuse
    BY <1>2, <2>1
  <2>2. CASE ~Refuse
    <3>1. Layout(written', out', pending', work') /\ Len(written') > 0 /\ stage' = "write"
      BY <1>9, <2>2, WritePropLayout
    <3>2. QED
      BY <3>1 DEF WriterInv, WriterStages
  <2>3. QED
    BY <2>1, <2>2
<1>10. CASE AllocateTree
  <2>1. /\ stage = "write" /\ work = <<>> /\ pending = <<>>
        /\ UNCHANGED <<work, pending, out, written>> /\ stage' \in {"built", "no_memory", "refused"}
    BY <1>10 DEF AllocateTree, writer
  <2>2. Len(written) > 0
    <3>1. Len(written) # 0
      BY <2>1 DEF WriterInv, WriterStages
    <3>2. Len(written) \in Nat
      BY AppendItem DEF WriterInv, Layout, Items
    <3>3. QED
      BY <3>1, <3>2
  <2>3. QED
    BY <2>1, <2>2 DEF WriterInv, WriterStages
<1>11. CASE FillBootArgs \/ OtherLoader
  <2>1. stage = "built" /\ stage' = "kernel" /\ UNCHANGED <<work, pending, out, written>>
    BY <1>11 DEF FillBootArgs, OtherLoader, writer
  <2>2. QED
    BY <2>1 DEF WriterInv, WriterStages
<1>12. CASE UNCHANGED loaderVars
  BY <1>1, <1>12 DEF loaderVars
<1>13. QED
  BY <1>3, <1>4, <1>5, <1>6, <1>7, <1>8, <1>9, <1>10, <1>11, <1>12
     DEF Next, LoaderStep, LoaderNext, ValidateBootArgs, DumpStep, Stopped, vars

-----------------------------------------------------------------------------
(* The reader, on a tree that was written to the end. *)

Closed(w, s) == Layout(w, s, <<>>, <<>>) /\ Len(w) > 0

\* The root is first, and the tree ends with its last item.
LEMMA ClosedFacts ==
  ASSUME NEW w, NEW s, Closed(w, s)
  PROVE  /\ s \in Seq(Bytes) /\ Items(w, s) /\ Order(w, s) /\ Deep(w)
         /\ Len(w) \in Nat /\ Len(w) > 0 /\ 1 \in 1 .. Len(w)
         /\ IsHeader(w, 1) /\ AtOf(w, 1) = 0 /\ Depth(w, 1) = 0 /\ Base(w, 1) = 0
         /\ Len(s) = End(w, Len(w))
<1>1. s \in Seq(Bytes) /\ Items(w, s) /\ Order(w, s) /\ Deep(w) /\ Len(w) > 0
  BY DEF Closed, Layout
<1>2. Len(w) \in Nat
  BY <1>1, AppendItem DEF Items
<1>3. QED
  BY <1>1, <1>2 DEF Order

\* A node's properties are all there, and then a node or nothing.
LEMMA ClosedGroups ==
  ASSUME NEW w, NEW s, Closed(w, s), NEW k \in 1 .. Len(w), IsHeader(w, k)
  PROVE  /\ Owns(w, k) /\ k + NProps(w, k) <= Len(w)
         /\ \A j \in 1 .. NProps(w, k) :
              k + j \in 1 .. Len(w) /\ ~IsHeader(w, k + j) /\ PropOf(w, k + j) = Props(w, k)[j]
         /\ Left(w, k) = 0 => k + NProps(w, k) = Len(w)
         /\ k + NProps(w, k) < Len(w) \/ Left(w, k) > 0 => Followed(w, k)
<1>1. Items(w, s) /\ Groups(w, <<>>, 0) /\ Len(w) \in Nat
  <2>1. Len(<<>>) = 0
    OBVIOUS
  <2>2. QED
    BY <2>1, ClosedFacts DEF Closed, Layout
<1>2. Owns(w, k) /\ (Open(w, <<>>, 0, k) \/ Followed(w, k))
  BY <1>1 DEF Groups
<1>3. /\ NProps(w, k) \in Nat /\ Left(w, k) \in Nat /\ k \in Nat /\ k >= 1
      /\ After(w, k) = (k + NProps(w, k)) + 1
  BY <1>1, HeaderFacts
<1>4. Open(w, <<>>, 0, k) => k + NProps(w, k) = Len(w) /\ Left(w, k) = 0
  <2>1. Open(w, <<>>, 0, k) => k + NProps(w, k) = Len(w) + 0 /\ Left(w, k) = 0
    BY DEF Open
  <2>2. QED
    BY <1>1, <2>1
<1>5. Followed(w, k) => k + NProps(w, k) < Len(w) /\ Left(w, k) >= 1
  BY <1>1, <1>3 DEF Followed
<1>6. k + NProps(w, k) <= Len(w)
  BY <1>1, <1>2, <1>3, <1>4, <1>5
<1>7. ASSUME NEW j \in 1 .. NProps(w, k)
      PROVE  k + j \in 1 .. Len(w) /\ ~IsHeader(w, k + j) /\ PropOf(w, k + j) = Props(w, k)[j]
  <2>1. k + j \in 1 .. Len(w) /\ k + j <= Len(w)
    BY <1>1, <1>3, <1>6
  <2>2. QED
    BY <1>2, <2>1 DEF Owns
<1>8. QED
  BY <1>1, <1>2, <1>3, <1>4, <1>5, <1>6, <1>7

\* Ends and offsets.
LEMMA EndOrder ==
  ASSUME NEW w, NEW s, Closed(w, s)
  PROVE  /\ \A k \in 1 .. Len(w) :
              /\ End(w, k) \in Nat /\ AtOf(w, k) \in Nat /\ AtOf(w, k) + 8 <= End(w, k)
              /\ End(w, k) <= Len(s)
         /\ \A k \in 1 .. Len(w) - 1 : AtOf(w, k + 1) = End(w, k)
         /\ \A i, k \in 1 .. Len(w) : i <= k => End(w, i) <= End(w, k)
         /\ \A i, k \in 1 .. Len(w) : AtOf(w, i) = AtOf(w, k) => i = k
<1>1. /\ Items(w, s) /\ Order(w, s) /\ Len(w) \in Nat /\ Len(w) > 0 /\ Len(s) = End(w, Len(w))
  BY ClosedFacts
<1>2. \A k \in 1 .. Len(w) : End(w, k) \in Nat /\ AtOf(w, k) \in Nat /\ AtOf(w, k) + 8 <= End(w, k)
  BY <1>1, EndFacts DEF Items, End, AtOf
<1>3. /\ \A k \in 1 .. Len(w) - 1 : AtOf(w, k + 1) = End(w, k)
      /\ \A i, k \in 1 .. Len(w) : i < k => End(w, i) <= AtOf(w, k)
  BY <1>1 DEF Order
<1>4. ASSUME NEW i \in 1 .. Len(w), NEW k \in 1 .. Len(w), i <= k
      PROVE  End(w, i) <= End(w, k)
  <2>1. CASE i = k
    BY <1>2, <2>1
  <2>2. CASE i < k
    <3>1. End(w, i) <= AtOf(w, k)
      BY <1>3, <2>2
    <3>2. QED
      BY <1>2, <3>1
  <2>3. QED
    BY <1>4, <2>1, <2>2
<1>5. ASSUME NEW i \in 1 .. Len(w), NEW k \in 1 .. Len(w), i < k
      PROVE  AtOf(w, i) < AtOf(w, k)
  <2>1. End(w, i) <= AtOf(w, k)
    BY <1>3, <1>5
  <2>2. QED
    BY <1>2, <2>1
<1>6. ASSUME NEW i \in 1 .. Len(w), NEW k \in 1 .. Len(w), AtOf(w, i) = AtOf(w, k)
      PROVE  i = k
  <2>1. ~(i < k) /\ ~(k < i)
    BY <1>2, <1>5, <1>6
  <2>2. QED
    BY <2>1
<1>7. ASSUME NEW k \in 1 .. Len(w)
      PROVE  End(w, k) <= Len(s)
  <2>1. Len(w) \in 1 .. Len(w) /\ k <= Len(w)
    BY <1>1
  <2>2. QED
    BY <1>1, <1>4, <2>1
<1>8. QED
  BY <1>2, <1>3, <1>4, <1>6, <1>7

\* The counts of the node at k.
LEMMA ReadHeaderItem ==
  ASSUME NEW w, NEW s, Closed(w, s), tree \in Seq(Bytes), Extends(s, tree),
         NEW k \in 1 .. Len(w), IsHeader(w, k), NEW o, o = AtOf(w, k)
  PROVE  /\ End(w, k) <= Len(tree) =>
              /\ PropertyCount(o) = NProps(w, k) /\ ChildCount(o) = NChildren(w, k)
              /\ PropertyCount(o) # NONE /\ ChildCount(o) # NONE
         /\ ~(End(w, k) <= Len(tree)) => ChildCount(o) = NONE
<1> DEFINE n == w[k].node
<1>1. s \in Seq(Bytes) /\ ItemOK(w[k], s)
  BY ClosedFacts DEF Items
<1>2. HeaderOK(w[k], s) /\ o \in Nat /\ o = w[k].at
  BY <1>1 DEF ItemOK, IsHeader, AtOf
<1>3. /\ Len(n.props) \in Nat /\ Len(n.children) \in Nat
      /\ FitsU32(Len(n.props)) /\ FitsU32(Len(n.children)) /\ HeaderAt(s, o, n)
  <2>1. n.props \in Seq(PropType)
    BY <1>2 DEF HeaderOK
  <2>2. Len(n.props) \in Nat
    BY <2>1
  <2>3. QED
    BY <1>2, <2>2 DEF HeaderOK
<1>4. NProps(w, k) = Len(n.props) /\ NChildren(w, k) = Len(n.children) /\ End(w, k) = o + 8
  BY <1>2 DEF NProps, NChildren, End, EndOf, IsHeader
<1> HIDE DEF n
<1>5. /\ o + 8 <= Len(tree) => /\ PropertyCount(o) = Len(n.props)
                               /\ ChildCount(o) = Len(n.children)
                               /\ PropertyCount(o) # NONE /\ ChildCount(o) # NONE
      /\ ~(o + 8 <= Len(tree)) => ChildCount(o) = NONE
  BY <1>1, <1>2, <1>3, ReadHeader
<1>6. QED
  BY <1>4, <1>5

\* The property at k.
LEMMA ReadPropItem ==
  ASSUME NEW w, NEW s, Closed(w, s), tree \in Seq(Bytes), Extends(s, tree),
         NEW k \in 1 .. Len(w), ~IsHeader(w, k), NEW o, o = AtOf(w, k)
  PROVE  /\ End(w, k) <= Len(tree) =>
              /\ PropertyEnd(o) = End(w, k) /\ PropertyEnd(o) # NONE
              /\ Prop(PropertyName(o), PropertyValue(o)) = PropOf(w, k)
         /\ ~(End(w, k) <= Len(tree)) => PropertyEnd(o) = NONE
<1> DEFINE p == w[k].prop
<1>1. s \in Seq(Bytes) /\ ItemOK(w[k], s)
  BY ClosedFacts DEF Items
<1>2. PropOK(w[k], s) /\ o \in Nat /\ o = w[k].at
  BY <1>1 DEF ItemOK, IsHeader, AtOf
<1>3. p \in PropType /\ PropAt(s, o, p) /\ FitsU32(Len(p.value))
  BY <1>2 DEF PropOK
<1>4. PropOf(w, k) = p /\ End(w, k) = PropEnd(o, p)
  BY <1>2 DEF PropOf, End, EndOf, IsHeader
<1> HIDE DEF p
<1>5. /\ PropEnd(o, p) <= Len(tree) => /\ PropertyEnd(o) = PropEnd(o, p) /\ PropertyEnd(o) # NONE
                                       /\ Prop(PropertyName(o), PropertyValue(o)) = p
      /\ ~(PropEnd(o, p) <= Len(tree)) => PropertyEnd(o) = NONE
  BY <1>1, <1>2, <1>3, ReadProp
<1>6. QED
  BY <1>4, <1>5

-----------------------------------------------------------------------------
(* The calls of dump_node in progress. *)

\* The index of the node of the call f, and how many calls of write_adt_node
\* were left when its next child was due.
Idx(w, o) == CHOOSE k \in 1 .. Len(w) : IsHeader(w, k) /\ AtOf(w, k) = o
NodeOf(w, v, f) == Idx(w, v[f].at)
Level(w, v, f) == Left(w, NodeOf(w, v, f)) - v[f].next

Frame(w, v, n, f) ==
  LET k == NodeOf(w, v, f)
  IN  /\ k \in 1 .. n /\ IsHeader(w, k) /\ AtOf(w, k) = v[f].at
      /\ v[f].next \in 0 .. NChildren(w, k)
      /\ Depth(w, k) = f - 1
      /\ \A i \in k .. Len(w) : IsHeader(w, i) /\ After(w, i) <= n => Left(w, i) > Level(w, v, f)

\* n items are on the console.
Frames(w, v, n) ==
  /\ n \in 0 .. Len(w)
  /\ \A f \in 1 .. Len(v) : Frame(w, v, n, f)
  /\ Len(v) > 0 => NodeOf(w, v, 1) = 1
  /\ \A f, g \in 1 .. Len(v) : f < g => Level(w, v, f) <= Base(w, NodeOf(w, v, g))
  /\ \A f \in 1 .. Len(v) - 1 : Level(w, v, f) = Base(w, NodeOf(w, v, f + 1))

\* A node is found by its offset.
LEMMA IdxFacts ==
  ASSUME NEW w, NEW s, Closed(w, s), NEW k \in 1 .. Len(w), IsHeader(w, k)
  PROVE  Idx(w, AtOf(w, k)) = k
<1> DEFINE j == Idx(w, AtOf(w, k))
<1>1. j \in 1 .. Len(w) /\ AtOf(w, j) = AtOf(w, k)
  BY DEF Idx
<1> HIDE DEF j
<1>2. j = k
  BY <1>1, EndOrder
<1>3. QED
  BY <1>2 DEF j

\* The numbers of a call in progress.
LEMMA FrameFacts ==
  ASSUME NEW w, NEW s, Closed(w, s), NEW v, NEW n, Frames(w, v, n), NEW f \in 1 .. Len(v)
  PROVE  LET k == NodeOf(w, v, f)
         IN  /\ k \in 1 .. n /\ k \in 1 .. Len(w) /\ IsHeader(w, k) /\ AtOf(w, k) = v[f].at
             /\ v[f].next \in 0 .. NChildren(w, k) /\ v[f].next \in Nat /\ Depth(w, k) = f - 1
             /\ Level(w, v, f) = Left(w, k) - v[f].next
             /\ Level(w, v, f) \in Nat /\ Base(w, k) \in Nat
             /\ Base(w, k) <= Level(w, v, f) /\ Level(w, v, f) <= Left(w, k)
             /\ NChildren(w, k) \in Nat /\ Left(w, k) = Base(w, k) + NChildren(w, k)
<1> DEFINE k == NodeOf(w, v, f)
<1>1. /\ k \in 1 .. n /\ IsHeader(w, k) /\ AtOf(w, k) = v[f].at
      /\ v[f].next \in 0 .. NChildren(w, k) /\ Depth(w, k) = f - 1 /\ n \in 0 .. Len(w)
  BY DEF Frames, Frame
<1>2. Len(w) \in Nat /\ Items(w, s)
  BY ClosedFacts
<1>3. Level(w, v, f) = Left(w, k) - v[f].next
  BY DEF Level
<1> HIDE DEF k
<1>4. k \in 1 .. Len(w)
  BY <1>1, <1>2
<1>5. /\ NChildren(w, k) \in Nat /\ Left(w, k) \in Nat /\ Base(w, k) \in Nat
      /\ Left(w, k) = Base(w, k) + NChildren(w, k)
  BY <1>1, <1>2, <1>4, HeaderFacts
<1> DEFINE x == v[f].next
<1>6. x \in Nat /\ x <= NChildren(w, k)
  BY <1>1, <1>5
<1> HIDE DEF x
<1>7. Left(w, k) - x \in Nat /\ Base(w, k) <= Left(w, k) - x /\ Left(w, k) - x <= Left(w, k)
  BY <1>5, <1>6
<1>8. QED
  BY <1>1, <1>3, <1>4, <1>5, <1>6, <1>7 DEF k, x

\* Calls are told apart by their offset and their next child only.
LEMMA SameFrames ==
  ASSUME NEW w, NEW u, NEW v, NEW f, u[f] = v[f]
  PROVE  NodeOf(w, u, f) = NodeOf(w, v, f) /\ Level(w, u, f) = Level(w, v, f)
  BY DEF NodeOf, Level

\* A call that is not changed.
LEMMA SameFrame ==
  ASSUME NEW w, NEW u, NEW v, NEW n, NEW f, u[f] = v[f], Frame(w, v, n, f)
  PROVE  Frame(w, u, n, f)
<1>1. NodeOf(w, u, f) = NodeOf(w, v, f) /\ Level(w, u, f) = Level(w, v, f)
  BY SameFrames
<1>2. QED
  BY <1>1 DEF Frame

\* dump_node returns.
LEMMA FramesPop ==
  ASSUME NEW w, NEW n, NEW S, NEW v \in Seq(S), v # <<>>, Frames(w, v, n)
  PROVE  Frames(w, Front(v), n)
<1> DEFINE u == Front(v)
           d == Len(v)
<1>1. Len(u) = d - 1 /\ d \in Nat /\ d >= 1 /\ \A i \in 1 .. d - 1 : u[i] = v[i]
  BY FrontFacts
<1> HIDE DEF u, d
<1>2. \A f \in 1 .. d - 1 : f \in 1 .. d
  BY <1>1
<1>3. \A f \in 1 .. d - 1 : NodeOf(w, u, f) = NodeOf(w, v, f) /\ Level(w, u, f) = Level(w, v, f)
  BY <1>1, SameFrames
<1>4. \A f \in 1 .. d - 1 : Frame(w, u, n, f)
  <2>1. \A f \in 1 .. d - 1 : Frame(w, v, n, f)
    BY <1>2 DEF Frames, d
  <2>2. QED
    BY <1>1, <2>1, SameFrame
<1>5. d - 1 > 0 => NodeOf(w, u, 1) = 1
  <2>1. SUFFICES ASSUME d - 1 > 0 PROVE NodeOf(w, u, 1) = 1
    OBVIOUS
  <2>2. 1 \in 1 .. d - 1 /\ d > 0
    BY <1>1, <2>1
  <2>3. NodeOf(w, v, 1) = 1
    BY <2>2 DEF Frames, d
  <2>4. QED
    BY <1>3, <2>2, <2>3
<1>6. \A f, g \in 1 .. d - 1 : f < g => Level(w, u, f) <= Base(w, NodeOf(w, u, g))
  <2>1. \A f, g \in 1 .. d - 1 : f < g => Level(w, v, f) <= Base(w, NodeOf(w, v, g))
    BY <1>2 DEF Frames, d
  <2>2. QED
    BY <1>3, <2>1
<1>7. \A f \in 1 .. (d - 1) - 1 : Level(w, u, f) = Base(w, NodeOf(w, u, f + 1))
  <2>1. \A f \in 1 .. (d - 1) - 1 : f \in 1 .. d - 1 /\ f + 1 \in 1 .. d - 1
    BY <1>1
  <2>2. \A f \in 1 .. d - 1 : Level(w, v, f) = Base(w, NodeOf(w, v, f + 1))
    BY DEF Frames, d
  <2>3. QED
    BY <1>3, <2>1, <2>2
<1>8. n \in 0 .. Len(w)
  BY DEF Frames
<1>9. QED
  BY <1>1, <1>4, <1>5, <1>6, <1>7, <1>8 DEF Frames, u

\* A property is printed.
LEMMA FramesProp ==
  ASSUME NEW w, NEW s, Closed(w, s), NEW v, NEW n \in Nat, Frames(w, v, n),
         n + 1 <= Len(w), ~IsHeader(w, n + 1)
  PROVE  Frames(w, v, n + 1)
<1>1. Len(w) \in Nat /\ Items(w, s)
  BY ClosedFacts
<1>2. ASSUME NEW f \in 1 .. Len(v)
      PROVE  Frame(w, v, n + 1, f)
  <2> DEFINE k == NodeOf(w, v, f)
  <2>1. /\ k \in 1 .. n /\ IsHeader(w, k) /\ AtOf(w, k) = v[f].at
        /\ v[f].next \in 0 .. NChildren(w, k) /\ Depth(w, k) = f - 1
        /\ \A i \in k .. Len(w) : IsHeader(w, i) /\ After(w, i) <= n => Left(w, i) > Level(w, v, f)
    BY DEF Frames, Frame
  <2> HIDE DEF k
  <2>2. k \in 1 .. n + 1
    BY <2>1
  <2>3. ASSUME NEW i \in k .. Len(w), IsHeader(w, i), After(w, i) <= n + 1
        PROVE  Left(w, i) > Level(w, v, f)
    <3>1. i \in 1 .. Len(w)
      BY <1>1, <2>1
    <3>2. /\ After(w, i) \in Nat /\ NProps(w, i) \in Nat /\ i \in Nat
          /\ After(w, i) = (i + NProps(w, i)) + 1
      BY <1>1, <2>3, <3>1, HeaderFacts
    <3>3. After(w, i) # n + 1
      <4>1. SUFFICES ASSUME After(w, i) = n + 1 PROVE FALSE
        OBVIOUS
      <4>2. i + NProps(w, i) < Len(w)
        BY <1>1, <3>2, <4>1
      <4>3. Followed(w, i)
        BY <2>3, <3>1, <4>2, ClosedGroups
      <4>4. QED
        BY <4>1, <4>3 DEF Followed
    <3>4. After(w, i) <= n
      BY <2>3, <3>2, <3>3
    <3>5. QED
      BY <2>1, <2>3, <3>4
  <2>4. QED
    BY <2>1, <2>2, <2>3 DEF Frame, k
<1>3. n + 1 \in 0 .. Len(w)
  BY <1>1
<1>4. QED
  BY <1>2, <1>3 DEF Frames

\* child_at has returned: the next child is the one after it.
Counted(u, v) ==
  /\ Len(u) = Len(v) /\ \A f \in 1 .. Len(v) : f # Len(v) => u[f] = v[f]
  /\ u[Len(v)].at = v[Len(v)].at /\ u[Len(v)].next = v[Len(v)].next + 1

\* child_at returned a child of the innermost node.
LEMMA FramesNext ==
  ASSUME NEW w, NEW s, Closed(w, s), NEW n, NEW S, NEW v \in Seq(S), v # <<>>, Frames(w, v, n),
         v[Len(v)].next < NChildren(w, NodeOf(w, v, Len(v))),
         NEW u, Counted(u, v)
  PROVE  /\ Frames(w, u, n) /\ Len(u) = Len(v)
         /\ NodeOf(w, u, Len(v)) = NodeOf(w, v, Len(v))
         /\ Level(w, u, Len(v)) = Level(w, v, Len(v)) - 1
<1> DEFINE d == Len(v)
           k == NodeOf(w, v, d)
<1>1. d \in Nat /\ d >= 1 /\ d \in 1 .. d
  OBVIOUS
<1>2. /\ Len(u) = d /\ \A f \in 1 .. d : f # d => u[f] = v[f]
      /\ u[d].at = v[d].at /\ u[d].next = v[d].next + 1
  BY DEF Counted
<1>3. /\ k \in 1 .. n /\ IsHeader(w, k) /\ AtOf(w, k) = v[d].at
      /\ v[d].next \in Nat /\ Depth(w, k) = d - 1
      /\ Level(w, v, d) = Left(w, k) - v[d].next /\ Level(w, v, d) \in Nat
      /\ NChildren(w, k) \in Nat /\ Left(w, k) \in Nat
  <2>1. /\ k \in 1 .. n /\ IsHeader(w, k) /\ AtOf(w, k) = v[d].at
        /\ v[d].next \in Nat /\ Depth(w, k) = d - 1
        /\ Level(w, v, d) = Left(w, k) - v[d].next /\ Level(w, v, d) \in Nat
        /\ NChildren(w, k) \in Nat /\ Left(w, k) = Base(w, k) + NChildren(w, k) /\ Base(w, k) \in Nat
    BY <1>1, FrameFacts
  <2>2. QED
    BY <2>1
<1>4. v[d].next < NChildren(w, k)
  OBVIOUS
<1>5. NodeOf(w, u, d) = k /\ Level(w, u, d) = Left(w, k) - (v[d].next + 1)
  BY <1>2 DEF NodeOf, Level
<1>6. \A i \in k .. Len(w) : IsHeader(w, i) /\ After(w, i) <= n => Left(w, i) > Level(w, v, d)
  BY <1>1 DEF Frames, Frame
<1> DEFINE x == v[d].next
<1> HIDE DEF d, k, x
<1>7. x \in Nat /\ x + 1 <= NChildren(w, k) /\ Level(w, v, d) = Left(w, k) - x
      /\ u[d].next = x + 1 /\ Level(w, u, d) = Left(w, k) - (x + 1)
  BY <1>2, <1>3, <1>4, <1>5 DEF x
<1>8. x + 1 \in 0 .. NChildren(w, k) /\ Level(w, u, d) = Level(w, v, d) - 1
  BY <1>3, <1>7
<1>9. ASSUME NEW f \in 1 .. d, f # d
      PROVE  NodeOf(w, u, f) = NodeOf(w, v, f) /\ Level(w, u, f) = Level(w, v, f)
  <2>1. u[f] = v[f]
    BY <1>2, <1>9
  <2>2. QED
    BY <2>1, SameFrames
<1>10. \A f \in 1 .. d : NodeOf(w, u, f) = NodeOf(w, v, f)
  BY <1>5, <1>9 DEF k
<1>11. Frame(w, u, n, d)
  <2>1. \A i \in k .. Len(w) : IsHeader(w, i) /\ After(w, i) <= n => Left(w, i) > Level(w, u, d)
    <3> SUFFICES ASSUME NEW i \in k .. Len(w), IsHeader(w, i), After(w, i) <= n
                 PROVE  Left(w, i) > Level(w, u, d)
      OBVIOUS
    <3>1. Left(w, i) > Level(w, v, d)
      BY <1>6
    <3>2. i \in 1 .. Len(w)
      <4>1. Len(w) \in Nat
        BY ClosedFacts
      <4>2. QED
        BY <1>3, <4>1
    <3>3. Left(w, i) \in Nat
      BY <3>2, ClosedFacts, HeaderFacts
    <3>4. QED
      BY <1>3, <1>8, <3>1, <3>3
  <2>2. AtOf(w, k) = u[d].at
    BY <1>2, <1>3
  <2>3. QED
    BY <1>3, <1>5, <1>7, <1>8, <2>1, <2>2 DEF Frame
<1>12. \A f \in 1 .. d : Frame(w, u, n, f)
  <2> SUFFICES ASSUME NEW f \in 1 .. d PROVE Frame(w, u, n, f)
    OBVIOUS
  <2>1. CASE f = d
    BY <1>11, <2>1
  <2>2. CASE f # d
    <3>1. Frame(w, v, n, f)
      BY DEF Frames, d
    <3>2. QED
      BY <1>2, <2>2, <3>1, SameFrame
  <2>3. QED
    BY <2>1, <2>2
<1>13. NodeOf(w, u, 1) = 1
  <2>1. NodeOf(w, v, 1) = 1
    BY <1>1 DEF Frames, d
  <2>2. 1 \in 1 .. d
    BY <1>1
  <2>3. QED
    BY <1>10, <2>1, <2>2
<1>14. \A f, g \in 1 .. d : f < g => Level(w, u, f) <= Base(w, NodeOf(w, u, g))
  <2> SUFFICES ASSUME NEW f \in 1 .. d, NEW g \in 1 .. d, f < g
               PROVE  Level(w, u, f) <= Base(w, NodeOf(w, u, g))
    OBVIOUS
  <2>1. f # d
    BY <1>1
  <2>2. Level(w, v, f) <= Base(w, NodeOf(w, v, g))
    BY DEF Frames, d
  <2>3. QED
    BY <1>9, <1>10, <2>1, <2>2
<1>15. \A f \in 1 .. d - 1 : Level(w, u, f) = Base(w, NodeOf(w, u, f + 1))
  <2> SUFFICES ASSUME NEW f \in 1 .. d - 1
               PROVE  Level(w, u, f) = Base(w, NodeOf(w, u, f + 1))
    OBVIOUS
  <2>1. f # d /\ f \in 1 .. d /\ f + 1 \in 1 .. d
    BY <1>1
  <2>2. Level(w, v, f) = Base(w, NodeOf(w, v, f + 1))
    BY DEF Frames, d
  <2>3. QED
    BY <1>9, <1>10, <2>1, <2>2
<1>16. n \in 0 .. Len(w)
  BY DEF Frames
<1>17. Frames(w, u, n)
  <2>1. Len(u) = d
    BY <1>2
  <2>2. QED
    BY <1>12, <1>13, <1>14, <1>15, <1>16, <2>1 DEF Frames
<1>18. QED
  BY <1>2, <1>5, <1>8, <1>17 DEF d, k

\* dump_node is called for the node after the n items.
Comes(w, v, n) ==
  /\ n < Len(w) /\ IsHeader(w, n + 1) /\ Depth(w, n + 1) = Len(v)
  /\ Len(v) = 0 => n = 0
  /\ Len(v) > 0 =>
       /\ Level(w, v, Len(v)) = Base(w, n + 1)
       /\ \E h \in 1 .. n :
            IsHeader(w, h) /\ After(w, h) = n + 1 /\ Left(w, h) = Level(w, v, Len(v)) + 1

\* dump_node is called for the next item.
LEMMA FramesPush ==
  ASSUME NEW w, NEW s, Closed(w, s), NEW n \in Nat, NEW S, NEW v \in Seq(S), Frames(w, v, n), Comes(w, v, n),
         NEW x, x.at = AtOf(w, n + 1), x.next = 0, x \in S
  PROVE  LET u == Append(v, x)
         IN  /\ Frames(w, u, n + 1) /\ Len(u) = Len(v) + 1
             /\ NodeOf(w, u, Len(u)) = n + 1 /\ Level(w, u, Len(u)) = Left(w, n + 1)
<1> DEFINE u == Append(v, x)
           d == Len(v)
<1>1. d \in Nat /\ Len(u) = d + 1 /\ u[d + 1] = x /\ \A f \in 1 .. d : u[f] = v[f]
  BY AppendProperties
<1>2. Len(w) \in Nat /\ Items(w, s)
  BY ClosedFacts
<1>3. /\ n < Len(w) /\ IsHeader(w, n + 1) /\ Depth(w, n + 1) = d
      /\ d = 0 => n = 0
      /\ d > 0 => Level(w, v, d) = Base(w, n + 1)
  BY DEF Comes
<1>4. n + 1 \in 1 .. Len(w) /\ n + 1 \in 1 .. n + 1
  BY <1>2, <1>3
<1>5. /\ NChildren(w, n + 1) \in Nat /\ Left(w, n + 1) \in Nat /\ Base(w, n + 1) \in Nat
      /\ After(w, n + 1) > n + 1
  BY <1>2, <1>3, <1>4, HeaderFacts
<1> HIDE DEF u, d
<1>6. NodeOf(w, u, d + 1) = n + 1
  <2>1. NodeOf(w, u, d + 1) = Idx(w, AtOf(w, n + 1))
    BY <1>1 DEF NodeOf
  <2>2. QED
    BY <1>3, <1>4, <2>1, IdxFacts
<1>7. Level(w, u, d + 1) = Left(w, n + 1)
  <2>1. Level(w, u, d + 1) = Left(w, n + 1) - 0
    BY <1>1, <1>6 DEF Level
  <2>2. QED
    BY <1>5, <2>1
<1>8. \A f \in 1 .. d : NodeOf(w, u, f) = NodeOf(w, v, f) /\ Level(w, u, f) = Level(w, v, f)
  BY <1>1, SameFrames
<1>9. Frame(w, u, n + 1, d + 1)
  <2>1. ASSUME NEW i \in n + 1 .. Len(w), IsHeader(w, i), After(w, i) <= n + 1
        PROVE  FALSE
    <3>1. i \in 1 .. Len(w)
      BY <1>2
    <3>2. After(w, i) > i /\ After(w, i) \in Nat
      BY <1>2, <2>1, <3>1, HeaderFacts
    <3>3. QED
      BY <2>1, <3>2
  <2>2. (d + 1) - 1 = d /\ 0 \in 0 .. NChildren(w, n + 1)
    BY <1>1, <1>5
  <2>3. QED
    BY <1>1, <1>3, <1>4, <1>6, <2>1, <2>2 DEF Frame
<1>10. ASSUME NEW f \in 1 .. d
       PROVE  Level(w, v, f) <= Base(w, n + 1) /\ Level(w, v, f) \in Nat
  <2>1. d > 0 /\ d \in 1 .. d
    BY <1>1
  <2>2. Level(w, v, d) = Base(w, n + 1)
    BY <1>3, <2>1
  <2>3. Level(w, v, f) \in Nat /\ Base(w, NodeOf(w, v, d)) <= Level(w, v, d) /\ Base(w, NodeOf(w, v, d)) \in Nat
    BY <2>1, FrameFacts DEF d
  <2>4. CASE f = d
    BY <1>5, <2>2, <2>4
  <2>5. CASE f < d
    <3>1. Level(w, v, f) <= Base(w, NodeOf(w, v, d))
      BY <2>1, <2>5 DEF Frames, d
    <3>2. QED
      BY <1>5, <2>2, <2>3, <3>1
  <2>6. QED
    BY <1>1, <2>4, <2>5
<1>11. ASSUME NEW f \in 1 .. d
       PROVE  Frame(w, u, n + 1, f)
  <2> DEFINE k == NodeOf(w, v, f)
  <2>1. /\ k \in 1 .. n /\ IsHeader(w, k) /\ AtOf(w, k) = v[f].at
        /\ v[f].next \in 0 .. NChildren(w, k) /\ Depth(w, k) = f - 1
        /\ \A i \in k .. Len(w) : IsHeader(w, i) /\ After(w, i) <= n => Left(w, i) > Level(w, v, f)
    BY DEF Frames, Frame, d
  <2> HIDE DEF k
  <2>2. k \in 1 .. n + 1
    BY <2>1
  <2>3. ASSUME NEW i \in k .. Len(w), IsHeader(w, i), After(w, i) <= n + 1
        PROVE  Left(w, i) > Level(w, v, f)
    <3>1. i \in 1 .. Len(w)
      BY <1>2, <2>1
    <3>2. /\ After(w, i) \in Nat /\ Left(w, i) \in Nat
      BY <1>2, <2>3, <3>1, HeaderFacts
    <3>3. CASE After(w, i) <= n
      BY <2>1, <2>3, <3>3
    <3>4. CASE After(w, i) = n + 1
      <4>1. n + 1 <= Len(w) /\ d > 0
        BY <1>1, <1>4
      <4>2. PICK h \in 1 .. n : IsHeader(w, h) /\ After(w, h) = n + 1 /\ Left(w, h) = Base(w, n + 1) + 1
        BY <1>3, <4>1 DEF Comes, d
      <4>3. h \in 1 .. Len(w)
        BY <1>2, <1>3, <4>2
      <4>4. /\ NProps(w, i) \in Nat /\ NProps(w, h) \in Nat
            /\ After(w, i) = (i + NProps(w, i)) + 1 /\ After(w, h) = (h + NProps(w, h)) + 1
        BY <1>2, <2>3, <3>1, <4>2, <4>3, HeaderFacts
      <4>5. Owns(w, i) /\ Owns(w, h)
        BY <2>3, <3>1, <4>2, <4>3, ClosedGroups
      <4>6. i = h
        <5>1. ~(i < h)
          <6>1. SUFFICES ASSUME i < h PROVE FALSE
            OBVIOUS
          <6>2. After(w, i) <= h
            BY <1>2, <2>3, <3>1, <4>2, <4>3, <4>5, <6>1, HeadersApart
          <6>3. QED
            BY <3>4, <4>2, <6>2
        <5>2. ~(h < i)
          <6>1. SUFFICES ASSUME h < i PROVE FALSE
            OBVIOUS
          <6>2. After(w, h) <= i
            BY <1>2, <2>3, <3>1, <4>2, <4>3, <4>5, <6>1, HeadersApart
          <6>3. QED
            BY <3>1, <3>4, <4>2, <4>4, <6>2
        <5>3. QED
          BY <3>1, <4>3, <5>1, <5>2
      <4>7. QED
        BY <1>5, <1>10, <4>2, <4>6
    <3>5. QED
      BY <2>3, <3>2, <3>3, <3>4
  <2>4. Frame(w, v, n + 1, f)
    BY <2>1, <2>2, <2>3 DEF Frame, k
  <2>5. QED
    BY <1>1, <2>4, SameFrame
<1>12. \A f \in 1 .. d + 1 : Frame(w, u, n + 1, f)
  <2>1. \A f \in 1 .. d + 1 : f \in 1 .. d \/ f = d + 1
    BY <1>1
  <2>2. QED
    BY <1>9, <1>11, <2>1
<1>13. NodeOf(w, u, 1) = 1
  <2>1. CASE d = 0
    BY <1>3, <1>6, <2>1
  <2>2. CASE d > 0
    <3>1. 1 \in 1 .. d /\ NodeOf(w, v, 1) = 1
      BY <1>1, <2>2 DEF Frames, d
    <3>2. QED
      BY <1>8, <3>1
  <2>3. QED
    BY <1>1, <2>1, <2>2
<1>14. \A f, g \in 1 .. d + 1 : f < g => Level(w, u, f) <= Base(w, NodeOf(w, u, g))
  <2> SUFFICES ASSUME NEW f \in 1 .. d + 1, NEW g \in 1 .. d + 1, f < g
               PROVE  Level(w, u, f) <= Base(w, NodeOf(w, u, g))
    OBVIOUS
  <2>1. f \in 1 .. d /\ Level(w, u, f) = Level(w, v, f)
    BY <1>1, <1>8
  <2>2. CASE g = d + 1
    BY <1>6, <1>10, <2>1, <2>2
  <2>3. CASE g \in 1 .. d
    <3>1. Level(w, v, f) <= Base(w, NodeOf(w, v, g))
      BY <2>1, <2>3 DEF Frames, d
    <3>2. QED
      BY <1>8, <2>1, <2>3, <3>1
  <2>4. QED
    BY <1>1, <2>2, <2>3
<1>15. \A f \in 1 .. d : Level(w, u, f) = Base(w, NodeOf(w, u, f + 1))
  <2> SUFFICES ASSUME NEW f \in 1 .. d PROVE Level(w, u, f) = Base(w, NodeOf(w, u, f + 1))
    OBVIOUS
  <2>1. CASE f = d
    <3>1. d > 0
      BY <1>1
    <3>2. QED
      BY <1>3, <1>6, <1>8, <2>1, <3>1
  <2>2. CASE f < d
    <3>1. f + 1 \in 1 .. d /\ f \in 1 .. d - 1
      BY <1>1, <2>2
    <3>2. Level(w, v, f) = Base(w, NodeOf(w, v, f + 1))
      BY <3>1 DEF Frames, d
    <3>3. QED
      BY <1>8, <3>1, <3>2
  <2>3. QED
    BY <1>1, <2>1, <2>2
<1>16. Frames(w, u, n + 1)
  <2>1. n + 1 \in 0 .. Len(w) /\ (d + 1) - 1 = d /\ Len(u) = d + 1
    BY <1>1, <1>2, <1>4
  <2>2. QED
    BY <1>12, <1>13, <1>14, <1>15, <2>1 DEF Frames
<1>17. QED
  BY <1>1, <1>6, <1>7, <1>16 DEF u, d

-----------------------------------------------------------------------------
(* What the reader knows. *)

\* h is the node whose properties are on the console up to the last left ones.
LastShown(w, v, n, z, h, left) ==
  /\ IsHeader(w, h) /\ Left(w, h) = Level(w, v, Len(v))
  /\ h + NProps(w, h) = n + left
  /\ End(w, n) <= z

Enters(w, v, n, z, lp) ==
  Comes(w, v, n) /\ lp.at = AtOf(w, n + 1) /\ End(w, n + 1) <= z

Prints(w, v, n, z, lp) ==
  /\ Len(v) > 0 /\ lp.at = End(w, n)
  /\ \E h \in 1 .. n : LastShown(w, v, n, z, h, lp.props)

\* child_at goes over the properties of the node at m.
Passing(w, v, n, z, lp, h, m) ==
  /\ LastShown(w, v, n, z, h, 0)
  /\ NodeOf(w, v, Len(v)) <= m /\ IsHeader(w, m)
  /\ lp.props <= NProps(w, m) /\ lp.at = End(w, (m + NProps(w, m)) - lp.props)
  /\ lp.child = NONE => m <= h /\ Left(w, m) - lp.nodes = Level(w, v, Len(v))
  /\ lp.child # NONE =>
       /\ n < Len(w) /\ lp.child = End(w, n)
       /\ (m = h /\ lp.props = 0 /\ lp.nodes = 1) \/ (m > n /\ lp.nodes <= Left(w, m))

Passes(w, v, n, z, lp) ==
  /\ Len(v) > 0 /\ v[Len(v)].next < NChildren(w, NodeOf(w, v, Len(v)))
  /\ \E h \in 1 .. n, m \in 1 .. Len(w) : Passing(w, v, n, z, lp, h, m)

Run(w, v, n, z, lp) ==
  /\ Frames(w, v, n)
  /\ lp.kind = "enter" => Enters(w, v, n, z, lp)
  /\ lp.kind = "print" => Prints(w, v, n, z, lp)
  /\ lp.kind = "pass" => Passes(w, v, n, z, lp)

WalkType(z) ==
  [kind : {"enter", "print", "pass"}, at : 0 .. z, props : Nat, nodes : Nat,
   child : 0 .. z \union {NONE}]
VisitType(z) == [at : 0 .. z, next : Nat]

\* The console shows a beginning of what was written.
Shows(c, w) ==
  /\ \E S : c \in Seq(S)
  /\ Len(c) <= Len(w) /\ \A i \in 1 .. Len(c) : c[i] = Line(w[i])

ReaderState(w, s, z, d, v, lp, c) ==
  /\ d \in {"idle", "run", "skipped", "done", "malformed"}
  /\ lp \in WalkType(z) /\ v \in Seq(VisitType(z)) /\ Shows(c, w)
  /\ d = "run" => Run(w, v, Len(c), z, lp)
  /\ d \in {"malformed", "skipped"} => z < Len(s)
  /\ d = "done" => z = Len(s) /\ Len(c) = Len(w)

Reading(w, s) ==
  /\ Closed(w, s) /\ tree \in Seq(Bytes) /\ Extends(s, tree) /\ dump = "run"
  /\ ReaderState(w, s, Len(tree), dump, visit, walk, console)

\* Types while the kernel reads.
LEMMA ReadingFacts ==
  ASSUME NEW w, NEW s, Reading(w, s)
  PROVE  /\ Closed(w, s) /\ tree \in Seq(Bytes) /\ Extends(s, tree)
         /\ Len(tree) \in Nat /\ Len(s) \in Nat /\ Len(tree) <= Len(s) /\ Len(w) \in Nat
         /\ Len(console) \in Nat /\ Len(console) <= Len(w) /\ Shows(console, w)
         /\ Frames(w, visit, Len(console)) /\ Run(w, visit, Len(console), Len(tree), walk)
         /\ visit \in Seq(VisitType(Len(tree))) /\ Len(visit) \in Nat
         /\ walk \in WalkType(Len(tree))
         /\ walk.at \in 0 .. Len(tree) /\ walk.props \in Nat /\ walk.nodes \in Nat
         /\ walk.child \in 0 .. Len(tree) \union {NONE}
         /\ walk.kind \in {"enter", "print", "pass"}
<1>1. /\ Closed(w, s) /\ tree \in Seq(Bytes) /\ Extends(s, tree)
      /\ walk \in WalkType(Len(tree)) /\ visit \in Seq(VisitType(Len(tree))) /\ Shows(console, w)
      /\ Run(w, visit, Len(console), Len(tree), walk)
  BY DEF Reading, ReaderState
<1>2. Len(w) \in Nat /\ s \in Seq(Bytes)
  BY <1>1, ClosedFacts
<1>3. Len(tree) \in Nat /\ Len(s) \in Nat /\ Len(tree) <= Len(s)
  BY <1>1, <1>2 DEF Extends
<1>4. PICK S : console \in Seq(S)
  BY <1>1 DEF Shows
<1>5. Len(console) \in Nat /\ Len(console) <= Len(w)
  BY <1>1, <1>4 DEF Shows
<1>6. Len(visit) \in Nat
  BY <1>1
<1>7. /\ walk.at \in 0 .. Len(tree) /\ walk.props \in Nat /\ walk.nodes \in Nat
      /\ walk.child \in 0 .. Len(tree) \union {NONE}
      /\ walk.kind \in {"enter", "print", "pass"}
  BY <1>1 DEF WalkType
<1>8. Frames(w, visit, Len(console))
  BY <1>1 DEF Run
<1>9. QED
  BY <1>1, <1>2, <1>3, <1>5, <1>6, <1>7, <1>8

\* The reader fails only on a tree that is cut.
LEMMA MalformedStep ==
  ASSUME NEW w, NEW s, Reading(w, s), Malformed, Len(tree) < Len(s)
  PROVE  ReaderState(w, s, Len(tree), dump', visit', walk', console')
  BY DEF Reading, ReaderState, Malformed

\* One line more.
LEMMA ShowsGrows ==
  ASSUME NEW c, NEW w, Shows(c, w), Len(c) + 1 <= Len(w)
  PROVE  LET x == Line(w[Len(c) + 1])
         IN  Shows(Append(c, x), w) /\ Len(Append(c, x)) = Len(c) + 1
<1> DEFINE n == Len(c)
           x == Line(w[n + 1])
<1>1. n + 1 <= Len(w) /\ (\E S : c \in Seq(S)) /\ \A i \in 1 .. n : c[i] = Line(w[i])
  BY DEF Shows
<1> HIDE DEF x
<1>2. /\ n \in Nat /\ Len(Append(c, x)) = n + 1
      /\ \A k \in 1 .. n : Append(c, x)[k] = c[k]
      /\ Append(c, x)[n + 1] = x
      /\ \E S : Append(c, x) \in Seq(S)
  BY <1>1, AppendItem
<1> HIDE DEF n
<1>3. ASSUME NEW i \in 1 .. n + 1
      PROVE  Append(c, x)[i] = Line(w[i])
  <2>1. CASE i \in 1 .. n
    BY <1>1, <1>2, <2>1
  <2>2. CASE i = n + 1
    BY <1>2, <2>2 DEF x
  <2>3. QED
    BY <1>2, <2>1, <2>2
<1>4. QED
  BY <1>1, <1>2, <1>3 DEF Shows, n, x

\* dump_node enters the node after what is on the console.
LEMMA DumpNodeStep ==
  ASSUME NEW w, NEW s, Reading(w, s), DumpNode
  PROVE  ReaderState(w, s, Len(tree), dump', visit', walk', console')
<1> DEFINE n == Len(console)
           z == Len(tree)
           d == Len(visit)
           o == walk.at
           k == n + 1
<1>1. /\ Closed(w, s) /\ tree \in Seq(Bytes) /\ Extends(s, tree)
      /\ z \in Nat /\ Len(w) \in Nat /\ n \in Nat /\ d \in Nat /\ Shows(console, w)
      /\ Frames(w, visit, n) /\ Run(w, visit, n, z, walk)
      /\ visit \in Seq(VisitType(z)) /\ o \in 0 .. z
  BY ReadingFacts
<1>2. walk.kind = "enter"
  BY DEF DumpNode
<1> HIDE DEF n, z, d, o
<1>3. Comes(w, visit, n) /\ o = AtOf(w, k) /\ End(w, k) <= z
  BY <1>1, <1>2 DEF Run, Enters, o
<1>4. k \in 1 .. Len(w) /\ IsHeader(w, k) /\ Depth(w, k) = d
  BY <1>1, <1>3 DEF Comes, d
<1>5. /\ NProps(w, k) \in Nat /\ NChildren(w, k) \in Nat /\ End(w, k) = AtOf(w, k) + 8
  BY <1>1, <1>4, ClosedFacts, HeaderFacts
<1>6. /\ PropertyCount(o) = NProps(w, k) /\ ChildCount(o) = NChildren(w, k)
      /\ PropertyCount(o) # NONE /\ ChildCount(o) # NONE
  BY <1>1, <1>3, <1>4, ReadHeaderItem DEF z
<1>7. /\ console' = Append(console, NodeLine(d, NProps(w, k), NChildren(w, k)))
      /\ visit' = Append(visit, [at |-> o, next |-> 0])
      /\ walk' = Loop("print", o + 8, NProps(w, k), 0, NONE)
      /\ dump' = "run"
  BY <1>6 DEF DumpNode, Reading, o, d
<1>8. o + 8 = End(w, k) /\ o + 8 \in 0 .. z
  BY <1>1, <1>3, <1>5
<1>9. /\ walk' \in WalkType(z) /\ walk'.kind = "print" /\ walk'.at = o + 8 /\ walk'.props = NProps(w, k)
  <2>1. 0 \in Nat /\ NONE \in 0 .. z \union {NONE} /\ "print" \in {"enter", "print", "pass"}
    OBVIOUS
  <2>2. QED
    BY <1>5, <1>7, <1>8, <2>1 DEF Loop, WalkType
<1>10. Shows(console', w) /\ Len(console') = k
  <2>1. Line(w[k]) = NodeLine(d, NProps(w, k), NChildren(w, k))
    BY <1>4 DEF Line, IsHeader, Depth, NProps, NChildren
  <2>2. k <= Len(w)
    BY <1>1, <1>4
  <2>3. QED
    BY <1>1, <1>7, <2>1, <2>2, ShowsGrows DEF n
<1> DEFINE x == [at |-> o, next |-> 0]
<1>11. x \in VisitType(z) /\ x.at = AtOf(w, k) /\ x.next = 0
  BY <1>1, <1>3 DEF VisitType
<1> HIDE DEF x
<1>12. visit' = Append(visit, x) /\ visit' \in Seq(VisitType(z))
  BY <1>1, <1>7, <1>11 DEF x
<1>13. /\ Frames(w, visit', k) /\ Len(visit') = d + 1
       /\ Level(w, visit', Len(visit')) = Left(w, k)
  BY <1>1, <1>3, <1>11, <1>12, FramesPush DEF d
<1>14. Prints(w, visit', k, z, walk')
  <2>1. Len(visit') > 0 /\ k \in 1 .. k
    BY <1>1, <1>13
  <2>2. LastShown(w, visit', k, z, k, walk'.props)
    BY <1>3, <1>4, <1>9, <1>13 DEF LastShown
  <2>3. QED
    BY <1>8, <1>9, <2>1, <2>2 DEF Prints
<1>15. Run(w, visit', Len(console'), z, walk')
  BY <1>9, <1>10, <1>13, <1>14 DEF Run
<1>16. QED
  BY <1>7, <1>9, <1>10, <1>12, <1>15 DEF ReaderState, z

\* A property of the node that was entered is printed.
LEMMA DumpPropertyStep ==
  ASSUME NEW w, NEW s, Reading(w, s), DumpProperty
  PROVE  ReaderState(w, s, Len(tree), dump', visit', walk', console')
<1> DEFINE n == Len(console)
           z == Len(tree)
           o == walk.at
           p == walk.props
           k == n + 1
<1>1. /\ Closed(w, s) /\ tree \in Seq(Bytes) /\ Extends(s, tree)
      /\ z \in Nat /\ Len(s) \in Nat /\ Len(w) \in Nat /\ n \in Nat /\ Shows(console, w)
      /\ Frames(w, visit, n) /\ Run(w, visit, n, z, walk)
      /\ visit \in Seq(VisitType(z)) /\ o \in 0 .. z /\ p \in Nat /\ walk.nodes \in Nat
      /\ walk.child \in 0 .. z \union {NONE}
  BY ReadingFacts
<1>2. walk.kind = "print" /\ p > 0
  BY DEF DumpProperty
<1>3. Len(visit) > 0 /\ o = End(w, n) /\ \E h \in 1 .. n : LastShown(w, visit, n, z, h, p)
  BY <1>1, <1>2 DEF Run, Prints
<1> HIDE DEF n, z, o, p
<1>4. PICK h \in 1 .. n : LastShown(w, visit, n, z, h, p)
  BY <1>3
<1>5. /\ IsHeader(w, h) /\ Left(w, h) = Level(w, visit, Len(visit))
      /\ h + NProps(w, h) = n + p
  BY <1>4 DEF LastShown
<1>6. h \in 1 .. Len(w) /\ n \in 1 .. Len(w)
  <2>1. n <= Len(w)
    BY <1>1 DEF Frames
  <2>2. QED
    BY <1>1, <1>4, <2>1
<1>7. NProps(w, h) \in Nat
  BY <1>1, <1>5, <1>6, ClosedFacts, HeaderFacts
<1>8. k \in 1 .. Len(w) /\ ~IsHeader(w, k)
  <2>1. k - h \in 1 .. NProps(w, h) /\ h + (k - h) = k
    BY <1>1, <1>2, <1>4, <1>5, <1>7
  <2>2. QED
    BY <1>1, <1>5, <1>6, <2>1, ClosedGroups
<1>9. o = AtOf(w, k) /\ End(w, k) \in Nat /\ End(w, k) <= Len(s)
  <2>1. n \in 1 .. Len(w) - 1
    BY <1>1, <1>6, <1>8
  <2>2. QED
    BY <1>1, <1>3, <1>8, <2>1, EndOrder
<1>10. /\ End(w, k) <= z => /\ PropertyEnd(o) = End(w, k) /\ PropertyEnd(o) # NONE
                            /\ Prop(PropertyName(o), PropertyValue(o)) = PropOf(w, k)
       /\ ~(End(w, k) <= z) => PropertyEnd(o) = NONE
  BY <1>1, <1>8, <1>9, ReadPropItem DEF z
<1>11. CASE ~(End(w, k) <= z)
  <2>1. Malformed
    BY <1>10, <1>11 DEF DumpProperty, o
  <2>2. z < Len(s)
    BY <1>1, <1>9, <1>11
  <2>3. QED
    BY <2>1, <2>2, MalformedStep DEF z
<1>12. CASE End(w, k) <= z
  <2>1. /\ console' = Append(console, PropLine(PropOf(w, k)))
        /\ walk' = Loop("print", End(w, k), p - 1, walk.nodes, walk.child)
        /\ dump' = "run" /\ visit' = visit
    BY <1>2, <1>10, <1>12 DEF DumpProperty, NextProperty, Reading, o, p
  <2>2. End(w, k) \in 0 .. z /\ p - 1 \in Nat
    BY <1>1, <1>2, <1>9, <1>12
  <2>3. walk' \in WalkType(z) /\ walk'.kind = "print" /\ walk'.at = End(w, k) /\ walk'.props = p - 1
    BY <1>1, <2>1, <2>2 DEF Loop, WalkType
  <2>4. Shows(console', w) /\ Len(console') = k
    <3>1. Line(w[k]) = PropLine(PropOf(w, k))
      <4>1. w[k].header = FALSE
        BY <1>1, <1>8, ClosedFacts DEF Items, ItemOK, IsHeader
      <4>2. QED
        BY <4>1 DEF Line, PropOf
    <3>2. k <= Len(w)
      BY <1>1, <1>8
    <3>3. QED
      BY <1>1, <2>1, <3>1, <3>2, ShowsGrows DEF n
  <2>5. Frames(w, visit, k)
    <3>1. k <= Len(w)
      BY <1>1, <1>8
    <3>2. QED
      BY <1>1, <1>8, <3>1, FramesProp
  <2>6. Prints(w, visit, k, z, walk')
    <3>1. h \in 1 .. k /\ h + NProps(w, h) = k + (p - 1)
      BY <1>1, <1>4, <1>5, <1>7
    <3>2. LastShown(w, visit, k, z, h, walk'.props)
      BY <1>5, <1>12, <2>3, <3>1 DEF LastShown
    <3>3. QED
      BY <1>3, <2>3, <3>1, <3>2 DEF Prints
  <2>7. Run(w, visit', Len(console'), z, walk')
    BY <2>1, <2>3, <2>4, <2>5, <2>6 DEF Run
  <2>8. QED
    BY <1>1, <2>1, <2>3, <2>4, <2>7 DEF ReaderState, z
<1>13. QED
  BY <1>11, <1>12

\* The innermost call, and the node whose properties were printed last.
TopLevel(w, v, n, h) ==
  LET k == NodeOf(w, v, Len(v))
  IN  /\ k \in 1 .. n /\ k \in 1 .. Len(w) /\ IsHeader(w, k) /\ AtOf(w, k) = v[Len(v)].at
      /\ h \in 1 .. n /\ h \in 1 .. Len(w) /\ IsHeader(w, h) /\ k <= h
      /\ Level(w, v, Len(v)) \in Nat /\ Left(w, h) = Level(w, v, Len(v))
      /\ NProps(w, h) \in Nat /\ h + NProps(w, h) = n
      /\ \A m \in k .. h - 1 :
           IsHeader(w, m) => After(w, m) <= h /\ Left(w, m) > Level(w, v, Len(v))

\* Between the innermost node and h everything is below that node.
LEMMA TopLevelFacts ==
  ASSUME NEW w, NEW s, Closed(w, s), NEW n \in Nat, NEW S, NEW v \in Seq(S), Len(v) > 0,
         Frames(w, v, n), NEW z, NEW h \in 1 .. n, LastShown(w, v, n, z, h, 0)
  PROVE  TopLevel(w, v, n, h)
<1> DEFINE d == Len(v)
           k == NodeOf(w, v, d)
<1>1. d \in Nat /\ d \in 1 .. d
  OBVIOUS
<1>2. /\ k \in 1 .. n /\ k \in 1 .. Len(w) /\ IsHeader(w, k) /\ AtOf(w, k) = v[d].at
      /\ Level(w, v, d) \in Nat
  BY <1>1, FrameFacts
<1>3. n <= Len(w) /\ Len(w) \in Nat /\ Items(w, s)
  BY ClosedFacts DEF Frames
<1>4. IsHeader(w, h) /\ Left(w, h) = Level(w, v, d) /\ h + NProps(w, h) = n + 0
  BY DEF LastShown
<1>5. \A i \in k .. Len(w) : IsHeader(w, i) /\ After(w, i) <= n => Left(w, i) > Level(w, v, d)
  BY <1>1 DEF Frames, Frame
<1> HIDE DEF d, k
<1>6. h \in 1 .. Len(w)
  BY <1>3
<1>7. NProps(w, h) \in Nat /\ After(w, h) = (h + NProps(w, h)) + 1
  BY <1>3, <1>4, <1>6, HeaderFacts
<1>8. h + NProps(w, h) = n /\ After(w, h) = n + 1
  BY <1>4, <1>7
<1>9. k <= h
  <2>1. SUFFICES ASSUME h < k PROVE FALSE
    BY <1>2, <1>6
  <2>2. Owns(w, h)
    BY <1>4, <1>6, ClosedGroups
  <2>3. After(w, h) <= k
    BY <1>2, <1>3, <1>4, <1>6, <2>1, <2>2, HeadersApart
  <2>4. QED
    BY <1>2, <1>8, <2>3
<1>10. ASSUME NEW m \in k .. h - 1, IsHeader(w, m)
       PROVE  After(w, m) <= h /\ Left(w, m) > Level(w, v, d)
  <2>1. m \in 1 .. Len(w) /\ m < h /\ m \in k .. Len(w)
    BY <1>2, <1>3, <1>6
  <2>2. Owns(w, m)
    BY <1>10, <2>1, ClosedGroups
  <2>3. After(w, m) <= h
    BY <1>3, <1>4, <1>6, <1>10, <2>1, <2>2, HeadersApart
  <2>4. After(w, m) \in Nat
    BY <1>3, <1>10, <2>1, HeaderFacts
  <2>5. After(w, m) <= n
    BY <2>3, <2>4
  <2>6. QED
    BY <1>5, <1>10, <2>1, <2>3, <2>5
<1>11. QED
  BY <1>2, <1>4, <1>6, <1>7, <1>8, <1>9, <1>10 DEF TopLevel, d, k

\* child_at is called.
LEMMA DumpChildStep ==
  ASSUME NEW w, NEW s, Reading(w, s), DumpChild
  PROVE  ReaderState(w, s, Len(tree), dump', visit', walk', console')
<1> DEFINE n == Len(console)
           z == Len(tree)
           d == Len(visit)
           k == NodeOf(w, visit, d)
           o == visit[d].at
           j == visit[d].next
<1>1. /\ Closed(w, s) /\ tree \in Seq(Bytes) /\ Extends(s, tree)
      /\ z \in Nat /\ Len(w) \in Nat /\ n \in Nat /\ d \in Nat /\ Shows(console, w)
      /\ Frames(w, visit, n) /\ Run(w, visit, n, z, walk)
      /\ visit \in Seq(VisitType(z))
  BY ReadingFacts
<1>2. /\ walk.kind = "print" /\ walk.props = 0 /\ j < ChildCount(o)
      /\ walk' = Loop("pass", o + 8, PropertyCount(o), j, NONE)
      /\ dump' = "run" /\ visit' = visit /\ console' = console
  BY DEF DumpChild, Reading, Here
<1>3. d > 0 /\ \E h \in 1 .. n : LastShown(w, visit, n, z, h, 0)
  BY <1>1, <1>2 DEF Run, Prints
<1>4. d \in 1 .. Len(visit)
  BY <1>1, <1>3
<1>5. /\ k \in 1 .. n /\ k \in 1 .. Len(w) /\ IsHeader(w, k) /\ AtOf(w, k) = o
      /\ j \in Nat /\ Level(w, visit, d) = Left(w, k) - j
  BY <1>1, <1>4, FrameFacts
<1> HIDE DEF n, z, d, k, o, j
<1>6. PICK h \in 1 .. n : LastShown(w, visit, n, z, h, 0)
  BY <1>3
<1>7. TopLevel(w, visit, n, h)
  BY <1>1, <1>3, <1>6, TopLevelFacts DEF d
<1>8. k <= h
  BY <1>7 DEF TopLevel, k, d
<1>9. /\ NProps(w, k) \in Nat /\ End(w, k) = o + 8 /\ o + 8 \in 0 .. z
  <2>1. NProps(w, k) \in Nat /\ End(w, k) = o + 8
    BY <1>1, <1>5, ClosedFacts, HeaderFacts
  <2>2. End(w, n) <= z
    BY <1>6 DEF LastShown
  <2>3. n \in 1 .. Len(w) /\ k <= n
    BY <1>1, <1>5 DEF Frames
  <2>4. End(w, k) <= End(w, n) /\ End(w, k) \in Nat /\ End(w, n) \in Nat
    BY <1>1, <1>5, <2>3, EndOrder
  <2>5. QED
    BY <1>1, <2>1, <2>2, <2>4
<1>10. PropertyCount(o) = NProps(w, k) /\ ChildCount(o) = NChildren(w, k)
  <2>1. End(w, k) <= z
    BY <1>1, <1>9
  <2>2. QED
    BY <1>1, <1>5, <2>1, ReadHeaderItem DEF z
<1>11. /\ walk' \in WalkType(z) /\ walk'.kind = "pass" /\ walk'.at = End(w, k)
       /\ walk'.props = NProps(w, k) /\ walk'.nodes = j /\ walk'.child = NONE
  BY <1>2, <1>5, <1>9, <1>10 DEF Loop, WalkType
<1>12. Passing(w, visit, n, z, walk', h, k)
  <2>1. (k + NProps(w, k)) - NProps(w, k) = k /\ NProps(w, k) <= NProps(w, k) /\ k <= k
    BY <1>5, <1>9
  <2>2. QED
    BY <1>5, <1>6, <1>8, <1>11, <2>1 DEF Passing, k, d
<1>13. Passes(w, visit, n, z, walk')
  BY <1>2, <1>3, <1>5, <1>6, <1>10, <1>12 DEF Passes, k, d, j
<1>14. Run(w, visit', Len(console'), z, walk')
  BY <1>1, <1>2, <1>11, <1>13 DEF Run, n
<1>15. QED
  BY <1>1, <1>2, <1>11, <1>14 DEF ReaderState, z

\* properties_end, of the node or of one that is passed.
LEMMA PassPropertyStep ==
  ASSUME NEW w, NEW s, Reading(w, s), PassProperty
  PROVE  ReaderState(w, s, Len(tree), dump', visit', walk', console')
<1> DEFINE n == Len(console)
           z == Len(tree)
           o == walk.at
           p == walk.props
<1>1. /\ Closed(w, s) /\ tree \in Seq(Bytes) /\ Extends(s, tree)
      /\ z \in Nat /\ Len(s) \in Nat /\ Len(w) \in Nat /\ n \in Nat /\ Shows(console, w)
      /\ Frames(w, visit, n) /\ Run(w, visit, n, z, walk)
      /\ visit \in Seq(VisitType(z)) /\ p \in Nat /\ walk.nodes \in Nat
      /\ walk.child \in 0 .. z \union {NONE}
  BY ReadingFacts
<1>2. walk.kind = "pass" /\ p > 0
  BY DEF PassProperty
<1>3. Passes(w, visit, n, z, walk)
  BY <1>1, <1>2 DEF Run
<1>4. PICK h \in 1 .. n, m \in 1 .. Len(w) : Passing(w, visit, n, z, walk, h, m)
  BY <1>3 DEF Passes
<1>5. IsHeader(w, m) /\ p <= NProps(w, m) /\ o = End(w, (m + NProps(w, m)) - p)
  BY <1>4 DEF Passing
<1>6. NProps(w, m) \in Nat
  BY <1>1, <1>5, ClosedFacts, HeaderFacts
<1> HIDE DEF n, z, o, p
<1> DEFINE q == (m + NProps(w, m)) - p
           k == q + 1
<1>7. k \in 1 .. Len(w) /\ ~IsHeader(w, k)
  <2>1. k - m \in 1 .. NProps(w, m) /\ m + (k - m) = k
    BY <1>1, <1>2, <1>5, <1>6
  <2>2. QED
    BY <1>1, <1>5, <2>1, ClosedGroups
<1>8. q \in 1 .. Len(w) - 1 /\ k = (m + NProps(w, m)) - (p - 1)
  BY <1>1, <1>2, <1>5, <1>6, <1>7
<1> HIDE DEF k
<1>9. o = AtOf(w, k) /\ End(w, k) \in Nat /\ End(w, k) <= Len(s)
  BY <1>1, <1>5, <1>7, <1>8, EndOrder DEF k
<1> HIDE DEF q
<1>10. /\ End(w, k) <= z => PropertyEnd(o) = End(w, k) /\ PropertyEnd(o) # NONE
       /\ ~(End(w, k) <= z) => PropertyEnd(o) = NONE
  BY <1>1, <1>7, <1>9, ReadPropItem DEF z
<1>11. CASE ~(End(w, k) <= z)
  <2>1. Malformed
    BY <1>10, <1>11 DEF PassProperty, o
  <2>2. z < Len(s)
    BY <1>1, <1>9, <1>11
  <2>3. QED
    BY <2>1, <2>2, MalformedStep DEF z
<1>12. CASE End(w, k) <= z
  <2>1. /\ walk' = Loop("pass", End(w, k), p - 1, walk.nodes, walk.child)
        /\ dump' = "run" /\ visit' = visit /\ console' = console
    BY <1>2, <1>10, <1>12 DEF PassProperty, NextProperty, Reading, o, p
  <2>2. End(w, k) \in 0 .. z /\ p - 1 \in Nat /\ p # 0
    BY <1>1, <1>2, <1>9, <1>12
  <2>3. /\ walk' \in WalkType(z) /\ walk'.kind = "pass" /\ walk'.at = End(w, k)
        /\ walk'.props = p - 1 /\ walk'.nodes = walk.nodes /\ walk'.child = walk.child
    BY <1>1, <2>1, <2>2 DEF Loop, WalkType
  <2>4. Passing(w, visit, n, z, walk', h, m)
    <3>1. p - 1 <= NProps(w, m) /\ walk'.at = End(w, (m + NProps(w, m)) - walk'.props)
      BY <1>1, <1>5, <1>6, <1>8, <2>3
    <3>2. QED
      BY <1>4, <2>2, <2>3, <3>1 DEF Passing, p
  <2>5. Passes(w, visit, n, z, walk')
    BY <1>3, <1>4, <2>4 DEF Passes
  <2>6. Run(w, visit', Len(console'), z, walk')
    BY <1>1, <2>1, <2>3, <2>5 DEF Run, n
  <2>7. QED
    BY <1>1, <2>1, <2>3, <2>6 DEF ReaderState, z
<1>13. QED
  BY <1>11, <1>12

\* What follows the node at m, once it is passed.
LEMMA PassFacts ==
  ASSUME NEW w, NEW s, Closed(w, s), NEW m \in 1 .. Len(w), IsHeader(w, m), Left(w, m) >= 1
  PROVE  LET a == After(w, m)
         IN  /\ a \in 1 .. Len(w) /\ IsHeader(w, a) /\ m < a
             /\ Left(w, a) = (Left(w, m) - 1) + NChildren(w, a)
             /\ AtOf(w, a) = End(w, m + NProps(w, m))
             /\ NProps(w, a) \in Nat /\ NChildren(w, a) \in Nat /\ Left(w, a) \in Nat
             /\ End(w, a) = AtOf(w, a) + 8 /\ End(w, a) \in Nat /\ End(w, a) <= Len(s)
<1> DEFINE a == After(w, m)
<1>1. Items(w, s) /\ Len(w) \in Nat
  BY ClosedFacts
<1>2. NProps(w, m) \in Nat /\ Left(w, m) \in Nat /\ a = (m + NProps(w, m)) + 1 /\ a \in Nat /\ m < a
  BY <1>1, HeaderFacts
<1>3. Followed(w, m)
  <2>1. Left(w, m) > 0
    BY <1>2
  <2>2. QED
    BY <2>1, ClosedGroups
<1>4. a <= Len(w) /\ IsHeader(w, a) /\ Left(w, a) = (Left(w, m) - 1) + NChildren(w, a)
  BY <1>3 DEF Followed
<1> HIDE DEF a
<1>5. a \in 1 .. Len(w) /\ m + NProps(w, m) \in 1 .. Len(w) - 1
  BY <1>1, <1>2, <1>4
<1>6. AtOf(w, a) = End(w, m + NProps(w, m)) /\ End(w, a) \in Nat /\ End(w, a) <= Len(s)
  BY <1>2, <1>5, EndOrder
<1>7. NProps(w, a) \in Nat /\ NChildren(w, a) \in Nat /\ Left(w, a) \in Nat /\ End(w, a) = AtOf(w, a) + 8
  BY <1>1, <1>4, <1>5, HeaderFacts
<1>8. QED
  BY <1>2, <1>4, <1>5, <1>6, <1>7 DEF a

\* total_len: a node is passed.
LEMMA PassNodeStep ==
  ASSUME NEW w, NEW s, Reading(w, s), PassNode
  PROVE  ReaderState(w, s, Len(tree), dump', visit', walk', console')
<1> DEFINE n == Len(console)
           z == Len(tree)
           o == walk.at
           r == walk.nodes
           lev == Level(w, visit, Len(visit))
<1>1. /\ Closed(w, s) /\ tree \in Seq(Bytes) /\ Extends(s, tree)
      /\ z \in Nat /\ Len(s) \in Nat /\ Len(w) \in Nat /\ n \in Nat /\ Shows(console, w)
      /\ Frames(w, visit, n) /\ Run(w, visit, n, z, walk)
      /\ visit \in Seq(VisitType(z)) /\ r \in Nat
      /\ walk.child \in 0 .. z \union {NONE}
  BY ReadingFacts
<1>2. walk.kind = "pass" /\ walk.props = 0 /\ r > 0
  BY DEF PassNode
<1>3. Passes(w, visit, n, z, walk)
  BY <1>1, <1>2 DEF Run
<1>4. PICK h \in 1 .. n, m \in 1 .. Len(w) : Passing(w, visit, n, z, walk, h, m)
  BY <1>3 DEF Passes
<1>5. /\ LastShown(w, visit, n, z, h, 0)
      /\ IsHeader(w, m) /\ o = End(w, (m + NProps(w, m)) - 0) /\ NodeOf(w, visit, Len(visit)) <= m
      /\ walk.child = NONE => m <= h /\ Left(w, m) - r = lev
      /\ walk.child # NONE =>
           /\ n < Len(w) /\ walk.child = End(w, n)
           /\ (m = h /\ r = 1) \/ (m > n /\ r <= Left(w, m))
  BY <1>2, <1>4 DEF Passing
<1>6. TopLevel(w, visit, n, h)
  BY <1>1, <1>3, <1>4, <1>5, TopLevelFacts DEF Passes
<1> DEFINE k == NodeOf(w, visit, Len(visit))
<1>7. /\ k \in 1 .. n /\ h \in 1 .. Len(w) /\ IsHeader(w, h) /\ lev \in Nat /\ Left(w, h) = lev
      /\ NProps(w, h) \in Nat /\ h + NProps(w, h) = n
      /\ \A i \in k .. h - 1 : IsHeader(w, i) => After(w, i) <= h
  BY <1>6 DEF TopLevel
<1> HIDE DEF n, z, o, r, lev, k
<1>8. /\ NProps(w, m) \in Nat /\ Left(w, m) \in Nat /\ After(w, m) = (m + NProps(w, m)) + 1
      /\ Left(w, h) \in Nat /\ After(w, h) = (h + NProps(w, h)) + 1
  BY <1>1, <1>5, <1>7, ClosedFacts, HeaderFacts
<1>9. o = End(w, m + NProps(w, m))
  <2>1. (m + NProps(w, m)) - 0 = m + NProps(w, m)
    BY <1>8
  <2>2. QED
    BY <1>5, <2>1
<1>10. Left(w, m) >= 1
  <2>1. CASE walk.child = NONE
    <3>1. Left(w, m) - r = lev
      BY <1>5, <2>1
    <3>2. QED
      BY <1>1, <1>2, <1>7, <1>8, <3>1
  <2>2. CASE walk.child # NONE /\ m > n
    BY <1>1, <1>2, <1>4, <1>5, <1>7, <1>8, <2>2
  <2>3. CASE walk.child # NONE /\ m = h
    <3>1. n < Len(w)
      BY <1>5, <2>3
    <3>2. Followed(w, m)
      <4>1. m + NProps(w, m) < Len(w)
        BY <1>7, <2>3, <3>1
      <4>2. QED
        BY <1>1, <1>5, <4>1, ClosedGroups
    <3>3. QED
      BY <3>2 DEF Followed
  <2>4. QED
    BY <1>5, <2>1, <2>2, <2>3
<1> DEFINE a == After(w, m)
           C == NChildren(w, a)
<1>11. /\ a \in 1 .. Len(w) /\ IsHeader(w, a) /\ m < a
       /\ Left(w, a) = (Left(w, m) - 1) + C
       /\ AtOf(w, a) = o
       /\ NProps(w, a) \in Nat /\ C \in Nat /\ Left(w, a) \in Nat
       /\ End(w, a) = o + 8 /\ End(w, a) \in Nat /\ End(w, a) <= Len(s)
  BY <1>1, <1>5, <1>9, <1>10, PassFacts
<1>12. After(w, m) = (m + NProps(w, m)) + 1
  BY <1>8
<1> HIDE DEF a, C
<1>13. /\ End(w, a) <= z =>
            /\ PropertyCount(o) = NProps(w, a) /\ ChildCount(o) = C
            /\ PropertyCount(o) # NONE /\ ChildCount(o) # NONE
       /\ ~(End(w, a) <= z) => ChildCount(o) = NONE
  BY <1>1, <1>11, ReadHeaderItem DEF z, C
<1>14. CASE ~(End(w, a) <= z)
  <2>1. Malformed
    BY <1>13, <1>14 DEF PassNode, o
  <2>2. z < Len(s)
    BY <1>1, <1>11, <1>14
  <2>3. QED
    BY <2>1, <2>2, MalformedStep DEF z
<1>15. CASE End(w, a) <= z
  <2>1. /\ walk' = Loop("pass", o + 8, NProps(w, a), (r - 1) + C, walk.child)
        /\ dump' = "run" /\ visit' = visit /\ console' = console
    BY <1>13, <1>15 DEF PassNode, Reading, o, r
  <2>2. o + 8 \in 0 .. z /\ (r - 1) + C \in Nat
    BY <1>1, <1>2, <1>11, <1>15
  <2>3. /\ walk' \in WalkType(z) /\ walk'.kind = "pass" /\ walk'.at = End(w, a)
        /\ walk'.props = NProps(w, a) /\ walk'.nodes = (r - 1) + C /\ walk'.child = walk.child
    BY <1>1, <1>11, <2>1, <2>2 DEF Loop, WalkType
  <2>4. k <= a
    BY <1>5, <1>7, <1>11 DEF k
  <2>5. (a + NProps(w, a)) - NProps(w, a) = a /\ NProps(w, a) <= NProps(w, a)
    BY <1>11
  <2>6. walk.child = NONE => a <= h /\ Left(w, a) - ((r - 1) + C) = lev
    <3>1. SUFFICES ASSUME walk.child = NONE PROVE a <= h /\ Left(w, a) - ((r - 1) + C) = lev
      OBVIOUS
    <3>2. m <= h /\ Left(w, m) - r = lev
      BY <1>5, <3>1
    <3>3. m # h
      BY <1>1, <1>2, <1>7, <1>8, <3>2
    <3>4. m \in k .. h - 1
      BY <1>5, <1>7, <3>2, <3>3 DEF k
    <3>5. a <= h
      BY <1>5, <1>7, <3>4 DEF a
    <3>6. Left(w, a) - ((r - 1) + C) = lev
      <4> DEFINE la == Left(w, a)
                 lm == Left(w, m)
      <4>1. la \in Nat /\ lm \in Int /\ r \in Int /\ C \in Nat /\ la = (lm - 1) + C /\ lm - r = lev
        BY <1>1, <1>8, <1>11, <3>2
      <4> HIDE DEF la, lm, lev, r
      <4>2. la - ((r - 1) + C) = lev
        BY <4>1
      <4>3. QED
        BY <4>2 DEF la
    <3>7. QED
      BY <3>5, <3>6
  <2>7. walk.child # NONE => n < Len(w) /\ walk.child = End(w, n) /\ a > n /\ (r - 1) + C <= Left(w, a)
    <3>1. SUFFICES ASSUME walk.child # NONE
                   PROVE  n < Len(w) /\ walk.child = End(w, n) /\ a > n /\ (r - 1) + C <= Left(w, a)
      OBVIOUS
    <3>2. n < Len(w) /\ walk.child = End(w, n) /\ ((m = h /\ r = 1) \/ (m > n /\ r <= Left(w, m)))
      BY <1>5, <3>1
    <3>3. CASE m = h /\ r = 1
      <4>1. a = n + 1
        BY <1>7, <1>12, <3>3 DEF a
      <4>2. (r - 1) + C <= Left(w, a)
        BY <1>8, <1>10, <1>11, <3>3
      <4>3. QED
        BY <1>1, <3>2, <4>1, <4>2
    <3>4. CASE m > n /\ r <= Left(w, m)
      <4>1. a > n
        BY <1>1, <1>11, <3>4
      <4>2. (r - 1) + C <= Left(w, a)
        <5> DEFINE la == Left(w, a)
                   lm == Left(w, m)
        <5>1. la \in Nat /\ lm \in Int /\ r \in Int /\ C \in Nat /\ la = (lm - 1) + C /\ r <= lm
          BY <1>1, <1>8, <1>11, <3>4
        <5> HIDE DEF la, lm, r
        <5>2. (r - 1) + C <= la
          BY <5>1
        <5>3. QED
          BY <5>2 DEF la
      <4>3. QED
        BY <3>2, <4>1, <4>2
    <3>5. QED
      BY <3>2, <3>3, <3>4
  <2>8. Passing(w, visit, n, z, walk', h, a)
    <3>1. walk'.props <= NProps(w, a) /\ walk'.at = End(w, (a + NProps(w, a)) - walk'.props)
      BY <2>3, <2>5
    <3>2. QED
      BY <1>5, <1>11, <2>3, <2>4, <2>6, <2>7, <3>1 DEF Passing, k, lev
  <2>9. Passes(w, visit, n, z, walk')
    BY <1>3, <1>4, <1>11, <2>8 DEF Passes
  <2>10. Run(w, visit', Len(console'), z, walk')
    BY <1>1, <2>1, <2>3, <2>9 DEF Run, n
  <2>11. QED
    BY <1>1, <2>1, <2>3, <2>10 DEF ReaderState, z
<1>16. QED
  BY <1>14, <1>15

\* child_at is at the child wanted: the node after what is on the console.
LEMMA ChildReachedStep ==
  ASSUME NEW w, NEW s, Reading(w, s), ChildReached
  PROVE  ReaderState(w, s, Len(tree), dump', visit', walk', console')
<1> DEFINE n == Len(console)
           z == Len(tree)
           o == walk.at
           d == Len(visit)
           lev == Level(w, visit, d)
           k == NodeOf(w, visit, d)
<1>1. /\ Closed(w, s)
      /\ z \in Nat /\ Len(w) \in Nat /\ n \in Nat /\ d \in Nat /\ Shows(console, w)
      /\ Frames(w, visit, n) /\ Run(w, visit, n, z, walk)
      /\ visit \in Seq(VisitType(z)) /\ o \in 0 .. z
  BY ReadingFacts
<1>2. /\ walk.kind = "pass" /\ walk.props = 0 /\ walk.nodes = 0 /\ walk.child = NONE
      /\ walk' = Loop("pass", o, 0, 1, o) /\ dump' = "run" /\ visit' = visit /\ console' = console
  BY DEF ChildReached, Reading
<1>3. Passes(w, visit, n, z, walk)
  BY <1>1, <1>2 DEF Run
<1>4. PICK h \in 1 .. n, m \in 1 .. Len(w) : Passing(w, visit, n, z, walk, h, m)
  BY <1>3 DEF Passes
<1>5. /\ LastShown(w, visit, n, z, h, 0)
      /\ IsHeader(w, m) /\ o = End(w, (m + NProps(w, m)) - 0) /\ k <= m
      /\ m <= h /\ Left(w, m) - 0 = lev
  BY <1>2, <1>4 DEF Passing
<1>6. TopLevel(w, visit, n, h)
  BY <1>1, <1>3, <1>4, <1>5, TopLevelFacts DEF Passes
<1>7. /\ k \in 1 .. n /\ h \in 1 .. Len(w) /\ IsHeader(w, h) /\ lev \in Nat /\ Left(w, h) = lev
      /\ NProps(w, h) \in Nat /\ h + NProps(w, h) = n
      /\ \A i \in k .. h - 1 : IsHeader(w, i) => Left(w, i) > lev
  BY <1>6 DEF TopLevel
<1>8. lev >= 1
  <2>1. d > 0 /\ visit[d].next < NChildren(w, k)
    BY <1>3 DEF Passes
  <2>2. d \in 1 .. Len(visit)
    BY <1>1, <2>1
  <2>3. /\ lev = Left(w, k) - visit[d].next /\ visit[d].next \in Nat /\ Base(w, k) \in Nat
        /\ NChildren(w, k) \in Nat /\ Left(w, k) = Base(w, k) + NChildren(w, k)
    <3> HIDE DEF d, n
    <3>1. QED
      BY <1>1, <2>2, FrameFacts
  <2> DEFINE x == visit[d].next
  <2> HIDE DEF x, lev, k, d
  <2>4. x \in Nat /\ x < NChildren(w, k) /\ lev = Left(w, k) - x
    BY <2>1, <2>3 DEF x
  <2>5. QED
    BY <2>3, <2>4
<1> HIDE DEF n, z, o, d, lev, k
<1>9. Left(w, m) \in Nat /\ NProps(w, m) \in Nat
  BY <1>1, <1>5, ClosedFacts, HeaderFacts
<1>10. m = h
  <2>1. SUFFICES ASSUME m # h PROVE FALSE
    OBVIOUS
  <2>2. m \in k .. h - 1
    BY <1>5, <1>7, <2>1
  <2>3. Left(w, m) > lev /\ Left(w, m) = lev
    BY <1>5, <1>7, <1>9, <2>2
  <2>4. QED
    BY <1>9, <2>3
<1>11. o = End(w, n)
  <2>1. (m + NProps(w, m)) - 0 = n
    BY <1>7, <1>9, <1>10
  <2>2. QED
    BY <1>5, <2>1
<1>12. n < Len(w)
  <2>1. Left(w, h) >= 1
    BY <1>7, <1>8
  <2>2. After(w, h) \in 1 .. Len(w) /\ h < After(w, h)
    BY <1>1, <1>7, <2>1, PassFacts
  <2>3. After(w, h) = (h + NProps(w, h)) + 1
    BY <1>1, <1>7, ClosedFacts, HeaderFacts
  <2>4. QED
    BY <1>1, <1>7, <2>2, <2>3
<1>13. /\ walk' \in WalkType(z) /\ walk'.kind = "pass" /\ walk'.at = o
       /\ walk'.props = 0 /\ walk'.nodes = 1 /\ walk'.child = o
  BY <1>1, <1>2 DEF Loop, WalkType
<1>14. Passing(w, visit, n, z, walk', h, m)
  <2>1. walk'.child # NONE
    BY <1>1, <1>13 DEF NONE
  <2>2. 0 <= NProps(w, m) /\ walk'.at = End(w, (m + NProps(w, m)) - 0)
    BY <1>5, <1>9, <1>13
  <2>3. QED
    BY <1>5, <1>10, <1>11, <1>12, <1>13, <2>1, <2>2 DEF Passing, k, d
<1>15. Passes(w, visit, n, z, walk')
  BY <1>3, <1>4, <1>14 DEF Passes
<1>16. Run(w, visit', Len(console'), z, walk')
  BY <1>1, <1>2, <1>13, <1>15 DEF Run, n
<1>17. QED
  BY <1>1, <1>2, <1>13, <1>16 DEF ReaderState, z

\* child_at returns a child that is readable to its end.
LEMMA EnterChildStep ==
  ASSUME NEW w, NEW s, Reading(w, s), EnterChild
  PROVE  ReaderState(w, s, Len(tree), dump', visit', walk', console')
<1> DEFINE n == Len(console)
           z == Len(tree)
           o == walk.at
           d == Len(visit)
           lev == Level(w, visit, d)
           k == NodeOf(w, visit, d)
           c == walk.child
<1>1. /\ Closed(w, s)
      /\ z \in Nat /\ Len(w) \in Nat /\ n \in Nat /\ d \in Nat /\ Shows(console, w)
      /\ Frames(w, visit, n) /\ Run(w, visit, n, z, walk)
      /\ visit \in Seq(VisitType(z)) /\ o \in 0 .. z /\ c \in 0 .. z \union {NONE}
  BY ReadingFacts
<1>2. /\ walk.kind = "pass" /\ walk.props = 0 /\ walk.nodes = 0 /\ c # NONE
      /\ visit' = [visit EXCEPT ![d] = [at |-> visit[d].at, next |-> visit[d].next + 1]]
      /\ walk' = Enter(c) /\ dump' = "run" /\ console' = console
  BY DEF EnterChild, Reading, Here
<1>3. Passes(w, visit, n, z, walk)
  BY <1>1, <1>2 DEF Run
<1>4. PICK h \in 1 .. n, m \in 1 .. Len(w) : Passing(w, visit, n, z, walk, h, m)
  BY <1>3 DEF Passes
<1>5. /\ LastShown(w, visit, n, z, h, 0)
      /\ IsHeader(w, m) /\ o = End(w, (m + NProps(w, m)) - 0)
      /\ n < Len(w) /\ c = End(w, n) /\ m > n
  <2>1. ~(walk.nodes = 1)
    BY <1>2
  <2>2. QED
    BY <1>2, <1>4, <2>1 DEF Passing
<1>6. TopLevel(w, visit, n, h)
  BY <1>1, <1>3, <1>4, <1>5, TopLevelFacts DEF Passes
<1>7. /\ k \in 1 .. n /\ k \in 1 .. Len(w) /\ IsHeader(w, k) /\ k <= h
      /\ h \in 1 .. Len(w) /\ IsHeader(w, h) /\ lev \in Nat /\ Left(w, h) = lev
      /\ NProps(w, h) \in Nat /\ h + NProps(w, h) = n
      /\ \A i \in k .. h - 1 : IsHeader(w, i) => Left(w, i) > lev
  BY <1>6 DEF TopLevel
<1>8. d > 0 /\ visit[d].next < NChildren(w, k)
  BY <1>3 DEF Passes
<1>9. /\ lev = Left(w, k) - visit[d].next /\ visit[d].next \in Nat /\ Base(w, k) \in Nat
      /\ NChildren(w, k) \in Nat /\ Left(w, k) = Base(w, k) + NChildren(w, k)
      /\ Depth(w, k) = d - 1 /\ visit[d].at = AtOf(w, k)
  <2>1. d \in 1 .. Len(visit)
    BY <1>1, <1>8
  <2>2. Closed(w, s) /\ Frames(w, visit, n)
    BY <1>1
  <2>3. /\ lev = Left(w, k) - visit[d].next /\ visit[d].next \in Nat /\ Base(w, k) \in Nat
        /\ NChildren(w, k) \in Nat /\ Left(w, k) = Base(w, k) + NChildren(w, k)
    <3> HIDE DEF d, n
    <3>1. QED
      BY <2>1, <2>2, FrameFacts
  <2>4. Depth(w, k) = d - 1 /\ AtOf(w, k) = visit[d].at
    <3> HIDE DEF d, n
    <3>1. QED
      BY <2>1, <2>2, FrameFacts
  <2>5. QED
    BY <2>3, <2>4
<1> DEFINE u == [visit EXCEPT ![d] = [at |-> visit[d].at, next |-> visit[d].next + 1]]
<1>10. u \in Seq(VisitType(z)) /\ Counted(u, visit)
  <2> DEFINE x == [at |-> visit[d].at, next |-> visit[d].next + 1]
  <2>1. d \in 1 .. Len(visit)
    BY <1>1, <1>8
  <2>2. visit[d] \in VisitType(z)
    BY <1>1, <2>1
  <2>3. x \in VisitType(z) /\ x.at = visit[d].at /\ x.next = visit[d].next + 1
    BY <2>2 DEF VisitType
  <2> HIDE DEF x
  <2>4. /\ [visit EXCEPT ![d] = x] \in Seq(VisitType(z)) /\ Len([visit EXCEPT ![d] = x]) = d
        /\ \A f \in 1 .. d : [visit EXCEPT ![d] = x][f] = IF f = d THEN x ELSE visit[f]
    BY <1>1, <2>1, <2>3, ExceptSeq
  <2>5. u = [visit EXCEPT ![d] = x]
    BY DEF x
  <2> HIDE DEF u
  <2>6. QED
    BY Zenon, <2>1, <2>3, <2>4, <2>5 DEF Counted
<1>11. visit' = u
  BY <1>2
<1> HIDE DEF u
<1>12. /\ Frames(w, u, n) /\ Len(u) = d /\ Level(w, u, d) = lev - 1
  <2>1. visit # <<>>
    BY <1>1, <1>8
  <2>2. QED
    BY <1>1, <1>8, <1>10, <2>1, FramesNext
<1> DEFINE x == visit[d].next
<1> HIDE DEF n, z, o, d, lev, k, c, x
<1>13. lev >= 1 /\ Base(w, k) < lev /\ lev <= Left(w, k)
  <2>1. x \in Nat /\ x < NChildren(w, k) /\ lev = Left(w, k) - x
    BY <1>8, <1>9 DEF x
  <2>2. QED
    BY <1>9, <2>1
<1> DEFINE a == n + 1
<1>14. /\ After(w, h) = a /\ a \in 1 .. Len(w) /\ IsHeader(w, a)
       /\ Left(w, a) = (lev - 1) + NChildren(w, a)
       /\ AtOf(w, a) = c /\ NChildren(w, a) \in Nat
  <2>1. Left(w, h) >= 1
    BY <1>7, <1>13
  <2>2. After(w, h) = (h + NProps(w, h)) + 1
    BY <1>1, <1>7, ClosedFacts, HeaderFacts
  <2>3. After(w, h) = a
    BY <1>7, <2>2
  <2>4. /\ After(w, h) \in 1 .. Len(w) /\ IsHeader(w, After(w, h))
        /\ Left(w, After(w, h)) = (Left(w, h) - 1) + NChildren(w, After(w, h))
        /\ AtOf(w, After(w, h)) = End(w, h + NProps(w, h)) /\ NChildren(w, After(w, h)) \in Nat
    BY <1>1, <1>7, <2>1, PassFacts
  <2>5. QED
    BY <1>5, <1>7, <2>3, <2>4
<1>15. Base(w, a) = lev - 1
  <2>1. Base(w, a) = Left(w, a) - NChildren(w, a)
    BY DEF Base
  <2>2. QED
    BY <1>7, <1>14, <2>1
<1>16. Depth(w, a) = d
  <2>1. ChildAfter(w, k, h)
    <3>1. After(w, h) <= Len(w)
      BY <1>1, <1>14
    <3>2. QED
      BY <1>7, <1>13, <3>1 DEF ChildAfter
  <2>2. Depth(w, After(w, h)) = Depth(w, k) + 1
    BY <1>1, <1>7, <2>1, ClosedFacts DEF Deep
  <2>3. QED
    BY <1>1, <1>9, <1>14, <2>2
<1>17. End(w, a) <= z
  <2>1. NProps(w, m) \in Nat /\ m + NProps(w, m) <= Len(w)
    BY <1>1, <1>5, ClosedFacts, HeaderFacts, ClosedGroups
  <2>2. (m + NProps(w, m)) - 0 = m + NProps(w, m) /\ m + NProps(w, m) \in 1 .. Len(w)
        /\ a <= m + NProps(w, m)
    BY <1>1, <1>5, <2>1
  <2>3. /\ End(w, a) <= End(w, m + NProps(w, m)) /\ End(w, a) \in Nat
        /\ End(w, m + NProps(w, m)) \in Nat
    BY <1>1, <1>14, <2>2, EndOrder
  <2>4. QED
    BY <1>1, <1>5, <2>2, <2>3
<1>18. Comes(w, u, n)
  <2>1. (lev - 1) + 1 = Left(w, h)
    BY <1>7
  <2>2. d > 0 /\ Len(u) = d
    BY <1>8, <1>12
  <2>3. \E g \in 1 .. n : IsHeader(w, g) /\ After(w, g) = n + 1 /\ Left(w, g) = Level(w, u, Len(u)) + 1
    BY <1>4, <1>7, <1>12, <1>14, <2>1
  <2>4. ~(d = 0)
    BY <1>1, <2>2
  <2>5. QED
    BY <1>5, <1>12, <1>14, <1>15, <1>16, <2>2, <2>3, <2>4 DEF Comes
<1>19. walk' \in WalkType(z) /\ walk'.kind = "enter" /\ walk'.at = c
  <2>1. c \in 0 .. z
    BY <1>1, <1>2
  <2>2. QED
    BY <1>2, <2>1 DEF Enter, Loop, WalkType
<1>20. Enters(w, u, n, z, walk')
  BY <1>14, <1>17, <1>18, <1>19 DEF Enters
<1>21. Run(w, visit', Len(console'), z, walk')
  BY <1>2, <1>11, <1>12, <1>19, <1>20 DEF Run, n
<1>22. QED
  BY <1>1, <1>2, <1>10, <1>11, <1>19, <1>21 DEF ReaderState, z

\* dump_node returns: all of the node's children are on the console.
LEMMA DumpReturnsStep ==
  ASSUME NEW w, NEW s, Reading(w, s), DumpReturns
  PROVE  ReaderState(w, s, Len(tree), dump', visit', walk', console')
<1> DEFINE n == Len(console)
           z == Len(tree)
           d == Len(visit)
           lev == Level(w, visit, d)
           k == NodeOf(w, visit, d)
           o == visit[d].at
<1>1. /\ Closed(w, s) /\ tree \in Seq(Bytes) /\ Extends(s, tree)
      /\ z \in Nat /\ Len(s) \in Nat /\ z <= Len(s)
      /\ Len(w) \in Nat /\ n \in Nat /\ d \in Nat /\ Shows(console, w)
      /\ Frames(w, visit, n) /\ Run(w, visit, n, z, walk)
      /\ visit \in Seq(VisitType(z)) /\ walk \in WalkType(z)
  BY ReadingFacts
<1>2. /\ walk.kind = "print" /\ walk.props = 0 /\ visit[d].next >= ChildCount(o)
      /\ visit' = Front(visit) /\ dump' = IF d = 1 THEN "done" ELSE "run"
      /\ walk' = walk /\ console' = console
  BY DEF DumpReturns, Here
<1>3. d > 0 /\ walk.at = End(w, n) /\ \E h \in 1 .. n : LastShown(w, visit, n, z, h, 0)
  BY <1>1, <1>2 DEF Run, Prints
<1>4. PICK h \in 1 .. n : LastShown(w, visit, n, z, h, 0)
  BY <1>3
<1>5. TopLevel(w, visit, n, h)
  BY <1>1, <1>3, <1>4, TopLevelFacts
<1>6. /\ h \in 1 .. Len(w) /\ IsHeader(w, h) /\ lev \in Nat /\ Left(w, h) = lev
      /\ NProps(w, h) \in Nat /\ h + NProps(w, h) = n
  BY <1>5 DEF TopLevel
<1>7. d \in 1 .. Len(visit) /\ visit # <<>>
  BY <1>1, <1>3
<1>8. /\ k \in 1 .. n /\ k \in 1 .. Len(w) /\ IsHeader(w, k) /\ o = AtOf(w, k)
      /\ visit[d].next \in 0 .. NChildren(w, k) /\ visit[d].next \in Nat
      /\ lev = Left(w, k) - visit[d].next /\ Base(w, k) \in Nat
      /\ NChildren(w, k) \in Nat /\ Left(w, k) = Base(w, k) + NChildren(w, k)
  <2> HIDE DEF d, n
  <2>1. /\ k \in 1 .. n /\ k \in 1 .. Len(w) /\ IsHeader(w, k) /\ visit[d].at = AtOf(w, k)
    BY <1>1, <1>7, FrameFacts
  <2>2. /\ visit[d].next \in 0 .. NChildren(w, k) /\ visit[d].next \in Nat
        /\ lev = Left(w, k) - visit[d].next /\ Base(w, k) \in Nat
    BY <1>1, <1>7, FrameFacts
  <2>3. NChildren(w, k) \in Nat /\ Left(w, k) = Base(w, k) + NChildren(w, k)
    BY <1>1, <1>7, FrameFacts
  <2>4. QED
    BY <2>1, <2>2, <2>3 DEF d
<1>9. End(w, n) <= z /\ n \in 1 .. Len(w)
  <2>1. n <= Len(w)
    BY <1>1 DEF Frames
  <2>2. QED
    BY <1>1, <1>4, <2>1 DEF LastShown
<1> DEFINE x == visit[d].next
<1>x. x >= ChildCount(o) /\ x \in 0 .. NChildren(w, k) /\ lev = Left(w, k) - x
  BY <1>2, <1>8
<1>f. Frames(w, Front(visit), n) /\ Front(visit) \in Seq(VisitType(z)) /\ Len(Front(visit)) = d - 1
  BY <1>1, <1>7, FramesPop, FrontFacts
<1> HIDE DEF n, z, d, lev, k, o, x
<1>10. ChildCount(o) = NChildren(w, k)
  <2>1. End(w, k) <= End(w, n) /\ End(w, k) \in Nat /\ End(w, n) \in Nat
    <3>1. k <= n
      BY <1>8
    <3>2. QED
      BY <1>1, <1>8, <1>9, <3>1, EndOrder
  <2>2. End(w, k) <= z
    BY <1>1, <1>9, <2>1
  <2>3. QED
    BY <1>1, <1>8, <2>2, ReadHeaderItem DEF z
<1>11. lev = Base(w, k)
  BY <1>8, <1>10, <1>x
<1>12. CASE d = 1
  <2>1. k = 1 /\ Base(w, 1) = 0
    <3>1. NodeOf(w, visit, 1) = 1
      BY <1>1, <1>3 DEF Frames, d
    <3>2. QED
      BY <1>1, <1>12, <3>1, ClosedFacts DEF k
  <2>2. n = Len(w)
    <3>1. Left(w, h) = 0
      BY <1>6, <1>11, <2>1
    <3>2. QED
      BY <1>1, <1>6, <3>1, ClosedGroups
  <2>3. z = Len(s)
    <3>1. Len(s) = End(w, n)
      BY <1>1, <2>2, ClosedFacts
    <3>2. QED
      BY <1>1, <1>9, <3>1
  <2>4. dump' = "done"
    BY <1>2, <1>12
  <2>5. QED
    BY <1>1, <1>2, <1>f, <2>2, <2>3, <2>4 DEF ReaderState, n, z
<1>13. CASE d # 1
  <2> DEFINE u == Front(visit)
  <2>1. d - 1 \in 1 .. d - 1 /\ (d - 1) + 1 = d /\ Len(u) > 0
    BY <1>1, <1>3, <1>13, <1>f
  <2>2. Level(w, visit, d - 1) = Base(w, k)
    <3>1. Level(w, visit, d - 1) = Base(w, NodeOf(w, visit, (d - 1) + 1))
      BY <1>1, <2>1 DEF Frames, d
    <3>2. QED
      BY <2>1, <3>1 DEF k
  <2>3. Level(w, u, d - 1) = Level(w, visit, d - 1)
    <3>1. u[d - 1] = visit[d - 1]
      BY <1>1, <1>7, <2>1, FrontFacts DEF d
    <3>2. QED
      BY <3>1, SameFrames
  <2>4. LastShown(w, u, n, z, h, 0)
    <3>1. h + NProps(w, h) = n + 0
      BY <1>1, <1>6
    <3>2. Left(w, h) = Level(w, u, Len(u))
      BY <1>6, <1>11, <1>f, <2>2, <2>3
    <3>3. QED
      BY <1>6, <1>9, <3>1, <3>2 DEF LastShown
  <2>5. Prints(w, u, n, z, walk)
    BY <1>2, <1>3, <1>4, <2>1, <2>4 DEF Prints
  <2>6. Run(w, visit', Len(console'), z, walk')
    BY <1>2, <1>f, <2>5 DEF Run, n
  <2>7. dump' = "run"
    BY <1>2, <1>13
  <2>8. QED
    BY <1>1, <1>2, <1>f, <2>6, <2>7 DEF ReaderState, z
<1>14. QED
  BY <1>12, <1>13

-----------------------------------------------------------------------------
(* The kernel, from the boot arguments to the end of the dump. *)

\* The boot arguments hold a length, the tree's own or a shorter one, and the
\* kernel was handed that much of the tree.
Handed ==
  \E len \in 0 .. Len(out) : page = BootArgs(len) /\ (dump # "idle" => tree = Slice(out, 0, len))

ReaderInv ==
  /\ dump = "idle" => tree = <<>> /\ visit = <<>> /\ walk = Enter(0) /\ console = <<>>
  /\ dump # "idle" => stage = "kernel"
  /\ stage = "kernel" => Handed
  /\ tree \in Seq(Bytes)
  /\ ReaderState(written, out, Len(tree), dump, visit, walk, console)

\* Before the dump.
LEMMA IdleState ==
  ASSUME NEW w, NEW s, Len(w) \in Nat
  PROVE  ReaderState(w, s, 0, "idle", <<>>, Enter(0), <<>>)
<1>1. Enter(0) \in WalkType(0)
  BY DEF Enter, Loop, WalkType, NONE
<1>2. <<>> \in Seq(VisitType(0))
  OBVIOUS
<1>3. Shows(<<>>, w)
  <2>1. Len(<<>>) = 0 /\ 1 .. 0 = {} /\ <<>> \in Seq(Nat)
    OBVIOUS
  <2>2. QED
    BY <2>1 DEF Shows
<1>4. QED
  BY <1>1, <1>2, <1>3 DEF ReaderState

\* How much was written is a number.
LEMMA WriterFacts ==
  ASSUME WriterInv
  PROVE  Len(written) \in Nat /\ out \in Seq(Bytes) /\ Len(out) \in Nat
<1>1. out \in Seq(Bytes) /\ Items(written, out)
  BY DEF WriterInv, Layout
<1>2. Len(written) \in Nat
  BY <1>1, AppendItem DEF Items
<1>3. QED
  BY <1>1, <1>2

\* The kernel starts on a tree that was written to the end.
LEMMA KernelTree ==
  ASSUME WriterInv, stage = "kernel"
  PROVE  Closed(written, out)
<1>1. Layout(written, out, pending, work) /\ work = <<>> /\ pending = <<>> /\ Len(written) > 0
  BY DEF WriterInv, WriterStages
<1>2. QED
  BY <1>1 DEF Closed

\* What it is handed is a beginning of it.
LEMMA HandedFacts ==
  ASSUME NEW s \in Seq(Bytes), NEW len \in 0 .. Len(s), NEW t, t = Slice(s, 0, len)
  PROVE  t \in Seq(Bytes) /\ Len(t) = len /\ Extends(s, t)
<1>1. 0 <= len /\ len <= Len(s) /\ len \in Nat /\ 0 \in Nat /\ len - 0 = len
  OBVIOUS
<1>2. /\ Slice(s, 0, len) \in Seq(Bytes) /\ Len(Slice(s, 0, len)) = len - 0
      /\ \A i \in 1 .. len - 0 : Slice(s, 0, len)[i] = s[0 + i]
  BY <1>1, SliceFacts
<1>3. t \in Seq(Bytes) /\ Len(t) = len
  BY <1>1, <1>2
<1>4. \A i \in 1 .. len : t[i] = s[i]
  BY <1>1, <1>2
<1>5. QED
  BY <1>1, <1>3, <1>4 DEF Extends

\* Initially the kernel was handed nothing.
LEMMA ReaderInit == Init => ReaderInv
<1> SUFFICES ASSUME Init PROVE ReaderInv
  OBVIOUS
<1>1. /\ stage = "find" /\ written = <<>> /\ dump = "idle" /\ tree = <<>> /\ visit = <<>>
      /\ walk = Enter(0) /\ console = <<>>
  BY DEF Init, LoaderInit, DumpInit
<1>2. Len(<<>>) = 0 /\ <<>> \in Seq(Bytes)
  OBVIOUS
<1>3. ReaderState(written, out, 0, dump, visit, walk, console)
  BY <1>1, <1>2, IdleState
<1>4. QED
  BY <1>1, <1>2, <1>3 DEF ReaderInv

\* The dump does not start before the loader is done.
LEMMA LoaderFirst ==
  ASSUME ReaderInv, WriterInv', UNCHANGED dumpVars, stage # "kernel",
         stage' = "kernel" => \E len \in 0 .. Len(out') : page' = BootArgs(len)
  PROVE  ReaderInv'
<1>1. dump = "idle" /\ tree = <<>> /\ visit = <<>> /\ walk = Enter(0) /\ console = <<>>
  BY DEF ReaderInv
<1>2. dump' = "idle" /\ tree' = <<>> /\ visit' = <<>> /\ walk' = Enter(0) /\ console' = <<>>
  BY <1>1 DEF dumpVars
<1>3. Len(<<>>) = 0 /\ <<>> \in Seq(Bytes)
  OBVIOUS
<1>4. Len(written') \in Nat
  <2>1. Items(written', out')
    BY DEF WriterInv, Layout
  <2>2. QED
    BY <2>1, AppendItem DEF Items
<1>5. ReaderState(written', out', Len(tree'), dump', visit', walk', console')
  BY <1>2, <1>3, <1>4, IdleState
<1>6. stage' = "kernel" => Handed'
  BY <1>2 DEF Handed
<1>7. QED
  BY <1>2, <1>3, <1>5, <1>6 DEF ReaderInv

\* validate_boot_args: a length below that of a node's header is no tree.
LEMMA StartStep ==
  ASSUME ReaderInv, WriterInv, ValidateBootArgs
  PROVE  ReaderInv'
<1> DEFINE w == written
           s == out
<1>1. /\ stage = "kernel" /\ dump = "idle" /\ UNCHANGED <<visit, walk, console>>
      /\ UNCHANGED <<stage, out, written, page>>
  BY DEF ValidateBootArgs, StartDump, loaderVars, writer
<1>2. visit = <<>> /\ walk = Enter(0) /\ console = <<>> /\ Handed
  BY <1>1 DEF ReaderInv
<1>3. PICK len \in 0 .. Len(out) : page = BootArgs(len)
  BY <1>2 DEF Handed
<1>4. /\ tree' = Slice(out, 0, len)
      /\ dump' = IF Len(Slice(out, 0, len)) < 8 THEN "skipped" ELSE "run"
  BY <1>3, ArgFacts DEF ValidateBootArgs, StartDump
<1>5. out \in Seq(Bytes) /\ Len(out) \in Nat /\ Closed(w, s)
  BY <1>1, WriterFacts, KernelTree
<1>6. tree' \in Seq(Bytes) /\ Len(tree') = len /\ len \in Nat
  BY <1>4, <1>5, HandedFacts
<1>7. dump' = IF len < 8 THEN "skipped" ELSE "run"
  BY <1>4, <1>6
<1>8. /\ IsHeader(w, 1) /\ AtOf(w, 1) = 0 /\ Depth(w, 1) = 0 /\ Len(w) \in Nat /\ Len(w) > 0
      /\ 1 \in 1 .. Len(w) /\ Items(w, s)
  BY <1>5, ClosedFacts
<1>9. End(w, 1) = 8 /\ 8 <= Len(out)
  <2>1. End(w, 1) = AtOf(w, 1) + 8
    BY <1>8, HeaderFacts
  <2>2. End(w, 1) <= Len(s)
    BY <1>5, <1>8, EndOrder
  <2>3. QED
    BY <1>8, <2>1, <2>2
<1>10. Enter(0) \in WalkType(len) /\ <<>> \in Seq(VisitType(len))
  BY <1>6 DEF Enter, Loop, WalkType, NONE
<1>11. Shows(<<>>, w)
  <2>1. Len(<<>>) = 0 /\ 1 .. 0 = {} /\ <<>> \in Seq(Nat)
    OBVIOUS
  <2>2. QED
    BY <1>8, <2>1 DEF Shows
<1> HIDE DEF w, s
<1>12. len >= 8 => Run(w, <<>>, 0, len, Enter(0))
  <2>1. SUFFICES ASSUME len >= 8 PROVE Run(w, <<>>, 0, len, Enter(0))
    OBVIOUS
  <2>2. Len(<<>>) = 0 /\ 1 .. 0 = {} /\ 1 .. 0 - 1 = {} /\ ~(0 > 0) /\ 0 + 1 = 1
    OBVIOUS
  <2>3. Frames(w, <<>>, 0)
    <3>1. 0 \in 0 .. Len(w)
      BY <1>8
    <3>2. QED
      BY <2>2, <3>1 DEF Frames
  <2>4. Comes(w, <<>>, 0)
    BY <1>8, <2>2 DEF Comes
  <2>5. Enter(0).kind = "enter" /\ Enter(0).at = 0
    BY DEF Enter, Loop
  <2>6. Enters(w, <<>>, 0, len, Enter(0))
    BY <1>8, <1>9, <2>1, <2>2, <2>4, <2>5 DEF Enters
  <2>7. QED
    BY <2>3, <2>5, <2>6 DEF Run
<1>13. ReaderState(w, s, len, dump', <<>>, Enter(0), <<>>)
  <2>1. Len(<<>>) = 0
    OBVIOUS
  <2>2. len < 8 => len < Len(s)
    BY <1>5, <1>6, <1>9 DEF s
  <2>3. QED
    BY <1>6, <1>7, <1>10, <1>11, <1>12, <2>1, <2>2 DEF ReaderState
<1>14. ReaderState(written', out', Len(tree'), dump', visit', walk', console')
  BY <1>1, <1>2, <1>6, <1>13 DEF w, s
<1>15. Handed' /\ dump' # "idle" /\ stage' = "kernel"
  BY <1>1, <1>3, <1>4, <1>7 DEF Handed
<1>16. QED
  BY <1>6, <1>14, <1>15 DEF ReaderInv

\* The kernel reads the tree.
LEMMA DumpStepInv ==
  ASSUME ReaderInv, WriterInv, DumpStep
  PROVE  ReaderInv'
<1>1. DumpNext /\ UNCHANGED <<stage, out, written, page>>
  BY DEF DumpStep, loaderVars, writer
<1>2. dump = "run" /\ dump' # "idle" /\ tree' = tree
  BY <1>1 DEF DumpNext, DumpNode, DumpProperty, DumpChild, DumpReturns, PassProperty, PassNode,
       ChildReached, EnterChild, Malformed
<1>3. stage = "kernel" /\ Handed /\ tree \in Seq(Bytes)
      /\ ReaderState(written, out, Len(tree), dump, visit, walk, console)
  BY <1>2 DEF ReaderInv
<1>4. PICK len \in 0 .. Len(out) : page = BootArgs(len) /\ tree = Slice(out, 0, len)
  BY <1>2, <1>3 DEF Handed
<1>5. Extends(out, tree)
  BY <1>4, WriterFacts, HandedFacts
<1>6. Reading(written, out)
  BY <1>2, <1>3, <1>5, KernelTree DEF Reading
<1>7. ReaderState(written, out, Len(tree), dump', visit', walk', console')
  BY <1>1, <1>6, DumpNodeStep, DumpPropertyStep, DumpChildStep, DumpReturnsStep,
     PassPropertyStep, PassNodeStep, ChildReachedStep, EnterChildStep DEF DumpNext
<1>8. ReaderState(written', out', Len(tree'), dump', visit', walk', console')
  BY <1>1, <1>2, <1>7
<1>9. Handed'
  BY <1>1, <1>2, <1>4 DEF Handed
<1>10. QED
  BY <1>1, <1>2, <1>3, <1>8, <1>9 DEF ReaderInv

\* The loader's own steps do not enter the kernel.
LEMMA LoaderStages == LoaderNext => stage # "kernel" /\ stage' # "kernel"
<1>1. FindFdt => stage = "find" /\ stage' \in {"new", "write"}
  BY Zenon DEF FindFdt
<1>2. EndNode => stage = "parse" /\ (stage' = "write" \/ stage' = stage)
  BY Zenon DEF EndNode
<1>3. AllocateTree => stage = "write" /\ stage' \in {"built", "no_memory", "refused"}
  BY DEF AllocateTree
<1>4. NewParser => stage = "new" /\ stage' \in {"parse", "refused"}
  BY Zenon DEF NewParser, Refuse
<1>5. WriteNode \/ WriteProp => stage = "write" /\ (stage' = stage \/ stage' = "refused")
  BY Zenon DEF WriteNode, WriteProp, Refuse
<1>6. BeginNode \/ ParseProp \/ SkipNop => stage = "parse" /\ stage' = stage
  BY Zenon DEF BeginNode, ParseProp, SkipNop
<1>7. ParseFails => stage = "parse" /\ stage' = "refused"
  BY Zenon DEF ParseFails, Refuse
<1>8. QED
  BY <1>1, <1>2, <1>3, <1>4, <1>5, <1>6, <1>7 DEF LoaderNext

\* The reader's invariant is inductive, given those of parser and writer.
LEMMA ReaderNext == ParserInv /\ WriterInv /\ ReaderInv /\ [Next]_vars => ReaderInv'
<1> SUFFICES ASSUME ParserInv, WriterInv, ReaderInv, [Next]_vars PROVE ReaderInv'
  OBVIOUS
<1>1. WriterInv'
  BY WriterNext
<1>2. CASE LoaderStep
  <2>1. UNCHANGED dumpVars
    BY Zenon, <1>2 DEF LoaderStep
  <2>2. stage # "kernel" /\ stage' # "kernel"
    BY <1>2, LoaderStages DEF LoaderStep
  <2>3. QED
    BY <1>1, <2>1, <2>2, LoaderFirst
<1>3. CASE FillBootArgs \/ OtherLoader
  <2>1. UNCHANGED dumpVars /\ stage # "kernel" /\ out' = out
    BY <1>3 DEF FillBootArgs, OtherLoader, writer
  <2>2. \E len \in 0 .. Len(out) : page' = BootArgs(len)
    <3>1. Len(out) \in Nat
      BY WriterFacts
    <3>2. CASE FillBootArgs
      <4>1. Len(out) \in 0 .. Len(out) /\ page' = BootArgs(Len(out))
        BY <3>1, <3>2 DEF FillBootArgs
      <4>2. QED
        BY <4>1
    <3>3. CASE OtherLoader
      <4>1. PICK len \in ShortLengths : len < Len(out) /\ page' = BootArgs(len)
        BY <3>3 DEF OtherLoader
      <4>2. len \in 0 .. Len(out)
        BY <3>1, <4>1, LengthsAssumption
      <4>3. QED
        BY <4>1, <4>2
    <3>4. QED
      BY <1>3, <3>2, <3>3
  <2>3. QED
    BY <1>1, <2>1, <2>2, LoaderFirst
<1>4. CASE ValidateBootArgs
  BY <1>4, StartStep
<1>5. CASE DumpStep
  BY <1>5, DumpStepInv
<1>6. CASE UNCHANGED vars
  <2>1. UNCHANGED <<stage, out, written, page, dump, tree, visit, walk, console>>
    BY <1>6 DEF vars, loaderVars, writer, dumpVars
  <2>2. QED
    BY <2>1 DEF ReaderInv, Handed
<1>7. QED
  BY <1>2, <1>3, <1>4, <1>5, <1>6 DEF Next, Stopped

-----------------------------------------------------------------------------
(* The theorems. *)

Inv == ParserInv /\ WriterInv /\ ReaderInv

\* The three parts together are an invariant.
LEMMA Invariance == Spec => []Inv
<1>1. Init => Inv
  BY ParserInit, WriterInit, ReaderInit DEF Inv
<1>2. Inv /\ [Next]_vars => Inv'
  BY ParserNext, WriterNext, ReaderNext DEF Inv
<1>3. QED
  BY <1>1, <1>2, PTL DEF Spec

\* Types, of what the parser, the writer and the reader keep.
LEMMA Typed == Inv => TypeOK
<1> SUFFICES ASSUME Inv PROVE TypeOK
  OBVIOUS
<1>1. /\ stage \in {"find", "new", "parse", "write", "built", "kernel", "refused", "no_memory"}
      /\ fdt \in Seq(Bytes) /\ out \in Seq(Bytes) /\ tree \in Seq(Bytes)
      /\ pos \in 0 .. Len(fdt) + 3 /\ strings_offset \in 0 .. Len(fdt)
  BY WriterFacts DEF Inv, ParserInv, ReaderInv
<1>2. PICK T : open \in Seq(OpenType(T)) /\ work \in Seq(CallType(T))
  BY DEF Inv, ParserInv
<1>3. \A i \in 1 .. Len(open) : DOMAIN open[i] = {"name", "props", "children"}
  <2>1. \A i \in 1 .. Len(open) : open[i] \in OpenType(T)
    BY <1>2
  <2>2. \A x \in OpenType(T) : DOMAIN x = {"name", "props", "children"}
    BY DEF OpenType
  <2>3. QED
    BY <2>1, <2>2
<1>4. \A i \in 1 .. Len(work) : DOMAIN work[i] = {"node", "depth"}
  <2>1. \A i \in 1 .. Len(work) : work[i] \in CallType(T)
    BY <1>2
  <2>2. \A x \in CallType(T) : DOMAIN x = {"node", "depth"}
    BY DEF CallType
  <2>3. QED
    BY <2>1, <2>2
<1>5. \A i \in 1 .. Len(pending) : DOMAIN pending[i] = {"name", "value"}
  <2>1. \A i \in 1 .. Len(pending) : pending[i] \in PropType
    BY DEF Inv, ParserInv
  <2>2. \A x \in PropType : DOMAIN x = {"name", "value"}
    BY DEF PropType
  <2>3. QED
    BY <2>1, <2>2
<1>6. /\ dump \in {"idle", "run", "skipped", "done", "malformed"}
      /\ walk \in WalkType(Len(tree)) /\ visit \in Seq(VisitType(Len(tree)))
  BY DEF Inv, ReaderInv, ReaderState
<1>7. QED
  BY <1>1, <1>3, <1>4, <1>5, <1>6 DEF TypeOK, WalkType, VisitType

\* The kernel was handed the whole tree if it was handed its length.
LEMMA WholeFacts ==
  ASSUME Inv, dump # "idle"
  PROVE  Whole <=> Len(tree) = Len(out)
<1>1. Handed /\ out \in Seq(Bytes)
  BY WriterFacts DEF Inv, ReaderInv
<1>2. PICK len \in 0 .. Len(out) : page = BootArgs(len) /\ tree = Slice(out, 0, len)
  BY <1>1 DEF Handed
<1>3. Len(tree) = len
  BY <1>1, <1>2, HandedFacts
<1>4. page[LoaderOffset["device_tree_length"]] = len
  BY <1>2, ArgFacts
<1>5. QED
  BY <1>3, <1>4 DEF Whole

\* A node that is written has its name among the properties that follow.
LEMMA NameFollows ==
  ASSUME NEW w, NEW s, Closed(w, s), NEW k \in 1 .. Len(w), IsHeader(w, k)
  PROVE  \E j \in k + 1 .. k + NProps(w, k) :
           j \in 1 .. Len(w) /\ ~IsHeader(w, j) /\ PropOf(w, j).name = NAME
<1>1. Items(w, s) /\ Len(w) \in Nat
  BY ClosedFacts
<1>2. HeaderOK(w[k], s)
  BY <1>1 DEF Items, ItemOK, IsHeader
<1>3. PICK i \in 1 .. Len(w[k].node.props) : w[k].node.props[i].name = NAME
  BY <1>2 DEF HeaderOK, Named
<1>4. i \in 1 .. NProps(w, k) /\ Props(w, k)[i].name = NAME
  BY <1>3 DEF NProps, Props
<1>5. k + i \in 1 .. Len(w) /\ ~IsHeader(w, k + i) /\ PropOf(w, k + i) = Props(w, k)[i]
  BY <1>4, ClosedGroups
<1>6. NProps(w, k) \in Nat
  BY <1>1, HeaderFacts
<1>7. k + i \in k + 1 .. k + NProps(w, k)
  BY <1>4, <1>6
<1>8. QED
  BY <1>4, <1>5, <1>7

\* The invariant says that what was written is readable.
LEMMA ReadableInv == Inv => WrittenIsReadable
<1> SUFFICES ASSUME Inv PROVE WrittenIsReadable
  OBVIOUS
<1>1. ReaderState(written, out, Len(tree), dump, visit, walk, console) /\ tree \in Seq(Bytes)
  BY DEF Inv, ReaderInv
<1>2. Len(console) <= Len(written) /\ \A i \in 1 .. Len(console) : console[i] = Line(written[i])
  BY <1>1 DEF ReaderState, Shows
<1>3. dump \in {"malformed", "skipped"} => ~Whole
  <2>1. SUFFICES ASSUME dump \in {"malformed", "skipped"} PROVE ~Whole
    OBVIOUS
  <2>2. Len(tree) < Len(out) /\ Len(tree) \in Nat /\ Len(out) \in Nat
    BY <1>1, <2>1, WriterFacts DEF ReaderState, Inv
  <2>3. Len(tree) # Len(out)
    BY <2>2
  <2>4. QED
    BY <2>1, <2>3, WholeFacts
<1>4. ASSUME dump = "done"
      PROVE  /\ Whole /\ Len(console) = Len(written)
             /\ \A i \in 1 .. Len(console) :
                  written[i].header =>
                    \E j \in i + 1 .. i + console[i].props : console[j].name = NAME
  <2>1. Len(tree) = Len(out) /\ Len(console) = Len(written)
    BY <1>1, <1>4 DEF ReaderState
  <2>2. Whole
    BY <1>4, <2>1, WholeFacts
  <2>3. Closed(written, out)
    BY <1>4, KernelTree DEF Inv, ReaderInv
  <2>4. ASSUME NEW i \in 1 .. Len(console), written[i].header
        PROVE  \E j \in i + 1 .. i + console[i].props : console[j].name = NAME
    <3>1. i \in 1 .. Len(written) /\ IsHeader(written, i)
      BY <2>1, <2>4 DEF IsHeader
    <3>2. console[i].props = NProps(written, i)
      <4>1. console[i] = Line(written[i])
        BY <1>2, <2>4
      <4>2. Line(written[i]) =
              NodeLine(written[i].depth, NProps(written, i), NChildren(written, i))
        BY <2>4 DEF Line, NProps, NChildren
      <4>3. QED
        BY <4>1, <4>2 DEF NodeLine
    <3>3. PICK j \in i + 1 .. i + NProps(written, i) :
            j \in 1 .. Len(written) /\ ~IsHeader(written, j) /\ PropOf(written, j).name = NAME
      BY <2>3, <3>1, NameFollows
    <3>4. ~written[j].header
      <4>1. ItemOK(written[j], out)
        BY <2>3, <3>3, ClosedFacts DEF Items
      <4>2. QED
        BY <3>3, <4>1 DEF ItemOK, IsHeader
    <3>5. console[j] = PropLine(PropOf(written, j))
      BY <1>2, <2>1, <3>3, <3>4 DEF Line, PropOf
    <3>6. console[j].name = NAME
      BY <3>3, <3>5 DEF PropLine
    <3>7. QED
      BY <3>2, <3>3, <3>6
  <2>5. QED
    BY <2>1, <2>2, <2>4
<1>5. QED
  BY <1>2, <1>3, <1>4 DEF WrittenIsReadable

\* TypeOK, for every firmware blob and every length another loader passes: the
\* parser does not leave the blob, nor the kernel's reader the tree.
THEOREM TypeCorrect == Spec => []TypeOK
  BY Invariance, Typed, PTL

\* What write_adt_node wrote dump_node reads to the end and shows in order, each
\* node named and at its depth, and a tree that is cut is shown up to the cut.
THEOREM Readable == Spec => []WrittenIsReadable
  BY Invariance, ReadableInv, PTL
=============================================================================
