---------------------------- MODULE MCDeviceTree ----------------------------
(***************************************************************************)
(* Instance of DeviceTree for TLC.  An encoder after the device tree       *)
(* specification makes blobs of a few trees; the runs also get each blob   *)
(* cut at every byte, and with any word of its structure replaced.         *)
(***************************************************************************)
EXTENDS FirmwareTree

Magic == 7 * BYTE + 5
Be(n) == <<0, 0, n \div BYTE, n % BYTE>>
Padded(s) == s \o Text((4 - (Len(s) % 4)) % 4, 0)
Src(name, props, children) == [name |-> name, props |-> props, children |-> children]

A == LETTER
B == LETTER + 1

\* Property names and where each is in the strings block.
Names == <<NAME, <<A>>, <<B, A>>, Text(31, B), Text(32, B), <<BYTE - 1>> >>
Strings == FlattenSeq([i \in 1 .. Len(Names) |-> Names[i] \o <<0>>])
NameOff(name) ==
  LET k == CHOOSE i \in 1 .. Len(Names) : Names[i] = name
  IN  Len(FlattenSeq([i \in 1 .. k - 1 |-> Names[i] \o <<0>>]))

RECURSIVE Encode(_, _)
Encode(n, nop) ==
  LET prop(p) == Be(FDT_PROP) \o Be(Len(p.value)) \o Be(NameOff(p.name)) \o Padded(p.value) \o nop
  IN  Be(FDT_BEGIN_NODE) \o Padded(n.name \o <<0>>) \o nop
        \o FlattenSeq([i \in 1 .. Len(n.props) |-> prop(n.props[i])])
        \o FlattenSeq([i \in 1 .. Len(n.children) |-> Encode(n.children[i], nop)])
        \o Be(FDT_END_NODE)

Header(size, structAt, stringsAt) ==
  Be(0) \o Be(size) \o Be(structAt) \o Be(stringsAt) \o Text(24, 0)
WithMagic(blob) == <<0, 0, 7, 5>> \o SubSeq(blob, 5, Len(blob))

\* The strings before the structure, padded, or behind it.
StringsFirst(n, nop) ==
  LET at == 40 + Len(Padded(Strings))
      st == Encode(n, nop) \o Be(FDT_END)
  IN  WithMagic(Header(at + Len(st), at, 40) \o Padded(Strings) \o st)
StringsLast(n, nop) ==
  LET st == Encode(n, nop) \o Be(FDT_END)
  IN  WithMagic(Header(40 + Len(st) + Len(Strings), 40, 40 + Len(st)) \o st \o Strings)

\* An empty tree; values of every length modulo four, a given name, an unnamed
\* child and a grandchild; the longest name.
Bare == Src(<<>>, <<>>, <<>>)
Rich ==
  Src(<<>>, <<Prop(<<A>>, <<>>), Prop(<<B, A>>, <<A>>), Prop(<<A>>, <<A, B, 0>>)>>,
      << Src(<<A, B, A>>, <<Prop(<<A>>, <<0, 3>>)>>,
             << Src(<<A, A, A, A>>, <<Prop(NAME, <<B, 0, 1, 2>>)>>, <<>>) >>),
         Src(<<>>, <<>>, <<>>) >>)
LongName == Src(<<A>>, <<Prop(Text(31, B), <<1>>)>>, <<>>)

Trees == {Bare, Rich, LongName}
Nops == {<<>>, Be(FDT_NOP)}
Complete ==
  {<<n, StringsFirst(n, nop)>> : n \in Trees, nop \in Nops} \union
  {<<n, StringsLast(n, nop)>> : n \in Trees, nop \in Nops}
SourceOf ==
  [b \in {c[2] : c \in Complete} |-> (CHOOSE c \in Complete : c[2] = b)[1]]

\* The blob with another totalsize: the memory behind it is still there.
Resize(b, size) == SubSeq(b, 1, 4) \o Be(size) \o SubSeq(b, 9, Len(b))
RichBlobs == {StringsFirst(Rich, <<>>), StringsLast(Rich, Be(FDT_NOP))}
Resized == UNION {{Resize(b, size) : size \in 0 .. Len(b) - 1} : b \in RichBlobs}
SmallCuts ==
  {Slice(b, 0, ReadBe(b, 4)) :
     b \in {b \in Resized : LET whole == ReadBe(b, 8) > 40
                                root  == Len(b) - 4
                            IN  whole /\ ReadBe(b, 4) \in 40 .. root - 1}}

\* One word of the structure is another.
Replaced ==
  LET b == StringsFirst(Rich, <<>>)
  IN  {SubSeq(b, 1, o) \o Be(w) \o SubSeq(b, o + 5, Len(b)) :
         o \in {o \in ReadBe(b, 8) .. Len(b) - 4 : o % 4 = 0},
         w \in {FDT_BEGIN_NODE, FDT_END_NODE, FDT_PROP, FDT_NOP, FDT_END, 7}}

\* A name too long for the ADT, one that is no text, and a wrong magic.
Refused ==
  { StringsFirst(Src(<<>>, <<Prop(Text(32, B), <<>>)>>, <<>>), <<>>),
    StringsFirst(Src(<<>>, <<Prop(<<BYTE - 1>>, <<>>)>>, <<>>), <<>>),
    StringsFirst(Src(<<BYTE - 1>>, <<>>, <<>>), <<>>),
    Be(1) \o SubSeq(StringsFirst(Bare, <<>>), 5, Len(StringsFirst(Bare, <<>>))) }

Entry(b) == [dtb |-> TRUE, null |-> FALSE, bytes |-> b]
Other == [dtb |-> FALSE, null |-> FALSE, bytes |-> Text(8, 0)]
Null == [dtb |-> TRUE, null |-> TRUE, bytes |-> <<>>]

SmallTables ==
  { <<>>, <<Other, Null>>, <<Null, Other, Entry(StringsLast(Rich, <<>>))>> } \union
  { <<Entry(b)>> : b \in DOMAIN SourceOf \union Resized \union Replaced \union Refused }

SomeLengths == {0, 7} \union {n \in 8 .. 400 : n % 31 = 0 \/ n % 36 = 8}
=============================================================================
