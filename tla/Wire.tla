-------------------------------- MODULE Wire --------------------------------
(***************************************************************************)
(* The binary encoding of src/aristaproto/__init__.py: varints, zig-zag,   *)
(* fixed-width integers, and the fields they make up.  A byte is a number  *)
(* below 2 * Group and a stream is a sequence of bytes; a position counts  *)
(* the bytes that have been read.                                          *)
(*                                                                         *)
(* The widths of the code are GroupBits = 7, WordBits = 64, IntBits = 32.  *)
(* They are parameters because 64-bit values are out of TLC's reach, and   *)
(* because nothing in the encoding depends on their being these.           *)
(***************************************************************************)
EXTENDS Integers, Sequences, FiniteSets, FiniteSetsExt

CONSTANTS GroupBits,  \* payload bits in a byte of a varint
          WordBits,   \* bits of the 64-bit types
          IntBits     \* bits of the 32-bit types

ASSUME WidthsAssumption ==
  /\ GroupBits \in Nat /\ GroupBits >= 3  \* a wire type fits into a byte
  /\ WordBits \in Nat \ {0} /\ IntBits \in 1 .. WordBits
  /\ WordBits % (GroupBits + 1) = 0 /\ IntBits % (GroupBits + 1) = 0  \* whole bytes

Group   == 2 ^ GroupBits
WordMod == 2 ^ WordBits
IntMod  == 2 ^ IntBits
Byte    == 0 .. 2 * Group - 1

\* "for shift in count(0, 7): if shift >= 64: break"
MaxGroups == (WordBits + GroupBits - 1) \div GroupBits

\* The sizes of fixed-width fields in bytes (8 and 4).
WordBytes == WordBits \div (GroupBits + 1)
IntBytes  == IntBits \div (GroupBits + 1)

\* The wire types; the encoding reserves the values 3, 4, 6 and 7.
VARINT    == 0
FIXED_64  == 1
LEN_DELIM == 2
FIXED_32  == 5

-----------------------------------------------------------------------------
\* Varints.

Groups[n \in Nat] ==
  IF n < Group THEN <<n>> ELSE <<Group + (n % Group)>> \o Groups[n \div Group]

\* Mutant: a full word is not added to a negative value but its sign dropped.
EncodeVarintUnsigned(v) == Groups[IF v < 0 THEN -v ELSE v]

\* dump_varint raises for what is too negative; nothing is too large for it.
Encodable(v) == v >= -(WordMod \div 2)
EncodeVarint(v) == Groups[IF v < 0 THEN v + WordMod ELSE v]

\* The number whose digits have the given width, the least significant one first: each is
\* shifted to its place.
FromDigits(digits, bits) ==
  LET low[j \in 0 .. Len(digits)] ==
        IF j = 0 THEN 0 ELSE low[j - 1] + digits[j] * 2 ^ (bits * (j - 1))
  IN low[Len(digits)]

\* load_varint of s at i: how it ends ("ok", "eof": the stream ended, "long":
\* too many bytes), the value, which is not cut to 64 bits, and the position after.
LoadVarint(s, i) ==
  LET last == {k \in 1 .. MaxGroups : i + k <= Len(s) /\ s[i + k] < Group}
  IN IF last # {}
     THEN LET k == Min(last)
          IN [end |-> "ok", next |-> i + k,
              value |-> FromDigits([j \in 1 .. k |-> s[i + j] % Group], GroupBits)]
     ELSE [end |-> IF i + MaxGroups > Len(s) THEN "eof" ELSE "long",
           next |-> Min({i + MaxGroups, Len(s)}), value |-> 0]

-----------------------------------------------------------------------------
\* Single values of the integer types, bool and enum.

LongTypes   == {"int64", "uint64", "sint64", "enum"}
VarintTypes == LongTypes \cup {"int32", "uint32", "sint32", "bool"}
Fixed32     == {"fixed32", "sfixed32"}
Fixed64     == {"fixed64", "sfixed64"}
ScalarTypes == VarintTypes \cup Fixed32 \cup Fixed64

WireType(t) == IF t \in VarintTypes THEN VARINT
               ELSE IF t \in Fixed32 THEN FIXED_32 ELSE FIXED_64

Modulus(t) == IF t \in LongTypes \cup Fixed64 THEN WordMod ELSE IntMod

\* The n low bytes of v, the least significant one first.
LittleEndian(v, n) ==
  [j \in 1 .. n |-> (v \div 2 ^ ((GroupBits + 1) * (j - 1))) % (2 * Group)]
FromLittleEndian(b) == FromDigits(b, GroupBits + 1)

\* (v ^ signbit) - signbit, for v below the modulus m.
Signed(v, m) == IF v < m \div 2 THEN v ELSE v - m

\* Mutant: -1 is zig-zagged as if it were -0.
ZigZagShifted(v) == IF v >= 0 THEN 2 * v ELSE -(2 * v)

ZigZag(v)   == IF v >= 0 THEN 2 * v ELSE -(2 * v) - 1
UnZigZag(v) == IF v % 2 = 0 THEN v \div 2 ELSE -(v \div 2) - 1

OnWire(t, v) == IF t \in {"sint32", "sint64"} THEN ZigZag(v) ELSE v

\* struct.pack accepts exactly the values of its format.
Packable(t, v) == IF t \in {"fixed32", "fixed64"}
                  THEN v \in 0 .. Modulus(t) - 1
                  ELSE v \in -(Modulus(t) \div 2) .. Modulus(t) \div 2 - 1

\* _preprocess_single returns, or raises.
Accepts(t, v) == IF t \in VarintTypes THEN Encodable(OnWire(t, v)) ELSE Packable(t, v)

Preprocess(t, v) ==
  IF t \in VarintTypes THEN EncodeVarint(OnWire(t, v))
  ELSE LittleEndian(v, IF t \in Fixed32 THEN IntBytes ELSE WordBytes)

\* Mutant: the value of a varint is not cut to the width of its type.
PostprocessWide(t, v) ==
  CASE t \in {"int32", "int64", "enum"}   -> Signed(v, Modulus(t))
    [] t \in {"uint32", "uint64"}         -> v
    [] t \in {"sint32", "sint64"}         -> UnZigZag(v)
    [] t = "bool"                         -> IF v > 0 THEN 1 ELSE 0
    [] t \in {"sfixed32", "sfixed64"}     -> Signed(v, Modulus(t))
    [] t \in {"fixed32", "fixed64"}       -> v

\* _postprocess_single, from the number a varint or a fixed-width field holds.
Postprocess(t, v) ==
  LET cut == v % Modulus(t)
  IN CASE t \in {"int32", "int64", "enum"}   -> Signed(cut, Modulus(t))
       [] t \in {"uint32", "uint64"}         -> cut
       [] t \in {"sint32", "sint64"}         -> UnZigZag(cut)
       [] t = "bool"                         -> IF v > 0 THEN 1 ELSE 0
       [] t \in {"sfixed32", "sfixed64"}     -> Signed(v, Modulus(t))
       [] t \in {"fixed32", "fixed64"}       -> v

-----------------------------------------------------------------------------
\* Fields.

\* The prefix of a field: its number and wire type in one varint.
Tag(number, wire) == EncodeVarint(number * 8 + wire)

\* _serialize_single, of a scalar and of raw bytes.
Scalar(number, t, v)   == Tag(number, WireType(t)) \o Preprocess(t, v)
Delimited(number, raw) == Tag(number, LEN_DELIM) \o EncodeVarint(Len(raw)) \o raw

\* stream.read(n) at i returns what there is.
Read(s, i, n) == SubSeq(s, i + 1, Min({i + n, Len(s)}))

AfterRead(s, i, n) == i + Len(Read(s, i, n))

\* The bytes of a value that is no varint, which may have its length before it.
ValueSize(wire, length) ==
  CASE wire = FIXED_64  -> WordBytes
    [] wire = FIXED_32  -> IntBytes
    [] wire = LEN_DELIM -> length
    [] OTHER            -> 0

\* One turn of load_fields at i: a field ("field"), the quiet end of the fields
\* when the stream ends before or inside a tag ("none"), or an exception.
\* A value that is shorter than it should be is not noticed here.
LoadField(s, i) ==
  LET tag  == LoadVarint(s, i)
      wire == tag.value % 8
      num  == LoadVarint(s, tag.next)
      from == IF wire = LEN_DELIM THEN num.next ELSE tag.next
      size == ValueSize(wire, num.value)
      raw  == Read(s, from, size)
      next == IF wire = VARINT THEN num.next ELSE AfterRead(s, from, size)
  IN IF tag.end # "ok"
     THEN [end |-> IF tag.end = "eof" THEN "none" ELSE "long", next |-> tag.next]
     ELSE IF wire \in {VARINT, LEN_DELIM} /\ num.end # "ok"
     THEN [end |-> num.end, next |-> num.next]
     ELSE [end |-> "field", next |-> next, number |-> tag.value \div 8, wire |-> wire,
           value |-> IF wire = VARINT THEN num.value ELSE raw]
=============================================================================
