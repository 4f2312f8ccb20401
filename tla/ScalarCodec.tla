---------------------------- MODULE ScalarCodec ----------------------------
(***************************************************************************)
(* One integer field on its way through the encoding of Wire: written with *)
(* one type (_serialize_single), loaded with the same type or, as happens  *)
(* when two programs use different versions of a .proto file, with another *)
(* type of the same wire type (load_fields and _postprocess_single).       *)
(***************************************************************************)
EXTENDS Wire

CONSTANTS Numbers  \* the field numbers to consider

\* A field number leaves room for the wire type in the tag: it is below 2^29.
ASSUME NumbersAssumption ==
  Numbers \subseteq Nat \ {0} /\ \A n \in Numbers : 8 * n + 7 < WordMod

\* Every value of every type, and some that are out of range.
Values == -WordMod .. WordMod + 1

VARIABLES
  field,    \* what is written: its number, type and value
  encoded,  \* the bytes, followed by those of whatever comes next
  readAs,   \* the type it is loaded with
  step,     \* how far the field has come, or the exception it ended with
  result    \* what was loaded: the value, the number, and the position after it

codecVars == <<field, encoded, readAs, step, result>>

CodecInit ==
  /\ field \in [number : Numbers, type : ScalarTypes, value : Values]
  /\ encoded = <<>> /\ readAs = field.type
  /\ step = "unwritten" /\ result = [value |-> 0, number |-> 0, next |-> 0]

\* _serialize_single of a value its encoding accepts; the bytes that follow
\* belong to the next field and must not be touched.
Write ==
  /\ step = "unwritten"
  /\ IF Accepts(field.type, field.value)
     THEN /\ encoded' = Scalar(field.number, field.type, field.value) \o <<Group, 0>>
          /\ step' = "written"
     ELSE step' = "rejected" /\ UNCHANGED encoded
  /\ UNCHANGED <<field, readAs, result>>

\* load_fields and _postprocess_single.
ReadBack(t) ==
  /\ step = "written" /\ WireType(t) = WireType(field.type)
  /\ readAs' = t
  /\ LET f == LoadField(encoded, 0)
     IN IF f.end = "field"
        THEN /\ step' = "loaded"
             /\ result' = [value  |-> Postprocess(t, IF f.wire = VARINT THEN f.value
                                                     ELSE FromLittleEndian(f.value)),
                           number |-> f.number, next |-> f.next]
        ELSE step' = f.end /\ UNCHANGED result
  /\ UNCHANGED <<field, encoded>>

CodecNext == Write \/ \E t \in ScalarTypes : ReadBack(t)

CodecSpec == CodecInit /\ [][CodecNext]_codecVars

-----------------------------------------------------------------------------
Loaded == step \notin {"unwritten", "written", "rejected"}

UnsignedTypes == {"uint32", "uint64", "fixed32", "fixed64"}

\* How many values a type has by the protobuf language, in which an enum is an int32,
\* and which they are.
SizeOf(t) ==
  IF t \in {"int64", "uint64", "sint64", "fixed64", "sfixed64"} THEN WordMod ELSE IntMod

RangeOf(t) ==
  CASE t \in UnsignedTypes -> 0 .. SizeOf(t) - 1
    [] t = "bool"          -> {0, 1}
    [] OTHER               -> -(SizeOf(t) \div 2) .. SizeOf(t) \div 2 - 1

InRange == field.value \in RangeOf(field.type)

\* A value of its type is accepted and comes back as it was written, with its field
\* number, and loading it consumes its own bytes and none of the next field.
\* (_preprocess_single and _postprocess_single are inverse, lines 281-305 and 865-888.)
RoundTrip ==
  /\ InRange => step # "rejected"
  /\ Loaded /\ InRange /\ readAs = field.type =>
    /\ step = "loaded"
    /\ result = [value |-> field.value, number |-> field.number, next |-> Len(encoded) - 2]

\* The types that can stand in for each other.
Plain == {"int32", "uint32", "int64", "uint64", "enum", "bool"}

\* A value written with a plain type and loaded with another is what a C cast would
\* give, and is a value of the type it was loaded with.  Bool reads as "not zero".  An
\* enum is cast only if it need not be cut: it keeps 64 bits (line 869), see EnumsAreInt32.
CastsLikeC ==
  Loaded /\ InRange /\ {field.type, readAs} \subseteq Plain
         /\ (readAs = "enum" => field.value \in RangeOf("enum")) =>
    /\ step = "loaded" /\ result.value \in RangeOf(readAs)
    /\ IF readAs = "bool" THEN result.value = 1 <=> field.value # 0
       ELSE (result.value - field.value) % SizeOf(readAs) = 0

\* What is loaded as an enum is an int32, whatever varint the enum was written as.  The
\* conformance tests ask for that and fail.  (failing_tests.txt:112, 155-158.)
EnumsAreInt32 ==
  Loaded /\ InRange /\ field.type \in Plain /\ readAs = "enum" =>
    step = "loaded" /\ result.value \in RangeOf("enum")
=============================================================================
