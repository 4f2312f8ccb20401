-------------------------- MODULE DelimitedStream --------------------------
(***************************************************************************)
(* A file or pipe of messages, each written with dump(stream, delimit=True)*)
(* and read with load(stream, SIZE_DELIMITED), both of Message in          *)
(* src/aristaproto/__init__.py.  Writer and reader take turns; the writer  *)
(* may die in the middle of a message, which leaves a torn one at the end. *)
(*                                                                         *)
(* The message type has an int32 (field 1), a bytes (2), a packed repeated *)
(* int32 (3) and a repeated bytes field (4).  A reader may have been       *)
(* generated from an older .proto file, which lacks some of them.          *)
(***************************************************************************)
EXTENDS Wire, SequencesExt

CONSTANTS Messages,  \* what the writer may dump: records of the fields below
          Known,     \* the field numbers of the reader's message type
          MaxSent    \* bound: messages on the stream

ASSUME KnownAssumption == Known \subseteq 1 .. 4 /\ 8 * 4 + 7 < WordMod  \* tags fit into words
ASSUME MaxSentAssumption == MaxSent \in Nat

VARIABLES
  stream,  \* the bytes written
  sent,    \* the messages dumped in full, one after the other
  ends,    \* where each of them ends in the stream
  torn,    \* the writer died while it was writing
  pos,     \* the bytes the reader has read
  reader,  \* "idle" between two calls of load, "loading", or "raised"
  size,    \* the size load is told
  read,    \* the bytes it has counted so far
  msg,     \* the message it fills
  loaded   \* the messages it has returned

streamVars == <<stream, sent, ends, torn>>
readerVars == <<pos, reader, size, read, msg, loaded>>
vars       == <<streamVars, readerVars>>

\* A new message: every field has its default value.
Empty == [num |-> 0, text |-> <<>>, list |-> <<>>, names |-> <<>>, unknown |-> <<>>]

TypeOK ==
  /\ stream \in Seq(Byte) /\ torn \in BOOLEAN
  /\ Len(sent) <= MaxSent /\ Len(ends) = Len(sent)
  /\ pos \in 0 .. Len(stream) /\ size \in Nat /\ read \in 0 .. Len(stream)
  /\ reader \in {"idle", "loading", "raised"}
  /\ DOMAIN msg = DOMAIN Empty
  /\ reader = "loading" => read <= size

Init ==
  /\ stream = <<>> /\ sent = <<>> /\ ends = <<>> /\ torn = FALSE
  /\ pos = 0 /\ reader = "idle" /\ size = 0 /\ read = 0 /\ msg = Empty /\ loaded = <<>>

-----------------------------------------------------------------------------
\* The writer.

\* __bytes__: the fields that differ from their default, in the order of the
\* class, then the unknown fields the message was loaded with.
Bytes(m) ==
  LET If(condition, bytes) == IF condition THEN bytes ELSE <<>>
  IN If(m.num # 0, Scalar(1, "int32", m.num))
     \o If(m.text # <<>>, Delimited(2, m.text))
     \o If(m.list # <<>>, Delimited(3, FlattenSeq([j \in DOMAIN m.list |->
                                                     Preprocess("int32", m.list[j])])))
     \o FlattenSeq([j \in DOMAIN m.names |-> Delimited(4, m.names[j])])
     \o m.unknown

Int32 == -(IntMod \div 2) .. IntMod \div 2 - 1

Message == [num : Int32, text : Seq(Byte), list : Seq(Int32), names : Seq(Seq(Byte)),
            unknown : Seq(Byte)]

\* A message is shorter than any size that a delimiter can express.
ASSUME MessagesAssumption ==
  Messages \subseteq Message /\ \A m \in Messages : Len(Bytes(m)) < WordMod

\* dump with a delimiter: the size, then the bytes.
Framed(m) == EncodeVarint(Len(Bytes(m))) \o Bytes(m)

Dump(m) ==
  /\ ~torn /\ Len(sent) < MaxSent
  /\ stream' = stream \o Framed(m)
  /\ sent' = Append(sent, m) /\ ends' = Append(ends, Len(stream'))
  /\ UNCHANGED <<torn, readerVars>>

\* The writer dies after n bytes of the message.
DumpTorn(m, n) ==
  /\ ~torn /\ Len(sent) < MaxSent
  /\ n < Len(Framed(m))
  /\ stream' = stream \o SubSeq(Framed(m), 1, n) /\ torn' = TRUE
  /\ UNCHANGED <<sent, ends, readerVars>>

-----------------------------------------------------------------------------
\* The reader.

\* load up to its loop: the delimiter.  At the end of the stream load raises
\* EOFError and changes nothing, so the reader may well try again later.
BeginLoad ==
  /\ reader = "idle" /\ pos < Len(stream)
  /\ LET delimiter == LoadVarint(stream, pos)
     IN /\ pos' = delimiter.next
        /\ IF delimiter.end = "ok"
           THEN /\ reader' = "loading" /\ size' = delimiter.value
                /\ read' = 0 /\ msg' = Empty
           ELSE reader' = "raised" /\ UNCHANGED <<size, read, msg>>
  /\ UNCHANGED <<streamVars, loaded>>

\* The values of a packed field, from a position on: one varint after the other.
Packed(raw) ==
  LET from[i \in 0 .. Len(raw)] ==
        LET v == LoadVarint(raw, i)
        IN IF i = Len(raw) THEN <<>> ELSE <<Postprocess("int32", v.value)>> \o from[v.next]
  IN from[0]

\* decode_varint runs off the end of a packed field.
CutShort(f) == f.number = 3 /\ f.value # <<>> /\ Last(f.value) >= Group

\* A known field is merged into the message: set, extended or appended.
Merged(m, f) ==
  CASE f.number = 1 -> [m EXCEPT !.num = Postprocess("int32", f.value)]
    [] f.number = 2 -> [m EXCEPT !.text = f.value]
    [] f.number = 3 -> [m EXCEPT !.list = @ \o Packed(f.value)]
    [] f.number = 4 -> [m EXCEPT !.names = Append(@, f.value)]

\* Mutants: the delimiter of the message is counted; a message that is too short
\* is returned.
CountedFromDelimiter(f) == f.next - pos + IF read = 0 THEN 1 ELSE 0
TooShortNever == FALSE

\* len(parsed.raw)
Counted(f) == f.next - pos

\* "if read == size: break", and the check after the loop.
ExactSize(count) == count = size
TooShort == read < size

Raise     == reader' = "raised" /\ UNCHANGED loaded
Return(m) == reader' = "idle" /\ loaded' = Append(loaded, m)

\* What becomes of a field: kept as it is without being counted, or merged and
\* counted; or it cannot be decoded, or there is none.
FieldUnknown(f) ==
  /\ msg' = [msg EXCEPT !.unknown = @ \o SubSeq(stream, pos + 1, f.next)]
  /\ UNCHANGED <<reader, read, loaded>>

FieldKnown(f, count) ==
  /\ msg' = Merged(msg, f) /\ read' = count
  /\ IF ExactSize(count) THEN Return(Merged(msg, f))
     ELSE IF count > size THEN Raise
     ELSE UNCHANGED <<reader, loaded>>

FieldBroken  == Raise /\ UNCHANGED <<read, msg>>
NoMoreFields == UNCHANGED <<read, msg>> /\ IF TooShort THEN Raise ELSE Return(msg)

\* One turn of the loop over load_fields.
LoadOneField ==
  /\ reader = "loading"
  /\ \E f \in {LoadField(stream, pos)} :
       /\ pos' = f.next
       /\ \/ f.end = "none" /\ NoMoreFields
          \/ f.end \in {"eof", "long"} /\ FieldBroken
          \/ f.end = "field" /\ f.number \notin Known /\ FieldUnknown(f)
          \/ f.end = "field" /\ f.number \in Known
               /\ IF CutShort(f) THEN FieldBroken ELSE FieldKnown(f, read + Counted(f))
  /\ UNCHANGED <<streamVars, size>>

Next ==
  \/ \E m \in Messages : Dump(m) \/ \E n \in 0 .. Len(Framed(m)) - 1 : DumpTorn(m, n)
  \/ BeginLoad \/ LoadOneField

\* The reader reads what is there.
Spec == Init /\ [][Next]_vars /\ WF_vars(BeginLoad \/ LoadOneField)

-----------------------------------------------------------------------------
\* When load returns, the reader has read the message up to its end, and nothing of
\* the message after it.  (Message.load: "The size of the message in the stream",
\* lines 921-924 and 980-1004.)
Framing ==
  reader = "idle" =>
    /\ Len(loaded) <= Len(ends)
    /\ pos = IF loaded = <<>> THEN 0 ELSE ends[Len(loaded)]

\* The reader's class has every field that a writer writes, and no message is empty.
Agreed ==
  Known = 1 .. 4 /\ Empty \notin Messages /\ \A m \in Messages : m.unknown = <<>>

Channel == INSTANCE MessageChannel WITH got <- loaded

\* The stream is a channel: every message that was dumped in full is loaded, once,
\* in order and unchanged, and a torn one never is.
IsChannel == Channel!ChannelSpec
=============================================================================
