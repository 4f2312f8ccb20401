-------------------------- MODULE MessageEvolution --------------------------
(***************************************************************************)
(* A message that travels between programs whose classes for it were       *)
(* generated from different versions of a .proto file.  Each program       *)
(* parses the bytes it receives (Message.parse), reads and sets fields,    *)
(* perhaps copies the message or takes it through JSON, and serializes it  *)
(* again (Message.__bytes__), all in src/aristaproto/__init__.py.          *)
(*                                                                         *)
(* Fields are field numbers.  Bytes are a sequence of fields with their    *)
(* values: how these are laid out is the business of Wire.                 *)
(***************************************************************************)
EXTENDS Naturals, Sequences, FiniteSets, FiniteSetsExt

CONSTANTS Implicit,   \* scalar fields without presence: unset is zero
          Optional,   \* fields with presence: optional, messages, oneof members
          Repeated,   \* repeated fields
          Group,      \* the members of a oneof
          Classes,    \* the versions of the message class
          Known(_),   \* the field numbers a class has
          Values,     \* the values of a field, 0 among them
          MaxItems,   \* bound: items of a repeated field
          None        \* Python's None

Fields == Implicit \cup Optional \cup Repeated

ASSUME FieldsAssumption ==
  /\ Fields \subseteq Nat \ {0} /\ IsFiniteSet(Fields) /\ Group \subseteq Optional
  /\ Implicit \cap Optional = {} /\ Implicit \cap Repeated = {} /\ Optional \cap Repeated = {}
  /\ \A c \in Classes : Known(c) \subseteq Fields
VARIABLES
  class,    \* the class of the program that has the message, or had it last
  val,      \* the values of the fields its class has
  unknown,  \* _unknown_fields
  wire,     \* the bytes on their way, when the message is "sent"
  place,    \* "object" or "sent"
  content   \* what the users have put into the message, and not taken out

object == <<class, val, unknown>>
vars   == <<object, wire, place, content>>

ValuesOf(f) == CASE f \in Implicit -> Values
                 [] f \in Optional -> Values \cup {None}
                 [] f \in Repeated -> UNION {[1 .. n -> Values] : n \in 0 .. MaxItems}

ASSUME ValuesAssumption ==
  /\ 0 \in Values /\ None \notin Values /\ MaxItems \in Nat
  /\ \A f \in Repeated : None \notin ValuesOf(f)  \* None is no list

TypeOK ==
  /\ class \in Classes /\ place \in {"object", "sent"}
  /\ DOMAIN val = Known(class) /\ \A f \in Known(class) : val[f] \in ValuesOf(f)
  /\ \A i \in DOMAIN unknown : unknown[i].field \in Fields \ Known(class)
  /\ DOMAIN content = Fields /\ \A f \in Fields : content[f] \in ValuesOf(f)

-----------------------------------------------------------------------------
\* default_gen of ProtoClassMetadata, from the default factories of field().
Default(f) == CASE f \in Implicit -> 0
                [] f \in Optional -> None
                [] f \in Repeated -> <<>>

Fresh(fields) == [f \in fields |-> Default(f)]

\* Mutant: a field is skipped when its value is false, as if "if not value".
SkippedFalsy(f, v) == v = None \/ v = IF f \in Repeated THEN <<>> ELSE 0

\* __bytes__ writes no field that is None or has its default value.
Skipped(f, v) == v = None \/ v = Default(f)

\* __bytes__: the fields of the class in the order of their numbers, then the unknown
\* ones.  A repeated scalar field is packed into one field.
Written(v, rest) ==
  LET last == Max(DOMAIN v \cup {0})
      upto[n \in 0 .. last] ==
        IF n = 0 THEN <<>>
        ELSE IF n \in DOMAIN v /\ ~Skipped(n, v[n])
        THEN Append(upto[n - 1], [field |-> n, value |-> v[n]])
        ELSE upto[n - 1]
  IN upto[last] \o rest

\* load: what an occurrence of a field does to the value there is.
Merged(old, f, new) == IF f \in Repeated THEN old \o new ELSE new

\* One turn of load: a field the class has is merged into the object m, any other is
\* appended to its unknown fields.
Taken(m, t) ==
  IF t.field \in DOMAIN m.val
  THEN [m EXCEPT !.val[t.field] = Merged(@, t.field, t.value)]
  ELSE [m EXCEPT !.unknown = Append(@, t)]

\* load of bytes into an object with the fields v.
Loaded(v, bytes) ==
  LET after[i \in 0 .. Len(bytes)] ==
        IF i = 0 THEN [val |-> v, unknown |-> <<>>] ELSE Taken(after[i - 1], bytes[i])
  IN after[Len(bytes)]

\* to_dict and from_dict: only known fields are written, a value that is false
\* only when it has presence, and a None that was written is ignored.
Dict(v)     == {f \in DOMAIN v : IF f \in Optional THEN v[f] # None ELSE v[f] # Default(f)}
FromDict(v) == [f \in DOMAIN v |-> IF f \in Dict(v) THEN v[f] ELSE Default(f)]

\* which_one_of finds a second member set, and raises.
WhichOneOfRaises(v) ==
  \E f, g \in Group \cap DOMAIN v : f # g /\ v[f] # None /\ v[g] # None

-----------------------------------------------------------------------------
Init ==
  /\ class \in Classes /\ val = Fresh(Known(class)) /\ unknown = <<>>
  /\ wire = <<>> /\ place = "object" /\ content = Fresh(Fields)

\* The user sets a field; before setting a member of a oneof it sets the others of
\* its class to None, because setting an attribute does nothing but that.  A member that
\* the class does not have stays where it is, among the unknown fields.
Set(f, v) ==
  /\ place = "object" /\ f \in Known(class) \ Repeated
  /\ val' = [g \in Known(class) |-> IF g = f THEN v
                                    ELSE IF {f, g} \subseteq Group THEN None ELSE val[g]]
  /\ content' = [g \in Fields |-> IF g \in Known(class) THEN val'[g] ELSE content[g]]
  /\ UNCHANGED <<class, unknown, wire, place>>

\* The user appends an item, or empties the list.
SetItems(f, items) ==
  /\ place = "object" /\ f \in Known(class) \cap Repeated
  /\ val' = [val EXCEPT ![f] = items] /\ content' = [content EXCEPT ![f] = items]
  /\ UNCHANGED <<class, unknown, wire, place>>

\* bytes(message); the object is not needed any more.
Serialize ==
  /\ place = "object"
  /\ wire' = Written(val, unknown) /\ place' = "sent"
  /\ UNCHANGED <<object, content>>

\* Message.parse by a program of class c; pickling is this with the same class.
Parse(c) ==
  /\ place = "sent"
  /\ LET m == Loaded(Fresh(Known(c)), wire) IN val' = m.val /\ unknown' = m.unknown
  /\ class' = c /\ wire' = <<>> /\ place' = "object"
  /\ UNCHANGED content

\* What is left when the fields that the class does not have are forgotten.
Forgotten == [f \in Fields |-> IF f \in Known(class) THEN content[f] ELSE Default(f)]

\* copy() and deepcopy() make a new object from the fields of the class.
Copy ==
  /\ place = "object"
  /\ unknown' = <<>> /\ content' = Forgotten
  /\ UNCHANGED <<class, val, wire, place>>

\* from_dict(to_dict()), or from_json(to_json()).
ThroughDict ==
  /\ place = "object"
  /\ val' = FromDict(val) /\ unknown' = <<>> /\ content' = Forgotten
  /\ UNCHANGED <<class, wire, place>>

Next ==
  \/ \E f \in Fields : \/ \E v \in ValuesOf(f) : Set(f, v)
                       \/ \E items \in ValuesOf(f) : SetItems(f, items)
  \/ Serialize \/ \E c \in Classes : Parse(c)
  \/ Copy \/ ThroughDict

Spec == Init /\ [][Next]_vars

-----------------------------------------------------------------------------
\* What a program that knows every field would read.
Reading ==
  Loaded(Fresh(Fields), IF place = "sent" THEN wire ELSE Written(val, unknown)).val

\* However often the message changes hands, and whatever each program knows of it,
\* what was put into it is what a program that knows every field reads: with zero
\* told from unset where there is presence, and nothing twice.
\* (test_features.py:45: unknown fields "should round trip".)
NothingLost == Reading = content

\* At most one member of a oneof is set (messages.md:46), so which_one_of never raises.
\* It does: a program of an older version sets its member beside one it does not know, and
\* load sets both.  (Lines 979, 1304-1322.)
OneofExclusive == place = "object" => ~WhichOneOfRaises(val)
=============================================================================
