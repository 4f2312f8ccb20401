----------------------------- MODULE BinaryForm -----------------------------
(***************************************************************************)
(* Messages of every kind as bytes and back: Message.__bytes__, load, and  *)
(* the two functions for a single value, for messages with embedded and    *)
(* wrapped messages, maps and repeated fields.  Bytes are a sequence of    *)
(* fields, each with its number and the values in it: what a field looks   *)
(* like on the wire is the business of Wire, and who knows which field     *)
(* that of MessageEvolution.                                               *)
(***************************************************************************)
EXTENDS MessageCompilation

\* The classes of the generated library, and one of the user: their fields.
V == <<"value">>

Inner(wrapper) == CASE wrapper \in {"Int32Value", "UInt32Value"}  -> "int32"
                    [] wrapper \in {"Int64Value", "UInt64Value"}  -> "int64"
                    [] wrapper \in {"FloatValue", "DoubleValue"}  -> "double"
                    [] wrapper = "BoolValue"                      -> "bool"
                    [] wrapper = "StringValue"                    -> "string"
                    [] wrapper = "BytesValue"                     -> "bytes"

NullValue == <<[name |-> <<"NULL_VALUE">>, value |-> Py("enum", "0"), proto_name |-> <<>>]>>

Plain(number, t) == field(number, "one", "", Item(t, <<>>), FALSE, "")
Kind(number, t)  == field(number, "one", "", Item(t, NullValue), TRUE, "kind")

AnyFields    == (<<"type_url">> :> Plain(1, "string")) @@ (V :> Plain(2, "bytes"))
StructFields == <<"fields">> :> field(1, "dict", "string", Item("Value", <<>>), FALSE, "")
ListFields   == <<"values">> :> field(1, "list", "", Item("Value", <<>>), FALSE, "")
ValueFields  ==
  (<<"null_value">> :> Kind(1, "enum"))        @@ (<<"number_value">> :> Kind(2, "double"))
    @@ (<<"string_value">> :> Kind(3, "string")) @@ (<<"bool_value">> :> Kind(4, "bool"))
    @@ (<<"struct_value">> :> Kind(5, "Struct")) @@ (<<"list_value">> :> Kind(6, "ListValue"))

ClassOf(cls) == CASE cls = "Sub"       -> <<"a">> :> Plain(1, "int32")
                  [] cls \in Wrappers  -> V :> Plain(1, Inner(cls))
                  [] cls = "Any"       -> AnyFields
                  [] cls = "Struct"    -> StructFields
                  [] cls = "ListValue" -> ListFields
                  [] cls = "Value"     -> ValueFields

\* cls(attr=x), of a class of the library.
Filled(class, attr, x) == [a \in DOMAIN class |-> IF a = attr THEN x ELSE class[a].default]
New(cls, attr, x)      == Msg(cls, Filled(ClassOf(cls), attr, x))

\* from_wrapped and to_wrapped.
FromWrapped(cls, x) == New(cls, V, x)
ToWrapped(m) == m.attrs[V]

-----------------------------------------------------------------------------
RECURSIVE ToBytes(_, _)

\* _preprocess_single: what a message is written as; an enum member is an int.
Preprocess(item, x) ==
  IF item.type = "enum" THEN Py("int", x.v)
  ELSE IF item.type # "message" THEN x
  ELSE LET m == IF item.unwrap THEN FromWrapped(item.cls, x) ELSE x
       IN Bytes(ToBytes(ClassOf(item.cls), m.attrs))

\* Mutant: a field is skipped when its value is false.
SkippedFalse(meta, x) == x = None \/ x = meta.default \/ Falsy(x)

\* __bytes__ writes neither None nor the default value.
Skipped(meta, x) == x = None \/ x = meta.default

\* The items of a field: those of a list, the entries of a dict, or the value itself.
Items(meta, x) ==
  LET value(y) == Preprocess(meta.item, y)
      entries(f) == SetToSeq({[key |-> k, value |-> f[k]] : k \in DOMAIN f})
  IN CASE meta.container = "list" -> Mapped(value, x).list
       [] meta.container = "dict" -> entries(Mapped(value, x).dict)
       [] meta.container = "one"  -> <<value(x)>>

\* __bytes__ of a message of the given class.
ToBytes(class, attrs) ==
  LET order == SetToSortSeq(DOMAIN class, LAMBDA a, b : class[a].number < class[b].number)
      written(a) == IF Skipped(class[a], attrs[a]) THEN <<>>
                    ELSE <<[number |-> class[a].number, items |-> Items(class[a], attrs[a])]>>
  IN FlattenSeq([i \in DOMAIN order |-> written(order[i])])

-----------------------------------------------------------------------------
RECURSIVE Load(_, _)

\* _postprocess_single; the constructor of an enum takes any number.
Postprocess(item, x) ==
  IF item.type = "enum" THEN Py("enum", x.v)
  ELSE IF item.type # "message" THEN x
  ELSE LET m == Msg(item.cls, Load(ClassOf(item.cls), FieldsIn(x)))
       IN IF item.unwrap THEN ToWrapped(m) ELSE m

\* load of bytes into a new object.
Load(class, fields) ==
  LET items(a) == FlattenSeq([i \in DOMAIN fields |-> IF fields[i].number = class[a].number
                                                      THEN fields[i].items ELSE <<>>])
      last(s, k) == s[Max({i \in DOMAIN s : s[i].key = k})].value
      dict(s) == Dict([k \in {s[i].key : i \in DOMAIN s} |-> last(s, k)])
      value(meta, s) ==
        LET post(x) == Postprocess(meta.item, x)
        IN IF s = <<>> THEN meta.default
           ELSE IF meta.container = "one" THEN post(s[Len(s)])
           ELSE Mapped(post, IF meta.container = "list" THEN List(s) ELSE dict(s))
  IN [a \in DOMAIN class |-> value(class[a], items(a))]
=============================================================================
