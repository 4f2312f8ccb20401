------------------------------ MODULE JsonForm ------------------------------
(***************************************************************************)
(* Messages as dictionaries and as JSON text: Message.to_dict, from_dict,  *)
(* to_json and from_json with the functions for a single value, the        *)
(* classes of the library that have methods of their own                   *)
(* (known_types/google_values.py, struct.py and any.py, copied into the    *)
(* generated library), the message pool, and enums (enum_.py).             *)
(*                                                                         *)
(* Options are a record: format, "PYTHON" or "PROTO_JSON"; casing, "CAMEL" *)
(* or "SNAKE"; defaults, whether include_default_values is set.            *)
(***************************************************************************)
EXTENDS BinaryForm

CONSTANT Registered  \* the library's and the user's classes in the message pool

ASSUME PoolAssumption == Registered \subseteq Messages

\* get_type_url, and the two dictionaries of MessagePool, which register_message keeps
\* inverse to each other.
TypeUrl(cls) == Str(cls)
UrlKnown(url) == url \in {TypeUrl(cls) : cls \in Registered}

\* Whether the class has a to_dict of its own.
OwnDict(cls) == cls # "Sub"

-----------------------------------------------------------------------------
\* Enums.

\* An int without a member becomes a member without a name (_missing_).
MemberOf(members, x) == {n \in DOMAIN members : members[n].value.v = x.v}

\* Mutant: the name of the Python member is written.
EnumToDictPython(members, x) ==
  LET known == MemberOf(members, x)
  IN IF known = {} THEN Py("int", x.v) ELSE Name(members[Min(known)].name)

\* A table from numbers to the old names of renamed members keeps the last of a number.
\* The members with the number of another are aliases of the first.
EnumToDict(members, x) ==
  LET known == MemberOf(members, x)
      renamed == {n \in known : members[n].proto_name # <<>>}
  IN IF known = {} THEN Py("int", x.v)
     ELSE Name(IF renamed # {} THEN members[Max(renamed)].proto_name
               ELSE members[Min(known)].name)

\* A string is looked up among the renamed proto names, then among the members
\* (from_string); anything else must be a number.
EnumFromDict(members, x) ==
  LET renamed == {n \in DOMAIN members : Is("name", x) /\ members[n].proto_name = x.name}
      named   == {n \in DOMAIN members : Is("name", x) /\ members[n].name = x.name}
  IN IF ~Is("name", x) /\ x.py # "str" THEN Py("enum", x.v)
     ELSE IF renamed # {} THEN members[Min(renamed)].value
     ELSE IF named # {} THEN members[Min(named)].value
     ELSE Raise("ValueError")

-----------------------------------------------------------------------------
\* to_dict.

\* _dump_float and _parse_float: the strings of the special numbers, and float of the rest.
Specials == {"NaN", "Infinity", "-Infinity"}
DumpFloat(x)  == IF x.v \in Specials THEN Str(x.v) ELSE x
ParseFloat(x) == Py("float", x.v)

RECURSIVE ToDict(_, _)

\* _value_to_dict of a value that is not a message.
ScalarToDict(item, x, options) ==
  IF options.format = "PYTHON" THEN x
  ELSE CASE item.type = "int64"  -> Str(x.v)
         [] item.type = "bytes"  -> Py("b64", x.v)
         [] item.type = "enum"   -> EnumToDict(item.members, x)
         [] item.type = "double" -> DumpFloat(x)
         [] OTHER                -> x

ValueToDict(item, x, options) ==
  IF item.type # "message" THEN ScalarToDict(item, x, options)
  ELSE IF item.unwrap /\ options.format = "PYTHON" THEN x
  ELSE ToDict(IF item.unwrap THEN FromWrapped(item.cls, x) ELSE x, options)

\* A field and what to_dict makes of it; keys of a dict are scalars.
FieldToDict(meta, x, options) ==
  LET value(y) == ValueToDict(meta.item, y, options)
      key(k) == ScalarToDict(Item(meta.key, <<>>), k, options)
  IN IF x = None THEN None
     ELSE CASE meta.container = "list" -> Mapped(value, x)
            [] meta.container = "one"  -> value(x)
            [] meta.container = "dict" -> Mapped(value, Rekeyed(key, x))

\* What is written without include_default_values.
WrittenToDict(meta, x) ==
  CASE meta.container = "list" -> x.list # <<>>
    [] meta.container = "dict" -> DOMAIN x.dict # {}
    [] OTHER -> x # None /\ (meta.optional \/ ~Falsy(x))

\* Message.to_dict, of a message of the given class.
MessageToDict(class, attrs, options) ==
  LET written == {a \in DOMAIN class : options.defaults \/ WrittenToDict(class[a], attrs[a])}
      key(a) == Name(KeyOf(a, options.casing))
  IN Dict([k \in {key(a) : a \in written} |->
        LET a == CHOOSE b \in written : key(b) = k
        IN FieldToDict(class[a], attrs[a], options)])

\* The kinds of Value in the order in which its to_dict looks for them.
Kinds == <<<<"null_value">>, <<"bool_value">>, <<"number_value">>, <<"string_value">>,
           <<"list_value">>, <<"struct_value">>>>

\* to_dict of Any: the fields of the message packed in it go next to its URL, unless its
\* class has a to_dict of its own.
PackedToDict(url, inner) ==
  IF Raises(inner) THEN inner
  ELSE Dict((Name(<<"@type">>) :> url)
              @@ IF OwnDict(url.v) THEN Name(V) :> inner ELSE inner.dict)

AnyToDict(m, options) ==
  LET url == m.attrs[<<"type_url">>]
      packed == Msg(url.v, Load(ClassOf(url.v), FieldsIn(ToWrapped(m))))
  IN IF url = Str("") THEN Dict(Name(<<"@type">>) :> url)
     ELSE IF ~UrlKnown(url) THEN Raise("TypeError")
     ELSE PackedToDict(url, ToDict(packed, options))

\* to_dict of a wrapper, whatever the options.
WrapperToDict(m) == ToWrapped(m)

ToDict(m, options) ==
  LET json(x) == ToDict(x, options)
      kind == SelectSeq(Kinds, LAMBDA a : m.attrs[a] # None)
      x == m.attrs[kind[1]]
  IN CASE m.cls = "Sub"      -> MessageToDict(ClassOf("Sub"), m.attrs, options)
       [] m.cls = "Any"      -> AnyToDict(m, options)
       [] m.cls \in Wrappers -> WrapperToDict(m)
       [] m.cls \in {"Struct", "ListValue", "Value"} ->
            IF options.format = "PYTHON" THEN Raise("AssertionError")
            ELSE IF m.cls = "Struct" THEN Mapped(json, m.attrs[<<"fields">>])
            ELSE IF m.cls = "ListValue" THEN Mapped(json, m.attrs[<<"values">>])
            ELSE IF kind = <<>> THEN Raise("ValueError")
            ELSE IF kind[1] = <<"null_value">> THEN None
            ELSE IF Is("cls", x) THEN json(x)
            ELSE x

-----------------------------------------------------------------------------
\* from_dict.
RECURSIVE FromDict(_, _)

\* b64decode, which also takes bytes, and either raises or makes other bytes of them.
Decoded(x) == IF x.py = "b64" \/ x.v = "" THEN Py("bytes", x.v) ELSE Raise("Error")

ScalarFromDict(item, x) ==
  CASE item.type = "enum"    -> EnumFromDict(item.members, x)
    [] item.type \in {"int32", "int64"} -> Py("int", x.v)
    [] item.type = "bytes"   -> Decoded(x)
    [] item.type = "double"  -> ParseFloat(x)
    [] OTHER                 -> x

ValueFromDict(item, x) ==
  LET unwrapped(m) == IF item.unwrap /\ ~Raises(m) THEN ToWrapped(m) ELSE m
  IN IF item.type = "message" THEN unwrapped(FromDict(item.cls, x)) ELSE ScalarFromDict(item, x)

FieldFromDict(meta, x) ==
  LET value(y) == ValueFromDict(meta.item, y)
      key(k) == ScalarFromDict(Item(meta.key, <<>>), k)
  IN CASE meta.container = "list" -> Mapped(value, x)
       [] meta.container = "one"  -> value(x)
       [] meta.container = "dict" -> Mapped(value, Rekeyed(key, x))

\* A null is no value, except for a Value.
ReadsNull(meta) == meta.item.cls = "Value"

\* _from_dict_init and the constructor: a key that is no field's is an error.
MessageFromDict(class, x) ==
  LET fieldOf(k) == safe_snake_case(k.name)
      read(a) == {k \in DOMAIN x.dict : /\ fieldOf(k) = a
                                        /\ x.dict[k] # None \/ ReadsNull(class[a])}
  IN IF \E k \in DOMAIN x.dict : fieldOf(k) \notin DOMAIN class THEN Raise("KeyError")
     ELSE Dict([a \in DOMAIN class |->
            IF read(a) = {} THEN class[a].default
            ELSE FieldFromDict(class[a], x.dict[CHOOSE k \in read(a) : TRUE])])

ValueOf(x) ==
  CASE Is("list", x) -> New("Value", <<"list_value">>, FromDict("ListValue", x))
    [] Is("dict", x) -> New("Value", <<"struct_value">>, FromDict("Struct", x))
    [] Is("py", x) ->
         CASE x.py = "bool"           -> New("Value", <<"bool_value">>, x)
           [] x.py \in {"int", "float"} -> New("Value", <<"number_value">>, x)
           [] x.py \in {"str", "b64"} -> New("Value", <<"string_value">>, x)
           [] x.py = "None"           -> New("Value", <<"null_value">>, Py("enum", "0"))
           [] OTHER                   -> Raise("ValueError")

AnyFromDict(x) ==
  LET type == Name(<<"@type">>)
      url == IF type \in DOMAIN x.dict THEN x.dict[type] ELSE None
      rest == IF OwnDict(url.v) THEN x.dict[Name(V)]
              ELSE Dict([k \in DOMAIN x.dict \ {type} |-> x.dict[k]])
      packed(m) == (<<"type_url">> :> url) @@ (V :> Bytes(ToBytes(ClassOf(m.cls), m.attrs)))
      any(m) == IF Raises(m) THEN m ELSE Msg("Any", packed(m))
  IN IF ~UrlKnown(url) THEN Raise("TypeError") ELSE any(FromDict(url.v, rest))

\* A wrapper takes what is not a dict as its value, whether it has its type or not.
WrapperFromDict(cls, x) == New(cls, V, x)

FromDict(cls, x) ==
  LET json(y) == FromDict("Value", y)
      message(fields) == IF Raises(fields) THEN fields ELSE Msg(cls, fields.dict)
  IN CASE cls = "Value"     -> ValueOf(x)
       [] cls = "ListValue" -> New(cls, <<"values">>, Mapped(json, x))
       [] cls = "Struct"    -> New(cls, <<"fields">>, Mapped(json, x))
       [] cls = "Any"       -> AnyFromDict(x)
       [] cls \in Wrappers /\ ~Is("dict", x) -> WrapperFromDict(cls, x)
       [] OTHER -> message(MessageFromDict(ClassOf(cls), x))

-----------------------------------------------------------------------------
\* json.loads(json.dumps(x)): keys become strings, and bytes are refused.
RECURSIVE ThroughText(_)
ThroughText(x) ==
  LET key(k) == IF Is("name", k) \/ k.py = "str" THEN k
                ELSE Str(CASE k.v = "True"  -> "true"
                           [] k.v = "False" -> "false"
                           [] OTHER         -> k.v)
  IN CASE Is("list", x) -> Mapped(ThroughText, x)
       [] Is("dict", x) -> Mapped(ThroughText, Rekeyed(key, x))
       [] Is("py", x)   -> IF x.py = "bytes" THEN Raise("TypeError") ELSE x
       [] OTHER         -> x
=============================================================================
