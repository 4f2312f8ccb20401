--------------------------- MODULE CompiledMessage --------------------------
(***************************************************************************)
(* A message from its declaration in a .proto file to its users: the       *)
(* compiler makes a class of it (MessageCompilation), a program fills an   *)
(* object of the class, and hands it to another program as bytes           *)
(* (BinaryForm), as a dictionary or as JSON text (JsonForm).               *)
(***************************************************************************)
EXTENDS JsonForm

CONSTANTS Declarations,   \* the messages: sequences of declared fields
          ItemValues(_),  \* Python values of a type
          KeyValues(_),   \* keys of a map
          MaxItems        \* bound: items of a list

\* The oneof, the maps and the names of a message are as protoc accepts them; two names
\* that differ in case and underscores alone are left out.
ASSUME DeclarationsAssumption ==
  \A d \in Declarations :
    /\ \A i, j \in DOMAIN d : i # j => Reduced(d[i].name) # Reduced(d[j].name)
    /\ \A i \in DOMAIN d : /\ d[i].decl \in {"singular", "optional", "repeated", "map", "oneof"}
                           /\ d[i].type \in Scalars \cup Messages

VARIABLES
  declared,  \* the fields of the message
  class,     \* the generated class
  content,   \* what the user has put into each field
  object,    \* the attributes of the object there is
  hop,       \* how the message travels
  data,      \* what is on its way
  place      \* "source", "object", "written", "received", or "failed"

vars == <<declared, class, content, object, hop, data, place>>

\* bytes and parse, to_dict and from_dict, or to_json and from_json.
Hops ==
  {h \in [via : {"bytes", "dict", "text"}, format : {"PYTHON", "PROTO_JSON"},
          casing : {"CAMEL", "SNAKE"}, defaults : BOOLEAN] :
     /\ h.via = "bytes" => h.format = "PYTHON" /\ h.casing = "CAMEL" /\ ~h.defaults
     /\ h.via = "text" => h.format = "PROTO_JSON"}

PyName(i) == pythonize_field_name(declared[i].name)

\* What a user can put into field i: at most one member of the oneof is set.
ValuesOf(d) ==
  LET lists(items) == UNION {[1 .. n -> items] : n \in 0 .. MaxItems}
      dicts(items) == UNION {[keys -> items] : keys \in SUBSET KeyValues(d.key)}
      values(items) ==
        CASE d.decl = "repeated" -> {List(s) : s \in lists(items)}
          [] d.decl = "map"      -> {Dict(f) : f \in dicts(items)}
          [] d.decl = "singular" /\ d.type \in Scalars -> items
          [] OTHER               -> items \cup {None}
  IN values(ItemValues(d.type))

-----------------------------------------------------------------------------
Init ==
  /\ declared \in Declarations /\ class = <<>> /\ content = <<>> /\ object = <<>>
  /\ hop \in {h \in Hops : h.via = "bytes"} /\ data = None /\ place = "source"

\* The compiler, and the import of what it has generated.
Compile ==
  /\ place = "source" /\ class = <<>>
  /\ class' = Class(DescriptorProto(declared))
  /\ UNCHANGED <<declared, content, object, hop, data, place>>

\* The user makes an object: fields that get no value have their default.
Construct(values) ==
  /\ place = "source" /\ class # <<>>
  /\ content' = values
  /\ object' = [n \in DOMAIN class |-> values[CHOOSE i \in DOMAIN declared : PyName(i) = n]]
  /\ place' = "object"
  /\ UNCHANGED <<declared, class, hop, data>>

\* bytes(message), to_dict or to_json.
WrittenBy(h) ==
  LET sent(dict) == IF h.via = "text" THEN ThroughText(dict) ELSE dict
  IN IF h.via = "bytes" THEN Bytes(ToBytes(class, object))
     ELSE sent(MessageToDict(class, object, h))

Write(h) ==
  /\ place = "object"
  /\ hop' = h /\ data' = WrittenBy(h)
  /\ place' = IF Raises(data') THEN "failed" ELSE "written"
  /\ UNCHANGED <<declared, class, content, object>>

\* parse, from_dict or from_json.
Read ==
  LET received(m) == /\ place' = IF Raises(m) THEN "failed" ELSE "received"
                     /\ object' = IF Raises(m) THEN object ELSE m.dict
  IN /\ place = "written"
     /\ received(IF hop.via = "bytes" THEN Dict(Load(class, FieldsIn(data)))
                 ELSE MessageFromDict(class, data))
     /\ UNCHANGED <<declared, class, content, hop, data>>

\* The program that has received the message goes on with what it got, and the one that
\* has failed still has its own.
GoOn ==
  /\ place \in {"received", "failed"}
  /\ place' = "object" /\ data' = None
  /\ content' = [i \in DOMAIN declared |-> object[PyName(i)]]
  /\ UNCHANGED <<declared, class, object, hop>>

ContentsOf ==
  LET one(values, i, j) == declared[i].decl = "oneof" /\ declared[j].decl = "oneof"
                             => values[i] = None \/ values[j] = None
      chosen(sets) ==
        {values \in [DOMAIN sets -> UNION Range(sets)] :
           /\ \A i \in DOMAIN sets : values[i] \in sets[i]
           /\ \A i, j \in DOMAIN sets : i # j => one(values, i, j)}
  IN chosen([i \in DOMAIN declared |-> ValuesOf(declared[i])])

Next == \/ Compile
        \/ \E values \in ContentsOf : Construct(values)
        \/ \E h \in Hops : Write(h)
        \/ Read
        \/ GoOn

Spec == Init /\ [][Next]_vars

-----------------------------------------------------------------------------
\* The class says what the .proto file says.  Every field is there under its Python name,
\* tells unset from zero just where the declaration does, is a list or a dict where it is
\* repeated or a map, belongs to the oneof or to none, and has the type of its value and
\* keys, though protoc declares oneofs and entries of its own beside it.  (parser.py:241-279, models.py:379-660, field().)
CompiledAsDeclared ==
  class # <<>> =>
    /\ DOMAIN class = {PyName(i) : i \in DOMAIN declared}
    /\ \A i \in DOMAIN declared :
         LET f == declared[i]
             m == class[PyName(i)]
             presence == f.decl \in {"optional", "oneof"}
                         \/ (f.decl = "singular" /\ f.type \in Messages)
         IN /\ m.number = i /\ m.item.cls = f.type
            /\ m.container = "dict" <=> f.decl = "map"
            /\ m.container = "list" <=> f.decl = "repeated"
            /\ m.default = None <=> presence
            /\ m.group = IF f.decl = "oneof" THEN Choice ELSE ""
            /\ f.decl = "map" => m.key = f.key
            /\ f.type \in Wrappers <=> m.item.unwrap
    /\ LET message == DescriptorProto(declared)
       IN {message.oneof_decl[o] : o \in DocumentedOneofs(message)}
            = {class[n].group : n \in DOMAIN class} \ {""}

-----------------------------------------------------------------------------
\* A name by the style guide of Protocol Buffers: words in lower case that begin with a
\* letter, one underscore between two of them.
ByStyleGuide(s) ==
  /\ s # <<>> /\ s[1] \in Lowers /\ s[Len(s)] # "_"
  /\ \A i \in DOMAIN s : s[i] \in Lowers \cup Digits \cup {"_"}
  /\ \A i \in 1 .. Len(s) - 1 : s[i] = "_" => s[i + 1] \in Lowers

\* A letter after a digit, which the code takes for the beginning of a word.
InnerDigit(s) == \E i \in 1 .. Len(s) - 1 : s[i] \in Digits /\ s[i + 1] \in Lowers

\* Two initials in a row, after the first word: x_a_s is written as xAS.
Initials(s) ==
  \E i \in 2 .. Len(s) - 3 :
    /\ s[i] = "_" /\ s[i + 2] = "_"
    /\ i + 4 \in DOMAIN s => s[i + 4] \notin Lowers

\* The name that protoc gives a field in JSON.
JsonName(s) ==
  LET char(i) == CASE s[i] = "_" -> <<>>
                   [] i > 1 /\ s[i - 1] = "_" /\ s[i] \in Lowers -> <<UpperOf[s[i]]>>
                   [] OTHER -> <<s[i]>>
  IN FlattenSeq([i \in DOMAIN s |-> char(i)])

\* A field by the style guide is written under the name that protoc gives it in JSON, and
\* found again under the key that was written, in either casing; initials are only found
\* again in snake case, and a name like ipv4addr in neither.  (to_dict line 1088,
\* _from_dict_init line 1132, and the two casing modules, which split a name into words at
\* different places.)
NamesComeBack ==
  \A i \in DOMAIN declared :
    LET name == declared[i].name
        found(casing) == safe_snake_case(KeyOf(PyName(i), casing)) = PyName(i)
    IN ByStyleGuide(name) /\ ~InnerDigit(name) =>
                             /\ KeyOf(PyName(i), "CAMEL") = JsonName(name)
                             /\ found("SNAKE")
                             /\ Initials(name) <=> ~found("CAMEL")

\* The values in a field.
ItemsIn(i) ==
  LET x == content[i]
  IN CASE Is("list", x) -> {x.list[k] : k \in DOMAIN x.list}
       [] Is("dict", x) -> {x.dict[k] : k \in DOMAIN x.dict}
       [] OTHER         -> {x} \ {None}

UnsetAny == New("Any", V, Py("bytes", ""))

\* What does not survive, as the code is: outside of bytes, fields whose names are not by
\* the style guide, or split by one casing alone; keys that are bool, and bytes in a
\* BytesValue, through text; bytes, and the classes of Struct, in the PYTHON format; a Value that is
\* unset with include_default_values; an Any without a type outside of bytes.
LostAs(i, h) ==
  LET f == declared[i]
  IN \/ /\ h.via # "bytes"
        /\ ~ByStyleGuide(f.name) \/ InnerDigit(f.name) \/ (h.casing = "CAMEL" /\ Initials(f.name))
     \/ h.via = "text" /\ f.decl = "map" /\ f.key = "bool" /\ content[i] # Dict(<<>>)
     \/ h.via = "text" /\ f.type = "BytesValue" /\ ItemsIn(i) # {}
     \/ /\ h.via = "dict" /\ h.format = "PYTHON"
        /\ \/ f.type = "bytes" /\ ItemsIn(i) \ {Py("bytes", "")} # {}
           \/ f.type \in {"Struct", "ListValue", "Value"} /\ ItemsIn(i) # {}
     \/ h.defaults /\ f.type = "Value" /\ content[i] = None
     \/ h.via # "bytes" /\ f.type = "Any" /\ UnsetAny \in ItemsIn(i)

\* A message that has been written and read again, as bytes, as a dictionary or as text,
\* with whatever options, holds what the user has put into it: in all types, with unset
\* told from zero, in lists, maps, oneofs and embedded messages.  (test_mapping_str.py,
\* test_struct.py, test_any.py: messages "should round trip" in each form.)
MessageKept ==
  /\ place = "received" /\ (\A i \in DOMAIN declared : ~LostAs(i, hop))
       => \A i \in DOMAIN declared : object[PyName(i)] = content[i]
  /\ place = "failed" => \E i \in DOMAIN declared : LostAs(i, hop)

-----------------------------------------------------------------------------
\* The names of an enum by the number: any of them stands for a number that has several.
NamesOf(enum) ==
  LET numbers == {ToString(enum.numbers[n]) : n \in DOMAIN enum.numbers}
      named(k) == {enum.values[n] : n \in {m \in DOMAIN enum.values :
                                             ToString(enum.numbers[m]) = k}}
  IN {names \in [numbers -> Range(enum.values)] : \A k \in numbers : names[k] \in named(k)}

\* The canonical JSON form of a value.
RECURSIVE Canonical(_, _, _)
Canonical(t, names, x) ==
  LET json(y) == Canonical("Value", names, y)
      as(u, y) == Canonical(u, names, y)
      kind == CHOOSE a \in DOMAIN x.attrs : x.attrs[a] # None
      url == x.attrs[<<"type_url">>]
      packed == Msg(url.v, Load(ClassOf(url.v), FieldsIn(ToWrapped(x))))
      fields(m) == IF m.cls = "Sub" THEN as("Sub", m).dict ELSE Name(V) :> ToWrapped(m)
  IN CASE t = "int64"                     -> Str(x.v)
       [] t \in {"double", "DoubleValue"} -> IF x.v \in Specials THEN Str(x.v) ELSE x
       [] t = "bytes"                     -> Py("b64", x.v)
       [] t = "enum"                      ->
            IF x.v \in DOMAIN names THEN Name(names[x.v]) ELSE Py("int", x.v)
       [] t \in {"Struct", "ListValue"}   ->
            Mapped(json, x.attrs[IF t = "Struct" THEN <<"fields">> ELSE <<"values">>])
       [] t = "Value"     -> CASE kind = <<"null_value">>   -> None
                               [] kind = <<"list_value">>   -> as("ListValue", x.attrs[kind])
                               [] kind = <<"struct_value">> -> as("Struct", x.attrs[kind])
                               [] OTHER                     -> x.attrs[kind]
       [] t = "Sub"       -> Dict(IF x.attrs[<<"a">>] = Py("int", "0") THEN <<>>
                                  ELSE Name(<<"a">>) :> x.attrs[<<"a">>])
       [] t = "Any"       -> Dict((Name(<<"@type">>) :> url) @@ fields(packed))
       [] OTHER           -> x

CanonicalField(i, names) ==
  LET json(y) == Canonical(declared[i].type, names, y)
  IN IF Is("list", content[i]) \/ Is("dict", content[i])
     THEN ThroughText(Mapped(json, content[i])) ELSE json(content[i])

\* Where the JSON form is not the canonical one, as the code is: Int64Value and
\* UInt64Value are numbers, the special values of FloatValue and DoubleValue are not
\* strings, and BytesValue has no JSON form.
NotCanonical(i) ==
  LET t == declared[i].type
  IN \/ t \in {"Int64Value", "UInt64Value"} /\ ItemsIn(i) # {}
     \/ t \in {"FloatValue", "DoubleValue"} /\ \E x \in ItemsIn(i) : x.v \in Specials
     \/ LostAs(i, hop)

\* to_json writes the canonical JSON form, so that other implementations can read it:
\* fields under their JSON names, left out when they have no presence and are zero,
\* 64-bit numbers as strings, bytes in base64, enums by names in the .proto file, the
\* messages of the library in their special forms.
JsonIsCanonical ==
  /\ place = "written" /\ hop.via = "text" /\ hop.casing = "CAMEL" /\ ~hop.defaults
  /\ \A i \in DOMAIN declared : ~NotCanonical(i)
  => LET absent(i) == \/ content[i] \in {None, List(<<>>), Dict(<<>>)}
                      \/ declared[i].decl = "singular" /\ Falsy(content[i])
                         /\ declared[i].type \in Scalars
         present == {i \in DOMAIN declared : ~absent(i)}
         key(i) == Name(JsonName(declared[i].name))
     IN /\ Is("dict", data) /\ DOMAIN data.dict = {key(i) : i \in present}
        /\ \A i \in present : \E names \in NamesOf(declared[i].enum) :
             data.dict[key(i)] = CanonicalField(i, names)
=============================================================================
