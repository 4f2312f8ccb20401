------------------------- MODULE MessageCompilation -------------------------
(***************************************************************************)
(* From the fields of a message in a .proto file to the class that Python  *)
(* makes of the generated code: what protoc says of each field             *)
(* (descriptor.proto), how read_protobuf_type sorts the fields into        *)
(* FieldCompiler, OneOfFieldCompiler and MapEntryCompiler (plugin/parser.py*)
(* and plugin/models.py), and the metadata that the calls of               *)
(* aristaproto.field in the generated class leave behind.                  *)
(***************************************************************************)
EXTENDS Casing, PythonValues, Naturals, Sequences, SequencesExt, FiniteSetsExt

\* The other types of numbers differ from these in their encoding alone.
Scalars  == {"int32", "int64", "bool", "string", "bytes", "double", "enum"}
Wrappers == {"Int32Value", "UInt32Value", "Int64Value", "UInt64Value", "FloatValue",
             "DoubleValue", "BoolValue", "StringValue", "BytesValue"}
Messages == Wrappers \cup {"Sub", "Struct", "Value", "ListValue", "Any"}

FieldType(t) == IF t \in Scalars THEN t ELSE "message"

Choice == "choice"  \* the name of the oneof
Nil    == 0         \* no oneof_index

-----------------------------------------------------------------------------
\* What protoc makes of a declared message: a sequence of fields, each with a name, the
\* way it is declared ("singular", "optional", "repeated", "map" or "oneof"), the type of
\* its value, the type of its keys, and the values of its enum.

\* The name of the entry message of a map field is the field's in CamelCase, and "Entry".
EntryStem(name) ==
  LET upper(i) == /\ i = 1 \/ name[i - 1] = "_"
                  /\ name[i] \in Lowers
      char(i) == IF name[i] = "_" THEN <<>>
                 ELSE <<IF upper(i) THEN UpperOf[name[i]] ELSE name[i]>>
  IN FlattenSeq([i \in DOMAIN name |-> char(i)])

\* The oneofs of the message: the real one, then a synthetic one for each optional field.
OneofDecl(declared) ==
  (IF \E i \in DOMAIN declared : declared[i].decl = "oneof" THEN <<Choice>> ELSE <<>>)
    \o [k \in 1 .. Cardinality({i \in DOMAIN declared : declared[i].decl = "optional"}) |->
         "synthetic"]

OneofIndex(declared, i) ==
  LET upTo == {j \in 1 .. i : declared[j].decl = "optional"}
      real == {k \in DOMAIN OneofDecl(declared) : OneofDecl(declared)[k] = Choice}
  IN CASE declared[i].decl = "oneof"    -> 1
       [] declared[i].decl = "optional" -> Cardinality(real) + Cardinality(upTo)
       [] OTHER                         -> Nil

Label(f) == IF f.decl \in {"repeated", "map"} THEN "REPEATED" ELSE "OPTIONAL"

FieldDescriptor(declared, i) ==
  LET f == declared[i]
  IN [number |-> i, name |-> f.name, enum |-> f.enum,
      label |-> Label(f),
      type |-> IF f.decl = "map" THEN "message" ELSE FieldType(f.type),
      type_name |-> IF f.decl = "map" THEN [entry |-> TRUE, stem |-> EntryStem(f.name)]
                    ELSE [entry |-> FALSE, stem |-> f.type],
      oneof_index |-> OneofIndex(declared, i),
      proto3_optional |-> f.decl = "optional"]

\* The entries are messages within the message.
NestedTypes(declared) ==
  LET maps == SelectSeq([i \in DOMAIN declared |-> i], LAMBDA i : declared[i].decl = "map")
      entry(i) == [stem |-> EntryStem(declared[i].name), key |-> declared[i].key,
                   value |-> declared[i].type, enum |-> declared[i].enum]
  IN [k \in DOMAIN maps |-> entry(maps[k])]

DescriptorProto(declared) ==
  [field       |-> [i \in DOMAIN declared |-> FieldDescriptor(declared, i)],
   nested_type |-> NestedTypes(declared),
   oneof_decl  |-> OneofDecl(declared)]

-----------------------------------------------------------------------------
\* The values of an enum: EnumDefinitionCompiler removes the name of the enum from the
\* names of its values when all begin with it.  An enum is its name, and the names
\* and numbers of its values.

EnumPrefix(enum) ==
  LET first == enum.values[1]
      ends == {i \in DOMAIN first : Reduced(SubSeq(first, 1, i)) = Reduced(enum.name)}
  IN IF ends = {} THEN <<>> ELSE SubSeq(first, 1, Min(ends)) \o <<"_">>

MemberNames(enum) ==
  LET prefix == EnumPrefix(enum)
      all == \A n \in DOMAIN enum.values : IsPrefix(prefix, enum.values[n])
      short(s) == IF all THEN SubSeq(s, Len(prefix) + 1, Len(s)) ELSE s
  IN [n \in DOMAIN enum.values |-> sanitize_name(short(enum.values[n]))]

\* The members of the class with their numbers, of which two may be alike, and with the
\* names they had before they were renamed.
EnumMembers(enum) ==
  LET names == MemberNames(enum)
  IN [n \in DOMAIN names |->
        [name |-> names[n], value |-> Py("enum", ToString(enum.numbers[n])),
         proto_name |-> IF names[n] # enum.values[n] THEN enum.values[n] ELSE <<>>]]

-----------------------------------------------------------------------------
is_map(f, message) ==
  /\ f.type = "message" /\ f.type_name.entry
  /\ Lower(f.type_name.stem) = Reduced(f.name)
  /\ \E n \in DOMAIN message.nested_type : Reduced(message.nested_type[n].stem) = Reduced(f.name)

\* Mutant: the synthetic oneof of an optional field is taken for a real one.
IsAnyOneof(f) == f.oneof_index # Nil

is_oneof(f) == ~f.proto3_optional /\ f.oneof_index # Nil

\* The class that read_protobuf_type chooses for a field.
Compiler(f, message) == IF is_map(f, message) THEN "MapEntryCompiler"
                        ELSE IF is_oneof(f) THEN "OneOfFieldCompiler"
                        ELSE "FieldCompiler"

\* The oneofs in the docstring of the class: those that are not synthetic.
DocumentedOneofs(message) ==
  {o \in DOMAIN message.oneof_decl :
     \E i \in DOMAIN message.field : /\ message.field[i].oneof_index = o
                                     /\ ~message.field[i].proto3_optional}

-----------------------------------------------------------------------------
\* The metadata of a field of the generated class.

\* A value of type t: its wire type, its class, whether it is unwrapped to a Python value.
Item(t, members) ==
  [type |-> FieldType(t), cls |-> t, unwrap |-> t \in Wrappers,
   members |-> members]

Zero(item) == CASE item.type \in {"int32", "int64"} -> Py("int", "0")
                [] item.type = "double"  -> Py("float", "0")
                [] item.type = "bool"    -> Py("bool", "False")
                [] item.type = "string"  -> Str("")
                [] item.type = "bytes"   -> Py("bytes", "")
                [] item.type = "enum"    -> Py("enum", "0")
                [] item.type = "message" -> None

\* aristaproto.field: what __init__ gives to a field that it gets no value for.
DefaultOf(container, optional, group, item) ==
  IF container = "list" THEN List(<<>>)
  ELSE IF optional \/ group # "" THEN None
  ELSE IF container = "dict" THEN Dict(<<>>)
  ELSE Zero(item)

field(number, container, key, item, optional, group) ==
  [number |-> number, container |-> container, key |-> key, item |-> item,
   optional |-> optional, group |-> group,
   default |-> DefaultOf(container, optional, group, item)]

\* MapEntryCompiler.ready takes the first nested message with the name of the entry.
EntryOf(f, message) ==
  message.nested_type[Min({n \in DOMAIN message.nested_type :
                             Reduced(message.nested_type[n].stem) = Reduced(f.name)})]

\* FieldCompiler.optional.
Optional(f) == f.proto3_optional \/ (f.type = "message" /\ f.label # "REPEATED")

\* get_field_string of the three classes, as Python evaluates it.
Metadata(f, message) ==
  LET compiler == Compiler(f, message)
      entry == EntryOf(f, message)
      members(t, enum) == IF t = "enum" THEN EnumMembers(enum) ELSE <<>>
      item == Item(f.type_name.stem, members(f.type_name.stem, f.enum))
  IN IF compiler = "MapEntryCompiler"
     THEN field(f.number, "dict", entry.key, Item(entry.value, members(entry.value, entry.enum)),
               FALSE, "")
     ELSE IF compiler = "OneOfFieldCompiler"
     THEN field(f.number, "one", "", item, TRUE, message.oneof_decl[f.oneof_index])
     ELSE IF f.label = "REPEATED" THEN field(f.number, "list", "", item, FALSE, "")
     ELSE field(f.number, "one", "", item, Optional(f), "")

\* The generated class: its fields by their Python names.  A later field of the same name
\* takes the place of an earlier one.
Class(message) ==
  LET pyname(i) == pythonize_field_name(message.field[i].name)
      last(n) == Max({i \in DOMAIN message.field : pyname(i) = n})
  IN [n \in {pyname(i) : i \in DOMAIN message.field} |->
        Metadata(message.field[last(n)], message)]
=============================================================================
