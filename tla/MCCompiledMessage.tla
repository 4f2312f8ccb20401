------------------------- MODULE MCCompiledMessage --------------------------
(***************************************************************************)
(* Messages with one field of every type and declaration, with one field   *)
(* of every name up to MaxName, or up to two more characters in lower case,*)
(* and with two fields that share a oneof or need an entry or an optional  *)
(* oneof each.                                                             *)
(***************************************************************************)
EXTENDS CompiledMessage

CONSTANT MaxName

\* An enum whose values have its name before them, one with a value that has not, and
\* two with a second name for zero, with and without the prefix.
Enums == {[name |-> <<"A">>, values |-> <<<<"A", "_", "S">>, <<"A", "_", "1">>>>,
           numbers |-> <<0, 1>>],
          [name |-> <<"A", "S">>, values |-> <<<<"A", "_", "S", "_", "a">>, <<"S">>>>,
           numbers |-> <<0, 1>>],
          [name |-> <<"A", "S">>, values |-> <<<<"S">>, <<"a", "s">>, <<"S", "1">>>>,
           numbers |-> <<0, 1, 0>>],
          [name |-> <<"A">>, values |-> <<<<"A", "_", "S">>, <<"A", "_", "a">>,
                                          <<"A", "_", "1">>>>,
           numbers |-> <<0, 0, 1>>]}

NoEnum == [name |-> <<>>, values |-> <<>>, numbers |-> <<>>]

Field(name, decl, type, key, enum) ==
  [name |-> name, decl |-> decl, type |-> type, key |-> key, enum |-> enum]

Decls == {"singular", "optional", "repeated", "oneof"}

Keys == {"string", "int32", "int64", "bool"}

OfEveryType ==
  LET enums(t) == IF t = "enum" THEN Enums ELSE {NoEnum}
      fields(t) == {Field(<<"a", "_", "s">>, d, t, "", e) : d \in Decls, e \in enums(t)}
                   \cup {Field(<<"a", "s">>, "map", t, "string", e) : e \in enums(t)}
      keyed == {Field(<<"a", "s">>, "map", "double", k, NoEnum) : k \in Keys}
  IN {<<f>> : f \in keyed \cup UNION {fields(t) : t \in Scalars \cup Messages}}

OfEveryName ==
  LET upTo(n, chars) == {s \in UNION {[1 .. k -> chars] : k \in 1 .. n} : s[1] \notin Digits}
  IN {<<Field(s, "optional", "Int32Value", "", NoEnum)>> :
        s \in upTo(MaxName, Alphabet) \cup upTo(MaxName + 2, {"a", "1", "_"})}

OfTwoFields ==
  LET fields(s) == {Field(s, d, t, "", NoEnum) : d \in Decls, t \in {"int32", "Sub"}}
                   \cup {Field(s, "map", "int32", "string", NoEnum)}
  IN {<<f, g>> : f \in fields(<<"a", "_", "s">>), g \in fields(<<"s">>)}

MCDeclarations == OfEveryType \cup OfEveryName \cup OfTwoFields

Sub(x)    == New("Sub", <<"a">>, Py("int", x))
Value(a, x) == New("Value", a, x)
Number    == Value(<<"number_value">>, Py("float", "0"))
Null      == Value(<<"null_value">>, Py("enum", "0"))
ListOf(s) == New("ListValue", <<"values">>, List(s))
StructOf(x) == New("Struct", <<"fields">>, Dict(Str("x") :> x))
Packed(m) == Msg("Any", (<<"type_url">> :> TypeUrl(m.cls))
                        @@ (V :> Bytes(ToBytes(ClassOf(m.cls), m.attrs))))

MCItemValues(t) ==
  CASE t \in {"int32", "int64", "Int32Value", "UInt32Value", "Int64Value", "UInt64Value"} ->
         {Py("int", "0"), Py("int", "1")}
    [] t \in {"bool", "BoolValue"}     -> {Py("bool", "False"), Py("bool", "True")}
    [] t \in {"string", "StringValue"} -> {Str(""), Str("x")}
    [] t \in {"bytes", "BytesValue"}   -> {Py("bytes", ""), Py("bytes", "x")}
    [] t \in {"double", "DoubleValue", "FloatValue"} -> {Py("float", "0"), Py("float", "NaN")}
    [] t = "enum"      -> {Py("enum", "0"), Py("enum", "1"), Py("enum", "7")}
    [] t = "Sub"       -> {Sub("0"), Sub("1")}
    [] t = "Value"     -> {Null, Number, Value(<<"bool_value">>, Py("bool", "False")),
                           Value(<<"string_value">>, Str("")),
                           Value(<<"list_value">>, ListOf(<<Null, Number>>)),
                           Value(<<"struct_value">>, StructOf(Null))}
    [] t = "ListValue" -> {ListOf(<<>>), ListOf(<<Null>>)}
    [] t = "Struct"    -> {StructOf(Number), New("Struct", <<"fields">>, Dict(<<>>))}
    [] t = "Any"       -> {UnsetAny, Packed(Sub("1")),
                           Packed(FromWrapped("Int32Value", Py("int", "0")))}

MCKeyValues(t) ==
  CASE t \in {"int32", "int64"} -> {Py("int", "0"), Py("int", "1")}
    [] t = "string"             -> {Str(""), Str("x")}
    [] t = "bool"               -> {Py("bool", "False"), Py("bool", "True")}
=============================================================================
