---------------------------- MODULE PythonValues ----------------------------
(***************************************************************************)
(* The Python values that messages, dictionaries and JSON texts are made   *)
(* of.  Every value is a record whose fields tell what it is, so that      *)
(* values of all kinds can be compared.                                    *)
(***************************************************************************)
\* A value of a built-in type: int, float, bool, str, bytes, an enum member, and the
\* "b64" strings, which are what b64encode makes of bytes.  v is its text.
Py(type, v) == [py |-> type, v |-> v]
None        == Py("None", "None")
Str(v)      == Py("str", v)

\* A string that is the name of a field or of an enum value, character by character.
Name(s) == [name |-> s]

List(s) == [list |-> s]
Dict(f) == [dict |-> f]

\* Bytes that hold the fields of a message, as BinaryForm lays them out.
Bytes(fields) == IF fields = <<>> THEN Py("bytes", "") ELSE [wire |-> fields]

\* An instance of a message class: the values of its attributes.
Msg(cls, attrs) == [cls |-> cls, attrs |-> attrs]

\* What an exception leaves in the place of a value.
Raise(exception) == [raises |-> exception]

Is(kind, x) == kind \in DOMAIN x
FieldsIn(x) == IF Is("wire", x) THEN x.wire ELSE <<>>

RECURSIVE Raises(_)
Raises(x) ==
  \/ Is("raises", x)
  \/ Is("list", x)  /\ \E i \in DOMAIN x.list  : Raises(x.list[i])
  \/ Is("dict", x)  /\ \E k \in DOMAIN x.dict  : Raises(x.dict[k])
  \/ Is("attrs", x) /\ \E a \in DOMAIN x.attrs : Raises(x.attrs[a])

\* bool(x) is False.
Falsy(x) == Is("py", x) /\ x.v \in {"None", "False", "0", ""}

\* G on every item of a list and on every value of a dict, and K on every key of a dict.
Mapped(G(_), x)  == [kind \in DOMAIN x |-> [i \in DOMAIN x[kind] |-> G(x[kind][i])]]
Rekeyed(K(_), x) == Dict([k \in {K(j) : j \in DOMAIN x.dict} |->
                            x.dict[CHOOSE j \in DOMAIN x.dict : K(j) = k]])
=============================================================================
