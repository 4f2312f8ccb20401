--------------------------- MODULE CodeGeneration ---------------------------
(***************************************************************************)
(* The compiler plugin: generate_code reads a request of protoc, gathers   *)
(* its files by package, reads the types of all of them, and renders one   *)
(* Python module per package (parser.py, models.py, importing.py and the   *)
(* templates).  Rendering a package changes only its own set of imports,   *)
(* so the model follows the rendering of one package, request.package,     *)
(* while the others are gathered, read and written next to it.             *)
(*                                                                         *)
(* A word of a name is a sequence of atoms: foo_bar is                     *)
(* <<"foo", "_", "bar">> and fooBar is <<"foo", "Bar">>.  (A digit after a *)
(* capital, where snake_case puts an underscore too, is in no word.)  A    *)
(* package, and the name of a (nested) type within its package, is a       *)
(* sequence of words.                                                      *)
(* An import is one `from` statement:                                      *)
(*     [up |-> number of dots, path, name, alias].                         *)
(***************************************************************************)
EXTENDS Integers, Sequences, FiniteSets, SequencesExt

CONSTANTS
  Packages,     \* packages of the request, <<>> being the package without a name
  Objects,      \* names of types in their package
  Lower,        \* function from the capitalised atoms to their lower case
  Keywords,     \* words that are Python keywords
  HeaderNames,  \* names that the header of every generated module binds
  Settings,     \* pairs <<clients are generated, servers are generated>>
  MaxTypes,     \* bound on the types of a request
  MaxUses       \* bound on the uses of a type in the followed package

Underscore == "_"

Words == UNION {Range(name) : name \in Packages \cup Objects}

Atoms == {Underscore} \cup DOMAIN Lower \cup Range(Lower)
           \cup UNION {Range(word) : word \in Words}

(* Names are sequences of words, and a type has a name.  An underscore has *)
(* no case.                                                                *)
ASSUME NamesAssumption ==
  /\ Packages \subseteq Seq(Words) /\ Objects \subseteq Seq(Words) \ {<<>>}
  /\ Words \subseteq Seq(Atoms)
  /\ Underscore \notin DOMAIN Lower /\ Underscore \notin Range(Lower)

VARIABLES
  request,      \* what protoc sends, and the plugin's options
  step,         \* what generate_code does next
  todo,         \* files or packages the current loop has not visited
  input_files,  \* output_packages: the files of each package met so far
  messages,     \* output_packages: the types of each package read so far
  imports_end,  \* imports the followed package has needed so far
  emitted,      \* imports written into the text of its module
  references,   \* expressions written for a use of a type in that module
  response      \* modules written, as paths

vars == <<request, step, todo, input_files, messages, imports_end, emitted,
          references, response>>

(***************************** names ***************************************)

Underscores(n) == [i \in 1 .. n |-> Underscore]

Joined(words, sep) ==
  FlattenSeq([i \in DOMAIN words |-> IF i = 1 THEN words[i] ELSE sep \o words[i]])

Capital(atom) == atom \in DOMAIN Lower

Lowered(word, i) ==
  IF ~ Capital(word[i]) THEN <<word[i]>>
  ELSE IF i = 1 THEN <<Lower[word[i]]>> ELSE <<Underscore, Lower[word[i]]>>

snake_case(word) ==
  IF Contains(word, Underscore) \/ ~ \E i \in DOMAIN word : Capital(word[i]) THEN word
  ELSE FlattenSeq([i \in DOMAIN word |-> Lowered(word, i)])

safe_snake_case(word) ==
  LET snake == snake_case(word)
  IN  IF snake \in Keywords THEN Append(snake, Underscore) ELSE snake

Upper(atom) ==
  IF \E c \in DOMAIN Lower : Lower[c] = atom
  THEN CHOOSE c \in DOMAIN Lower : Lower[c] = atom
  ELSE atom

pythonize_class_name(object) ==
  LET atoms == FlattenSeq(object)
  IN  FlattenSeq([i \in DOMAIN atoms |->
                    IF atoms[i] = Underscore THEN <<>> ELSE <<Upper(atoms[i])>>])

(* Packages and names that absolute type names split into.                 *)
Splits(name) ==
  {[package |-> SubSeq(name, 1, i), object |-> SubSeq(name, i + 1, Len(name))] :
     i \in 0 .. Len(name) - 1}

parse_source_type_name(name) ==
  {d \in Splits(name) : /\ d.package \in DOMAIN messages
                        /\ d.object \in messages[d.package]}

(*************************** references ************************************)

(* An expression for a type: a class of the module, or a class of the      *)
(* module bound to a name.                                                 *)
Class(name) == [global |-> name, class |-> <<>>]
Attribute(alias, class) == [global |-> alias, class |-> class]

reference_sibling(type) == [import |-> {}, expression |-> Class(type)]

reference_descendent(current, source, type) ==
  LET below == SubSeq(source, Len(current) + 1, Len(source))
      alias == Joined(below, <<Underscore>>)
  IN  [import |-> {[up |-> 1, path |-> Front(below), name |-> Last(below),
                    alias |-> alias]},
       expression |-> Attribute(alias, type)]

(* Mutant: an ancestor gets one underscore per level, as a cousin does.    *)
AncestorLikeCousin(current, source, type) ==
  LET distance_up == Len(current) - Len(source)
      alias == Underscores(distance_up) \o (IF source = <<>> THEN type ELSE Last(source))
                 \o Underscores(2)
  IN  IF source = <<>>
      THEN [import |-> {[up |-> distance_up + 1, path |-> <<>>, name |-> type,
                         alias |-> alias]},
            expression |-> Class(alias)]
      ELSE [import |-> {[up |-> distance_up + 2, path |-> <<>>,
                         name |-> Last(source), alias |-> alias]},
            expression |-> Attribute(alias, type)]

reference_ancestor(current, source, type) ==
  LET distance_up == Len(current) - Len(source)
      alias == IF source = <<>>
               THEN Underscores(distance_up) \o type \o Underscores(2)
               ELSE Underscores(distance_up + 1) \o Last(source) \o Underscores(2)
  IN  IF source = <<>>
      THEN [import |-> {[up |-> distance_up + 1, path |-> <<>>, name |-> type,
                         alias |-> alias]},
            expression |-> Class(alias)]
      ELSE [import |-> {[up |-> distance_up + 2, path |-> <<>>,
                         name |-> Last(source), alias |-> alias]},
            expression |-> Attribute(alias, type)]

reference_cousin(current, source, type) ==
  LET shared_ancestry == LongestCommonPrefix({current, source})
      distance_up == Len(current) - Len(shared_ancestry)
      below == SubSeq(source, Len(shared_ancestry) + 1, Len(source))
      safe  == [i \in DOMAIN below |-> safe_snake_case(below[i])]
      alias == Underscores(distance_up) \o Joined(safe, Underscores(2)) \o Underscores(2)
  IN  [import |-> {[up |-> distance_up + 1, path |-> Front(below),
                    name |-> Last(below), alias |-> alias]},
       expression |-> Attribute(alias, type)]

get_symbol_reference(current, source, type) ==
  IF source = current THEN reference_sibling(type)
  ELSE IF IsPrefix(current, source) THEN reference_descendent(current, source, type)
  ELSE IF IsPrefix(source, current) THEN reference_ancestor(current, source, type)
  ELSE reference_cousin(current, source, type)

(* A wrapped field type (a Timestamp, an Int32Value) stands in the text as *)
(* a built-in type, and once more as its class, in `unwrap=lambda: ...`.   *)
get_type_reference(name) ==
  LET d == CHOOSE x \in parse_source_type_name(name) : TRUE
  IN  get_symbol_reference(request.package, d.package, pythonize_class_name(d.object))

FullName(d) == d.package \o d.object

(* Rendering text that uses the given types: the ValueError of             *)
(* parse_source_type_name ends the plugin.                                 *)
Use(types, next) ==
  IF \E d \in types : Cardinality(parse_source_type_name(FullName(d))) # 1
  THEN /\ step' = "failed"
       /\ UNCHANGED <<imports_end, references>>
  ELSE /\ step' = next
       /\ imports_end' = imports_end \cup
            UNION {get_type_reference(FullName(d)).import : d \in types}
       /\ references' = references \cup
            {[type |-> d, expression |-> get_type_reference(FullName(d)).expression] :
               d \in types}

(*************************** generate_code *********************************)

Definitions == [package : Packages, object : Objects]

(* What protoc accepts: names are unique, none is a type and a package, a  *)
(* nested type has its parent, and a type that is used is defined.         *)
Accepted(r) ==
  /\ \A d, e \in r.types : FullName(d) = FullName(e) => d = e
  /\ \A d \in r.types :
       /\ ~ IsPrefix(FullName(d), r.package)
       /\ \A e \in r.types : ~ IsPrefix(FullName(d), e.package)
       /\ Len(d.object) > 1 => [d EXCEPT !.object = Front(@)] \in r.types

Requests ==
  {r \in UNION {[package : Packages, types : {types},
                 fields : SUBSET types, methods : SUBSET types, settings : Settings] :
                  types \in UNION {kSubset(n, Definitions) : n \in 1 .. MaxTypes}} :
     Accepted(r) /\ Cardinality(r.fields) + Cardinality(r.methods) <= MaxUses}

(* The files of a request: every type in a file of its own, so that the    *)
(* files of a package are gathered, and one for the followed package.      *)
(* (The messages and services of the latter, whose fields and methods use  *)
(* the types, are used by nothing and left out.)                           *)
Files == {[package |-> d.package, objects |-> {d.object}] : d \in request.types}
           \cup {[package |-> request.package, objects |-> {}]}

Init ==
  /\ request \in Requests
  /\ step = "gather"
  /\ todo = Files
  /\ input_files = <<>>
  /\ messages = <<>>
  /\ imports_end = {} /\ emitted = {} /\ references = {} /\ response = {}

(* Mutant: a new output for every file.                                    *)
AlwaysNew(package) == {}

(* A new output, without files, if there is none for this package.         *)
OutputTemplate(package) ==
  IF package \in DOMAIN input_files THEN input_files[package] ELSE {}

Gather(f) ==
  /\ step = "gather" /\ f \in todo
  /\ input_files' = [p \in DOMAIN input_files \cup {f.package} |->
                       IF p = f.package THEN OutputTemplate(p) \cup {f} ELSE input_files[p]]
  /\ messages' = [p \in DOMAIN input_files' |-> {}]
  /\ todo' = IF todo = {f} THEN DOMAIN input_files' ELSE todo \ {f}
  /\ step' = IF todo = {f} THEN "read" ELSE "gather"
  /\ UNCHANGED <<request, imports_end, emitted, references, response>>

read_protobuf_type(p) ==
  /\ step = "read" /\ p \in todo
  /\ messages' = [messages EXCEPT ![p] = UNION {f.objects : f \in input_files[p]}]
  /\ todo' = todo \ {p}
  /\ step' = IF todo = {p} THEN "types" ELSE "read"
  /\ UNCHANGED <<request, input_files, imports_end, emitted, references, response>>

RenderTypes ==
  /\ step = "types"
  /\ Use(request.fields, "stubs")
  /\ UNCHANGED <<request, todo, input_files, messages, emitted, response>>

RenderStubs ==
  /\ step = "stubs"
  /\ Use(IF request.settings[1] THEN request.methods ELSE {}, "imports")
  /\ UNCHANGED <<request, todo, input_files, messages, emitted, response>>

RenderImports ==
  /\ step = "imports"
  /\ emitted' = imports_end
  /\ step' = "bases"
  /\ UNCHANGED <<request, todo, input_files, messages, imports_end, references, response>>

RenderBases ==
  /\ step = "bases"
  /\ Use(IF request.settings[2] THEN request.methods ELSE {}, "write")
  /\ UNCHANGED <<request, todo, input_files, messages, emitted, response>>

output_paths == DOMAIN input_files

(* Mutant: only the directory above a written package gets an __init__.    *)
InitFilesOneUp == {Front(p) : p \in output_paths \ {<<>>}} \ output_paths

init_files == (UNION {Prefixes(p) : p \in output_paths}) \ output_paths

Write ==
  /\ step = "write"
  /\ response' = output_paths \cup init_files
  /\ step' = "done"
  /\ UNCHANGED <<request, todo, input_files, messages, imports_end, emitted, references>>

Next ==
  \/ \E f \in todo : step = "gather" /\ Gather(f)
  \/ \E p \in todo : step = "read" /\ read_protobuf_type(p)
  \/ RenderTypes \/ RenderStubs \/ RenderImports \/ RenderBases \/ Write

Spec == Init /\ [][Next]_vars

(************************* the generated module ****************************)

(* The package in which Python looks for the name of an import.            *)
From(i) == SubSeq(request.package, 1, Len(request.package) - (i.up - 1)) \o i.path

Classes(p, name) ==
  {<<"class", p, o>> : o \in {o \in IF p \in DOMAIN messages THEN messages[p] ELSE {} :
                                pythonize_class_name(o) = name}}

(* What `from .path import name` finds: an attribute of the module, and    *)
(* otherwise a module below it.  An __init__ file without a package of the *)
(* request is empty.                                                       *)
Found(i) ==
  LET from == From(i)
  IN  IF i.name \in HeaderNames /\ from \in output_paths THEN {<<"header", i.name>>}
      ELSE IF Classes(from, i.name) # {} THEN Classes(from, i.name)
      ELSE {<<"module", m>> : m \in response \cap {Append(from, i.name)}}

(* Everything that the followed module binds to a name.                    *)
Bound(name) ==
  Classes(request.package, name)
    \cup {<<"header", h>> : h \in HeaderNames \cap {name}}
    \cup UNION {Found(i) : i \in {i \in emitted : i.alias = name}}

Denotes(expression, d) ==
  Bound(expression.global) = {IF expression.class = <<>>
                              THEN <<"class", d.package, d.object>>
                              ELSE <<"module", d.package>>}

(* Every type that the generated module uses is found in it: the name in   *)
(* the text is bound, to one thing only, and that is the module of the     *)
(* package the type was declared in, or the class itself (the functions    *)
(* reference_* with the order in which the template renders).              *)
ReferencesDenote ==
  step = "done" => \A r \in references : Denotes(r.expression, r.type)

(* Under which names, and settings, that is true of the code.  The words   *)
(* of packages have no underscores (joined by one, they could not be told  *)
(* apart), no two are alike in snake case, and none is like a class.       *)
(* Types have classes of their own.  A name that the header binds, if it   *)
(* could be one of the request at all, is no class and no word of a        *)
(* package and has no underscore.  And where base classes are generated,   *)
(* so are stubs, which collect the imports of both.                        *)
PackageWords == UNION {Range(p) : p \in Packages}
ClassNames == {pythonize_class_name(o) : o \in Objects}

NamesApart ==
  /\ \A w \in PackageWords : /\ Len(w) > 0 /\ ~ Contains(w, Underscore)
                             /\ snake_case(w) \notin ClassNames
  /\ \A v, w \in PackageWords : v # w => snake_case(v) \notin {w, snake_case(w)}
  /\ \A o, q \in Objects : pythonize_class_name(o) = pythonize_class_name(q) => o = q
  /\ ClassNames \cap (PackageWords \cup {<<>>}) = {}
  /\ \A h \in HeaderNames : Range(h) \subseteq Atoms =>
       h \notin ClassNames \cup PackageWords /\ ~ Contains(h, Underscore)
  /\ \A s \in Settings : s[2] => s[1]

(* Python can import what the generated module imports: the package an     *)
(* import starts from, and all packages above it, are written as packages  *)
(* with an __init__ file (the end of generate_code).                       *)
ImportsWritten ==
  step = "done" => \A i \in emitted :
    /\ i.up <= Len(request.package) + 1
    /\ Prefixes(From(i)) \subseteq response

(* A request that protoc accepts is generated: no type is looked up before *)
(* the types of all files are read, however the files split the packages   *)
(* (generate_code with parse_source_type_name).                            *)
NeverFails == step # "failed"
=============================================================================
