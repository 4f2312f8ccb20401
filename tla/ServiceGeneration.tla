------------------------- MODULE ServiceGeneration -------------------------
(***************************************************************************)
(* The services of a package, from the options of the plugin to a call:    *)
(* get_settings reads the options (parser.py, settings.py), the templates  *)
(* render a stub and a base class for each service and the header imports  *)
(* what they need (models.py, templates), ModuleValidator looks for names  *)
(* that are bound twice (module_validation.py), Python imports the module, *)
(* and a method of a stub calls the method of a server by its route.       *)
(*                                                                         *)
(* The name of a message or a service is a sequence of words and "_"; the  *)
(* name of a method is spelled out, as in Casing.  The services of a file  *)
(* are in the order of their names, in which the template visits them.     *)
(***************************************************************************)
EXTENDS Casing, Naturals, Sequences, FiniteSets, SequencesExt, FiniteSetsExt

CONSTANTS Options,     \* lists of options of the plugin, as pairs <<key, value>>
          Files,       \* declarations: [messages, services] of one package
          Attributes   \* what __init__ sets on a stub, by transport: channel, timeout, ...

\* Options are in the order in which they are given.
ASSUME OptionsAssumption == \A o \in Options : o \in Seq(ToSet(o))

Name == Seq(STRING)

AnyType    == [other : BOOLEAN, name : Name, alias : Name]
AnyMessage == [name : Name, oneofs : BOOLEAN]
AnyMethod  == [name : Name, client_streaming : BOOLEAN, server_streaming : BOOLEAN,
               input : AnyType, output : AnyType]
AnyService == [name : Name, methods : Seq(AnyMethod)]

VARIABLES options, file,
          settings,    \* of the plugin
          text,        \* the lines of the generated module
          response,    \* the other files that the plugin writes
          reported,    \* the names that the validator complains about
          namespace,   \* what the names of the imported module are bound to
          server,      \* the routes of the running server, and what its user has written
          call,        \* the last call, and what has become of it
          place        \* "options", "settings", "rendered", "validated", "imported",
                       \* "serving", "called", or "invalid"

vars == <<options, file, settings, text, response, reported, namespace, server, call, place>>

-----------------------------------------------------------------------------
(************************** settings.py, get_settings **********************)

Transports == {"grpclib", "grpcio"}

Values == [client_generation |-> {"none", "sync", "async", "sync_async", "async_sync",
                                   "sync_async_no_default"},
            client_async_transport |-> Transports,
            server_generation      |-> {"none", "async"},
            server_async_transport |-> Transports]

Defaults == [client_generation |-> "sync", client_async_transport |-> "grpclib",
             server_generation |-> "none", server_async_transport |-> "grpclib"]

Flags == {"pydantic_dataclasses", "google_protobuf_descriptors"}

Given(key) == {i \in DOMAIN options : options[i][1] = key}

\* The last one of an option counts; a value that it does not know is an error.
get_settings ==
  [key \in DOMAIN Values \cup Flags |->
     IF key \in Flags THEN Given(key) # {}
     ELSE IF Given(key) = {} THEN Defaults[key] ELSE options[Max(Given(key))][2]]

Invalid == \E key \in DOMAIN Values : \E i \in Given(key) : options[i][2] \notin Values[key]

is_sync_generated  == settings.client_generation \notin {"none", "async"}
is_async_generated == settings.client_generation \notin {"none", "sync"}
is_sync_prefixed   == settings.client_generation \in {"async_sync", "sync_async_no_default"}
is_async_prefixed  == settings.client_generation \in {"sync_async", "sync_async_no_default"}

-----------------------------------------------------------------------------
(********************************* models.py *******************************)

generates_async_client(t) == /\ file.services # <<>> /\ is_async_generated
                             /\ settings.client_async_transport = t
generates_async_server(t) == /\ file.services # <<>> /\ settings.server_generation = "async"
                             /\ settings.server_async_transport = t
generates_sync_client     == file.services # <<>> /\ is_sync_generated

\* Mutant: grpc is imported for the clients alone.
UsesGrpcioClients == generates_sync_client \/ generates_async_client("grpcio")

uses_grpcio == \/ generates_sync_client
               \/ generates_async_client("grpcio") \/ generates_async_server("grpcio")

uses_grpclib == generates_async_client("grpclib") \/ generates_async_server("grpclib")

pythonize_class_name(name) ==
  FlattenSeq([i \in DOMAIN name |-> IF name[i] = "_" THEN <<>> ELSE <<name[i]>>])
pythonize_method_name(name) == pythonize_field_name(name)

\* A type of this package is its class, one of another package is reached by an import,
\* which is remembered in imports_end.
Expression(type) == IF type.other THEN type.alias ELSE pythonize_class_name(type.name)
Types(service)   == UNION {{m.input, m.output} : m \in ToSet(service.methods)}
Imports(service) == {type.alias : type \in {t \in Types(service) : t.other}}

route(service, method) == <<service.name, method.name>>

\* The classes of a service: which of them are generated, and their names.
Stubs == {k \in {"sync"} \cup Transports :
            IF k = "sync" THEN generates_sync_client ELSE generates_async_client(k)}
Bases == {t \in Transports : generates_async_server(t)}

StubName(service, k) ==
  LET prefix == IF k = "sync" /\ is_sync_prefixed THEN <<"Sync">>
                ELSE IF k # "sync" /\ is_async_prefixed THEN <<"Async">>
                ELSE <<>>
  IN pythonize_class_name(service.name) \o prefix \o <<"Stub">>

BaseName(service) == pythonize_class_name(service.name) \o <<"Base">>

\* The modules that the plugin writes for the pools.
Pools == {<<"default_message_pool">>, <<"default_google_proto_descriptor_pool">>}

\* protoc has seen to it that the services of a package have names of their own, and so
\* have the methods of a service, and that a type of this package is one of its messages.
\* pascal_case leaves no "_" in a class, and no package is called like the module of a pool.
ASSUME FilesAssumption ==
  \A f \in Files :
    /\ f.messages \in Seq(AnyMessage) /\ f.services \in Seq(AnyService)
    /\ \A s, t \in ToSet(f.services) : s.name = t.name => s = t
    /\ \A m \in ToSet(f.messages) : pythonize_class_name(m.name) \notin Pools
    /\ \A s \in ToSet(f.services) :
         /\ \A m, n \in ToSet(s.methods) : m.name = n.name => m = n
         /\ \A type \in Types(s) :
              IF type.other THEN type.alias \notin Pools
              ELSE \E m \in ToSet(f.messages) : m.name = type.name

-----------------------------------------------------------------------------
(******************************* templates *********************************)

\* A line of the module: its form, the names in it, what they are bound to, and the names
\* that the lines of its block evaluate, and those that stand in annotations.
Line(form, names, def, evaluated, annotated) ==
  [form |-> form, names |-> names, def |-> def, evaluated |-> evaluated,
   annotated |-> annotated]

Def(kind, of) == [kind |-> kind, of |-> of]

Import(names) == Line("import", names, Def("import", <<>>), {}, {})

\* An import that does not fit into a line.
LongImport(names) ==
  <<Line("open", {}, Def("import", <<>>), {}, {}), Line("item", names, Def("import", <<>>), {}, {}),
    Line("close", {}, Def("import", <<>>), {}, {})>>

\* A class, and its body.
Block(name, def, evaluated, annotated) ==
  <<Line("class", {name}, def, evaluated, annotated),
    Line("indented", {name}, Def("body", <<>>), {}, {})>>

When(condition, names) == IF condition THEN names ELSE {}

Streams(service, side) == \E m \in ToSet(service.methods) : m[side]

\* service_stub_sync, service_stub_async_grpcio and service_stub_async_grpclib.
StubText(service, k) ==
  LET async == When(k # "sync", {<<"Async", "Iterable">>, <<"Iterable">>})
      iterator == IF k = "sync" THEN {<<"Iterator">>} ELSE {<<"Async", "Iterator">>}
      options_of == CASE k = "sync"    -> {}
                      [] k = "grpcio"  -> {<<"Metadata", "Like">>, <<"grpc">>}
                      [] k = "grpclib" -> {<<"Metadata", "Like">>, <<"Deadline">>}
  IN Block(StubName(service, k), Def(k, service),
           (IF k = "sync" THEN {<<"grpc">>} ELSE {<<"aristaproto", k>>})
             \cup {Expression(t) : t \in Types(service)},
           When(Streams(service, "client_streaming"), async \cup {<<"Iterable">>})
             \cup When(Streams(service, "server_streaming"), iterator)
             \cup When(service.methods # <<>>, options_of))

\* service_base_async_grpcio and service_base_async_grpclib.
BaseText(service, t) ==
  Block(BaseName(service), Def("base", service),
        {<<"aristaproto", t>>} \cup When(t = "grpcio", {<<"grpc">>})
          \cup When(t = "grpclib" /\ service.methods # <<>>, {<<"grpclib">>})
          \cup {Expression(u) : u \in Types(service)},
        When(Streams(service, "client_streaming") \/ Streams(service, "server_streaming"),
             {<<"Async", "Iterator">>}))

\* template.py.j2: a message, which is registered in the pool after its class.
MessageText(message) ==
  Block(pythonize_class_name(message.name), Def("message", message.name),
        {<<"dataclass">>, <<"aristaproto">>, <<"default_message_pool">>}
          \cup When(settings.google_protobuf_descriptors,
                    {<<"Descriptor">>, <<"default_google_proto_descriptor_pool">>})
          \cup When(settings.pydantic_dataclasses /\ message.oneofs, {<<"model_validator">>}),
        {})

\* The classes of a service, in the order of the template.
Chosen(condition, lines) == IF condition THEN lines ELSE <<>>

StubLines(service) ==
  Chosen("sync" \in Stubs, StubText(service, "sync"))
    \o Chosen("grpcio" \in Stubs, StubText(service, "grpcio"))
    \o Chosen("grpclib" \in Stubs, StubText(service, "grpclib"))

BaseLines(service) ==
  Chosen("grpcio" \in Bases, BaseText(service, "grpcio"))
    \o Chosen("grpclib" \in Bases, BaseText(service, "grpclib"))

\* The loop over imports_end stands between the stubs and the bases, and writes what has
\* been collected by then.
Collected == IF Stubs = {} THEN {} ELSE UNION {Imports(s) : s \in ToSet(file.services)}

ImportsEnd == IF Collected = {} THEN <<>>
              ELSE IF file.long THEN LongImport(Collected) ELSE <<Import(Collected)>>

\* template.py.j2 from the messages on.
Body == FlattenSeq([i \in DOMAIN file.messages |-> MessageText(file.messages[i])])
          \o FlattenSeq([i \in DOMAIN file.services |-> StubLines(file.services[i])])
          \o ImportsEnd
          \o FlattenSeq([i \in DOMAIN file.services |-> BaseLines(file.services[i])])

\* header.py.j2.
HeaderNames ==
  {<<"re">>, <<"builtins">>, <<"TYPE_CHECKING">>, <<"datetime">>, <<"warnings">>, <<"typing">>,
   <<"Async", "Iterable">>, <<"Async", "Iterator">>, <<"Iterable">>, <<"Iterator">>,
   <<"Self">>, <<"dataclass">>,
   <<"aristaproto">>, <<"Descriptor">>, <<"Enum", "Descriptor">>, <<"default_message_pool">>}
    \cup When(settings.pydantic_dataclasses, {<<"pydantic">>, <<"model_validator">>})
    \cup When(settings.google_protobuf_descriptors, {<<"default_google_proto_descriptor_pool">>})
    \cup When(uses_grpcio, {<<"grpc">>}) \cup When(uses_grpclib, {<<"grpclib">>})
    \cup {<<"aristaproto", t>> : t \in {u \in Transports : generates_async_client(u)
                                                       \/ generates_async_server(u)}}

TypeCheckingNames ==
  When(\E t \in Transports : generates_async_client(t), {<<"Metadata", "Like">>})
    \cup When(generates_async_client("grpclib"), {<<"Deadline">>})

Header(kept) ==
  <<Line("assign", {<<"__all__">>}, Def("value", <<>>), {}, {}), Import(kept),
    Line("indented", TypeCheckingNames, Def("checking", <<>>), {}, {}),
    Line("assign", {<<"_COMPILER_VERSION">>}, Def("value", <<>>), {}, {})>>

Evaluated(lines) == UNION {l.evaluated : l \in ToSet(lines)}
Annotated(lines) == UNION {l.annotated : l \in ToSet(lines)}

-----------------------------------------------------------------------------
(*************************** module_validation.py **************************)

Tracked == {"import", "item", "class", "assign"}

\* Mutant: an indented line is skipped within an import, too.
NextByIndent(s, line) ==
  [inside |-> FALSE,
   names |-> Append(s.names, When(line.form \in Tracked \ {"item"}, line.names))]

\* ModuleValidator.next, with evaluate_multiline_import: an indented line is skipped,
\* unless it belongs to an import that has been opened.
NextLine(s, line) ==
  [inside |-> line.form = "open" \/ (s.inside /\ line.form # "close"),
   names |-> Append(s.names, When(line.form \in Tracked /\ (line.form = "item" => s.inside),
                                  line.names))]

\* The names with more than one line; read[i] is what i lines leave behind.
validate(lines) ==
  LET read[i \in 0 .. Len(lines)] ==
        IF i = 0 THEN [inside |-> FALSE, names |-> <<>>] ELSE NextLine(read[i - 1], lines[i])
      found == read[Len(lines)].names
  IN {n \in UNION ToSet(found) : Cardinality({i \in DOMAIN found : n \in found[i]}) > 1}

-----------------------------------------------------------------------------
(*********************** the module in use, and a call *********************)

\* Python: a line binds its names, unless it is in a class or only there for type checkers.
Binds(line) == line.form # "indented"

Namespace(lines) ==
  LET bound == UNION {l.names : l \in {k \in ToSet(lines) : Binds(k)}}
      last(n) == Max({i \in DOMAIN lines : Binds(lines[i]) /\ n \in lines[i].names})
  IN [n \in bound |-> lines[last(n)].def]

\* The kind of call, as the stubs choose it, and as the bases do.
StubCardinality(m) ==
  IF m.server_streaming THEN IF m.client_streaming THEN "stream_stream" ELSE "unary_stream"
  ELSE IF m.client_streaming THEN "stream_unary" ELSE "unary_unary"

\* Mutant: the bases mix up which side streams.
BaseSwapped(m) ==
  IF ~m.client_streaming /\ ~m.server_streaming THEN "unary_unary"
  ELSE IF m.client_streaming /\ ~m.server_streaming THEN "unary_stream"
  ELSE IF ~m.client_streaming /\ m.server_streaming THEN "stream_unary"
  ELSE "stream_stream"

BaseCardinality(m) ==
  IF ~m.client_streaming /\ ~m.server_streaming THEN "unary_unary"
  ELSE IF ~m.client_streaming /\ m.server_streaming THEN "unary_stream"
  ELSE IF m.client_streaming /\ ~m.server_streaming THEN "stream_unary"
  ELSE "stream_stream"

\* The methods of a class: a later one of the same name takes the place of an earlier one.
LastNamed(service, pyname) ==
  service.methods[Max({i \in DOMAIN service.methods :
                         pythonize_method_name(service.methods[i].name) = pyname})]

PyNames(service) == {pythonize_method_name(m.name) : m \in ToSet(service.methods)}

\* __mapping__ and _grpcio_rpc_handler: handlers by route.  The handler of a method is
\* found by its Python name; with grpclib that is the __rpc_ method of that name.
Mapping(service, t) ==
  [r \in {route(service, m) : m \in ToSet(service.methods)} |->
     LET m == CHOOSE m \in ToSet(service.methods) : route(service, m) = r
         pyname == pythonize_method_name(m.name)
         own == IF t = "grpclib" THEN LastNamed(service, pyname) ELSE m
     IN [pyname |-> pyname, cardinality |-> BaseCardinality(m),
         works |-> BaseCardinality(own) = BaseCardinality(m)]]

\* gRPC on the server: the handler of a route.
Dispatched(r, cardinality) ==
  LET known == r \in DOMAIN server.mapping
      handler == server.mapping[r]
  IN IF ~known \/ handler.pyname \notin server.written THEN Def("unimplemented", <<>>)
     ELSE IF handler.cardinality # cardinality \/ ~handler.works THEN Def("broken", <<>>)
     ELSE Def("answered", <<r, handler.pyname>>)

\* stub.method(...): the attributes of an object come before the methods of its class.
Outcome(class, pyname) ==
  IF class.kind \notin {"sync"} \cup Transports THEN Def("broken", <<>>)
  ELSE IF class.kind # "sync" /\ pyname \in Attributes[class.kind] THEN Def("broken", <<>>)
  ELSE IF pyname \notin PyNames(class.of) THEN Def("broken", <<>>)
  ELSE LET m == LastNamed(class.of, pyname) IN Dispatched(route(class.of, m), StubCardinality(m))

-----------------------------------------------------------------------------
Nothing == Def("none", <<>>)

Init ==
  /\ options \in Options /\ file \in Files
  /\ settings = Defaults /\ text = <<>> /\ response = {} /\ reported = {}
  /\ namespace = <<>> /\ server = Nothing /\ call = Nothing /\ place = "options"

ReadOptions ==
  /\ place = "options"
  /\ place' = IF Invalid THEN "invalid" ELSE "settings"
  /\ settings' = IF Invalid THEN settings ELSE get_settings
  /\ UNCHANGED <<options, file, text, response, reported, namespace, server, call>>

\* outputfile_compiler, and the files next to the package.  ruff removes the imports that
\* nothing uses; whether it sees that one is hidden by a class is left open.
Render ==
  /\ place = "settings"
  /\ \E keep \in BOOLEAN :
       text' = Header(IF keep THEN HeaderNames
                      ELSE HeaderNames \cap (Evaluated(Body) \cup Annotated(Body))) \o Body
  /\ response' = {"default_message_pool"}
                 \cup When(settings.google_protobuf_descriptors,
                           {"default_google_proto_descriptor_pool"})
  /\ place' = "rendered"
  /\ UNCHANGED <<options, file, settings, reported, namespace, server, call>>

Validate ==
  /\ place = "rendered" /\ place' = "validated"
  /\ reported' = validate(text)
  /\ UNCHANGED <<options, file, settings, text, response, namespace, server, call>>

ImportModule ==
  /\ place = "validated" /\ place' = "imported"
  /\ namespace' = Namespace(text)
  /\ UNCHANGED <<options, file, settings, text, response, reported, server, call>>

\* A server of the service, with the base class of either transport, perhaps generated
\* elsewhere; its user has written some of the methods.
Serve(i, t) ==
  /\ place = "imported" /\ place' = "serving"
  /\ \E written \in SUBSET PyNames(file.services[i]) :
       server' = [mapping |-> Mapping(file.services[i], t), written |-> written]
  /\ UNCHANGED <<options, file, settings, text, response, reported, namespace, call>>

\* A program that knows the .proto file takes the stub of a service and calls a method.
\* Calls leave nothing behind, so one is as good as many.
Call(i, k, m) ==
  /\ place = "serving" /\ k \in Stubs /\ m \in ToSet(file.services[i].methods)
  /\ route(file.services[i], m) \in DOMAIN server.mapping
  /\ call' = [service |-> i, kind |-> k, method |-> m,
              outcome |-> Outcome(namespace[StubName(file.services[i], k)],
                                  pythonize_method_name(m.name))]
  /\ place' = "called"
  /\ UNCHANGED <<options, file, settings, text, response, reported, namespace, server>>

Next == \/ ReadOptions
        \/ Render
        \/ Validate
        \/ ImportModule
        \/ \E i \in DOMAIN file.services, t \in Transports : Serve(i, t)
        \/ \E i \in DOMAIN file.services, k \in {"sync"} \cup Transports :
             \E m \in ToSet(file.services[i].methods) : Call(i, k, m)

Spec == Init /\ [][Next]_vars

-----------------------------------------------------------------------------
\* The last method of its Python name, and none that an attribute of the stub hides.
Reachable(service, k, m) ==
  /\ LastNamed(service, pythonize_method_name(m.name)) = m
  /\ k # "sync" => pythonize_method_name(m.name) \notin Attributes[k]

\* A method of a generated stub is answered by the method that the .proto file declares,
\* with its kind of streaming and under its Python name, at whatever server has that
\* service, and is told that a method is unimplemented when the user of the server has not
\* written it.  (Stubs and servers write the route itself in one way.)  As the code is, this
\* fails for a method with the name of an attribute of an asynchronous stub, like Timeout,
\* and for all but the last of the methods with one Python name, which nothing reports.
\* (service_stub_*.j2, service_base_*.j2, ServiceMethodCompiler.route.)
RoutesMeet ==
  place = "called" /\ reported = {} =>
    LET service == file.services[call.service]
        pyname == pythonize_method_name(call.method.name)
        expected == IF pyname \in server.written
                    THEN Def("answered", <<route(service, call.method), pyname>>)
                    ELSE Def("unimplemented", <<>>)
    IN Reachable(service, call.kind, call.method) => call.outcome = expected

\* Under every setting, a module whose names do not collide binds what its code evaluates,
\* imports for type checkers what only its annotations need, and imports the pools from
\* files that the plugin writes.  As the code is, types of other packages are missing when
\* only servers are generated.  (header.py.j2, uses_grpcio and its like in models.py.)
NamesImported ==
  place = "imported" /\ reported = {} =>
    LET foreign == UNION {Imports(s) : s \in ToSet(file.services)}
        missing == Evaluated(text) \ DOMAIN namespace
    IN /\ missing \subseteq When(Stubs = {}, foreign)
       /\ Annotated(text) \subseteq DOMAIN namespace \cup TypeCheckingNames
       /\ Pools \cap DOMAIN namespace \subseteq {<<f>> : f \in response}

\* The plugin warns of a name when two lines of the module bind it, and else stays silent:
\* then each class has the name it is declared with, in every mode of generation.  The
\* classes of one service never collide with each other.
\* (compiler.py: "Generated code has collisions in the module".)
CollisionsReported ==
  place = "imported" =>
    /\ reported = {n \in DOMAIN namespace :
                     Cardinality({i \in DOMAIN text : Binds(text[i]) /\ n \in text[i].names}) > 1}
    /\ reported = {} =>
         \A s \in ToSet(file.services) :
           /\ \A k \in Stubs : namespace[StubName(s, k)] = Def(k, s)
           /\ Bases # {} => namespace[BaseName(s)] = Def("base", s)
    /\ \A s \in ToSet(file.services) :
         Cardinality({StubName(s, k) : k \in Stubs} \ {BaseName(s)}) = Cardinality(Stubs)
=============================================================================
