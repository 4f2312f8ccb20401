# TLA+ models of python-aristaproto

This directory specifies the behaviour of python-aristaproto, a Protocol Buffers runtime and code
generator for Python with asynchronous gRPC clients and servers. Each module is a translation of the
code under `src/`; TLC checks it on small instances, and for the modules with a `...Proofs` companion
TLAPS proves safety properties for every value of the constants.

Paths below are relative to `src/aristaproto/src/aristaproto/` (the runtime, `RT`) and
`src/aristaproto_compiler/src/aristaproto_compiler/` (the compiler, `CP`).

## The system

| Component | State it keeps | Operations | What is hard about it |
|---|---|---|---|
| grpcio client, message source (`RT/grpcio/grpcio_async_client.py` 263-342) | the producer's iterator, `_closed`, `_close_called`, `_iterating` | `__anext__`, `aclose` | two coroutines share it, and one may arrive while the other is suspended in the user's producer |
| grpcio client, streaming calls (79-260) | a gRPC call, a sending task, a response task, a done callback | `_unary_stream`, `_stream_unary`, `_stream_stream` | errors of producer, server and consumer at the same time; cancellation at every await; clean-up that suspends |
| grpcio client, unary call (20-77, 187-194) | none | `_unary_unary`, call options | which of two values of an option counts |
| grpcio server (`RT/grpcio/grpcio_async_server.py`) | a context variable per task | four handler factories | clean-up of cancelled RPCs runs late and in another task |
| grpclib client (`RT/grpclib/grpclib_client.py`) | a stream, a sending task | the same RPC methods, `_send_messages` | nothing waits for the sending task; it is cancelled only on an exception of the response loop; the order of the status and the assertion |
| grpclib server (`RT/grpclib/grpclib_server.py`) | none | `_call_rpc_handler_server_stream` | handlers that are not asynchronous iterables |
| wire codec (`RT/__init__.py` 200-480, 865-920) | none | varints, zig-zag, fixed width, length-delimited fields | boundaries of every width; values of another type |
| delimited streams (`dump`, `load`, 740-1005) | position, bytes read, the partial message | write and read messages one after another | torn tails, unknown fields, empty messages |
| messages (`Message`) | field values, `_unknown_fields` | parse, serialize, set, copy, dictionaries | programs with different versions of one class; values that look like unset ones |
| messages as JSON (`to_dict` to `from_json`, `RT/casing.py`, `CP/casing.py`) | none | conversions, with format, casing and defaults as options | one cascade of cases for every type, container and wrapper, in four forms; two modules that split names into words |
| well-known types (`RT/nano_datetime.py`, `CP/known_types/`) | none | `Timestamp` and `Duration` to Python and back | rounding, times before 1970, negative values |
| message pool and `Any` (`RT/message_pool.py`, `CP/known_types/any.py`) | two dictionaries | register, pack, unpack | messages in messages, with a JSON form of their own or without |
| enums (`RT/enum_.py`) | a table made once | look-up by name and number | aliases, unknown numbers, members whose Python name is not the one in the .proto file |
| compiler, parsing and rendering (`CP/plugin/parser.py`, `models.py`, templates) | packages with types, services and imports | `generate_code` | order of the passes; text that collects imports while it is rendered; what protoc makes of optional and map fields |
| compiler, settings and templates (`CP/settings.py`, `CP/templates/`) | the options of the plugin | `get_settings`, one template for each stub and base class | six templates that must agree, and a header that must import what each of them needs |
| compiler, references (`CP/compile/importing.py`) | the imports of a package | references to siblings, descendants, ancestors, cousins | all aliases share one namespace |
| compiler, validation (`CP/plugin/module_validation.py`) | names with their lines | a scan of the generated text | statements of several lines, imports with an alias |

How they interact: generated modules (written by the compiler) import the runtime and one another. A
generated stub calls the client's RPC methods, which give each request to `bytes()` and each response
to `parse` of the runtime. The client's RPC method and its sending task share the message source and
the call; the call calls back when it is done. The server library iterates the handler's generator,
which iterates the helper, which iterates the service method.

`PROJECT.json` lists the components with their status, and under `hazards` each place where the code
could go wrong in a way a test would hardly reach, with the property that covers it.

## Modules

    ProducerLifecycle <-implements- MessageSource <- GrpcioStreamCall <- GrpcioStreamCallProofs
    GrpcioServer <- GrpcioServerProofs
    GrpclibStreamCall <- GrpclibStreamCallProofs
    Wire <- ScalarCodec <------- WireProofs
      ^---- DelimitedStream <----+                            (MCDelimitedStream)
                   +-implements-> MessageChannel
    MessageEvolution <- MessageEvolutionProofs                (MCMessageEvolution)
    TimeRelay <- TimeRelayProofs                              (MCTimeRelay)
    CodeGeneration <- CodeGenerationProofs                    (MCCodeGeneration)
    Casing <- MessageCompilation <- BinaryForm <- JsonForm <- CompiledMessage
      ^           |                                           (MCCompiledMessage)
      |           +-> PythonValues
      +--- ServiceGeneration <- ServiceGenerationProofs       (MCServiceGeneration)

The `MC...` modules only define sets too large for a `.cfg` file. Definitions that begin with
"Mutant:" in their comment are plausible bugs, defined beside the code they would be a bug of; no
specification uses them. They show that a property can fail: with the mutant in place of the
definition, TLC finds the property violated.

### ProducerLifecycle and MessageSource

`ProducerLifecycle` is what a request producer may rely on: it is pulled one message at a time, never
pulled again after its end, closed at most once and never while it runs. `MessageSource` is the
wrapper `_AsyncMessageSourceIterator`. Its variables `closed`, `closeCalled`, `iterating` are the
attributes of those names; `reader` and `closer` are the program counters of `__anext__` and `aclose`,
split at every await. `Anext`, `Answer`, `Settle`, `ReaderClosed` and `Take` are the segments of
`__anext__`, `Aclose` and `CloserClosed` those of `aclose`, and `CloseIterator` is `_close_iterator`.
asyncio switches coroutines only at an await; `LoopFree` says when it can. The four kinds of producer
are what the code asks about: asynchronous or not, with a close or not.

`GrpcioStreamCall` extends the module, and its run checks the promises of the message source where it is
used, for all four kinds of producer. `tlc -config MessageSource.cfg MessageSource` checks the wrapper by
itself, between a reader and a closer that do as they like. Up to two messages are enough to close before,
between and after messages; the code treats all messages alike.

### GrpcioStreamCall

The whole client call around the message source: `caller` is the position of the RPC method,
`send` that of the sending task, `call` the status of the gRPC call. Every await of
`_stream_unary`, `_stream_stream`, `_unary_stream`, `_send_request_messages`, `_write_request_message`,
`_done_writing` and `_cancel_task` ends a step, and the `finally` clause (`Finally`, `CleanupClosed`,
`Gathered`) is a sequence of steps that can be cancelled again in between. The environment is the
server (`Respond`, `CallEnds`), the producer (`ProducerAnswers`), the consumer of responses
(`ConsumerNext`, `ConsumerCloses`) and outside cancellations (`CancelCaller`).

`Task.cancel()` is a request: the flag is set, and the exception is raised where the task next runs.
`call.cancel()` by the sending task and by the clean-up are different statuses, `aborted` and
`cancelled`, so that properties can say who did it.

Bounds: two messages, one response, two cancellations (one for the body, one for the clean-up).
Fairness: the event loop resumes what is ready, grpc runs its callbacks and fails writes on a finished
call. An asynchronous producer owes no answer until a `CancelledError` is thrown into it; a server owes
none at all; a consumer may stay away for ever. The producer raises `CancelledError` only if one was
thrown into it, and a generator closed before its first step runs no code of the client. A message that
cannot be serialized makes `call.write` raise in the middle of the sending; it takes the way of an error
of the producer.

What the run shows, beside the promises of the message source: after the method exits, the sending task
is over and the producer is closed (`ExitIsClean`); the server never sees a failed or interrupted
producer as a complete one (`CleanEndMeansComplete`); `stream_unary` raises the producer's error and not
the cancellation it caused (`ProducerErrorReported`); nobody sees a `CancelledError` without a
cancellation, but for the one case that `NoSpuriousCancel` names; and three liveness properties about
the end of the sending task and of the method.

### GrpcioServer

RPCs in progress side by side, each with a service method of every kind. `var` is the context variable
in the context of each task; `Start` sets it, `Finish` resets it, and `CloseOuter`/`CloseInner` are the
late clean-up: when an RPC is cancelled while its task sends a response, the task drops the suspended
generators, and asyncio closes each in a new task that starts from a copy of the context. There
`ContextVar.reset` raises, since the token is of another context, and the copy keeps its value. This
finalisation of asynchronous generators is CPython's and asyncio's, not the repository's; the model
takes it from there. Two RPCs and two responses: an RPC could only see the context of one other, and
be cancelled before, between and after responses. Fairness: asyncio closes what was dropped, and a
method into which `CancelledError` was thrown comes to an end.

### GrpclibStreamCall

The four RPC methods of the grpclib client, with the server, the producer, the consumer and outside
cancellations around them. `caller` is the position of the RPC method and `send` that of the sending:
the method itself sends a single request, `_stream_unary` goes into `_send_messages`, and
`_stream_stream` gives it to a task (`InTask`). grpclib is external, and known from how it is used:
leaving `async with` by an exception resets the stream, leaving it otherwise waits for the status and
raises it when the call failed; a stream that was left refuses messages; a server that has ended the
call may take a message or not. `Respond` is `_call_rpc_handler_server_stream` at the other end.

What the run shows: `stream.end()` is never reached by requests that are incomplete
(`CleanEndMeansComplete`); what the method returns or raises agrees with the status, and the assertion
that a response came never hides a status (`OutcomeTellsStatus`); a response loop that was left by an
exception leaves no sending task behind (`SendingStops`); the end of the call ends the method without
waiting for the producer (`ServerEndsStream`). What it does not say, since the code does not do it:
when the response loop ends normally the sending task stays, as long as its producer waits; and in
`_stream_stream` an error of the producer is reported to nobody and does not half-close the stream,
so that a server that waits for the end of the requests waits for ever. A cancellation that arrives
while `async with` is being left is outside the `try` and does not cancel the task (outcome `cut`).

Bounds: three messages, three responses, two cancellations. A cancellation of the sending can fall
before, between and after messages, and a second one while the first is being handled. Fairness: the
event loop resumes what is ready; a producer answers only when it is a plain iterable or a
`CancelledError` was thrown into it, and may then swallow that and go on.

### Wire and ScalarCodec

`Wire` has the functions of the codec, `ScalarCodec` writes a field with one type and loads it with any
other of the same wire type. The widths are scaled down: groups of 3 bits for 7, words of 8 bits for
64, ints of 4 bits for 32. The relations that matter are kept (an int is narrower than a word; a word
is not a multiple of a group, so the last group of a varint is partly used; a negative number takes
the most groups; words and ints are whole bytes), and every value of every type, and those just
outside, is tried. `RoundTrip`: what is in the range of its type is accepted and comes back as it was;
`CastsLikeC`: read with another type of the same wire type, it is what a C cast makes of it, and a value
of that type. Which values a type has (`SizeOf`, `RangeOf`) is taken from the protobuf language and not
from the code: an enum is an int32 there, while the code cuts it to 64 bits. `CastsLikeC` therefore
leaves out enums that would have to be cut, and `EnumsAreInt32` is what a decoder owes for them, and
fails (`EnumsAreInt32.cfg`), see Findings. The theorems are about every width of whole bytes, with
7, 64 and 32 among them.

### MessageChannel and DelimitedStream

`MessageChannel` promises that each message dumped in full is loaded once, unchanged and in order.
`DelimitedStream` is `dump(delimit=True)` and `load(size=SIZE_DELIMITED)` byte for byte: `LoadOneField`
is one turn of the loop in `load`. The writer may die at any byte (`DumpTorn`). `DelimitedStream.cfg`
checks the refinement for a reader that knows every field and messages that are not empty, up to three
messages; with either condition dropped it fails, see Findings. The conditions are `Agreed`, under which
the theorems hold for any messages whose size a delimiter can express, any number of them and every
width.

### MessageEvolution

One message handed between programs with three versions of its class, where each lacks a field that
another has, and two lack a member of a oneof. `content` is a history variable: what users put in.
`NothingLost` says that whatever the route, the bytes and the object together still say the same. Fields
are without presence, with presence, repeated, and members of a oneof. Setting an attribute is all that
`Set` does to the message: the user sets the other members that the class has to `None`, as the
documentation says, and a member that the class does not have stays among the unknown fields, in
`content` too. So bytes with two members of a oneof do occur, and `load` sets both: nothing is lost, but
`OneofExclusive` fails, which is the run `oneof_grown`. Copies drop unknown fields, and `to_dict` does;
the model does so too, and takes the loss out of `content` as nothing promises otherwise. The theorems
are for any number of fields, versions and values.

### TimeRelay

A timestamp and a duration converted any number of times between bytes, JSON and Python values, copied
with their message (`DeepCopy`), and taken to other zones by the user (`InZone`). A second has 16
nanoseconds and 4 microseconds instead of 10^9 and 10^6, so that every fraction is tried;
`MaxFloatError` bounds the error, in units of a scaled nanosecond, that binary floating point adds where
the code uses floats. `NanoDatetime` overrides neither `astimezone` nor `__reduce_ex__`, so CPython
makes the datetime anew without the argument `nanosecond_remainder` (`Rebuilt`), in `astimezone` and in
the `deepcopy` of `Message.__deepcopy__`; the variable `rebuilt` remembers that it happened.
`TimestampExact` says that the conversions lose nothing, and that a datetime which was made anew is cut
to the microsecond, down, once. `NanosPreserved` is what the documentation promises, and fails:
see `NanosPreserved.cfg`. `DurationKept` says that a duration keeps its value to the microsecond, however
often it goes around. `TimestampExact` and `DurationKept` include `WellFormed`, the range that the
protobuf documentation demands of `nanos`. The theorems about this module are for Base = 1000 as well.

### CodeGeneration

`generate_code` as a sequence of passes: `Gather` (files by package), `read_protobuf_type`, the
rendering of one package in the order of the template (`RenderTypes`, `RenderStubs`, `RenderImports`,
`RenderBases`), `Write`. Rendering text that uses a type is what collects imports (`Use`). Names are
sequences of atoms so that joining with underscores, snake case and keyword renaming are done as in
the code. What protoc accepts (`Accepted`) and what Python's import statement finds (`Found`, `Bound`)
are external.

`ReferencesDenote` reads the generated module as Python would and asks that every type expression
denotes the type the .proto file names. A failure takes at most two uses, since two imports collide
or one is wrong; `CodeGeneration.cfg` therefore takes every request with two types and two uses in a
tree of seven packages: the root, three levels, packages with equal last words, and one in camel case.
It does not hold of all names and options. `NamesApart` says under which it does: words of packages have
no underscores, no two are alike in snake case (as `fooBar` and `FooBar` are) and none is like a class;
types have classes of their own; a name that the header binds is no word of a package, no class and has
no underscore, unless it has an atom that no name has; and clients are generated wherever servers are.
Three of the findings below are what happens otherwise, `ServerOnly.cfg` one of them.
`MCCodeGeneration` checks that the names of the run are apart. Words have no digits after capitals,
before which `snake_case` puts an underscore as well; `Casing` has these.

### Casing, PythonValues, MessageCompilation, BinaryForm, JsonForm and CompiledMessage

A message from its declaration to its users. `MessageCompilation` begins with what protoc says of a
declared field (`FieldDescriptor`: synthetic oneofs, entry messages of maps), goes through
`read_protobuf_type` and the three field compilers (`Compiler`, `Metadata`), and ends with the
metadata of the generated class (`Class`). Enums keep a table of their members, as
`EnumDefinitionCompiler` names them. `BinaryForm` is `__bytes__` and `load` for embedded, wrapped and
repeated messages and maps. `JsonForm` is `to_dict`, `from_dict` and text, with the classes of the
generated library that have methods of their own (`Struct`, `Value`, `ListValue`, `Any`, wrappers) and
the message pool. `Casing` has the regular expressions of the two casing modules, character by
character, since what they do is which letters they take for a word. `PythonValues` tags the values.

`CompiledMessage` composes them: `Compile`, `Construct`, `Write` (in any of thirteen ways), `Read`,
`GoOn`, as often as one likes, so that what was read is written again in another form.

- `CompiledAsDeclared`: each field is there, tells unset from zero where the declaration does, and is in
  the oneof it is declared in, whatever oneofs and entries protoc adds. Two fields whose names differ only
  in case or underscores would become one attribute; `DeclarationsAssumption` leaves them out.
- `NamesComeBack`: a field is found again under the key that was written, in either casing.
- `MessageKept`: what is read is what was written. `LostAs` lists the exceptions, see Findings; outside of
  bytes, names that the style guide of protobuf does not allow are among them.
- `JsonIsCanonical`: what `to_json` writes is what other implementations expect; `Canonical` is that
  form, written down apart from the code, and `NotCanonical` lists the exceptions. A number of an enum
  that has several names (aliases) may be written as any of them.

Bounds: one field of each of the 21 types in each declaration, with the zero value and another (and NaN,
an enum number without a member, one with two names, messages in messages); one field of each name of up
to three characters out of two letters in both cases, a digit and the underscore, and of up to five in
lower case, which is what it takes for two initials between words; two fields that compete for a oneof
or have entries and synthetic oneofs of their own; maps of up to two keys and lists of up to two items.
A field is converted without looking at the others, but for oneofs and names, so one or two are enough.

### ServiceGeneration

The services of a package from the options of the plugin to a call: `ReadOptions` (`get_settings`),
`Render` (the templates, as lines with the names they bind, evaluate or only annotate), `Validate`
(`ModuleValidator`), `ImportModule`, `Serve` (a base class of either transport, with some of the
methods overridden), `Call` (a method of a stub). ruff removes imports that nothing uses, or keeps
them; Python binds the last line of a name. `StubLines`, `ImportsEnd` and `BaseLines` are the three
parts of the template after the messages. What protoc guarantees of a file (services and methods have
names of their own, a type of the package is one of its messages) is `FilesAssumption`.

- `RoutesMeet`: the six templates agree on kinds of streaming and Python names, so that a call reaches the
  method that was declared. The text of the route is one operator for all of them, as it is one property
  of `ServiceMethodCompiler`; that stub and server agree on it is not a result.
- `NamesImported`: under every setting the header and the collected imports cover what the module
  evaluates, and the pools come from files the plugin writes.
- `CollisionsReported`: the validator reports exactly the names that two lines bind, and without such
  a name each class is the one it was declared as.

Bounds: all 48 combinations of generation and transport, with options repeated, missing and wrong, and
the flags one by one; packages with no, one or two services, up to four methods (two of them with one
Python name, one a keyword, one hidden by an attribute of the stub), and a message whose name collides
with an import, a stub or a base class. Two names are enough for a collision.

## Runs

| Run | Expectation | Question |
|---|---|---|
| grpcio_stream_call | pass | clean-up, error reports, half-close and termination of streaming calls; is the close of a producer neither lost, doubled nor early? |
| grpcio_server | pass | context, closing and termination of RPC handlers |
| grpclib_stream_call | pass | half-close, reported status and termination of calls through grpclib |
| scalar_codec | pass | is what is written what is read, for every type and value? |
| delimited_stream | pass | is a delimited stream a channel? |
| delimited_unknown | violation | the same for a reader of an older version |
| message_evolution | pass | is anything lost between versions? |
| oneof_grown | violation | is a oneof exclusive between versions that know different members? |
| compiled_message | pass | does a message survive bytes, dictionaries and JSON, and can others read it? |
| time_relay | pass | do times survive conversions? |
| code_generation | pass | does generated text mean what the .proto files say? |
| service_generation | pass | do generated stubs, servers and imports fit together under every setting? |

A run checks deadlock unless its `.cfg` says otherwise, which it does where the system may stop: a call
is over, a server owes no answer, the plugin has written its files.

## Findings

Two runs check properties that the code violates; `PROJECT.json` quotes the sentences they contradict.

- `delimited_unknown`: `load` does not count the bytes of unknown fields, so a delimited message from a
  newer writer raises or swallows the next one (`RT/__init__.py` 942).
- `oneof_grown`: bytes with two members of a oneof, which a program of an older version produces when it
  sets its member and keeps the unknown one, load with both set, and `which_one_of` raises
  (`RT/__init__.py` 979, 1319; `docs/tutorial/messages.md` 46-47; `failing_tests.txt` 143-154).

Four `.cfg` files beside the runs show further violations:

- `tlc -config EnumsAreInt32.cfg ScalarCodec`: a varint that was written with another type, or by another
  implementation, and is read as an enum is cut to 64 bits and not to 32, and becomes a number that no
  enum has (`RT/__init__.py` 869). The list of failing conformance tests has it
  (`tests/conformance/failing_tests.txt` 112, 155-158).
- `tlc -config NanosPreserved.cfg MCTimeRelay`: `deepcopy` of a message, and `astimezone` by the user, drop
  the nanoseconds of a timestamp, since CPython makes a `NanoDatetime` anew without them
  (`RT/__init__.py` 699, `RT/nano_datetime.py` 34). `docs/getting-started.md` 272-273 says "When binary or
  JSON data contains sub-microsecond precision, aristaproto preserves it by returning a
  `aristaproto.nano_datetime.NanoDatetime`".
- `tlc -config NegativeDuration.cfg MCTimeRelay`: seconds are truncated, the fraction is floored; -0.5 s
  is written as +0.5 s (`CP/known_types/duration.py` 17).
- `tlc -config ServerOnly.cfg MCCodeGeneration`: with `client_generation=none, server_generation=async`
  the imports for message types of other packages are collected after the imports were written
  (`CP/templates/template.py.j2` 135).

Exchanging one definition in a `.cfg` file shows three more:

- Empty delimited messages (`Messages <- WithEmpty`): `load` looks for the end of a message only after
  a field, so reading an empty message (size 0) takes the first field of the next.
- Underscores in package names (`Packages <- UnderscorePackages`): `reference_descendent` joins words
  with an underscore, and `a.b` and `a_b` get the same alias in a package above both.
- Packages named like a module that the header imports (`Packages <- ShadowPackages`):
  `from . import aristaproto` finds the module that the header has bound to the name.

The properties of `CompiledMessage` and `ServiceGeneration` name the cases in which the code does not do
what they say, each found by TLC when its exception is taken out:

- JSON text turns keys of a map that are `bool` into `"true"` and `"false"`, and they come back as
  strings. A `BytesValue` is not encoded, and `json.dumps` raises.
- In the `PYTHON` format, `from_dict` decodes `bytes` as base64, and `Struct`, `Value` and `ListValue`
  raise in `to_dict`.
- `include_default_values` writes an unset `Value` as `null`, which is read as a set null value.
- An `Any` without a type URL writes a dictionary that `from_dict` refuses.
- `Int64Value` and `UInt64Value` are written as JSON numbers; NaN and the infinities in a `FloatValue` or
  `DoubleValue` are written as they are, which is not JSON.
- A field name that is not by the style guide (capitals, an underscore at an end, before a digit or next
  to another) may not be found again under its key.
- A name with a letter after a digit (`ipv4addr`) is split after the digit by one casing module only, and
  its key is not found again; nor is the camel-case key of a name with two initials (`x_a_s`).
- A method with the Python name of an attribute of an asynchronous stub (`Timeout`, `Channel`,
  `Metadata`, `Deadline`, `Credentials`, `WaitForReady`) cannot be called. Two methods whose names differ
  in case or underscores alone become one, and the validator, which skips indented lines, says nothing.

Seen while modelling, outside the bounds of the runs: -0.0 equals the default and is not written; an
entry of a map without a value is loaded as `None`.

## Proofs

All in modules that extend the component's module and `TLAPS`.

`GrpcioStreamCallProofs`, the message source. The inductive invariant `SourceInv` relates the three
flags to the positions of the two coroutines: `iterating` holds exactly while `__anext__` is in the
producer, a close was called if and only if `closeCalled` and the producer is closable and started, and
so on. `CloseNotLost` alone is not inductive: it does not exclude a closed source whose reader is about
to settle without seeing the flag. From it follow the type invariant, `CloseNotLost`,
`NoMessageAfterClose` and the safety part of the refinement, `SourceKeepsLifecycle` (every step maps to
a step of `ProducerLifecycle` or a stutter). Assumptions: the kinds are among the four, the bound is a
natural number.

`GrpcioStreamCallProofs`, the call. Every step of a call leaves the message source alone or is one of
its steps (`SourceStep`), so its invariant is inherited. `IInv` adds what belongs to each stage of the
RPC method (`StageInv`), who is in `aclose` (`CloserInv`), what the sending task's position says about
the source (`SendInv`), the count of messages written, taken and produced (`CountInv`), how the sending
task ended (`EndInv`) and who caused a cancellation (`CancelInv`). The theorems are the type invariant
and the four safety properties of the run, for any set of methods, kinds and bounds.

`GrpcioServerProofs`. The invariant is a conjunction over RPCs (`RequestOK`), and a step of one RPC
leaves the facts about every other alone (`OthersUnchanged`). Theorems: the type invariant and the
three safety properties, for any set of RPCs, in particular any number.

`GrpclibStreamCallProofs`. `TypeOK` is split into the places, flags and counters of a state, so that a
step needs to prove only the part it changes. `SendInv` counts: outside of a write every message that
was produced is written, a half-close is the last step of the sending and follows the producer's end
or a single request. `ResponseInv` says when the response loop may have been left normally: with a
response, or when the call has ended. `CleanEndMeansComplete` and `OutcomeTellsStatus` are not inductive
without them. For any subset of the methods and any bounds.

`CodeGenerationProofs`. `NeverFails` says that no look-up of a type raises while text is rendered. The
invariant follows the passes: `GatherInv` (after the first pass the packages are those of the files),
`ReadInv` (the types read so far are those of a prefix of the request). `SplitsOfName` is the lemma
about `parse_source_type_name`: a name splits into the package and the symbol it was joined from, and
into nothing else that is a type of the request, which protoc guarantees to have unique names
(`Accepted`). `ImportsWritten` says that what a generated module imports from is written as a package.
`ImportInv` ties every import, collected or emitted, to a package that the request has types of, and
the four kinds of references (siblings, descendants, ancestors, cousins) each lead to such a package or
to one above it, which `init_files` covers. For every set of packages and type names
(`NamesAssumption`: names are sequences of words, and a type has at least one) and any number of types
and uses.

`CodeGenerationProofs`, the references. `ReferencesDenote` under `NamesApart`. `RefInv` holds each
expression written to the reference of a type and its import to those collected or, once the import
statements are written, to those; at that moment the imports of base classes must be there although
the template renders them later. An import finds the package or class it was made for (`ReferenceLed`,
`LedFound`). What is left is that no two imports bind one alias and none binds the name of a class:
`AliasTells`. Aliases are texts, and the four functions that make them are taken apart again: words are
free of underscores (`PackageWordPlain`), or have single ones inside (`SnakeClean`), so one underscore,
or two, tell where a word ends (`SingleEnds`, `DoubleEnds`); a sequence of words each of which tells
where it ends is decoded in one way (`Decoded`, by induction over the steps of `FlattenSeq`); the
underscores ahead count the levels up (`UnderscoresStripped`), and what follows them is a class, the
last word of an ancestor or the first word that a cousin does not share (`RootTells`, `AboveTells`,
`BesideTells`, `BelowTells`). That an ancestor and a cousin differ rests on `LongestCommonPrefix` being
the longest (`SharedAncestry`).

`WireProofs`, the codec. The argument is that of the bytes: a varint is cut into groups and put together
from them again (`GroupsShape`, `FromDigitsOf`, `VarintLoaded`), a fixed-width value into bytes
(`LittleEndianBack`), a field is a tag and a value (`FieldLoaded`), and what arrives determines the
value (`ValueComesBack`) or its cast (`ValueIsCast`): a number that is cut to the width of the code is
cut to that of the type (`CutRange`, `RangesCut`), but for an enum, of which only an int32 is kept
(`EnumKept`). The invariant `CodecInv` says that the bytes
between the two steps are those of the value. Assumed: groups of at least three bits, words and ints of
whole bytes, and field numbers whose tag fits into a word, as the code's 7, 64, 32 and 2^29 - 1 do.

`WireProofs`, the delimited stream. The reader is told a size and counts; that it ends where the message
does is a fact about every byte between. `At` says that bytes are in the stream at a position, and the
lemmas say what `load_varint` and `load_fields` take from there (`VarintAt`, `ScalarAt`, `DelimitedAt`),
that a packed field gives back its elements (`PackedBack`) and that a field of a message is loaded and
merged as it was written (`NextField`). The invariant says where each message ends (`StreamInv`), that
nothing or a torn message follows the last one (`TailInv`), and, while a message is loaded, which of its
fields the reader has and that exactly the bytes of the others are ahead (`Left`, `Halfway`); in a torn
message it only says that the bytes ahead are fewer than those missing (`LoadingInv`). So `load` cannot
return one: it runs out of bytes, at whatever field it believes to see. `StreamFramed` is `Framing`,
`StreamIsChannel` the steps of the refinement (its fairness is not proved). Assumed, beside `Agreed`:
tags of the four fields fit into a word, and a message is shorter than a word can say, as the code's 64
bits make sure. Both parts share the lemmas about bytes; the theorems of one say nothing of the
constants and variables of the other.

`MessageEvolutionProofs`. `NothingLost` speaks of what is read in the end; the invariant says what each
field is given at every moment: by an attribute of the object if the class has the field, else by the
unknown fields, or by the bytes on their way, each at most once (`ContentInv`, `Holding`). `WrittenGives`
and `LoadGives` are the facts about `__bytes__` and `load` that carry it from one to the other. The
theorems assume nothing of the versions of the class, and of the fields no more than that each is of one
kind.

`ServiceGenerationProofs`. The three invariants speak of a module after it was imported or while it is
called; `GenerationInv` says what each place of the pipeline has been reached with: settings that the
plugin knows, the text of the settings and the file (`TextMade`), the report and the names of the
text, the routes of one of the services, and the call of a method of a stub. It is inductive since no
step reads what it has not tied to an earlier one; `get_settings` needs that the last of the given
options is one of them (`SettingsKnown`). The rest is about texts of any number of messages,
services and methods, by induction over their lines: `Shaped` is how imports are laid out, which each
line of the templates keeps (`LinesFlattened`), and with which the validator counts the names that
Python binds, no more and no less (`ValidatorCounts`); `NamesBound` goes through what each form of
line evaluates and finds the line that binds it, in the header, in the imports at the end, or in the
class of a message; `ClassesBound` says that the only line of a name is what the name is bound to,
and `RoutesFollow` that its routes are those of the server and its handlers. Assumed:
`FilesAssumption`, and options that are a sequence.

`Groups` and `FromDigits` of `Wire`, `Packed` of `DelimitedStream`, `Written` and `Loaded` of
`MessageEvolution`, `validate` of `ServiceGeneration` and the library's `FlattenSeq` are or contain
recursive functions. That such a function satisfies its equation, and what it computes, is proved by
induction over a set of naturals: the lemma `Induction` follows from the least element of a set
(`LeastNat`), and needs no operator as a parameter.

`TimeRelayProofs`. `TimestampInv` holds the form of a timestamp to the instant that was sent, or to that
instant without its last nanoseconds once the datetime was rebuilt (`Instant`), in each place; the steps
are uniqueness of quotient and remainder (`DivisionUnique`) and `FractionKept`, that digits are read as
they were written, and `RebuiltInstant`, that a rebuilt datetime is that instant. `DurationInv` says
that after the first conversion there is one whole number of microseconds, near what was sent, which
every later conversion finds again (`LaterConversion`): rounding does not drift. For every even `Base`
above 1, in particular 1000, every instant and zone, and any error of floats below half a microsecond.
The theorem about durations assumes that they are not negative, where the code is wrong.

Model-checked only:

- liveness (`SendingStops`, `ProducerFailureEnds`, `CancellationEnds`, `ClosedInTheEnd`,
  `CancelledEnds`, `ServerEndsStream`, the fairness of `IsChannel`), which is out of the prover's reach;
- `CompiledMessage`, where nested messages and JSON values are taken apart by `RECURSIVE` operators.

## Not modelled

- `float`, `double` and UTF-8 in the codec: `struct` and `str.encode` do the work. Groups (wire types 3
  and 4), which no generated class has. `parse_fields`, which nothing calls.
- Pydantic validation, comparison and pickling of messages; the construction of enum classes by the
  metaclass, which runs once for each class.
- `from_dict` with `ignore_unknown_fields`: dictionaries are read by the class that wrote them.
- Copies forget unknown fields, an embedded message that arrives twice replaces the first one instead
  of being merged, and a field that changes between singular and repeated: the first is taken out of
  what `NothingLost` expects; the second is on the list of failing conformance tests
  (`failing_tests.txt` 110-111, 148-149).
- A producer that raises `CancelledError` by itself, in either client.
- Call options (`__resolve_call_kwargs`, `__resolve_request_kwargs`): the first value that is not `None`.
- Comments, docstrings, deprecation warnings and the text of descriptors in generated modules; what ruff
  does to the layout; `main.py`, which reads standard input and writes standard output; versions.
- The assertion of `ModuleValidator` about the layout of `import` lines, which every template satisfies.
- Generated code (`CP/lib`), but for the tables of fields of the classes that the compiler and the JSON
  conversion use.

## What is left

1. `MessageEvolution`: map fields and embedded messages between versions.
2. `ServiceGeneration`: several packages, so that the stubs of one and the messages of another are
   rendered by `CodeGeneration`.
