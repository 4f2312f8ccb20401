------------------------ MODULE MCServiceGeneration -------------------------
(***************************************************************************)
(* Every setting, given by options in which one may be repeated or wrong,  *)
(* for packages with one or two services and messages whose names may      *)
(* collide.                                                                *)
(***************************************************************************)
EXTENDS ServiceGeneration

Keys == {"client_generation", "client_async_transport", "server_generation",
         "server_async_transport"}

\* Every setting in one order, some twice, and some that are wrong.
All == {<<<<"client_generation", c>>, <<"client_async_transport", t>>,
          <<"server_generation", s>>, <<"server_async_transport", u>>>> :
            c \in Values.client_generation, t \in Transports, s \in {"none", "async"},
            u \in Transports}

MCOptions ==
  All \cup {<<<<f, TRUE>>>> \o o : f \in Flags, o \in {<<>>, <<<<"client_generation", "async">>>>}}
      \cup {<<>>, <<<<"client_generation", "none">>, <<"client_generation", "both">>>>,
            <<<<"server_generation", "async">>, <<"server_generation", "none">>>>}

Type(name)   == [other |-> FALSE, name |-> name, alias |-> <<>>]
Other(alias) == [other |-> TRUE, name |-> <<"Other">>, alias |-> alias]

Message(name, oneofs) == [name |-> name, oneofs |-> oneofs]
Method(name, cs, ss, input, output) ==
  [name |-> name, client_streaming |-> cs, server_streaming |-> ss, input |-> input,
   output |-> output]
Service(name, methods) == [name |-> name, methods |-> methods]

\* GetFoo and get_foo, one that is a keyword, and one with the name of an attribute.
Plain    == Method(<<"A", "a">>, FALSE, FALSE, Type(<<"M">>), Type(<<"M">>))
Methods  == {<<>>, <<Plain>>}
  \cup {<<Method(<<"A", "s", "A", "s">>, cs, ss, Type(<<"M">>), Other(o)),
          Method(<<"a", "s", "_", "a", "s">>, ss, cs, Type(<<"M">>), Type(<<"M">>)),
          Method(<<"A", "s">>, ss, ss, Type(<<"M">>), Type(<<"M">>)),
          Method(<<"S">>, cs, ss, Type(<<"M">>), Type(<<"M">>))>> :
         cs \in BOOLEAN, ss \in BOOLEAN, o \in {<<"grpc">>, <<"other">>}}

Foo      == {Service(<<"Foo">>, m) : m \in Methods}
Second   == {Service(n, <<Plain>>) : n \in {<<"Foo", "Async">>, <<"Foo", "_", "Sync">>}}
Messages == {<<"Deadline">>, <<"Iterator">>, <<"Foo", "_", "Stub">>, <<"Foo", "Base">>}

MCFiles ==
  [messages : {<<Message(<<"M">>, TRUE)>>}
                \cup {<<Message(n, FALSE), Message(<<"M">>, TRUE)>> : n \in Messages},
   services : {<<>>} \cup {<<s>> : s \in Foo}
               \cup {<<Service(<<"Foo">>, <<Plain>>), s>> : s \in Second},
   long : BOOLEAN]

MCAttributes == [grpclib |-> {<<"s">>}, grpcio |-> {<<"s">>}]
=============================================================================
