---------------------------- MODULE GrpcioServer ----------------------------
(***************************************************************************)
(* The RPC handlers of a grpcio server base class                          *)
(* (grpcio/grpcio_async_server.py): what _grpcio_context is while a        *)
(* service method runs, what becomes of the value the method returns, and  *)
(* who closes its response iterator.                                       *)
(*                                                                         *)
(* The server runs each RPC in a task of its own, which iterates the       *)
(* rpc_handler generator, which iterates _ensure_async_response_iterable,  *)
(* which iterates the response iterator of the service method.  When the   *)
(* RPC is cancelled while the task is sending, none of these is running:   *)
(* the task drops the outermost one, and asyncio closes a generator that   *)
(* was dropped in a new task, which starts from a copy of the context.     *)
(***************************************************************************)
EXTENDS Naturals

CONSTANTS Requests,      \* the RPCs in progress at the same time
          MaxResponses,  \* bound: responses of one RPC
          None           \* no request

ASSUME RequestsAssumption == None \notin Requests
ASSUME MaxResponsesAssumption == MaxResponses \in Nat

\* What the service method returns: an async iterable whose iterator has aclose()
\* or has not; a coroutine that returns None or a value, the latter also being what
\* a method with a unary response returns; None; or anything else.
Kinds == {"closable", "plain", "awaits_none", "awaits_value", "none", "other"}
Iterable(k)  == k \in {"closable", "plain"}
Awaitable(k) == k \in {"awaits_none", "awaits_value"}

\* The task of the RPC, and those that close the two generators when it drops them.
Tasks == {"rpc", "outer_closer", "inner_closer"}

VARIABLES
  streams,   \* the response of the RPC is a stream
  kind,      \* what its service method returns
  stage,     \* where the RPC is
  outcome,   \* how it ends
  var,       \* the context variable, in the context of every task
  yielded,   \* responses the service method has yielded
  sent,      \* responses sent to the client
  closes,    \* calls of the response iterator's aclose()
  cancelled  \* the RPC was cancelled

vars == <<streams, kind, stage, outcome, var, yielded, sent, closes, cancelled>>

Stages == {"new", "method", "sending", "closing", "dropped", "inner_dropped",
           "late_closing", "over"}

TypeOK ==
  /\ streams \in [Requests -> BOOLEAN] /\ kind \in [Requests -> Kinds]
  /\ stage \in [Requests -> Stages]
  /\ outcome \in [Requests -> {"none", "ok", "error", "type_error", "cancelled"}]
  /\ var \in [Requests \X Tasks -> Requests \cup {None}]
  /\ yielded \in [Requests -> 0 .. MaxResponses]
  /\ sent \in [Requests -> 0 .. MaxResponses]
  /\ closes \in [Requests -> Nat] /\ cancelled \in [Requests -> BOOLEAN]

Init ==
  /\ streams \in [Requests -> BOOLEAN]
  /\ kind \in {k \in [Requests -> Kinds] : \A r \in Requests : streams[r] \/ k[r] = "awaits_value"}
  /\ stage = [r \in Requests |-> "new"] /\ outcome = [r \in Requests |-> "none"]
  /\ var = [c \in Requests \X Tasks |-> None]
  /\ yielded = [r \in Requests |-> 0] /\ sent = [r \in Requests |-> 0]
  /\ closes = [r \in Requests |-> 0] /\ cancelled = [r \in Requests |-> FALSE]

-----------------------------------------------------------------------------
To(r, s) == stage' = [stage EXCEPT ![r] = s]

\* The finally clause of rpc_handler in the task of the RPC.
Finish(r, o) ==
  /\ To(r, "over") /\ outcome' = [outcome EXCEPT ![r] = o]
  /\ var' = [var EXCEPT ![<<r, "rpc">>] = None]

\* rpc_handler sets the context and calls the service method.
Start(r) ==
  /\ stage[r] = "new"
  /\ \/ /\ Iterable(kind[r]) \/ Awaitable(kind[r])
        /\ To(r, "method") /\ UNCHANGED outcome
        /\ var' = [var EXCEPT ![<<r, "rpc">>] = r]
     \/ kind[r] = "none" /\ Finish(r, "ok")
     \/ kind[r] = "other" /\ Finish(r, "type_error")
  /\ UNCHANGED <<streams, kind, yielded, sent, closes, cancelled>>

\* The response iterator yields, and the task goes on to send the response.
Yields(r) ==
  /\ stage[r] = "method" /\ Iterable(kind[r]) /\ yielded[r] < MaxResponses
  /\ yielded' = [yielded EXCEPT ![r] = @ + 1]
  /\ To(r, "sending")
  /\ UNCHANGED <<streams, kind, outcome, var, sent, closes, cancelled>>

\* The response is sent, and the task asks for the next one.
Sent(r) ==
  /\ stage[r] = "sending" /\ ~cancelled[r]
  /\ sent' = [sent EXCEPT ![r] = @ + 1]
  /\ To(r, "method")
  /\ UNCHANGED <<streams, kind, outcome, var, yielded, closes, cancelled>>

\* Mutant: the iterator is closed after an exception and not at its end.
MustCloseFailed(r, o) == kind[r] = "closable" /\ o # "ok"

\* close = getattr(iterator, "aclose", None)
MustClose(r, o) == kind[r] = "closable"

\* Mutants: the value of a coroutine is not looked at; or it is what is returned.
AwaitedAny(r, o) == o
AwaitedRaw(r, o) == IF o = "ok" THEN kind[r] ELSE o

\* A streaming method may return None from a coroutine, and nothing else.
Awaited(r, o) == IF o = "ok" /\ streams[r] /\ kind[r] = "awaits_value" THEN "type_error" ELSE o

\* The iterator, or the coroutine, of the service method ends, raises, or lets the
\* CancelledError through that a cancellation of the RPC has thrown into it.
Ends(r, o) ==
  /\ stage[r] = "method" /\ (o = "cancelled" => cancelled[r])
  /\ \/ /\ Iterable(kind[r]) /\ MustClose(r, o)
        /\ To(r, "closing") /\ closes' = [closes EXCEPT ![r] = @ + 1]
        /\ outcome' = [outcome EXCEPT ![r] = o] /\ UNCHANGED var
     \/ Iterable(kind[r]) /\ ~MustClose(r, o) /\ Finish(r, o) /\ UNCHANGED closes
     \/ Awaitable(kind[r]) /\ Finish(r, Awaited(r, o)) /\ UNCHANGED closes
  /\ UNCHANGED <<streams, kind, yielded, sent, cancelled>>

\* The aclose() of the iterator ends, raises or is cancelled.
Closed(r, o) ==
  /\ stage[r] = "closing" /\ (o = "cancelled" => cancelled[r])
  /\ Finish(r, IF o = "ok" THEN outcome[r] ELSE o)
  /\ UNCHANGED <<streams, kind, yielded, sent, closes, cancelled>>

\* The client goes away, or the deadline is over.
Cancel(r) ==
  /\ stage[r] \in {"method", "sending", "closing"} /\ ~cancelled[r]
  /\ cancelled' = [cancelled EXCEPT ![r] = TRUE]
  /\ UNCHANGED <<streams, kind, stage, outcome, var, yielded, sent, closes>>

\* The task of a cancelled RPC does not go on sending and drops the generators.
Drops(r) ==
  /\ stage[r] = "sending" /\ cancelled[r]
  /\ To(r, "dropped") /\ outcome' = [outcome EXCEPT ![r] = "cancelled"]
  /\ UNCHANGED <<streams, kind, var, yielded, sent, closes, cancelled>>

\* Mutant: the finally clause sets the variable to None instead of resetting it.
LeftCleared(r) == None

\* The finally clause of rpc_handler in another task: reset() raises, because the
\* token was made in another context, and the copied variable is left as it is.
Left(r) == var[<<r, "rpc">>]

\* A new task closes rpc_handler, which in turn drops the inner generator.
CloseOuter(r) ==
  /\ stage[r] = "dropped" /\ To(r, "inner_dropped")
  /\ var' = [var EXCEPT ![<<r, "outer_closer">>] = Left(r)]
  /\ UNCHANGED <<streams, kind, outcome, yielded, sent, closes, cancelled>>

\* Mutant: the helper is an iterator and no generator, so nothing closes it.
CloseInnerNever(r) == stage[r] = "inner_dropped" /\ UNCHANGED vars

\* Another new task closes the inner generator, whose finally clause closes the
\* iterator of the service method if it can.
CloseInner(r) ==
  /\ stage[r] = "inner_dropped"
  /\ var' = [var EXCEPT ![<<r, "inner_closer">>] = var[<<r, "outer_closer">>]]
  /\ IF kind[r] = "closable"
     THEN To(r, "late_closing") /\ closes' = [closes EXCEPT ![r] = @ + 1]
     ELSE To(r, "over") /\ UNCHANGED closes
  /\ UNCHANGED <<streams, kind, outcome, yielded, sent, cancelled>>

LateClosed(r) ==
  /\ stage[r] = "late_closing" /\ To(r, "over")
  /\ UNCHANGED <<streams, kind, outcome, var, yielded, sent, closes, cancelled>>

Step(r) ==
  \/ Start(r) \/ Yields(r) \/ Sent(r)
  \/ \E o \in {"ok", "error", "cancelled"} : Ends(r, o) \/ Closed(r, o)
  \/ Drops(r) \/ CloseOuter(r) \/ CloseInner(r) \/ LateClosed(r)

Done == (\A r \in Requests : stage[r] = "over") /\ UNCHANGED vars

Next == Done \/ \E r \in Requests : Step(r) \/ Cancel(r)

\* asyncio closes what was dropped, and a service method into which a CancelledError
\* was thrown, or whose iterator is being closed, comes to an end.
Fairness ==
  \A r \in Requests :
    /\ WF_vars(Drops(r)) /\ WF_vars(CloseOuter(r))
    /\ WF_vars(CloseInner(r)) /\ WF_vars(LateClosed(r))
    /\ WF_vars(cancelled[r] /\ \E o \in {"ok", "error", "cancelled"} : Ends(r, o))
    /\ WF_vars(\E o \in {"ok", "error", "cancelled"} : Closed(r, o))

Spec == Init /\ [][Next]_vars /\ Fairness

-----------------------------------------------------------------------------
\* The task in which code of the service method runs, if any does.
RunsIn(r) == CASE stage[r] \in {"method", "closing"} -> "rpc"
               [] stage[r] = "late_closing"          -> "inner_closer"
               [] OTHER                              -> "none"

\* Whenever code of a service method runs, also when its iterator is closed late and
\* in another task, _grpcio_context is the context of its own request, whatever other
\* requests are in progress.  (Lines 35-40; clients.md:307.)
ContextIsOwn ==
  \A r \in Requests : RunsIn(r) # "none" => var[<<r, RunsIn(r)>>] = r

\* A response iterator that was started and can be closed has been closed exactly
\* once when the RPC is over.  (Lines 143-151, under every way an RPC can end.)
ClosedOnce ==
  \A r \in Requests :
    stage[r] = "over" /\ kind[r] = "closable" => closes[r] = 1

\* A streaming method that returns a value ends with a TypeError and sends nothing.
\* (clients.md: "Do not implement server-streaming methods as plain async def".)
ValuesRejected ==
  \A r \in Requests :
    streams[r] /\ stage[r] = "over" /\ kind[r] \in {"awaits_value", "other"}
      => sent[r] = 0 /\ outcome[r] # "ok"

\* A cancelled RPC comes to its end, with the service method's clean-up done.
CancelledEnds == \A r \in Requests : cancelled[r] ~> (stage[r] = "over")
=============================================================================
