------------------------- MODULE GrpclibStreamCall -------------------------
(***************************************************************************)
(* One call of a grpclib client stub (grpclib/grpclib_client.py): the RPC  *)
(* method, the requests it sends, inline or in a task of their own, and    *)
(* the environment: the server, whose streaming handlers run in            *)
(* grpclib/grpclib_server.py, the user's producer of requests, the         *)
(* consumer of responses and whoever cancels it.                           *)
(*                                                                         *)
(* grpclib itself is external.  A stream whose `async with` was left is    *)
(* closed, and no more can be sent on it; a server that has ended the call *)
(* may or may not still take what is sent.                                 *)
(***************************************************************************)
EXTENDS Naturals

CONSTANTS Methods,       \* the RPC methods to consider
          MaxMessages,   \* bound: messages the producer yields
          MaxResponses,  \* bound: responses of a streaming server
          MaxCancels     \* bound: how often the method is cancelled from outside

AllMethods == {"unary_unary", "unary_stream", "stream_unary", "stream_stream"}
ASSUME MethodsAssumption == Methods \subseteq AllMethods
ASSUME BoundsAssumption ==
  MaxMessages \in Nat \ {0} /\ MaxResponses \in Nat \ {0} /\ MaxCancels \in Nat

VARIABLES
  method,        \* which RPC method this is
  sync,          \* the producer is a plain iterable, not an asynchronous one
  caller,        \* where the RPC method is
  outcome,       \* how it ended
  callerCancel,  \* a cancellation of it that is requested, not yet raised
  cancels,       \* outside cancellations so far
  call,          \* "none", "active", ended by the server, or "reset" by this side
  responded,     \* responses the server has sent
  delivered,     \* responses the method has received
  send,          \* where _send_messages, or the sending of a single request, is
  sendResult,    \* how it ended
  sendCancel,    \* a cancellation of it that is requested, not yet raised
  sawCancel,     \* a CancelledError was thrown into the running producer
  produced,      \* messages the producer has yielded
  exhausted,     \* it has come to its end by itself
  written,       \* requests the stream has accepted
  halfClosed     \* the end of the requests was sent: the server sees a clean end

callerVars == <<method, sync, caller, outcome, callerCancel, cancels>>
callVars   == <<call, responded, delivered>>
sendVars   == <<send, sendResult, sendCancel, sawCancel, produced, exhausted, written,
                halfClosed>>
vars       == <<callerVars, callVars, sendVars>>

UnaryRequest  == method \in {"unary_unary", "unary_stream"}
UnaryResponse == method \in {"unary_unary", "stream_unary"}
InTask        == method = "stream_stream"  \* sent by a task of its own
SendDone      == send = "done"
ServerEnded   == call \in {"ok", "failed"}

\* A plain iterable runs without a suspension, so that no coroutine comes in between.
LoopFree == ~(sync /\ send = "pull")

TypeOK ==
  /\ method \in Methods /\ sync \in BOOLEAN
  /\ caller \in {"start", "connect", "sending", "receive", "yielded", "exit", "done"}
  /\ outcome \in {"none", "ok", "status", "no_response", "failed", "cancelled",
                  "closed", "producer_error", "cut"}
  /\ callerCancel \in BOOLEAN /\ cancels \in 0 .. MaxCancels
  /\ call \in {"none", "active", "ok", "failed", "reset"}
  /\ responded \in 0 .. MaxResponses /\ delivered \in 0 .. responded
  /\ send \in {"absent", "request", "ready", "pull", "write", "end", "done"}
  /\ sendResult \in {"none", "ok", "producer_error", "failed", "cancelled"}
  /\ sendCancel \in BOOLEAN /\ sawCancel \in BOOLEAN
  /\ produced \in 0 .. MaxMessages /\ exhausted \in BOOLEAN
  /\ written \in 0 .. produced /\ halfClosed \in BOOLEAN

Init ==
  /\ method \in Methods /\ sync \in BOOLEAN
  /\ caller = "start" /\ outcome = "none" /\ callerCancel = FALSE /\ cancels = 0
  /\ call = "none" /\ responded = 0 /\ delivered = 0
  /\ send = "absent" /\ sendResult = "none" /\ sendCancel = FALSE /\ sawCancel = FALSE
  /\ produced = 0 /\ exhausted = FALSE /\ written = 0 /\ halfClosed = FALSE

-----------------------------------------------------------------------------
\* The RPC method.

\* Mutant: the response loop has no except clause.
CancelNobody == sendCancel

\* except: sending_task.cancel()
CancelSending == sendCancel \/ (InTask /\ send # "absent" /\ ~SendDone)

\* The body of `async with` raises: the stream is reset, and the method raises.
Raise(o) ==
  /\ caller' = "done" /\ outcome' = o
  /\ call' = IF call = "active" THEN "reset" ELSE call
  /\ sendCancel' = CancelSending
  /\ UNCHANGED <<method, sync, cancels, responded, delivered, send, sendResult, sawCancel,
                 produced, exhausted, written, halfClosed>>

\* channel.request, and the first await: send_request or send_message.
Start ==
  /\ caller = "start" /\ caller' = IF UnaryRequest THEN "sending" ELSE "connect"
  /\ call' = "active"
  /\ send' = IF UnaryRequest THEN "request" ELSE "absent"
  /\ produced' = IF UnaryRequest THEN 1 ELSE 0
  /\ UNCHANGED <<method, sync, outcome, callerCancel, cancels, responded, delivered,
                 sendResult, sendCancel, sawCancel, exhausted, written, halfClosed>>

\* send_request() returns.  _stream_unary goes into _send_messages itself.
Connected ==
  /\ caller = "connect" /\ ~callerCancel
  /\ caller' = IF InTask THEN "receive" ELSE "sending"
  /\ send' = IF InTask THEN "ready" ELSE "pull"
  /\ UNCHANGED <<method, sync, outcome, callerCancel, cancels, callVars, sendResult,
                 sendCancel, sawCancel, produced, exhausted, written, halfClosed>>

\* The sending inline is over, and the method goes on without a suspension.
Sent ==
  /\ LoopFree /\ caller = "sending" /\ SendDone /\ UNCHANGED callerCancel
  /\ IF sendResult = "ok"
     THEN caller' = "receive" /\ UNCHANGED <<method, sync, outcome, cancels, callVars, sendVars>>
     ELSE Raise(sendResult)

\* recv_message, or `async for`: a response arrives.
Receive ==
  /\ LoopFree /\ caller = "receive" /\ ~callerCancel /\ delivered < responded
  /\ delivered' = delivered + 1
  /\ caller' = IF UnaryResponse THEN "exit" ELSE "yielded"
  /\ UNCHANGED <<method, sync, outcome, callerCancel, cancels, call, responded, sendVars>>

\* Mutant: the sending task is awaited after the responses.
WaitForSending == SendDone /\ caller' = "exit"

\* The loop is over; nothing waits for the sending task.
LoopOver == caller' = "exit"

\* There is no further response: the loop ends, or, when the call failed, may raise.
ReceiveEnds ==
  /\ LoopFree /\ caller = "receive" /\ ~callerCancel /\ delivered = responded /\ ServerEnded
  /\ UNCHANGED callerCancel
  /\ \/ LoopOver /\ UNCHANGED <<method, sync, outcome, cancels, callVars, sendVars>>
     \/ call = "failed" /\ Raise("failed")

\* Mutant: the assertion stands inside the async with, before the status is known.
AssertFirst == IF UnaryResponse /\ delivered = 0 THEN "no_response"
               ELSE IF call = "failed" THEN "status" ELSE "ok"

\* What follows the body of `async with`: leaving it raises the status of a call that
\* failed, and only then the assertion looks for the response.
Concluded == IF call = "failed" THEN "status"
             ELSE IF UnaryResponse /\ delivered = 0 THEN "no_response" ELSE "ok"

\* Leaving the `async with` without an exception waits for the status.
Exit ==
  /\ LoopFree /\ caller = "exit" /\ ~callerCancel /\ ServerEnded
  /\ caller' = "done" /\ outcome' = Concluded
  /\ UNCHANGED <<method, sync, callerCancel, cancels, callVars, sendVars>>

ConsumerNext ==
  /\ LoopFree /\ caller = "yielded" /\ caller' = "receive"
  /\ UNCHANGED <<method, sync, outcome, callerCancel, cancels, callVars, sendVars>>

ConsumerCloses ==
  /\ LoopFree /\ caller = "yielded" /\ Raise("closed") /\ UNCHANGED callerCancel

\* A cancellation of the method is raised at its await.  One that comes while the
\* `async with` is left is outside the try, and resets the stream alone.
CallerCancelled ==
  /\ LoopFree /\ callerCancel /\ callerCancel' = FALSE
  /\ \/ caller \in {"connect", "receive"} /\ Raise("cancelled")
     \/ /\ caller = "exit" /\ caller' = "done" /\ outcome' = "cut"
        /\ call' = IF call = "active" THEN "reset" ELSE call
        /\ UNCHANGED <<method, sync, cancels, responded, delivered, sendVars>>

-----------------------------------------------------------------------------
\* _send_messages, in its task or inline.

SendEnds(r) == send' = "done" /\ sendResult' = r

\* The first step of the task, unless it was cancelled before it.
SendStart ==
  /\ LoopFree /\ send = "ready" /\ sendCancel' = FALSE
  /\ IF sendCancel THEN SendEnds("cancelled") ELSE send' = "pull" /\ UNCHANGED sendResult
  /\ UNCHANGED <<callerVars, callVars, sawCancel, produced, exhausted, written, halfClosed>>

\* A suspended producer is resumed with a CancelledError; it may take its time.
ProducerCancelled ==
  /\ send = "pull" /\ ~sync /\ sendCancel
  /\ sendCancel' = FALSE /\ sawCancel' = TRUE
  /\ UNCHANGED <<callerVars, callVars, send, sendResult, produced, exhausted, written, halfClosed>>

\* Mutant: the end of the stream is sent in a finally clause.
EndAnyway(r) == send' = "end" /\ UNCHANGED sendResult

\* An exception of the producer passes through _send_messages.
ProducerRaised(r) == SendEnds(r)

\* The producer yields, ends, raises, or passes a CancelledError on.  A closed stream
\* refuses the message, and its end, at once.
ProducerAnswers(r) ==
  /\ send = "pull" /\ (sync \/ ~sendCancel) /\ (r = "cancelled" => sawCancel)
  /\ r = "message" => produced < MaxMessages
  /\ sawCancel' = FALSE
  /\ produced' = IF r = "message" THEN produced + 1 ELSE produced
  /\ exhausted' = (r = "stop")
  /\ IF r \in {"producer_error", "cancelled"} THEN ProducerRaised(r)
     ELSE IF caller = "done" THEN SendEnds("failed")
     ELSE send' = (IF r = "message" THEN "write" ELSE "end") /\ UNCHANGED sendResult
  /\ UNCHANGED <<callerVars, callVars, sendCancel, written, halfClosed>>

Answers == {"message", "stop", "producer_error", "cancelled"}

\* send_message(), with the end of the requests for a single one, or end() returns.
TransportOk ==
  /\ LoopFree /\ send \in {"request", "write", "end"} /\ ~sendCancel
  /\ caller # "done"
  /\ IF send = "write" THEN send' = "pull" /\ UNCHANGED sendResult ELSE SendEnds("ok")
  /\ written' = IF send = "end" THEN written ELSE written + 1
  /\ halfClosed' = (send # "write")
  /\ UNCHANGED <<callerVars, callVars, sendCancel, sawCancel, produced, exhausted>>

\* It raises: the server has ended the call, or the sending is cancelled.
TransportRaises ==
  /\ LoopFree /\ send \in {"request", "write", "end"}
  /\ \/ sendCancel /\ SendEnds("cancelled")
     \/ ~sendCancel /\ call # "active" /\ SendEnds("failed")
  /\ sendCancel' = FALSE
  /\ UNCHANGED <<callerVars, callVars, sawCancel, produced, exhausted, written, halfClosed>>

-----------------------------------------------------------------------------
\* The server, and whoever cancels the method.

\* _call_rpc_handler_server_stream sends what the handler yields; a handler that is
\* not an asynchronous iterable sends nothing.
Respond ==
  /\ LoopFree /\ call = "active" /\ caller \notin {"start", "connect"}
  /\ responded < IF UnaryResponse THEN 1 ELSE MaxResponses
  /\ responded' = responded + 1
  /\ UNCHANGED <<callerVars, call, delivered, sendVars>>

CallEnds(status) ==
  /\ LoopFree /\ call = "active" /\ call' = status
  /\ UNCHANGED <<callerVars, responded, delivered, sendVars>>

\* In _stream_unary, and while a single request is sent, the cancellation is raised in
\* the sending itself.
CancelCaller ==
  /\ LoopFree /\ cancels < MaxCancels
  /\ caller \in {"connect", "receive", "exit"} \/ (caller = "sending" /\ ~SendDone)
  /\ cancels' = cancels + 1
  /\ IF caller = "sending"
     THEN sendCancel' = TRUE /\ UNCHANGED callerCancel
     ELSE callerCancel' = TRUE /\ UNCHANGED sendCancel
  /\ UNCHANGED <<method, sync, caller, outcome, callVars, send, sendResult, sawCancel,
                 produced, exhausted, written, halfClosed>>

CallerSteps == Connected \/ Sent \/ Receive \/ ReceiveEnds \/ Exit \/ CallerCancelled

Next ==
  \/ Start \/ CallerSteps \/ ConsumerNext \/ ConsumerCloses
  \/ SendStart \/ ProducerCancelled \/ \E r \in Answers : ProducerAnswers(r)
  \/ TransportOk \/ TransportRaises
  \/ Respond \/ \E s \in {"ok", "failed"} : CallEnds(s)
  \/ CancelCaller

\* The event loop resumes what is ready.  A producer answers when it is a plain
\* iterable or has received a CancelledError; nobody else owes anything.
Fairness ==
  /\ WF_vars(CallerSteps) /\ WF_vars(SendStart \/ ProducerCancelled)
  /\ WF_vars(sendCancel /\ TransportRaises)
  /\ WF_vars((sawCancel \/ sync) /\ \E r \in Answers : ProducerAnswers(r))

Spec == Init /\ [][Next]_vars /\ Fairness

-----------------------------------------------------------------------------
\* The server sees a clean end of the requests only when the producer came to its end
\* by itself and everything it yielded was sent, whoever cancels or raises meanwhile.
\* (_send_messages: stream.end() stands after the loops, lines 151-159.)
CleanEndMeansComplete ==
  halfClosed => (UnaryRequest \/ exhausted) /\ written = produced

\* A method that returns has handed over every response of a call that succeeded, and
\* exactly one when one is expected; that a response is missing is said only of a call
\* that succeeded, the status of a failed call taking precedence.
\* (Lines 70 and 117: the assertion follows the async with.)
OutcomeTellsStatus ==
  /\ outcome = "ok" => /\ call = "ok" /\ delivered = responded
                       /\ UnaryResponse => delivered = 1
  /\ outcome = "no_response" => call = "ok"
  /\ outcome = "status" => call = "failed"

\* A response loop that was left by an exception, be it the server's failure, a
\* cancellation or a consumer that closes the generator, leaves no sending task behind,
\* even with a producer that swallows the CancelledError.  (Lines 144-149.)
SendingStops ==
  (caller = "done" /\ outcome \in {"failed", "cancelled", "closed"})
    ~> (send \in {"absent", "done"})

\* The end of the call ends the method with its response loop, whatever the producer
\* does: a producer that waits for ever delays stream_unary only.  (Lines 142-149.)
ServerEndsStream ==
  (InTask /\ ServerEnded) ~> (caller \in {"yielded", "done"})
=============================================================================
