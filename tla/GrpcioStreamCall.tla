-------------------------- MODULE GrpcioStreamCall --------------------------
(***************************************************************************)
(* One streaming call of a grpcio client stub (_unary_stream,              *)
(* _stream_unary and _stream_stream of grpcio/grpcio_async_client.py): the *)
(* RPC method, its sending task, the message source they share, the gRPC   *)
(* call object, and the environment: the server, the user's producer, the  *)
(* consumer of the responses and whoever cancels it.                       *)
(*                                                                         *)
(* A step of a coroutine runs from where it is resumed to where it is      *)
(* suspended next.  Task.cancel() only requests: the CancelledError is     *)
(* raised where the task is resumed, in place of what it awaited.          *)
(***************************************************************************)
EXTENDS MessageSource

CONSTANTS Methods,       \* the RPC methods to consider
          MaxResponses,  \* bound: responses the server sends on one call
          MaxCancels     \* bound: how often the method is cancelled from outside

AllMethods == {"unary_stream", "stream_unary", "stream_stream"}

ASSUME MethodsAssumption == Methods \subseteq AllMethods
ASSUME BoundsAssumption == MaxResponses \in Nat /\ MaxCancels \in Nat

VARIABLES
  method,        \* which RPC method this is
  caller,        \* where the RPC method is
  outcome,       \* what it returns or raises once its finally clause is over
  callerCancel,  \* a cancellation of it that is requested, not yet raised
  cancels,       \* outside cancellations so far
  call,          \* status of the gRPC call
  callbackRun,   \* the done callback of the call has run
  response,      \* the response task of stream_unary
  inbox,         \* responses received and not yet read by the method
  received,      \* responses received so far
  send,          \* where the sending task is
  sendResult,    \* how it ended
  sendCancel,    \* a cancellation of it that is requested, not yet raised
  sawCancel,     \* a CancelledError was thrown into the running producer
  written,       \* requests the call has accepted
  halfClosed     \* done_writing() went through: the server sees a clean end

callerVars == <<method, caller, outcome, callerCancel, cancels>>
callVars   == <<call, callbackRun, response, inbox, received>>
sendVars   == <<send, sendResult, sendCancel, sawCancel, written, halfClosed>>
vars       == <<sourceVars, callerVars, callVars, sendVars>>

\* "aborted": cancelled by the sending task, because its producer failed.
\* "cancelled": cancelled by anyone else on this side.
Statuses == {"none", "active", "ok", "failed", "aborted", "cancelled"}
CallDone == call \notin {"none", "active"}
Locally  == call \in {"aborted", "cancelled"}
SendDone == send \in {"absent", "done"}
Exited   == caller \in {"done", "cut"}

TypeOK ==
  /\ SourceTypeOK
  /\ method \in Methods
  /\ caller \in {"start", "wait", "await_response", "fetch", "yielded",
                 "aclose", "gather", "done", "cut"}
  /\ outcome \in {"none", "ok", "failed", "cancelled", "producer_error",
                  "closed", "close_error"}
  /\ callerCancel \in BOOLEAN /\ cancels \in 0 .. MaxCancels
  /\ call \in Statuses /\ callbackRun \in BOOLEAN
  /\ response \in {"none", "pending", "ok", "failed", "cancelled"}
  /\ inbox \in 0 .. MaxResponses /\ received \in 0 .. MaxResponses
  /\ send \in {"absent", "ready", "anext", "write", "done_writing", "done"}
  /\ sendResult \in {"none", "ok", "error", "cancelled"}
  /\ sendCancel \in BOOLEAN /\ sawCancel \in BOOLEAN
  /\ written \in 0 .. MaxMessages /\ halfClosed \in BOOLEAN

Init ==
  /\ SourceInit
  /\ method \in Methods
  /\ caller = "start" /\ outcome = "none" /\ callerCancel = FALSE /\ cancels = 0
  /\ call = "none" /\ callbackRun = FALSE /\ response = "none"
  /\ inbox = 0 /\ received = 0
  /\ send = "absent" /\ sendResult = "none" /\ sendCancel = FALSE
  /\ sawCancel = FALSE /\ written = 0 /\ halfClosed = FALSE

-----------------------------------------------------------------------------
\* The RPC method.

\* Up to the first await: the call, the sending task, its done callback.
Start ==
  /\ LoopFree /\ caller = "start"
  /\ call' = "active"
  /\ send' = IF method = "unary_stream" THEN "absent" ELSE "ready"
  /\ IF method = "stream_unary"
     THEN response' = "pending" /\ caller' = "wait"
     ELSE caller' = "fetch" /\ UNCHANGED response
  /\ UNCHANGED <<sourceVars, method, outcome, callerCancel, cancels, callbackRun,
                 inbox, received, sendResult, sendCancel, sawCancel, written,
                 halfClosed>>

\* Mutant: the sending task is cancelled but not waited for.
CancelTaskAndGo == caller' = "done" /\ sendCancel' = ~SendDone

\* _cancel_task: with the sending task done there is nothing to wait for.
CancelTask ==
  IF SendDone
  THEN caller' = "done" /\ UNCHANGED sendCancel
  ELSE caller' = "gather" /\ sendCancel' = TRUE

\* Mutant: the finally clause forgets to cancel the call.
CallLeftAlone == call

\* if not call.done(): call.cancel(), in the finally clause and in a transport
\* operation that is cancelled.
CallCancelled == IF CallDone THEN call ELSE "cancelled"

\* The finally clause, entered with the outcome o: cancel the call unless it
\* is done, close the message source, and cancel the sending task unless the
\* close of the producer suspends first.
Finally(o) ==
  /\ outcome' = o
  /\ call' = CallCancelled
  /\ IF method = "unary_stream"
     THEN caller' = "done" /\ UNCHANGED <<sourceVars, sendCancel>>
     ELSE /\ Aclose
          /\ IF closer' = "closing"
             THEN caller' = "aclose" /\ UNCHANGED sendCancel
             ELSE CancelTask
  /\ UNCHANGED <<method, cancels, callbackRun, received, send, sendResult,
                 sawCancel, written, halfClosed>>

\* Mutant: the status is handed on as it is.
ReturnedRaw == call

\* The outcome of "return await response_task" and of the end of "async for".
Returned == IF Locally THEN "cancelled" ELSE call

\* Mutant: stream_unary looks at the sending task only when no response is there.
ProducerFailedFirst == SendDone /\ sendResult = "error" /\ response \in {"none", "pending"}

\* The sending task is done, was not cancelled, and raises when awaited.
ProducerFailed == SendDone /\ sendResult = "error"

\* stream_unary: asyncio.wait wakes up; a failed sending task takes precedence.
WaitWakes ==
  /\ LoopFree /\ caller = "wait" /\ ~callerCancel
  /\ response # "pending" \/ SendDone
  /\ IF ProducerFailed
     THEN Finally("producer_error") /\ UNCHANGED <<callerCancel, response, inbox>>
     ELSE IF response # "pending"
     THEN Finally(response) /\ UNCHANGED <<callerCancel, response, inbox>>
     ELSE /\ caller' = "await_response"
          /\ UNCHANGED <<sourceVars, method, outcome, callerCancel, cancels,
                         callVars, sendVars>>

ResponseArrives ==
  /\ LoopFree /\ caller = "await_response" /\ ~callerCancel
  /\ response # "pending"
  /\ Finally(response) /\ UNCHANGED <<callerCancel, response, inbox>>

\* stream_stream and unary_stream: "async for" obtains a response.
FetchMessage ==
  /\ LoopFree /\ caller = "fetch" /\ ~callerCancel
  /\ inbox > 0
  /\ inbox' = inbox - 1
  /\ IF ProducerFailed
     THEN Finally("producer_error") /\ UNCHANGED <<callerCancel, response>>
     ELSE /\ caller' = "yielded"
          /\ UNCHANGED <<sourceVars, method, outcome, callerCancel, cancels, call,
                         callbackRun, response, received, sendVars>>

\* "async for" ends or raises; a call that did not end well may drop responses.
FetchEnds ==
  /\ LoopFree /\ caller = "fetch" /\ ~callerCancel
  /\ CallDone /\ (call = "ok" => inbox = 0)
  /\ Finally(Returned) /\ inbox' = 0 /\ UNCHANGED <<callerCancel, response>>

\* The consumer asks for the next response, or closes the generator early.
ConsumerNext ==
  /\ LoopFree /\ caller = "yielded"
  /\ caller' = "fetch"
  /\ UNCHANGED <<sourceVars, method, outcome, callerCancel, cancels, callVars, sendVars>>

ConsumerCloses ==
  /\ LoopFree /\ caller = "yielded"
  /\ Finally("closed") /\ inbox' = 0 /\ UNCHANGED <<callerCancel, response>>

\* The CancelledError of an outside cancellation is raised at the await.  When
\* it was the response task that was awaited, that task is cancelled with it.
CallerCancelled ==
  /\ LoopFree /\ callerCancel /\ callerCancel' = FALSE
  /\ caller \in {"wait", "await_response", "fetch"}
  /\ Finally("cancelled") /\ inbox' = 0
  /\ response' = IF caller = "await_response" /\ response = "pending"
                 THEN "cancelled" ELSE response

\* In the finally clause: the producer's aclose() ends.  When it raises, or
\* the method is cancelled again, the rest of the clause is skipped.
CleanupClosed(r) ==
  /\ ~ReaderRuns /\ caller = "aclose"
  /\ r = "cancelled" => callerCancel
  /\ CloserClosed(r)
  /\ callerCancel' = FALSE
  /\ IF r = "ok"
     THEN CancelTask /\ UNCHANGED outcome
     ELSE /\ caller' = "cut" /\ UNCHANGED sendCancel
          /\ outcome' = IF r = "error" THEN "close_error" ELSE "cancelled"
  /\ UNCHANGED <<method, cancels, callVars, send, sendResult, sawCancel, written,
                 halfClosed>>

\* Mutant: gather without return_exceptions raises the task's CancelledError.
GatherRaises == IF callerCancel \/ sendResult = "cancelled" THEN "cancelled" ELSE outcome

GatherOutcome == IF callerCancel THEN "cancelled" ELSE outcome

\* In the finally clause: the gather in _cancel_task ends with the sending task.
\* A gather that was cancelled meanwhile raises CancelledError, but only then.
Gathered ==
  /\ LoopFree /\ caller = "gather" /\ SendDone
  /\ caller' = "done"
  /\ outcome' = GatherOutcome
  /\ callerCancel' = FALSE
  /\ UNCHANGED <<sourceVars, method, cancels, callVars, sendVars>>

-----------------------------------------------------------------------------
\* The sending task (_send_request_messages).

SendEnds(r) == send' = "done" /\ sendResult' = r

\* Its first step, and how a request to cancel it kills it before that.
SendStart ==
  /\ LoopFree /\ send = "ready"
  /\ IF sendCancel
     THEN SendEnds("cancelled") /\ sendCancel' = FALSE /\ UNCHANGED sourceVars
     ELSE Anext /\ send' = "anext" /\ UNCHANGED <<sendResult, sendCancel>>
  /\ UNCHANGED <<callerVars, callVars, sawCancel, written, halfClosed>>

\* The producer is resumed with a CancelledError; it may take its time.
ProducerCancelled ==
  /\ LoopFree /\ send = "anext" /\ reader = "pulling" /\ sendCancel
  /\ sendCancel' = FALSE /\ sawCancel' = TRUE
  /\ UNCHANGED <<sourceVars, callerVars, callVars, send, sendResult, written, halfClosed>>

\* It answers: with a message, at its end, with its own error, or, when one was
\* thrown into it, with the CancelledError.
ProducerAnswers(r) ==
  /\ ~sendCancel /\ (r = "cancelled" => sawCancel)
  /\ Answer(r)
  /\ sawCancel' = FALSE
  /\ UNCHANGED <<callerVars, callVars, send, sendResult, sendCancel, written, halfClosed>>

SendSettles == Settle /\ UNCHANGED <<callerVars, callVars, sendVars>>

\* The producer's aclose() that __anext__ awaits ends, perhaps by a cancellation.
ProducerClosed(r) ==
  /\ r = "cancelled" => sendCancel
  /\ ReaderClosed(r)
  /\ sendCancel' = FALSE
  /\ UNCHANGED <<callerVars, callVars, send, sendResult, sawCancel, written, halfClosed>>

\* Mutant: a failed producer does not end the call.
CallGoesOn == call

\* if not call.done(): call.cancel(), when the producer or a write failed.
CallAborted == IF CallDone THEN call ELSE "aborted"

\* The loop of _send_request_messages goes on with what __anext__ gave: write
\* the message, end the stream, or fail, which cancels the call.
SendTakes ==
  /\ Take
  /\ \/ /\ got \in {"message", "stop"} /\ UNCHANGED call
        /\ IF CallDone
           THEN SendEnds("ok")
           ELSE /\ send' = IF got = "message" THEN "write" ELSE "done_writing"
                /\ UNCHANGED sendResult
     \/ got = "error" /\ SendEnds("error") /\ call' = CallAborted
     \/ got = "cancelled" /\ SendEnds("cancelled") /\ UNCHANGED call
  /\ UNCHANGED <<callerVars, callbackRun, response, inbox, received, sendCancel,
                 sawCancel, written, halfClosed>>

\* call.write() ends.  It fails once the call is done, with an AioRpcError or
\* InvalidStateError that ends the task quietly, or with CancelledError when the
\* call was cancelled locally; cancelled itself, it cancels the call.  A message that
\* cannot be serialized raises another exception, which ends the call as an error of
\* the producer does.
WriteEnds ==
  /\ LoopFree /\ send = "write"
  /\ \/ /\ sendCancel \/ CallDone
        /\ SendEnds(IF sendCancel \/ Locally THEN "cancelled" ELSE "ok")
        /\ call' = CallCancelled
        /\ UNCHANGED <<sourceVars, written>>
     \/ /\ ~sendCancel /\ ~CallDone
        /\ written' = written + 1 /\ Anext /\ send' = "anext"
        /\ UNCHANGED <<sendResult, call>>
     \/ /\ ~sendCancel /\ ~CallDone
        /\ SendEnds("error") /\ call' = CallAborted
        /\ UNCHANGED <<sourceVars, written>>
  /\ sendCancel' = FALSE
  /\ UNCHANGED <<callerVars, callbackRun, response, inbox, received, sawCancel, halfClosed>>

\* call.done_writing() ends, in the same ways.
DoneWritingEnds ==
  /\ LoopFree /\ send = "done_writing"
  /\ IF sendCancel \/ CallDone
     THEN /\ SendEnds(IF sendCancel \/ Locally THEN "cancelled" ELSE "ok")
          /\ call' = CallCancelled
          /\ UNCHANGED halfClosed
     ELSE SendEnds("ok") /\ halfClosed' = TRUE /\ UNCHANGED call
  /\ sendCancel' = FALSE
  /\ UNCHANGED <<sourceVars, callerVars, callbackRun, response, inbox, received,
                 sawCancel, written>>

-----------------------------------------------------------------------------
\* The gRPC runtime, the server, and whoever cancels the RPC method.

Respond ==
  /\ LoopFree /\ call = "active" /\ method # "stream_unary"
  /\ received < MaxResponses
  /\ received' = received + 1 /\ inbox' = inbox + 1
  /\ UNCHANGED <<sourceVars, callerVars, call, callbackRun, response, sendVars>>

\* The server, or a deadline, ends the call; nothing says it read everything.
CallEnds(status) ==
  /\ LoopFree /\ call = "active" /\ call' = status
  /\ UNCHANGED <<sourceVars, callerVars, callbackRun, response, inbox, received, sendVars>>

\* Mutant: no done callback is registered.
CallbackAbsent == sendCancel

CallbackCancels == sendCancel \/ ~SendDone

\* _cancel_task_callback, run by the call once it is done.
Callback ==
  /\ LoopFree /\ CallDone /\ send # "absent" /\ ~callbackRun
  /\ callbackRun' = TRUE
  /\ sendCancel' = CallbackCancels
  /\ UNCHANGED <<sourceVars, callerVars, call, response, inbox, received, send,
                 sendResult, sawCancel, written, halfClosed>>

\* The task that ensure_future made of the call sees its status.
ResponseTask ==
  /\ LoopFree /\ response = "pending" /\ CallDone
  /\ response' = Returned
  /\ UNCHANGED <<sourceVars, callerVars, call, callbackRun, inbox, received, sendVars>>

\* The task that awaits the method is cancelled.  In the gather the request
\* is passed on to the sending task at once.
CancelCaller ==
  /\ LoopFree /\ cancels < MaxCancels
  /\ caller \in {"wait", "await_response", "fetch", "aclose", "gather"}
  /\ cancels' = cancels + 1 /\ callerCancel' = TRUE
  /\ sendCancel' = (sendCancel \/ (caller = "gather" /\ ~SendDone))
  /\ UNCHANGED <<sourceVars, method, caller, outcome, callVars, send, sendResult,
                 sawCancel, written, halfClosed>>

\* The method is over, and so is its sending task.
Ended == Exited /\ SendDone /\ (callbackRun \/ send = "absent")
         /\ response # "pending" /\ UNCHANGED vars

CallerSteps ==
  \/ WaitWakes \/ ResponseArrives \/ FetchMessage \/ FetchEnds
  \/ CallerCancelled \/ Gathered \/ \E r \in CloseEnds : CleanupClosed(r)

SendSteps ==
  \/ SendStart \/ ProducerCancelled \/ SendSettles \/ SendTakes
  \/ \E r \in CloseEnds : ProducerClosed(r)

Transport == WriteEnds \/ DoneWritingEnds

Next ==
  \/ Start \/ CallerSteps \/ ConsumerNext \/ ConsumerCloses
  \/ SendSteps \/ Transport \/ \E r \in Answers : ProducerAnswers(r)
  \/ Respond \/ \E s \in {"ok", "failed"} : CallEnds(s)
  \/ Callback \/ ResponseTask \/ CancelCaller \/ Ended

\* The event loop resumes what is ready, and grpc runs its callbacks and fails
\* the writes of a call that is done.  A producer into which a CancelledError was
\* thrown, or that is synchronous, answers; an asynchronous one owes no answer
\* otherwise, nor does an active call owe a status or room for a write, nor the
\* consumer any interest.
Fairness ==
  /\ WF_vars(CallerSteps) /\ WF_vars(SendSteps)
  /\ WF_vars((sendCancel \/ CallDone) /\ Transport)
  /\ WF_vars(Callback) /\ WF_vars(ResponseTask)
  /\ WF_vars((sawCancel \/ Sync) /\ \E r \in Answers : ProducerAnswers(r))

Spec == Init /\ [][Next]_vars /\ Fairness

-----------------------------------------------------------------------------
\* When the RPC method has returned, raised or closed, and its clean-up was not
\* cut short, its sending task is over and a producer that was started and can
\* be closed has been closed.  (The finally clauses, lines 142-145 and 181-184.)
ExitIsClean ==
  caller = "done" =>
    /\ SendDone
    /\ Closable /\ producer # "fresh" => producer = "closed"

\* The server sees a clean end of the request stream only when the producer ended
\* and every message it yielded was written: neither a failed nor an interrupted
\* producer is ever passed off as a complete one.  (Lines 197-216, 237-248, and
\* the order of the finally clause: the call is cancelled before the close.)
CleanEndMeansComplete ==
  halfClosed => written = produced /\ producer \in {"over", "closing", "closed"}

\* stream_unary raises the error of the producer, or of a write, and not the
\* CancelledError of the call that this error aborted, however the sending task, the
\* response task and the done callback interleave.  (Lines 134-140.)
ProducerErrorReported ==
  method = "stream_unary" /\ call = "aborted" /\ Exited /\ cancels = 0
    => outcome \in {"producer_error", "close_error"}

\* A method nobody cancelled raises CancelledError only for a stream_stream whose
\* producer, or a write, failed (its call was aborted before a response was read).
NoSpuriousCancel ==
  outcome = "cancelled" /\ cancels = 0 => method = "stream_stream" /\ call = "aborted"

\* Once the call is done for whatever reason the sending task ends, even when the
\* consumer has lost interest and the method stays suspended at its yield.
\* (The done callback, lines 131 and 174, and the checks of call.done().)
SendingStops == CallDone ~> SendDone

\* When the producer or a write fails, the method ends, unless it waits for its consumer,
\* even though the server may never answer.  (Lines 213-216.)
ProducerFailureEnds == sendResult = "error" ~> (Exited \/ caller = "yielded")

\* A cancellation of the method ends it, even with a producer that swallows the
\* CancelledError.  (Lines 142-145 and 181-184.)
CancellationEnds == callerCancel ~> Exited
=============================================================================
