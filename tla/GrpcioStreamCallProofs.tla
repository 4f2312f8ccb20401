----------------------- MODULE GrpcioStreamCallProofs -----------------------
(***************************************************************************)
(* What the message source promises, for every set of producer kinds and   *)
(* every number of messages, and what a streaming call makes of it, for    *)
(* every set of methods and every number of responses and cancellations.   *)
(***************************************************************************)
EXTENDS GrpcioStreamCall, TLAPS

-----------------------------------------------------------------------------
\* The message source.

\* _iterating, the place of the reader and the producer agree.
PullInv ==
  /\ iterating <=> reader = "pulling"
  /\ iterating <=> producer = "running"
  /\ reader = "answered" => producer \in {"idle", "over"}
  /\ reader = "answered" => got \in Answers
  /\ reader \notin {"pulling", "closing"} /\ got \in {"none", "message"} /\ ~closed
       => producer \in {"fresh", "idle"}

\* The close flags agree with what was asked of the producer.
CloseInv ==
  /\ closeCalled => closed
  /\ closer # "out" => closed
  /\ iterating \/ reader = "answered" => ~closeCalled
  /\ closed /\ ~iterating /\ reader # "answered" => closeCalled
  /\ closeCalls \in {0, 1}
  /\ closeCalls = 1 <=> producer \in {"closing", "closed"}
  /\ closeCalls = 1 => closeCalled
  /\ closeCalled /\ Closable => producer = "fresh" \/ closeCalls = 1

\* A close in progress has exactly one coroutine waiting for it, and a reader
\* that is through does not hand out a message of a closed wrapper.
WaitInv ==
  /\ reader = "closing" => producer = "closing" /\ closer # "closing"
  /\ closer = "closing" => producer = "closing"
  /\ producer = "closing" => reader = "closing" \/ closer = "closing"
  /\ reader = "closing" => got \in Answers \ {"message"}
  /\ reader = "returned" => got \in Answers

SourceInv == SourceTypeOK /\ PullInv /\ CloseInv /\ WaitInv

\* The inductive invariant holds initially.
LEMMA SourceInvInit == SourceInit => SourceInv
<1> SUFFICES ASSUME SourceInit PROVE SourceInv
  OBVIOUS
<1>1. SourceTypeOK
  <2>1. kind \in Kinds /\ produced \in 0 .. MaxMessages /\ closeCalls \in Nat
    BY MaxMessagesAssumption DEF SourceInit
  <2>2. closed \in BOOLEAN /\ closeCalled \in BOOLEAN /\ iterating \in BOOLEAN
    BY DEF SourceInit
  <2> QED BY <2>1, <2>2 DEF SourceInit, SourceTypeOK
<1>2. PullInv /\ CloseInv /\ WaitInv
  BY DEF SourceInit, PullInv, CloseInv, WaitInv
<1> QED BY <1>1, <1>2 DEF SourceInv

\* Every step of the wrapper preserves it; Aclose while the reader is between two
\* awaits would not, which is where the event loop's atomicity is needed.
LEMMA SourceInvStep == SourceInv /\ [SourceNext]_sourceVars => SourceInv'
<1> SUFFICES ASSUME SourceInv, [SourceNext]_sourceVars PROVE SourceInv'
  OBVIOUS
<1> USE DEF SourceInv, SourceTypeOK, PullInv, CloseInv, WaitInv, Answers, CloseEnds,
            Closable, Sync
<1>1. CASE LoopFree /\ Anext
  BY <1>1 DEF Anext, LoopFree, ReaderRuns
<1>2. ASSUME NEW r \in Answers, Answer(r) PROVE SourceInv'
  <2>1. produced' \in 0 .. MaxMessages
    BY <1>2, MaxMessagesAssumption DEF Answer
  <2>2. producer' = (IF r = "message" THEN "idle" ELSE "over")
        /\ iterating' = FALSE /\ reader' = "answered" /\ got' = r
    BY <1>2 DEF Answer
  <2>3. UNCHANGED <<kind, closeCalls, closed, closeCalled, closer>>
    BY <1>2 DEF Answer
  <2>4. iterating /\ producer = "running" /\ closer # "closing"
    BY <1>2 DEF Answer
  <2>5. SourceTypeOK' /\ PullInv'
    BY <1>2, <2>1, <2>2, <2>3
  <2>6. CloseInv' /\ WaitInv'
    BY <1>2, <2>2, <2>3, <2>4
  <2> QED BY <2>5, <2>6
<1>3. CASE Settle
  <2>1. ~iterating /\ ~closeCalled /\ closeCalls = 0 /\ reader = "answered"
        /\ producer \in {"idle", "over"} /\ closer # "closing" /\ got \in Answers
    BY <1>3 DEF Settle
  <2>2. UNCHANGED <<kind, produced, iterating, closer>> /\ closed' = (closed \/ got = "stop")
    BY <1>3 DEF Settle
  <2>3. CASE MustClose /\ Closable
    <3>1. CallsClose /\ CloseIterator
      BY <1>3, <2>1, <2>3 DEF Settle, CallsClose
    <3>2. closeCalled' = TRUE /\ closeCalls' = 1 /\ producer' = "closing"
      BY <2>1, <3>1 DEF CloseIterator
    <3>3. closed' = TRUE /\ reader' = "closing" /\ got' \in Answers \ {"message"}
      BY <1>3, <2>1, <2>3, <3>1 DEF Settle, MustClose
    <3>4. SourceTypeOK' /\ PullInv'
      BY <2>1, <2>2, <3>2, <3>3
    <3>5. CloseInv' /\ WaitInv'
      BY <2>1, <2>2, <3>2, <3>3
    <3> QED BY <3>4, <3>5
  <2>4. CASE MustClose /\ ~Closable
    <3>1. closeCalled' /\ closeCalls' = 0 /\ producer' = producer /\ reader' = "returned"
          /\ closed' /\ got' \in Answers
      BY <1>3, <2>1, <2>4 DEF Settle, MustClose, CloseIterator, CallsClose
    <3> QED BY <2>1, <2>2, <2>4, <3>1
  <2>5. CASE ~MustClose
    BY <1>3, <2>1, <2>2, <2>5 DEF Settle, MustClose
  <2> QED BY <2>3, <2>4, <2>5
<1>4. ASSUME NEW r \in CloseEnds, ReaderClosed(r) PROVE SourceInv'
  BY <1>4 DEF ReaderClosed, AfterClose
<1>5. CASE Take
  BY <1>5 DEF Take
<1>6. CASE LoopFree /\ Aclose
  <2>1. closed' /\ closer = "out" /\ reader # "answered" /\ reader # "returned"
        /\ UNCHANGED <<kind, produced, iterating, reader, got>>
    BY <1>6 DEF Aclose, LoopFree, ReaderRuns
  <2>2. CASE iterating
    <3>1. closer' = "ok" /\ UNCHANGED <<closeCalled, closeCalls, producer>>
      BY <1>6, <2>2 DEF Aclose, HandsOver
    <3> QED BY <2>1, <2>2, <3>1
  <2>3. CASE ~iterating /\ CallsClose
    <3>1. closer' = "closing" /\ closeCalled' /\ closeCalls' = 1 /\ producer' = "closing"
      BY <1>6, <2>3 DEF Aclose, HandsOver, CloseIterator, CallsClose
    <3> QED BY <2>1, <2>3, <3>1 DEF CallsClose
  <2>4. CASE ~iterating /\ ~CallsClose
    <3>1. closer' = "ok" /\ closeCalled' /\ UNCHANGED <<closeCalls, producer>>
      BY <1>6, <2>4 DEF Aclose, HandsOver, CloseIterator
    <3> QED BY <2>1, <2>4, <3>1 DEF CallsClose
  <2> QED BY <2>2, <2>3, <2>4
<1>7. ASSUME NEW r \in CloseEnds, ~ReaderRuns /\ CloserClosed(r) PROVE SourceInv'
  BY <1>7 DEF CloserClosed, ReaderRuns
<1>8. CASE SourceEnded \/ UNCHANGED sourceVars
  BY <1>8 DEF SourceEnded, sourceVars
<1> QED
  BY <1>1, <1>2, <1>3, <1>4, <1>5, <1>6, <1>7, <1>8 DEF SourceNext

\* Every variable of the message source stays in its type, and the flags, the
\* reader and the producer agree, in every reachable state.
THEOREM SourceInvariant == SourceSpec => []SourceInv
BY SourceInvInit, SourceInvStep, PTL DEF SourceSpec

\* The type invariant the runs check.
THEOREM SourceTypeCorrect == SourceSpec => []SourceTypeOK
<1>1. SourceInv => SourceTypeOK
  BY DEF SourceInv
<1> QED BY <1>1, SourceInvariant, PTL

\* Whoever of the reader and the closer comes last closes the producer.
THEOREM CloseIsNotLost == SourceSpec => []CloseNotLost
<1>1. SourceInv => CloseNotLost
  BY DEF SourceInv, CloseInv, CloseNotLost
<1> QED BY <1>1, SourceInvariant, PTL

\* No message of a closed wrapper reaches the sending task.
THEOREM NothingHandedOutAfterClose == SourceSpec => NoMessageAfterClose
<1>1. SourceInv /\ [SourceNext]_sourceVars
        => [closed /\ reader' = "returned" => got' # "message"]_sourceVars
  <2> SUFFICES ASSUME SourceInv, SourceNext, closed, reader' = "returned",
                      ~UNCHANGED sourceVars
               PROVE  got' # "message"
    OBVIOUS
  <2> USE DEF SourceInv, SourceTypeOK, PullInv, CloseInv, WaitInv, Answers, CloseEnds
  <2>1. CASE LoopFree /\ Anext
    BY <2>1 DEF Anext
  <2>2. ASSUME NEW r \in Answers, Answer(r) PROVE FALSE
    BY <2>2 DEF Answer
  <2>3. CASE Settle
    BY <2>3 DEF Settle, MustClose
  <2>4. ASSUME NEW r \in CloseEnds, ReaderClosed(r) PROVE got' # "message"
    BY <2>4 DEF ReaderClosed, AfterClose
  <2>5. CASE Take
    BY <2>5 DEF Take
  <2>6. CASE LoopFree /\ Aclose
    BY <2>6 DEF Aclose, LoopFree, ReaderRuns
  <2>7. ASSUME NEW r \in CloseEnds, ~ReaderRuns /\ CloserClosed(r) PROVE FALSE
    BY <2>7 DEF CloserClosed, ReaderRuns
  <2>8. CASE SourceEnded
    BY <2>8 DEF SourceEnded
  <2> QED BY <2>1, <2>2, <2>3, <2>4, <2>5, <2>6, <2>7, <2>8 DEF SourceNext
<1> QED BY <1>1, SourceInvariant, PTL DEF SourceSpec, NoMessageAfterClose

\* A step of the wrapper is a step of the producer's life, or nothing to it.
LEMMA LifecycleStep ==
  SourceInv /\ [SourceNext]_sourceVars => [Lifecycle!LifecycleNext]_(Lifecycle!lifecycleVars)
<1> SUFFICES ASSUME SourceInv, [SourceNext]_sourceVars
             PROVE  [Lifecycle!LifecycleNext]_(Lifecycle!lifecycleVars)
  OBVIOUS
<1> USE DEF SourceInv, SourceTypeOK, PullInv, CloseInv, WaitInv, Lifecycle!LifecycleNext,
            Lifecycle!lifecycleVars
<1>1. CASE LoopFree /\ Anext
  BY <1>1 DEF Anext, LoopFree, Lifecycle!Pull
<1>2. ASSUME NEW r \in Answers, Answer(r)
      PROVE  [Lifecycle!LifecycleNext]_(Lifecycle!lifecycleVars)
  BY <1>2 DEF Answer, Lifecycle!Yield, Lifecycle!Finish
<1>3. CASE Settle
  BY <1>3 DEF Settle, CloseIterator, CallsClose, Lifecycle!Close
<1>4. ASSUME NEW r \in CloseEnds, ReaderClosed(r)
      PROVE  [Lifecycle!LifecycleNext]_(Lifecycle!lifecycleVars)
  BY <1>4 DEF ReaderClosed, Lifecycle!CloseEnds
<1>5. CASE Take \/ SourceEnded \/ UNCHANGED sourceVars
  BY <1>5 DEF Take, SourceEnded, sourceVars
<1>6. CASE LoopFree /\ Aclose
  <2>1. CASE iterating \/ ~CallsClose
    <3>1. UNCHANGED <<closeCalls, producer>>
      BY <1>6, <2>1 DEF Aclose, HandsOver, CloseIterator
    <3> QED BY <3>1
  <2>2. CASE ~iterating /\ CallsClose
    <3>1. closeCalls' = closeCalls + 1 /\ producer' = "closing" /\ producer # "fresh"
          /\ ~closeCalled
      BY <1>6, <2>2 DEF Aclose, HandsOver, CloseIterator, CallsClose
    <3> QED BY <2>2, <3>1 DEF Lifecycle!Close
  <2> QED BY <2>1, <2>2
<1>7. ASSUME NEW r \in CloseEnds, CloserClosed(r)
      PROVE  [Lifecycle!LifecycleNext]_(Lifecycle!lifecycleVars)
  BY <1>7 DEF CloserClosed, Lifecycle!CloseEnds
<1> QED
  BY <1>1, <1>2, <1>3, <1>4, <1>5, <1>6, <1>7 DEF SourceNext

\* The wrapper implements ProducerLifecycle: whatever the sending task and the
\* closing method do, the producer is pulled one message at a time, closed at
\* most once, and never closed while it runs.
THEOREM SourceKeepsLifecycle == SourceSpec => KeepsLifecycle
<1>1. SourceInit => Lifecycle!LifecycleInit
  BY DEF SourceInit, Lifecycle!LifecycleInit
<1> QED
  BY <1>1, LifecycleStep, SourceInvariant, PTL
     DEF SourceSpec, KeepsLifecycle, Lifecycle!LifecycleSpec

-----------------------------------------------------------------------------
\* The streaming call.

\* The stages of the method: before its finally clause, and from there on.
Before == {"start", "wait", "await_response", "fetch", "yielded"}
During == {"aclose", "gather", "done", "cut"}

\* The method, its outcome and the call agree.
StageInv ==
  /\ call = "none" <=> caller = "start"
  /\ outcome = "none" <=> caller \in Before
  /\ outcome # "none" => CallDone
  /\ caller \in {"wait", "await_response"} => method = "stream_unary" /\ response # "none"
  /\ caller \in {"fetch", "yielded"} => method # "stream_unary"
  /\ send = "absent" <=> caller = "start" \/ method = "unary_stream"
  /\ send = "done" <=> sendResult # "none"
  /\ caller = "done" => SendDone

\* The method has called aclose() exactly from its finally clause on.
CloserInv ==
  /\ caller \in Before => closer = "out"
  /\ caller \in During /\ method # "unary_stream" => closer # "out"
  /\ method = "unary_stream" => closer = "out" /\ caller \notin {"aclose", "gather"}
  /\ closer = "closing" <=> caller = "aclose"

\* The sending task is inside __anext__ exactly while the reader is.
SendInv ==
  /\ reader # "out" <=> send = "anext"
  /\ send \in {"absent", "ready"} => producer = "fresh" /\ got = "none" /\ written = 0
                                     /\ produced = 0
  /\ send = "write" => got = "message"
  /\ reader = "pulling" => got \in {"none", "message"}
  /\ closed => CallDone \/ got \notin {"none", "message"}

\* Where the messages the producer has yielded are.
CountInv ==
  /\ written <= produced /\ inbox <= received
  /\ send = "anext" /\ reader = "pulling" => written = produced
  /\ send = "anext" /\ reader \in {"answered", "returned"} /\ got = "message"
       => produced = written + 1
  /\ send = "write" => produced = written + 1

\* A stop that may lead to a half-close is the producer's own.
EndInv ==
  LET Complete == written = produced /\ producer \in {"over", "closing", "closed"}
  IN  /\ send = "anext" /\ reader # "pulling" /\ got = "stop" => CallDone \/ Complete
      /\ send = "done_writing" => CallDone \/ Complete
      /\ halfClosed => Complete /\ send = "done"

\* Who cancelled what.
CancelInv ==
  /\ call = "cancelled" => outcome # "none"
  /\ call = "aborted" => sendResult = "error"
  /\ sendCancel => CallDone
  /\ callerCancel => cancels > 0
  /\ response = "cancelled" /\ outcome = "none" => call = "aborted"
  /\ caller = "await_response" => SendDone /\ sendResult # "error"
  /\ outcome = "cancelled" /\ cancels = 0 => method = "stream_stream" /\ call = "aborted"
  /\ method = "stream_unary" /\ call = "aborted" /\ caller \in During /\ cancels = 0
       => outcome \in {"producer_error", "close_error"}

IInv == /\ SourceInv /\ TypeOK /\ StageInv /\ CloserInv /\ SendInv
        /\ CountInv /\ EndInv /\ CancelInv

-----------------------------------------------------------------------------
\* Every step of a call is a step of its message source, or none of it.
LEMMA SourceStep == [Next]_vars => [SourceNext]_sourceVars
<1> SUFFICES ASSUME [Next]_vars PROVE [SourceNext]_sourceVars
  OBVIOUS
<1>1. ASSUME NEW o, LoopFree, Finally(o) PROVE [SourceNext]_sourceVars
  BY <1>1 DEF Finally, SourceNext
<1>2. CASE CallerSteps
  <2>1. ASSUME NEW r \in CloseEnds, CleanupClosed(r) PROVE [SourceNext]_sourceVars
    BY <2>1 DEF CleanupClosed, SourceNext
  <2> QED
    BY <1>1, <1>2, <2>1
       DEF CallerSteps, WaitWakes, ResponseArrives, FetchMessage, FetchEnds,
           CallerCancelled, Gathered
<1>3. CASE SendSteps
  <2>1. ASSUME NEW r \in CloseEnds, ProducerClosed(r) PROVE [SourceNext]_sourceVars
    BY <2>1 DEF ProducerClosed, SourceNext
  <2> QED
    BY <1>3, <2>1
       DEF SendSteps, SendStart, ProducerCancelled, SendSettles, SendTakes, SourceNext
<1>4. CASE Transport
  BY <1>4 DEF Transport, WriteEnds, DoneWritingEnds, SourceNext
<1>5. ASSUME NEW r \in Answers, ProducerAnswers(r) PROVE [SourceNext]_sourceVars
  BY <1>5 DEF ProducerAnswers, SourceNext
<1>6. CASE ConsumerCloses
  BY <1>1, <1>6 DEF ConsumerCloses
<1>7. CASE Start \/ ConsumerNext \/ Respond \/ Callback \/ ResponseTask \/ CancelCaller
  BY <1>7 DEF Start, ConsumerNext, Respond, Callback, ResponseTask, CancelCaller
<1>8. ASSUME NEW t \in {"ok", "failed"}, CallEnds(t) PROVE [SourceNext]_sourceVars
  BY <1>8 DEF CallEnds
<1>9. CASE Ended \/ UNCHANGED vars
  BY <1>9 DEF Ended, vars
<1> QED
  BY <1>2, <1>3, <1>4, <1>5, <1>6, <1>7, <1>8, <1>9 DEF Next

\* What the finally clause does, whichever outcome brought the method there.
LEMMA FinallyEffect ==
  ASSUME IInv, LoopFree, NEW o, Finally(o), caller \in Before \ {"start"}
  PROVE  /\ outcome' = o /\ call' = CallCancelled
         /\ UNCHANGED <<method, cancels, callbackRun, received, send, sendResult,
                        sawCancel, written, halfClosed, kind, produced, reader, got>>
         /\ sendCancel' \in BOOLEAN
         /\ caller' \in {"aclose", "gather", "done"}
         /\ caller' = "done" => SendDone
         /\ method = "unary_stream" => caller' = "done" /\ UNCHANGED sourceVars
         /\ method # "unary_stream" => closer' # "out"
         /\ closer' = "closing" <=> caller' = "aclose"
         /\ producer' # producer => producer' = "closing" /\ producer \in {"idle", "over"}
<1> USE DEF IInv, TypeOK, SourceTypeOK, SourceInv, CloserInv, Before, CloseEnds
<1>1. UNCHANGED <<method, cancels, callbackRun, received, send, sendResult,
                  sawCancel, written, halfClosed>> /\ outcome' = o /\ call' = CallCancelled
  BY DEF Finally
<1>2. CASE method = "unary_stream"
  BY <1>1, <1>2 DEF Finally, sourceVars, StageInv, SendDone
<1>3. CASE method # "unary_stream"
  <2>1. Aclose /\ closer = "out" /\ UNCHANGED <<kind, produced, iterating, reader, got>>
    BY <1>3 DEF Finally, Aclose
  <2>2. closer' \in {"closing", "ok"}
    BY <2>1 DEF Aclose
  <2>3. producer' # producer => producer' = "closing" /\ producer \in {"idle", "over"}
    <3>1. producer' # producer => ~iterating /\ CallsClose /\ producer' = "closing"
      BY <2>1 DEF Aclose, HandsOver, CloseIterator
    <3>2. ~iterating /\ CallsClose => producer \in {"idle", "over"}
      BY DEF PullInv, CloseInv, CallsClose
    <3> QED BY <3>1, <3>2
  <2>4. caller' \in {"aclose", "gather", "done"} /\ sendCancel' \in BOOLEAN
        /\ (caller' = "done" => SendDone) /\ (closer' = "closing" <=> caller' = "aclose")
    BY <1>3 DEF Finally, CancelTask
  <2> QED BY <1>1, <1>3, <2>1, <2>2, <2>3, <2>4
<1> QED BY <1>2, <1>3

\* The invariant holds initially.
LEMMA IInvInit == Init => IInv
<1> SUFFICES ASSUME Init PROVE IInv
  OBVIOUS
<1>1. SourceInv
  BY SourceInvInit DEF Init
<1>2. TypeOK
  <2>1. SourceTypeOK /\ method \in Methods /\ call \in Statuses
    BY <1>1 DEF Init, SourceInv, Statuses
  <2>2. /\ cancels \in 0 .. MaxCancels /\ written \in 0 .. MaxMessages
        /\ inbox \in 0 .. MaxResponses /\ received \in 0 .. MaxResponses
    BY BoundsAssumption, MaxMessagesAssumption DEF Init
  <2>3. /\ callerCancel \in BOOLEAN /\ callbackRun \in BOOLEAN /\ sendCancel \in BOOLEAN
        /\ sawCancel \in BOOLEAN /\ halfClosed \in BOOLEAN
    BY DEF Init
  <2> QED BY <2>1, <2>2, <2>3 DEF Init, TypeOK
<1>3. StageInv /\ CloserInv /\ SendInv /\ CountInv /\ EndInv /\ CancelInv
  BY DEF Init, SourceInit, StageInv, CloserInv, SendInv, CountInv, EndInv, CancelInv,
         Before, During, CallDone, SendDone
<1> QED BY <1>1, <1>2, <1>3 DEF IInv

\* A finally clause that is entered from a legal stage preserves the invariant.
LEMMA FinallyKeepsInv ==
  ASSUME IInv, LoopFree, SourceInv',
         NEW o \in {"ok", "failed", "cancelled", "producer_error", "closed"},
         Finally(o), caller \in Before \ {"start"},
         callerCancel' \in BOOLEAN, callerCancel' => callerCancel,
         inbox' \in 0 .. inbox,
         response' = response \/ (response = "pending" /\ response' = "cancelled"),
         o = "cancelled" /\ cancels = 0 => method = "stream_stream" /\ call = "aborted",
         method = "stream_unary" /\ call = "aborted" /\ cancels = 0 => o = "producer_error"
  PROVE  IInv'
<1>1. /\ outcome' = o /\ call' = CallCancelled
      /\ UNCHANGED <<method, cancels, callbackRun, received, send, sendResult,
                     sawCancel, written, halfClosed, kind, produced, reader, got>>
      /\ sendCancel' \in BOOLEAN
      /\ caller' \in {"aclose", "gather", "done"}
      /\ caller' = "done" => SendDone
      /\ method = "unary_stream" => caller' = "done" /\ UNCHANGED sourceVars
      /\ method # "unary_stream" => closer' # "out"
      /\ closer' = "closing" <=> caller' = "aclose"
      /\ producer' # producer => producer' = "closing" /\ producer \in {"idle", "over"}
  BY FinallyEffect
<1>2. CallDone' /\ call' \in Statuses /\ (CallDone => call' = call)
      /\ (~CallDone => call' = "cancelled")
  BY <1>1 DEF CallCancelled, CallDone, Statuses, IInv, TypeOK
<1>3. TypeOK'
  BY <1>1, <1>2, BoundsAssumption DEF IInv, TypeOK, SourceInv
<1>4. StageInv' /\ CloserInv'
  BY <1>1, <1>2 DEF IInv, TypeOK, StageInv, CloserInv, Before, During, SendDone, sourceVars
<1>5. SendInv' /\ CountInv'
  BY <1>1, <1>2, BoundsAssumption DEF IInv, TypeOK, SendInv, CountInv, StageInv, Before
<1>6. EndInv'
  BY <1>1, <1>2 DEF IInv, EndInv
<1>7. CancelInv'
  BY <1>1, <1>2 DEF IInv, CancelInv, StageInv, Before, During, TypeOK, CallDone, SendDone
<1> QED BY <1>3, <1>4, <1>5, <1>6, <1>7 DEF IInv

-----------------------------------------------------------------------------
\* The steps of the method preserve the invariant.
LEMMA CallerKeepsInv == IInv /\ SourceInv' /\ CallerSteps => IInv'
<1> SUFFICES ASSUME IInv, SourceInv', CallerSteps PROVE IInv'
  OBVIOUS
<1>1. CASE WaitWakes
  <2>1. CASE ProducerFailed
    <3>1. Finally("producer_error") /\ UNCHANGED <<callerCancel, response, inbox>>
      BY <1>1, <2>1 DEF WaitWakes
    <3> QED
      BY <1>1, <3>1, FinallyKeepsInv
         DEF WaitWakes, IInv, TypeOK, Before, CancelInv
  <2>2. CASE ~ProducerFailed /\ response # "pending"
    <3>1. Finally(response) /\ UNCHANGED <<callerCancel, response, inbox>>
      BY <1>1, <2>2 DEF WaitWakes
    <3>2. response \in {"ok", "failed", "cancelled"} /\ outcome = "none"
          /\ method = "stream_unary"
      BY <1>1, <2>2 DEF WaitWakes, IInv, TypeOK, StageInv, Before
    <3>3. call # "aborted"
      BY <2>2 DEF ProducerFailed, SendDone, IInv, CancelInv, StageInv
    <3> QED
      BY <1>1, <3>1, <3>2, <3>3, FinallyKeepsInv
         DEF WaitWakes, IInv, TypeOK, Before, CancelInv
  <2>3. CASE ~ProducerFailed /\ response = "pending"
    <3>1. caller' = "await_response"
          /\ UNCHANGED <<sourceVars, method, outcome, callerCancel, cancels, callVars, sendVars>>
      BY <1>1, <2>3 DEF WaitWakes
    <3>2. caller = "wait" /\ SendDone /\ sendResult # "error"
      BY <1>1, <2>3 DEF WaitWakes, ProducerFailed
    <3> QED
      BY <3>1, <3>2
         DEF IInv, TypeOK, SourceInv, StageInv, CloserInv, SendInv, CountInv, EndInv,
             CancelInv, Before, During, CallDone, SendDone, sourceVars, callVars, sendVars
  <2> QED BY <2>1, <2>2, <2>3
<1>2. CASE ResponseArrives
  <2>1. response \in {"ok", "failed", "cancelled"} /\ outcome = "none"
        /\ method = "stream_unary" /\ call # "aborted"
    BY <1>2 DEF ResponseArrives, IInv, TypeOK, StageInv, CancelInv, Before
  <2> QED
    BY <1>2, <2>1, FinallyKeepsInv DEF ResponseArrives, IInv, TypeOK, Before, CancelInv
<1>3. CASE FetchMessage
  <2>1. CASE ProducerFailed
    BY <1>3, <2>1, FinallyKeepsInv, BoundsAssumption
       DEF FetchMessage, IInv, TypeOK, Before, StageInv
  <2>2. CASE ~ProducerFailed
    <3>1. caller = "fetch" /\ caller' = "yielded" /\ inbox' = inbox - 1 /\ inbox > 0
          /\ UNCHANGED <<sourceVars, method, outcome, callerCancel, cancels, call,
                         callbackRun, response, received, sendVars>>
      BY <1>3, <2>2 DEF FetchMessage
    <3>2. inbox' \in 0 .. MaxResponses /\ inbox' <= received
      BY <3>1, BoundsAssumption DEF IInv, TypeOK, CountInv
    <3> QED
      BY <3>1, <3>2
         DEF IInv, TypeOK, SourceInv, StageInv, CloserInv, SendInv, CountInv, EndInv,
             CancelInv, Before, During, CallDone, SendDone, sourceVars, sendVars
  <2> QED BY <2>1, <2>2
<1>4. CASE FetchEnds
  <2>1. Returned \in {"ok", "failed", "cancelled"}
        /\ (Returned = "cancelled" => call \in {"aborted", "cancelled"})
    BY <1>4 DEF FetchEnds, Returned, Locally, CallDone, IInv, TypeOK, Statuses
  <2>2. outcome = "none" /\ method # "stream_unary" /\ call # "cancelled"
        /\ (call = "aborted" => method = "stream_stream")
    BY <1>4, MethodsAssumption
       DEF FetchEnds, IInv, TypeOK, StageInv, CancelInv, Before, AllMethods
  <2> QED
    BY <1>4, <2>1, <2>2, FinallyKeepsInv DEF FetchEnds, IInv, TypeOK, Before
<1>5. CASE CallerCancelled
  <2>1. Finally("cancelled") /\ caller \in Before \ {"start"} /\ callerCancel' = FALSE
        /\ cancels # 0 /\ LoopFree
    BY <1>5 DEF CallerCancelled, Before, IInv, CancelInv
  <2>2. inbox' \in 0 .. inbox
    BY <1>5, BoundsAssumption DEF CallerCancelled, IInv, TypeOK
  <2>3. response' = response \/ (response = "pending" /\ response' = "cancelled")
    BY <1>5 DEF CallerCancelled
  <2> QED BY <2>1, <2>2, <2>3, FinallyKeepsInv
<1>6. CASE Gathered
  <2>1. /\ caller = "gather" /\ caller' = "done" /\ SendDone /\ callerCancel' = FALSE
        /\ outcome' = GatherOutcome
        /\ UNCHANGED <<sourceVars, method, cancels, callVars, sendVars>>
    BY <1>6 DEF Gathered
  <2>2. outcome # "none" /\ outcome' # "none" /\ outcome' \in {outcome, "cancelled"}
        /\ (outcome' # outcome => cancels # 0)
    BY <2>1 DEF GatherOutcome, IInv, StageInv, Before, CancelInv
  <2>3. TypeOK'
    BY <2>1, <2>2 DEF IInv, TypeOK, SourceInv, callVars, sendVars
  <2>4. StageInv' /\ CloserInv'
    BY <2>1, <2>2
       DEF IInv, StageInv, CloserInv, Before, During, CallDone, SendDone, sourceVars,
           callVars, sendVars
  <2>5. SendInv' /\ CountInv' /\ EndInv'
    BY <2>1
       DEF IInv, SendInv, CountInv, EndInv, CallDone, sourceVars, callVars, sendVars
  <2>6. CancelInv'
    BY <2>1, <2>2
       DEF IInv, CancelInv, During, CallDone, SendDone, callVars, sendVars
  <2> QED BY <2>3, <2>4, <2>5, <2>6 DEF IInv
<1>7. ASSUME NEW r \in CloseEnds, CleanupClosed(r) PROVE IInv'
  <2>1. /\ caller = "aclose" /\ callerCancel' = FALSE /\ closer' = r
        /\ producer' = "closed" /\ producer = "closing"
        /\ UNCHANGED <<kind, produced, closeCalls, closed, closeCalled, iterating, reader,
                       got, method, cancels, callVars, send, sendResult, sawCancel,
                       written, halfClosed>>
    BY <1>7 DEF CleanupClosed, CloserClosed, IInv, SourceInv, WaitInv
  <2>2. /\ caller' \in {"gather", "done", "cut"} /\ sendCancel' \in BOOLEAN
        /\ caller' = "done" => SendDone
    BY <1>7 DEF CleanupClosed, CancelTask, IInv, TypeOK
  <2>3. outcome' \in {outcome, "close_error", "cancelled"} /\ outcome # "none"
        /\ (outcome' = "cancelled" /\ outcome # "cancelled" => cancels # 0)
        /\ CallDone
    BY <1>7, <2>1 DEF CleanupClosed, IInv, StageInv, CancelInv, Before, CloseEnds
  <2>4. TypeOK'
    <3>1. SourceTypeOK' /\ method' \in Methods /\ cancels' \in 0 .. MaxCancels
      BY <2>1 DEF IInv, TypeOK, SourceInv
    <3>2. outcome' \in {"none", "ok", "failed", "cancelled", "producer_error",
                        "closed", "close_error"}
      BY <2>3 DEF IInv, TypeOK
    <3> QED BY <2>1, <2>2, <3>1, <3>2 DEF IInv, TypeOK, callVars
  <2>5. StageInv' /\ CloserInv'
    BY <2>1, <2>2, <2>3
       DEF IInv, StageInv, CloserInv, Before, During, CallDone, SendDone, callVars, CloseEnds
  <2>6. SendInv' /\ CountInv' /\ EndInv'
    BY <2>1, <2>3 DEF IInv, SendInv, CountInv, EndInv, CallDone, callVars
  <2>7. CancelInv'
    BY <2>1, <2>2, <2>3
       DEF IInv, CancelInv, During, CallDone, SendDone, callVars
  <2> QED BY <2>4, <2>5, <2>6, <2>7 DEF IInv
<1> QED BY <1>1, <1>2, <1>3, <1>4, <1>5, <1>6, <1>7 DEF CallerSteps

\* The steps of the sending task, its producer and its transport preserve it.
LEMMA SendKeepsInv ==
  IInv /\ SourceInv' /\ (SendSteps \/ Transport \/ \E r \in Answers : ProducerAnswers(r))
    => IInv'
<1> SUFFICES ASSUME IInv, SourceInv' PROVE
      SendSteps \/ Transport \/ (\E r \in Answers : ProducerAnswers(r)) => IInv'
  OBVIOUS
<1>0. SourceTypeOK' /\ SourceTypeOK
  BY DEF SourceInv, IInv
<1>1. CASE SendStart
  <2>1. CASE sendCancel
    <3>1. send = "ready" /\ send' = "done" /\ sendResult' = "cancelled" /\ sendCancel' = FALSE
          /\ UNCHANGED <<sourceVars, callerVars, callVars, sawCancel, written, halfClosed>>
      BY <1>1, <2>1 DEF SendStart, SendEnds
    <3>2. TypeOK'
      BY <1>0, <3>1 DEF IInv, TypeOK, callerVars, callVars
    <3> QED
      BY <3>1, <3>2
         DEF IInv, StageInv, CloserInv, SendInv, CountInv, EndInv, CancelInv, Before,
             During, CallDone, SendDone, sourceVars, callerVars, callVars
  <2>2. CASE ~sendCancel
    <3>1. send = "ready" /\ send' = "anext" /\ Anext
          /\ UNCHANGED <<sendResult, sendCancel, callerVars, callVars, sawCancel, written,
                         halfClosed>>
      BY <1>1, <2>2 DEF SendStart
    <3>2. TypeOK'
      BY <1>0, <3>1 DEF IInv, TypeOK, callerVars, callVars
    <3>3. StageInv' /\ CloserInv' /\ CancelInv'
      BY <3>1
         DEF IInv, StageInv, CloserInv, CancelInv, Before, During, CallDone, SendDone,
             Anext, callerVars, callVars
    <3>4. SendInv' /\ CountInv' /\ EndInv'
      BY <3>1
         DEF IInv, SendInv, CountInv, EndInv, CallDone, Anext, callerVars, callVars
    <3> QED BY <3>2, <3>3, <3>4 DEF IInv
  <2> QED BY <2>1, <2>2
<1>2. CASE ProducerCancelled
  <2>1. sendCancel' = FALSE /\ sawCancel' = TRUE
        /\ UNCHANGED <<sourceVars, callerVars, callVars, send, sendResult, written, halfClosed>>
    BY <1>2 DEF ProducerCancelled
  <2>b. sendCancel' \in BOOLEAN /\ sawCancel' \in BOOLEAN
    BY <2>1
  <2>2. TypeOK'
    BY <1>0, <2>1, <2>b DEF IInv, TypeOK, callerVars, callVars
  <2> QED
    BY <2>1, <2>2
       DEF IInv, StageInv, CloserInv, SendInv, CountInv, EndInv, CancelInv, Before,
           During, CallDone, SendDone, sourceVars, callerVars, callVars
<1>3. CASE SendSettles
  <2>1. Settle /\ UNCHANGED <<callerVars, callVars, sendVars>>
    BY <1>3 DEF SendSettles
  <2>2. TypeOK'
    BY <1>0, <2>1 DEF IInv, TypeOK, callerVars, callVars, sendVars
  <2>3. StageInv' /\ CloserInv' /\ CancelInv'
    BY <2>1
       DEF IInv, StageInv, CloserInv, CancelInv, Before, During, CallDone, SendDone,
           Settle, callerVars, callVars, sendVars
  <2>4. reader = "answered" /\ send = "anext" /\ producer \in {"idle", "over"}
        /\ reader' \in {"closing", "returned"} /\ UNCHANGED produced
        /\ producer' \in {producer, "closing"}
    BY <2>1
       DEF Settle, MustClose, CloseIterator, IInv, SourceInv, PullInv, SendInv
  <2>5. (got' = got \/ (got = "message" /\ got' = "stop" /\ closed))
        /\ (closed' => closed \/ got = "stop")
    BY <2>1 DEF Settle, MustClose
  <2>6. SendInv' /\ CountInv' /\ EndInv'
    BY <2>1, <2>4, <2>5
       DEF IInv, SendInv, CountInv, EndInv, CallDone, callerVars, callVars, sendVars
  <2> QED BY <2>2, <2>3, <2>6 DEF IInv
<1>4. CASE SendTakes
  <2>1. /\ reader = "returned" /\ reader' = "out" /\ send = "anext"
        /\ UNCHANGED <<kind, producer, produced, closeCalls, closed, closeCalled,
                       iterating, got, closer, callerVars, callbackRun, response, inbox,
                       received, sendCancel, sawCancel, written, halfClosed>>
    BY <1>4 DEF SendTakes, Take, IInv, SendInv
  <2>2. call # "none"
    BY <2>1 DEF IInv, StageInv
  <2>3. \/ /\ got \in {"message", "stop"} /\ call' = call
           /\ \/ CallDone /\ send' = "done" /\ sendResult' = "ok"
              \/ /\ ~CallDone /\ sendResult' = sendResult
                 /\ send' = IF got = "message" THEN "write" ELSE "done_writing"
        \/ /\ got = "error" /\ send' = "done" /\ sendResult' = "error"
           /\ call' = CallAborted
        \/ got = "cancelled" /\ send' = "done" /\ sendResult' = "cancelled" /\ call' = call
    BY <1>4 DEF SendTakes, SendEnds
  <2>4. call' \in Statuses \ {"none"} /\ (CallDone => call' = call)
        /\ (call' # call => call' = "aborted" /\ sendResult' = "error")
    BY <2>2, <2>3 DEF CallAborted, IInv, TypeOK, Statuses, CallDone
  <2>5. TypeOK'
    BY <1>0, <2>1, <2>3, <2>4 DEF IInv, TypeOK, callerVars
  <2>6. StageInv' /\ CloserInv'
    BY <2>1, <2>2, <2>3, <2>4
       DEF IInv, StageInv, CloserInv, Before, During, CallDone, SendDone, callerVars
  <2>7. SendInv' /\ CountInv' /\ EndInv'
    BY <2>1, <2>2, <2>3, <2>4
       DEF IInv, SendInv, CountInv, EndInv, CallDone, callerVars
  <2>8. CancelInv'
    BY <2>1, <2>2, <2>3, <2>4
       DEF IInv, CancelInv, StageInv, Before, During, CallDone, SendDone, callerVars
  <2> QED BY <2>5, <2>6, <2>7, <2>8 DEF IInv
<1>5. ASSUME NEW r \in CloseEnds, ProducerClosed(r) PROVE IInv'
  <2>1. ReaderClosed(r) /\ sendCancel' = FALSE
        /\ UNCHANGED <<callerVars, callVars, send, sendResult, sawCancel, written, halfClosed>>
    BY <1>5 DEF ProducerClosed
  <2>b. sendCancel' \in BOOLEAN /\ sawCancel' \in BOOLEAN
    BY <2>1 DEF IInv, TypeOK
  <2>2. TypeOK'
    BY <1>0, <2>1, <2>b DEF IInv, TypeOK, callerVars, callVars
  <2>3. StageInv' /\ CloserInv' /\ CancelInv'
    BY <2>1
       DEF IInv, StageInv, CloserInv, CancelInv, Before, During, CallDone, SendDone,
           ReaderClosed, callerVars, callVars
  <2>4. SendInv' /\ CountInv' /\ EndInv'
    BY <2>1
       DEF IInv, SourceInv, WaitInv, SendInv, CountInv, EndInv, CallDone, ReaderClosed,
           AfterClose, CloseEnds, callerVars, callVars
  <2> QED BY <2>2, <2>3, <2>4 DEF IInv
<1>6. CASE WriteEnds
  <2>1. CASE sendCancel \/ CallDone
    <3>1. /\ send = "write" /\ send' = "done" /\ sendResult' \in {"ok", "cancelled"}
          /\ sendCancel' = FALSE /\ call' = call
          /\ UNCHANGED <<sourceVars, callerVars, callbackRun, response, inbox, received,
                         sawCancel, written, halfClosed>>
      BY <1>6, <2>1 DEF WriteEnds, SendEnds, CallCancelled, IInv, CancelInv
    <3>b. sendCancel' \in BOOLEAN
      BY <3>1
    <3>2. TypeOK'
      BY <1>0, <3>1, <3>b DEF IInv, TypeOK, callerVars
    <3> QED
      BY <3>1, <3>2
         DEF IInv, StageInv, CloserInv, SendInv, CountInv, EndInv, CancelInv, Before,
             During, CallDone, SendDone, sourceVars, callerVars
  <2>2. CASE ~(sendCancel \/ CallDone) /\ written' = written + 1 /\ send' = "anext"
    <3>1. /\ send = "write" /\ send' = "anext" /\ Anext /\ written' = written + 1
          /\ sendCancel' = FALSE
          /\ UNCHANGED <<callerVars, callVars, sendResult, sawCancel, halfClosed>>
      BY <1>6, <2>2 DEF WriteEnds, callVars
    <3>2. written' = produced /\ written' \in 0 .. MaxMessages
      BY <3>1, MaxMessagesAssumption DEF IInv, TypeOK, SourceTypeOK, CountInv
    <3>b. sendCancel' \in BOOLEAN
      BY <3>1
    <3>3. TypeOK'
      BY <1>0, <3>1, <3>2, <3>b DEF IInv, TypeOK, callerVars, callVars
    <3>4. StageInv' /\ CloserInv' /\ CancelInv'
      BY <3>1
         DEF IInv, StageInv, CloserInv, CancelInv, Before, During, CallDone, SendDone,
             Anext, callerVars, callVars
    <3>5. ~closed
      BY <3>1, <2>2 DEF IInv, SendInv
    <3>6. SendInv' /\ CountInv' /\ EndInv'
      BY <3>1, <3>2, <3>5, MaxMessagesAssumption
         DEF IInv, SendInv, CountInv, EndInv, CallDone, Anext, callerVars, callVars
    <3> QED BY <3>3, <3>4, <3>6 DEF IInv
  <2>3. CASE ~(sendCancel \/ CallDone) /\ send' = "done"
    <3>1. /\ send = "write" /\ send' = "done" /\ sendResult' = "error"
          /\ sendCancel' = FALSE /\ call' = "aborted" /\ ~CallDone
          /\ UNCHANGED <<sourceVars, callerVars, callbackRun, response, inbox, received,
                         sawCancel, written, halfClosed>>
      BY <1>6, <2>3 DEF WriteEnds, SendEnds, CallAborted
    <3>b. sendCancel' \in BOOLEAN
      BY <3>1
    <3>2. TypeOK'
      BY <1>0, <3>1, <3>b DEF IInv, TypeOK, callerVars, Statuses
    <3>3. call # "none"
      BY <3>1 DEF IInv, StageInv
    <3>4. StageInv' /\ CloserInv' /\ CancelInv'
      BY <3>1, <3>3
         DEF IInv, StageInv, CloserInv, CancelInv, Before, During, CallDone, SendDone,
             sourceVars, callerVars
    <3>5. SendInv' /\ CountInv' /\ EndInv'
      BY <3>1 DEF IInv, SendInv, CountInv, EndInv, CallDone, sourceVars, callerVars
    <3> QED BY <1>0, <3>2, <3>4, <3>5 DEF IInv
  <2> QED BY <1>6, <2>1, <2>2, <2>3 DEF WriteEnds, SendEnds
<1>7. CASE DoneWritingEnds
  <2>1. /\ send = "done_writing" /\ send' = "done" /\ sendResult' \in {"ok", "cancelled"}
        /\ sendCancel' = FALSE /\ call' = call /\ halfClosed' \in BOOLEAN
        /\ (halfClosed' => halfClosed \/ ~CallDone)
        /\ UNCHANGED <<sourceVars, callerVars, callbackRun, response, inbox, received,
                       sawCancel, written>>
    BY <1>7 DEF DoneWritingEnds, SendEnds, CallCancelled, IInv, CancelInv, TypeOK
  <2>a. /\ sendCancel' \in BOOLEAN /\ halfClosed' \in BOOLEAN /\ sawCancel' \in BOOLEAN
        /\ callerCancel' \in BOOLEAN /\ callbackRun' \in BOOLEAN
    BY <2>1 DEF IInv, TypeOK, callerVars
  <2>b. /\ send' \in {"absent", "ready", "anext", "write", "done_writing", "done"}
        /\ sendResult' \in {"none", "ok", "error", "cancelled"}
    BY <2>1
  <2>c. /\ method' = method /\ caller' = caller /\ outcome' = outcome /\ cancels' = cancels
        /\ call' = call /\ response' = response /\ inbox' = inbox /\ received' = received
        /\ written' = written
    BY <2>1 DEF callerVars
  <2>2. TypeOK'
    BY <1>0, <2>a, <2>b, <2>c DEF IInv, TypeOK
  <2> QED
    BY <2>1, <2>2
       DEF IInv, StageInv, CloserInv, SendInv, CountInv, EndInv, CancelInv, Before,
           During, CallDone, SendDone, sourceVars, callerVars
<1>8. ASSUME NEW r \in Answers, ProducerAnswers(r) PROVE IInv'
  <2>1. Answer(r) /\ sawCancel' = FALSE /\ send = "anext" /\ written = produced
        /\ UNCHANGED <<callerVars, callVars, send, sendResult, sendCancel, written, halfClosed>>
    BY <1>8 DEF ProducerAnswers, Answer, IInv, SendInv, CountInv
  <2>b. sendCancel' \in BOOLEAN /\ sawCancel' \in BOOLEAN
    BY <2>1 DEF IInv, TypeOK
  <2>2. TypeOK'
    BY <1>0, <2>1, <2>b DEF IInv, TypeOK, callerVars, callVars
  <2>3. StageInv' /\ CloserInv' /\ CancelInv'
    BY <2>1
       DEF IInv, StageInv, CloserInv, CancelInv, Before, During, CallDone, SendDone,
           Answer, callerVars, callVars
  <2>4. produced \in Nat /\ inbox' <= received'
    BY <1>0, <2>1, MaxMessagesAssumption DEF SourceTypeOK, IInv, CountInv, callVars
  <2>5. SendInv'
    BY <2>1, <2>4 DEF IInv, SendInv, CallDone, Answer, callerVars, callVars
  <2>6. CountInv' /\ EndInv'
    <3>1. CASE r = "message"
      BY <2>1, <2>4, <3>1
         DEF IInv, SendInv, CountInv, EndInv, CallDone, Answer, callerVars, callVars
    <3>2. CASE r # "message"
      BY <2>1, <2>4, <3>2
         DEF IInv, SendInv, CountInv, EndInv, CallDone, Answer, callerVars, callVars
    <3> QED BY <3>1, <3>2
  <2> QED BY <2>2, <2>3, <2>5, <2>6 DEF IInv
<1> QED
  BY <1>1, <1>2, <1>3, <1>4, <1>5, <1>6, <1>7, <1>8 DEF SendSteps, Transport

\* The steps of the consumer, the server, the runtime and the canceller preserve it.
LEMMA EnvironmentKeepsInv ==
  ASSUME IInv, SourceInv',
         \/ Start \/ ConsumerNext \/ ConsumerCloses \/ Respond
         \/ \E t \in {"ok", "failed"} : CallEnds(t)
         \/ Callback \/ ResponseTask \/ CancelCaller \/ Ended \/ UNCHANGED vars
  PROVE  IInv'
<1>0. SourceTypeOK' /\ SourceTypeOK
  BY DEF SourceInv, IInv
<1> USE DEF IInv, StageInv, CloserInv, SendInv, CountInv, EndInv, CancelInv, Before,
            During, CallDone, SendDone
<1>1. CASE Start
  <2>1. TypeOK'
    BY <1>0, <1>1 DEF Start, TypeOK, Statuses
  <2>2. caller' \in {"wait", "fetch"} /\ call' = "active" /\ UNCHANGED sourceVars
        /\ caller = "start" /\ call = "none" /\ outcome = "none" /\ sendCancel = FALSE
        /\ send = "absent"
    BY <1>1 DEF Start, TypeOK
  <2>3. StageInv' /\ CloserInv'
    BY <1>1, <2>2 DEF Start, sourceVars
  <2>4. SendInv' /\ CountInv' /\ EndInv' /\ CancelInv'
    BY <1>1, <2>2 DEF Start, sourceVars
  <2> QED BY <2>1, <2>3, <2>4
<1>2. CASE ConsumerNext
  <2>1. caller = "yielded" /\ caller' = "fetch"
        /\ UNCHANGED <<sourceVars, method, outcome, callerCancel, cancels, callVars, sendVars>>
    BY <1>2 DEF ConsumerNext
  <2>2. TypeOK'
    BY <1>0, <2>1 DEF TypeOK, callVars, sendVars
  <2> QED BY <2>1, <2>2 DEF sourceVars, callVars, sendVars
<1>3. CASE ConsumerCloses
  <2>1. inbox' \in 0 .. inbox
    BY <1>3, BoundsAssumption DEF ConsumerCloses, TypeOK
  <2>2. method # "stream_unary" /\ callerCancel' = callerCancel /\ response' = response
        /\ caller \in Before \ {"start"} /\ LoopFree /\ Finally("closed")
        /\ callerCancel \in BOOLEAN
    BY <1>3 DEF ConsumerCloses, TypeOK
  <2> QED BY <2>1, <2>2, FinallyKeepsInv
<1>4. CASE Respond
  <2>1. inbox' = inbox + 1 /\ received' = received + 1 /\ received < MaxResponses
        /\ UNCHANGED <<sourceVars, callerVars, call, callbackRun, response, sendVars>>
    BY <1>4 DEF Respond
  <2>2. TypeOK' /\ inbox' <= received'
    BY <1>0, <2>1, BoundsAssumption DEF TypeOK, callerVars, sendVars
  <2> QED BY <2>1, <2>2 DEF sourceVars, callerVars, sendVars
<1>5. ASSUME NEW t \in {"ok", "failed"}, CallEnds(t) PROVE IInv'
  <2>1. call = "active" /\ call' = t
        /\ UNCHANGED <<sourceVars, callerVars, callbackRun, response, inbox, received, sendVars>>
    BY <1>5 DEF CallEnds
  <2>2. TypeOK'
    BY <1>0, <2>1 DEF TypeOK, Statuses, callerVars, sendVars
  <2> QED BY <2>1, <2>2 DEF sourceVars, callerVars, sendVars
<1>6. CASE Callback
  <2>1. callbackRun' = TRUE /\ sendCancel' \in BOOLEAN /\ CallDone
        /\ UNCHANGED <<sourceVars, callerVars, call, response, inbox, received, send,
                       sendResult, sawCancel, written, halfClosed>>
    BY <1>6 DEF Callback, CallbackCancels, TypeOK
  <2>2. TypeOK'
    BY <1>0, <2>1 DEF TypeOK, callerVars
  <2> QED BY <2>1, <2>2 DEF sourceVars, callerVars
<1>7. CASE ResponseTask
  <2>1. CallDone /\ response = "pending" /\ response' = Returned
        /\ UNCHANGED <<sourceVars, callerVars, call, callbackRun, inbox, received, sendVars>>
    BY <1>7 DEF ResponseTask
  <2>2. Returned \in {"ok", "failed", "cancelled"}
        /\ (Returned = "cancelled" => call \in {"aborted", "cancelled"})
    BY <2>1 DEF Returned, Locally, TypeOK, Statuses
  <2>3. TypeOK'
    BY <1>0, <2>1, <2>2 DEF TypeOK, callerVars, sendVars
  <2> QED BY <2>1, <2>2, <2>3 DEF sourceVars, callerVars, sendVars
<1>8. CASE CancelCaller
  <2>1. /\ cancels' = cancels + 1 /\ cancels < MaxCancels /\ callerCancel' = TRUE
        /\ sendCancel' = (sendCancel \/ (caller = "gather" /\ ~SendDone))
        /\ UNCHANGED <<sourceVars, method, caller, outcome, callVars, send, sendResult,
                       sawCancel, written, halfClosed>>
    BY <1>8 DEF CancelCaller
  <2>2. cancels' \in 0 .. MaxCancels /\ cancels' > 0 /\ sendCancel' \in BOOLEAN
        /\ callerCancel' \in BOOLEAN
    BY <2>1, BoundsAssumption DEF TypeOK
  <2>3. TypeOK'
    BY <1>0, <2>1, <2>2 DEF TypeOK, callVars
  <2>4. StageInv' /\ CloserInv' /\ SendInv' /\ CountInv' /\ EndInv'
    BY <2>1 DEF sourceVars, callVars
  <2>5. CancelInv'
    BY <2>1, <2>2, BoundsAssumption DEF TypeOK, callVars
  <2> QED BY <2>3, <2>4, <2>5
<1>9. CASE Ended \/ UNCHANGED vars
  <2>1. UNCHANGED <<sourceVars, callerVars, callVars, sendVars>>
    BY <1>9 DEF Ended, vars
  <2>2. TypeOK'
    BY <1>0, <2>1 DEF TypeOK, callerVars, callVars, sendVars
  <2> QED BY <2>1, <2>2 DEF sourceVars, callerVars, callVars, sendVars
<1> QED BY <1>1, <1>2, <1>3, <1>4, <1>5, <1>6, <1>7, <1>8, <1>9

-----------------------------------------------------------------------------
\* The inductive invariant: the message source, the stages of the method, the
\* sending task, the messages under way and the cancellations fit together.
THEOREM CallInvariant == Spec => []IInv
<1>1. IInv /\ [Next]_vars => IInv'
  <2> SUFFICES ASSUME IInv, [Next]_vars PROVE IInv'
    OBVIOUS
  <2>1. SourceInv'
    BY SourceStep, SourceInvStep DEF IInv
  <2> QED
    BY <2>1, CallerKeepsInv, SendKeepsInv, EnvironmentKeepsInv DEF Next
<1> QED BY <1>1, IInvInit, PTL DEF Spec

\* Every variable of a call stays in its type.
THEOREM CallTypeCorrect == Spec => []TypeOK
<1>1. IInv => TypeOK
  BY DEF IInv
<1> QED BY <1>1, CallInvariant, PTL

\* When the method is over, so is its sending task, and the producer is closed.
THEOREM ExitsCleanly == Spec => []ExitIsClean
<1>1. IInv => ExitIsClean
  <2> SUFFICES ASSUME IInv, caller = "done" PROVE ExitIsClean
    BY DEF ExitIsClean
  <2>1. SendDone
    BY DEF IInv, StageInv
  <2>2. ASSUME Closable, producer # "fresh" PROVE producer = "closed"
    <3>1. send = "done" /\ reader = "out" /\ closer # "closing" /\ method # "unary_stream"
      BY <2>1, <2>2 DEF SendDone, IInv, SendInv, CloserInv, StageInv
    <3>2. closed /\ ~iterating
      BY <3>1 DEF IInv, SourceInv, PullInv, CloseInv, CloserInv, During
    <3>3. producer \in {"closing", "closed"}
      BY <2>2, <3>1, <3>2 DEF IInv, SourceInv, CloseInv
    <3> QED BY <3>1, <3>3 DEF IInv, SourceInv, WaitInv
  <2> QED BY <2>1, <2>2 DEF ExitIsClean
<1> QED BY <1>1, CallInvariant, PTL

\* A clean end of the request stream means that all of it was written.
THEOREM CleanEndIsComplete == Spec => []CleanEndMeansComplete
<1>1. IInv => CleanEndMeansComplete
  BY DEF IInv, EndInv, CleanEndMeansComplete
<1> QED BY <1>1, CallInvariant, PTL

\* stream_unary raises its producer's error.
THEOREM ReportsProducerError == Spec => []ProducerErrorReported
<1>1. IInv => ProducerErrorReported
  BY DEF IInv, CancelInv, ProducerErrorReported, Exited, During
<1> QED BY <1>1, CallInvariant, PTL

\* A CancelledError nobody asked for comes only from a failed producer.
THEOREM CancelsOnlyWhenAsked == Spec => []NoSpuriousCancel
<1>1. IInv => NoSpuriousCancel
  BY DEF IInv, CancelInv, NoSpuriousCancel
<1> QED BY <1>1, CallInvariant, PTL

\* Inside a call, too, the producer is pulled one message at a time, closed at
\* most once, and never while it runs.
THEOREM CallKeepsLifecycle == Spec => KeepsLifecycle
<1>1. Init => Lifecycle!LifecycleInit
  BY DEF Init, SourceInit, Lifecycle!LifecycleInit
<1>2. IInv /\ [Next]_vars => [Lifecycle!LifecycleNext]_(Lifecycle!lifecycleVars)
  BY SourceStep, LifecycleStep DEF IInv
<1> QED
  BY <1>1, <1>2, CallInvariant, PTL DEF Spec, KeepsLifecycle, Lifecycle!LifecycleSpec
=============================================================================
