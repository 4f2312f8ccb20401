---------------------- MODULE GrpclibStreamCallProofs ----------------------
(***************************************************************************)
(* Safety of a grpclib call, for every set of methods and every bound.     *)
(***************************************************************************)
EXTENDS GrpclibStreamCall, TLAPS

\* The type invariant in parts: places, flags and counters.
Places ==
  /\ method \in Methods
  /\ caller \in {"start", "connect", "sending", "receive", "yielded", "exit", "done"}
  /\ outcome \in {"none", "ok", "status", "no_response", "failed", "cancelled",
                  "closed", "producer_error", "cut"}
  /\ call \in {"none", "active", "ok", "failed", "reset"}
  /\ send \in {"absent", "request", "ready", "pull", "write", "end", "done"}
  /\ sendResult \in {"none", "ok", "producer_error", "failed", "cancelled"}

Flags ==
  /\ sync \in BOOLEAN /\ callerCancel \in BOOLEAN /\ exhausted \in BOOLEAN
  /\ sendCancel \in BOOLEAN /\ sawCancel \in BOOLEAN /\ halfClosed \in BOOLEAN

Counters ==
  /\ cancels \in 0 .. MaxCancels
  /\ responded \in 0 .. MaxResponses /\ delivered \in 0 .. responded
  /\ produced \in 0 .. MaxMessages /\ written \in 0 .. produced

LEMMA TypeParts ==
  /\ TypeOK <=> Places /\ Flags /\ Counters
  /\ TypeOK' <=> Places' /\ Flags' /\ Counters'
BY DEF TypeOK, Places, Flags, Counters

\* What the place of the sending says about the messages it has handled.
SendInv ==
  /\ caller \in {"start", "connect"} => send = "absent"
  /\ send = "absent"  => produced = 0 /\ written = 0
  /\ send = "request" => UnaryRequest /\ produced = 1 /\ written = 0
  /\ send \in {"ready", "pull", "end"} => written = produced
  /\ send = "write"   => written + 1 = produced
  /\ send = "end"     => exhausted
  /\ send # "done"    => ~halfClosed
  /\ send = "done"    => sendResult # "none"

\* A response is awaited only while one may come, and the loop is left only with
\* everything that came.
ResponseInv ==
  /\ UnaryResponse => responded <= 1
  /\ outcome # "none" => caller = "done"
  /\ caller = "exit" => delivered = responded
  /\ caller = "exit" /\ ~(UnaryResponse /\ delivered = 1) => ServerEnded

IInv == TypeOK /\ SendInv /\ ResponseInv /\ CleanEndMeansComplete /\ OutcomeTellsStatus

\* The initial states satisfy the invariant.
LEMMA InitIInv == Init => IInv
<1> SUFFICES ASSUME Init PROVE IInv OBVIOUS
<1>1. TypeOK
  <2>1. Places BY DEF Init, Places
  <2>2. Flags BY DEF Init, Flags
  <2>3. Counters BY BoundsAssumption DEF Init, Counters
  <2> QED BY <2>1, <2>2, <2>3, TypeParts
<1>2. SendInv /\ CleanEndMeansComplete
  BY DEF Init, SendInv, CleanEndMeansComplete
<1>3. ResponseInv /\ OutcomeTellsStatus
  BY DEF Init, ResponseInv, OutcomeTellsStatus
<1> QED BY <1>1, <1>2, <1>3 DEF IInv

\* The variables that decide the outcome stay when only the sending goes on.
LEMMA SendingKeepsResponses ==
  ASSUME IInv, UNCHANGED <<callerVars, callVars>>, TypeOK'
  PROVE  ResponseInv' /\ OutcomeTellsStatus'
BY DEF IInv, ResponseInv, OutcomeTellsStatus, UnaryResponse, ServerEnded, callerVars, callVars

\* And what was sent stays when only the method or the server goes on.
LEMMA ResponsesKeepSending ==
  ASSUME IInv, UNCHANGED <<method, send, sendResult, produced, exhausted, written, halfClosed>>,
         caller' \in {"start", "connect"} => caller' = caller
  PROVE  SendInv' /\ CleanEndMeansComplete'
BY DEF IInv, SendInv, CleanEndMeansComplete, UnaryRequest

\* A method that leaves its `async with` by an exception.
LEMMA RaiseInv ==
  ASSUME IInv, NEW o \in {"failed", "cancelled", "closed", "producer_error"}, Raise(o),
         callerCancel' \in BOOLEAN
  PROVE  IInv'
<1>1. TypeOK'
  BY DEF IInv, TypeOK, Raise, CancelSending, InTask, SendDone
<1>2. SendInv' /\ CleanEndMeansComplete'
  BY ResponsesKeepSending DEF Raise
<1>3. ResponseInv' /\ OutcomeTellsStatus'
  BY DEF IInv, ResponseInv, OutcomeTellsStatus, UnaryResponse, Raise
<1> QED BY <1>1, <1>2, <1>3 DEF IInv

\* The steps of the RPC method.
LEMMA CallerInv ==
  ASSUME IInv, Start \/ CallerSteps \/ ConsumerNext \/ ConsumerCloses
  PROVE  IInv'
<1>1. CASE Start
  <2>1. TypeOK'
    <3>1. Places' BY <1>1, TypeParts DEF Start, IInv, Places
    <3>2. Flags' BY <1>1, TypeParts DEF Start, IInv, Flags
    <3>3. Counters' BY <1>1, BoundsAssumption, TypeParts DEF Start, IInv, SendInv, Counters
    <3> QED BY <3>1, <3>2, <3>3, TypeParts
  <2>2. SendInv' /\ CleanEndMeansComplete'
    BY <1>1 DEF Start, IInv, SendInv, CleanEndMeansComplete, UnaryRequest
  <2>3. ResponseInv' /\ OutcomeTellsStatus'
    BY <1>1 DEF Start, IInv, ResponseInv, OutcomeTellsStatus, UnaryRequest, UnaryResponse
  <2> QED BY <2>1, <2>2, <2>3 DEF IInv
<1>2. CASE Connected
  <2>1. TypeOK'
    BY <1>2 DEF Connected, IInv, TypeOK, InTask, callVars
  <2>2. SendInv' /\ CleanEndMeansComplete'
    BY <1>2 DEF Connected, IInv, SendInv, CleanEndMeansComplete, UnaryRequest, InTask
  <2>3. ResponseInv' /\ OutcomeTellsStatus'
    BY <1>2 DEF Connected, IInv, ResponseInv, OutcomeTellsStatus, UnaryResponse, callVars
  <2> QED BY <2>1, <2>2, <2>3 DEF IInv
<1>3. CASE Sent
  <2>1. CASE sendResult = "ok"
    <3>1. TypeOK' BY <1>3, <2>1 DEF Sent, IInv, TypeOK, callVars, sendVars
    <3>2. SendInv' /\ CleanEndMeansComplete'
      BY <1>3, <2>1, ResponsesKeepSending DEF Sent, sendVars
    <3>3. ResponseInv' /\ OutcomeTellsStatus'
      BY <1>3, <2>1 DEF Sent, IInv, ResponseInv, OutcomeTellsStatus, UnaryResponse, callVars
    <3> QED BY <3>1, <3>2, <3>3 DEF IInv
  <2>2. CASE sendResult # "ok"
    <3>1. sendResult \in {"failed", "cancelled", "producer_error"}
      BY <1>3, <2>2, TypeParts DEF Sent, IInv, Places, SendInv, SendDone
    <3>2. callerCancel' \in BOOLEAN BY <1>3 DEF Sent, IInv, TypeOK
    <3> QED BY <1>3, <2>2, <3>1, <3>2, RaiseInv DEF Sent
  <2> QED BY <2>1, <2>2
<1>4. CASE Receive
  <2>1. TypeOK' BY <1>4 DEF Receive, IInv, TypeOK, sendVars
  <2>2. SendInv' /\ CleanEndMeansComplete'
    BY <1>4, ResponsesKeepSending DEF Receive, sendVars
  <2>3. ResponseInv' /\ OutcomeTellsStatus'
    BY <1>4 DEF Receive, IInv, TypeOK, ResponseInv, OutcomeTellsStatus, UnaryResponse, ServerEnded
  <2> QED BY <2>1, <2>2, <2>3 DEF IInv
<1>5. CASE ReceiveEnds
  <2>1. CASE LoopOver /\ UNCHANGED <<method, sync, outcome, cancels, callVars, sendVars>>
    <3>1. TypeOK' BY <1>5, <2>1 DEF ReceiveEnds, LoopOver, IInv, TypeOK, callVars, sendVars
    <3>2. SendInv' /\ CleanEndMeansComplete'
      BY <2>1, ResponsesKeepSending DEF LoopOver, sendVars
    <3>3. ResponseInv' /\ OutcomeTellsStatus'
      BY <1>5, <2>1 DEF ReceiveEnds, LoopOver, IInv, ResponseInv, OutcomeTellsStatus,
                        UnaryResponse, ServerEnded, callVars
    <3> QED BY <3>1, <3>2, <3>3 DEF IInv
  <2>2. CASE Raise("failed")
    BY <1>5, <2>2, RaiseInv DEF ReceiveEnds, IInv, TypeOK
  <2> QED BY <1>5, <2>1, <2>2 DEF ReceiveEnds
<1>6. CASE Exit
  <2>1. TypeOK' BY <1>6 DEF Exit, Concluded, IInv, TypeOK, callVars, sendVars
  <2>2. SendInv' /\ CleanEndMeansComplete'
    BY <1>6, ResponsesKeepSending DEF Exit, sendVars
  <2>3. ResponseInv' /\ OutcomeTellsStatus'
    BY <1>6 DEF Exit, Concluded, IInv, TypeOK, ResponseInv, OutcomeTellsStatus, UnaryResponse,
                ServerEnded, callVars
  <2> QED BY <2>1, <2>2, <2>3 DEF IInv
<1>7. CASE CallerCancelled
  <2>1. CASE Raise("cancelled")
    BY <1>7, <2>1, RaiseInv DEF CallerCancelled
  <2>2. CASE caller = "exit" /\ ~Raise("cancelled")
    <3>1. TypeOK' BY <1>7, <2>2 DEF CallerCancelled, IInv, TypeOK, sendVars
    <3>2. SendInv' /\ CleanEndMeansComplete'
      BY <1>7, <2>2, ResponsesKeepSending DEF CallerCancelled, sendVars
    <3>3. ResponseInv' /\ OutcomeTellsStatus'
      BY <1>7, <2>2 DEF CallerCancelled, IInv, ResponseInv, OutcomeTellsStatus, UnaryResponse
    <3> QED BY <3>1, <3>2, <3>3 DEF IInv
  <2> QED BY <1>7, <2>1, <2>2 DEF CallerCancelled
<1>8. CASE ConsumerNext
  <2>1. TypeOK' BY <1>8 DEF ConsumerNext, IInv, TypeOK, callVars, sendVars
  <2>2. SendInv' /\ CleanEndMeansComplete'
    BY <1>8, ResponsesKeepSending DEF ConsumerNext, sendVars
  <2>3. ResponseInv' /\ OutcomeTellsStatus'
    BY <1>8 DEF ConsumerNext, IInv, ResponseInv, OutcomeTellsStatus, UnaryResponse, callVars
  <2> QED BY <2>1, <2>2, <2>3 DEF IInv
<1>9. CASE ConsumerCloses
  BY <1>9, RaiseInv DEF ConsumerCloses, IInv, TypeOK
<1> QED BY <1>1, <1>2, <1>3, <1>4, <1>5, <1>6, <1>7, <1>8, <1>9 DEF CallerSteps

\* The steps of the sending: the count of messages follows the place of the sending, and
\* the end of the requests is its last step.
LEMMA SendingInv ==
  ASSUME IInv,
         SendStart \/ ProducerCancelled \/ (\E r \in Answers : ProducerAnswers(r))
           \/ TransportOk \/ TransportRaises
  PROVE  IInv'
<1> USE DEF SendEnds, SendDone
<1>1. CASE SendStart
  <2>1. TypeOK'
    <3>1. Places' BY <1>1, TypeParts DEF SendStart, IInv, Places, callerVars, callVars
    <3>2. Flags' BY <1>1, TypeParts DEF SendStart, IInv, Flags, callerVars, callVars
    <3>3. Counters' BY <1>1, TypeParts DEF SendStart, IInv, Counters, callerVars, callVars
    <3> QED BY <3>1, <3>2, <3>3, TypeParts
  <2>2. SendInv' /\ CleanEndMeansComplete'
    BY <1>1 DEF SendStart, IInv, SendInv, CleanEndMeansComplete, UnaryRequest, callerVars
  <2> QED BY <1>1, <2>1, <2>2, SendingKeepsResponses DEF SendStart, IInv
<1>2. CASE ProducerCancelled
  <2>1. TypeOK'
    <3>1. Places' BY <1>2, TypeParts DEF ProducerCancelled, IInv, Places, callerVars, callVars
    <3>2. Flags' BY <1>2, TypeParts DEF ProducerCancelled, IInv, Flags, callerVars, callVars
    <3>3. Counters'
      BY <1>2, TypeParts DEF ProducerCancelled, IInv, Counters, callerVars, callVars
    <3> QED BY <3>1, <3>2, <3>3, TypeParts
  <2>2. SendInv' /\ CleanEndMeansComplete'
    BY <1>2 DEF ProducerCancelled, IInv, SendInv, CleanEndMeansComplete, UnaryRequest,
                callerVars
  <2> QED BY <1>2, <2>1, <2>2, SendingKeepsResponses DEF ProducerCancelled, IInv
<1>3. ASSUME NEW r \in Answers, ProducerAnswers(r) PROVE IInv'
  <2> USE <1>3 DEF ProducerAnswers, ProducerRaised, Answers
  <2>1. TypeOK'
    <3>1. Places' BY TypeParts DEF IInv, Places, callerVars, callVars
    <3>2. Flags' BY TypeParts DEF IInv, Flags, callerVars, callVars
    <3>3. Counters'
      <4>1. \/ produced' = produced
            \/ produced' = produced + 1 /\ produced < MaxMessages
        OBVIOUS
      <4>2. UNCHANGED <<cancels, responded, delivered, written>> BY DEF callerVars, callVars
      <4> QED BY <4>1, <4>2, TypeParts, BoundsAssumption DEF IInv, Counters
    <3> QED BY <3>1, <3>2, <3>3, TypeParts
  <2>2. SendInv' /\ CleanEndMeansComplete'
    BY DEF IInv, TypeOK, SendInv, CleanEndMeansComplete, UnaryRequest, callerVars
  <2> QED BY <2>1, <2>2, SendingKeepsResponses DEF IInv
<1>4. CASE TransportOk
  <2>1. TypeOK'
    <3>1. Places' BY <1>4, TypeParts DEF TransportOk, IInv, Places, callerVars, callVars
    <3>2. Flags' BY <1>4, TypeParts DEF TransportOk, IInv, Flags, callerVars, callVars
    <3>3. Counters'
      BY <1>4, TypeParts DEF TransportOk, IInv, SendInv, Counters, callerVars, callVars
    <3> QED BY <3>1, <3>2, <3>3, TypeParts
  <2>2. SendInv' /\ CleanEndMeansComplete'
    BY <1>4 DEF TransportOk, IInv, TypeOK, SendInv, CleanEndMeansComplete, UnaryRequest,
                callerVars
  <2> QED BY <1>4, <2>1, <2>2, SendingKeepsResponses DEF TransportOk, IInv
<1>5. CASE TransportRaises
  <2>1. TypeOK'
    <3>1. Places' BY <1>5, TypeParts DEF TransportRaises, IInv, Places, callerVars, callVars
    <3>2. Flags' BY <1>5, TypeParts DEF TransportRaises, IInv, Flags, callerVars, callVars
    <3>3. Counters'
      BY <1>5, TypeParts DEF TransportRaises, IInv, Counters, callerVars, callVars
    <3> QED BY <3>1, <3>2, <3>3, TypeParts
  <2>2. SendInv' /\ CleanEndMeansComplete'
    BY <1>5 DEF TransportRaises, IInv, SendInv, CleanEndMeansComplete, UnaryRequest, callerVars
  <2> QED BY <1>5, <2>1, <2>2, SendingKeepsResponses DEF TransportRaises, IInv
<1> QED BY <1>1, <1>2, <1>3, <1>4, <1>5

\* The steps of the server, and cancellations.
LEMMA EnvironmentInv ==
  ASSUME IInv, Respond \/ (\E s \in {"ok", "failed"} : CallEnds(s)) \/ CancelCaller
  PROVE  IInv'
<1>1. CASE Respond
  <2>1. TypeOK'
    BY <1>1, BoundsAssumption DEF Respond, IInv, TypeOK, UnaryResponse, callerVars, sendVars
  <2>2. SendInv' /\ CleanEndMeansComplete'
    BY <1>1, ResponsesKeepSending DEF Respond, callerVars, sendVars
  <2>3. ResponseInv' /\ OutcomeTellsStatus'
    BY <1>1 DEF Respond, IInv, TypeOK, ResponseInv, OutcomeTellsStatus, UnaryResponse,
                ServerEnded, callerVars
  <2> QED BY <2>1, <2>2, <2>3 DEF IInv
<1>2. ASSUME NEW s \in {"ok", "failed"}, CallEnds(s) PROVE IInv'
  <2>1. TypeOK' BY <1>2 DEF CallEnds, IInv, TypeOK, callerVars, sendVars
  <2>2. SendInv' /\ CleanEndMeansComplete'
    BY <1>2, ResponsesKeepSending DEF CallEnds, callerVars, sendVars
  <2>3. ResponseInv' /\ OutcomeTellsStatus'
    BY <1>2 DEF CallEnds, IInv, ResponseInv, OutcomeTellsStatus, UnaryResponse, ServerEnded,
                callerVars
  <2> QED BY <2>1, <2>2, <2>3 DEF IInv
<1>3. CASE CancelCaller
  <2>1. TypeOK'
    <3>1. Places' BY <1>3, TypeParts DEF CancelCaller, IInv, Places, callVars
    <3>2. Flags' BY <1>3, TypeParts DEF CancelCaller, IInv, Flags, callVars
    <3>3. Counters' BY <1>3, BoundsAssumption, TypeParts DEF CancelCaller, IInv, Counters, callVars
    <3> QED BY <3>1, <3>2, <3>3, TypeParts
  <2>2. SendInv' /\ CleanEndMeansComplete'
    BY <1>3, ResponsesKeepSending DEF CancelCaller
  <2>3. ResponseInv' /\ OutcomeTellsStatus'
    BY <1>3 DEF CancelCaller, IInv, ResponseInv, OutcomeTellsStatus, UnaryResponse,
                ServerEnded, callVars
  <2> QED BY <2>1, <2>2, <2>3 DEF IInv
<1> QED BY <1>1, <1>2, <1>3

\* Every step keeps the invariant.
LEMMA StepIInv == IInv /\ [Next]_vars => IInv'
<1> SUFFICES ASSUME IInv, [Next]_vars PROVE IInv' OBVIOUS
<1>1. CASE UNCHANGED vars
  BY <1>1 DEF vars, callerVars, callVars, sendVars, IInv, TypeOK, SendInv, ResponseInv,
              CleanEndMeansComplete, OutcomeTellsStatus, UnaryRequest, UnaryResponse,
              ServerEnded
<1>2. CASE Next BY <1>2, CallerInv, SendingInv, EnvironmentInv DEF Next
<1> QED BY <1>1, <1>2

\* Every variable stays in its type, for any methods and bounds.
THEOREM GrpclibTypeCorrect == Spec => []TypeOK
<1>1. IInv => TypeOK BY DEF IInv
<1> QED BY <1>1, InitIInv, StepIInv, PTL DEF Spec

\* The server sees a clean end only of requests that are complete, however many messages
\* the producer yields.
THEOREM GrpclibCleanEndIsComplete == Spec => []CleanEndMeansComplete
<1>1. IInv => CleanEndMeansComplete BY DEF IInv
<1> QED BY <1>1, InitIInv, StepIInv, PTL DEF Spec

\* What a method returns or raises agrees with the status of the call and with the
\* responses that came, however many there are.
THEOREM GrpclibOutcomeTellsStatus == Spec => []OutcomeTellsStatus
<1>1. IInv => OutcomeTellsStatus BY DEF IInv
<1> QED BY <1>1, InitIInv, StepIInv, PTL DEF Spec
=============================================================================
