------------------------- MODULE GrpcioServerProofs -------------------------
(***************************************************************************)
(* The safety properties of GrpcioServer, proved for any set of requests   *)
(* and any bound on the responses.  The requests share no state, so the    *)
(* invariant says of every request what is true at each of its stages.     *)
(***************************************************************************)
EXTENDS GrpcioServer, TLAPS

\* No more is sent than was yielded, and a response being sent was not yet counted.
SentBehind(r) == sent[r] <= yielded[r] /\ (stage[r] = "sending" => sent[r] < yielded[r])

\* The context of the request is where the next code of its method will look.
ContextPassedOn(r) ==
  /\ stage[r] \in {"method", "sending", "closing", "dropped"} => var[<<r, "rpc">>] = r
  /\ stage[r] = "inner_dropped" => var[<<r, "outer_closer">>] = r
  /\ stage[r] = "late_closing" => var[<<r, "inner_closer">>] = r

\* A closable iterator is closed on the way out and not before.
ClosedOnTheWayOut(r) ==
  kind[r] = "closable" =>
    closes[r] = IF stage[r] \in {"closing", "late_closing", "over"} THEN 1 ELSE 0

\* A method that returns a value never gets as far as sending.
NothingToSend(r) ==
  streams[r] /\ kind[r] \in {"awaits_value", "other"} =>
    /\ sent[r] = 0 /\ stage[r] \in {"new", "method", "over"}
    /\ stage[r] = "over" => outcome[r] # "ok"

RequestOK(r) == SentBehind(r) /\ ContextPassedOn(r) /\ ClosedOnTheWayOut(r) /\ NothingToSend(r)

IInv == TypeOK /\ \A r \in Requests : RequestOK(r)

\* The initial states satisfy the invariant.
LEMMA InitIInv == Init => IInv
BY RequestsAssumption, MaxResponsesAssumption
DEF Init, IInv, TypeOK, RequestOK, SentBehind, ContextPassedOn, ClosedOnTheWayOut, NothingToSend,
    Kinds, Stages, Tasks

\* What every step of a request does to the typing.
LEMMA StepTypes ==
  ASSUME IInv, NEW r \in Requests, Step(r) \/ Cancel(r)
  PROVE  TypeOK'
<1> USE RequestsAssumption, MaxResponsesAssumption
    DEF IInv, TypeOK, Stages, Tasks, Kinds
<1>1. CASE Start(r) BY <1>1 DEF Start, Finish, To
<1>2. CASE Yields(r) BY <1>2 DEF Yields, To
<1>3. CASE Sent(r)
  <2>1. sent[r] + 1 \in 0 .. MaxResponses
    <3>1. stage[r] = "sending" BY <1>3 DEF Sent
    <3>2. sent[r] < yielded[r] BY <3>1 DEF RequestOK, SentBehind
    <3> QED BY <3>2
  <2> QED BY <1>3, <2>1 DEF Sent, To
<1>4. ASSUME NEW o \in {"ok", "error", "cancelled"}, Ends(r, o) PROVE TypeOK'
  <2>1. Awaited(r, o) \in {"ok", "error", "cancelled", "type_error"} BY DEF Awaited
  <2>2. closes[r] + 1 \in Nat BY DEF IInv
  <2>3. CASE Iterable(kind[r]) /\ MustClose(r, o) BY <1>4, <2>2, <2>3 DEF Ends, To, Iterable, Awaitable
  <2>4. CASE ~(Iterable(kind[r]) /\ MustClose(r, o)) BY <1>4, <2>1, <2>4 DEF Ends, Finish, To
  <2> QED BY <2>3, <2>4
<1>5. ASSUME NEW o \in {"ok", "error", "cancelled"}, Closed(r, o) PROVE TypeOK'
  BY <1>5 DEF Closed, Finish, To
<1>6. CASE Drops(r) BY <1>6 DEF Drops, To
<1>7. CASE CloseOuter(r) BY <1>7 DEF CloseOuter, To, Left
<1>8. CASE CloseInner(r)
  <2>1. var' \in [Requests \X Tasks -> Requests \cup {None}] BY <1>8 DEF CloseInner
  <2>2. closes' \in [Requests -> Nat]
    <3>1. closes[r] + 1 \in Nat OBVIOUS
    <3>2. CASE kind[r] = "closable" BY <1>8, <3>1, <3>2 DEF CloseInner
    <3>3. CASE kind[r] # "closable" BY <1>8, <3>3 DEF CloseInner
    <3> QED BY <3>2, <3>3
  <2>3. stage' \in [Requests -> Stages] BY <1>8 DEF CloseInner, To
  <2> QED BY <1>8, <2>1, <2>2, <2>3 DEF CloseInner
<1>9. CASE LateClosed(r) BY <1>9 DEF LateClosed, To
<1>10. CASE Cancel(r) BY <1>10 DEF Cancel
<1> QED BY <1>1, <1>2, <1>3, <1>4, <1>5, <1>6, <1>7, <1>8, <1>9, <1>10 DEF Step

\* A step of one request leaves the others alone.
LEMMA OthersUnchanged ==
  ASSUME IInv, NEW r \in Requests, Step(r) \/ Cancel(r),
         NEW q \in Requests, q # r
  PROVE  /\ streams' = streams /\ kind' = kind
         /\ stage'[q] = stage[q] /\ outcome'[q] = outcome[q]
         /\ \A t \in Tasks : var'[<<q, t>>] = var[<<q, t>>]
         /\ yielded'[q] = yielded[q] /\ sent'[q] = sent[q] /\ closes'[q] = closes[q]
<1> USE DEF IInv, TypeOK
<1>1. CASE Start(r) BY <1>1 DEF Start, Finish, To
<1>2. CASE Yields(r) \/ Sent(r) BY <1>2 DEF Yields, Sent, To
<1>3. ASSUME NEW o \in {"ok", "error", "cancelled"}, Ends(r, o) \/ Closed(r, o)
      PROVE  /\ streams' = streams /\ kind' = kind
             /\ stage'[q] = stage[q] /\ outcome'[q] = outcome[q]
             /\ \A t \in Tasks : var'[<<q, t>>] = var[<<q, t>>]
             /\ yielded'[q] = yielded[q] /\ sent'[q] = sent[q] /\ closes'[q] = closes[q]
  BY <1>3 DEF Ends, Closed, Finish, To
<1>4. CASE Drops(r) \/ LateClosed(r) \/ Cancel(r) BY <1>4 DEF Drops, LateClosed, Cancel, To
<1>5. CASE CloseOuter(r) \/ CloseInner(r) BY <1>5 DEF CloseOuter, CloseInner, To
<1> QED BY <1>1, <1>2, <1>3, <1>4, <1>5 DEF Step

\* What a step does to the invariant of the request it is a step of.
LEMMA OwnStep ==
  ASSUME IInv, NEW r \in Requests, Step(r) \/ Cancel(r)
  PROVE  RequestOK(r)'
<1> USE DEF IInv, TypeOK, Tasks, Kinds, RequestOK, SentBehind, ContextPassedOn,
            ClosedOnTheWayOut, NothingToSend, Iterable, Awaitable
<1>1. CASE Start(r) BY <1>1 DEF Start, Finish, To
<1>2. CASE Yields(r)
  <2>1. /\ stage[r] = "method" /\ stage'[r] = "sending"
        /\ Iterable(kind[r]) /\ yielded'[r] = yielded[r] + 1
    BY <1>2 DEF Yields, To
  <2>2. UNCHANGED <<streams, kind, outcome, var, sent, closes>> BY <1>2 DEF Yields
  <2>3. yielded[r] \in Nat /\ sent[r] \in Nat OBVIOUS
  <2>4. SentBehind(r)'
    <3>1. sent[r] <= yielded[r] /\ sent'[r] = sent[r] BY <2>2
    <3>2. sent'[r] < yielded'[r] BY <2>1, <2>3, <3>1
    <3>3. sent'[r] <= yielded'[r] BY <2>1, <2>3, <3>1
    <3> QED BY <3>2, <3>3
  <2>5. ContextPassedOn(r)' BY <2>1, <2>2
  <2>6. ClosedOnTheWayOut(r)' BY <2>1, <2>2
  <2>7. NothingToSend(r)' BY <2>1, <2>2
  <2> QED BY <2>4, <2>5, <2>6, <2>7
<1>3. CASE Sent(r)
  <2>1. stage[r] = "sending" /\ stage'[r] = "method" /\ sent'[r] = sent[r] + 1
    BY <1>3 DEF Sent, To
  <2>2. UNCHANGED <<streams, kind, outcome, var, yielded, closes>> BY <1>3 DEF Sent
  <2>3. yielded[r] \in Nat /\ sent[r] \in Nat OBVIOUS
  <2>4. SentBehind(r)'
    <3>1. sent[r] < yielded[r] /\ yielded'[r] = yielded[r] BY <2>1, <2>2
    <3>2. sent'[r] <= yielded'[r] BY <2>1, <2>3, <3>1
    <3>3. stage'[r] # "sending" BY <2>1
    <3> QED BY <3>2, <3>3
  <2>5. ContextPassedOn(r)' BY <2>1, <2>2
  <2>6. ClosedOnTheWayOut(r)' BY <2>1, <2>2
  <2>7. NothingToSend(r)' BY <2>1, <2>2
  <2> QED BY <2>4, <2>5, <2>6, <2>7
<1>4. ASSUME NEW o \in {"ok", "error", "cancelled"}, Ends(r, o) PROVE RequestOK(r)'
  <2>1. CASE Iterable(kind[r]) BY <1>4, <2>1 DEF Ends, Finish, To, MustClose
  <2>2. CASE Awaitable(kind[r]) BY <1>4, <2>2 DEF Ends, Finish, To, Awaited
  <2> QED BY <1>4, <2>1, <2>2 DEF Ends
<1>5. ASSUME NEW o \in {"ok", "error", "cancelled"}, Closed(r, o) PROVE RequestOK(r)'
  BY <1>5 DEF Closed, Finish, To
<1>6. CASE Drops(r) BY <1>6 DEF Drops, To
<1>7. CASE CloseOuter(r)
  <2>1. stage'[r] = "inner_dropped" /\ stage[r] = "dropped" BY <1>7 DEF CloseOuter, To
  <2>2. var'[<<r, "outer_closer">>] = r
    <3>1. <<r, "outer_closer">> \in DOMAIN var OBVIOUS
    <3>2. var[<<r, "rpc">>] = r BY <2>1
    <3> QED BY <1>7, <3>1, <3>2 DEF CloseOuter, Left
  <2> QED BY <1>7, <2>1, <2>2 DEF CloseOuter
<1>8. CASE CloseInner(r)
  <2>1. var'[<<r, "inner_closer">>] = r
    <3>1. <<r, "inner_closer">> \in DOMAIN var OBVIOUS
    <3>2. var[<<r, "outer_closer">>] = r BY <1>8 DEF CloseInner
    <3> QED BY <1>8, <3>1, <3>2 DEF CloseInner
  <2>2. /\ stage[r] = "inner_dropped"
        /\ stage'[r] = IF kind[r] = "closable" THEN "late_closing" ELSE "over"
        /\ closes'[r] = IF kind[r] = "closable" THEN closes[r] + 1 ELSE closes[r]
    BY <1>8 DEF CloseInner, To
  <2>3. UNCHANGED <<streams, kind, outcome, yielded, sent>> BY <1>8 DEF CloseInner
  <2>4. SentBehind(r)' /\ ContextPassedOn(r)' BY <2>1, <2>2, <2>3
  <2>5. ClosedOnTheWayOut(r)'
    <3>1. kind' = kind BY <2>3
    <3>2. CASE kind[r] = "closable"
      <4>1. closes[r] = 0 BY <2>2, <3>2
      <4>2. closes'[r] = 1 /\ stage'[r] = "late_closing" BY <2>2, <3>2, <4>1
      <4> QED BY <4>2
    <3>3. CASE kind[r] # "closable" BY <3>1, <3>3
    <3> QED BY <3>2, <3>3
  <2>6. NothingToSend(r)' BY <2>2, <2>3
  <2> QED BY <2>4, <2>5, <2>6
<1>9. CASE LateClosed(r) BY <1>9 DEF LateClosed, To
<1>10. CASE Cancel(r) BY <1>10 DEF Cancel
<1> QED BY <1>1, <1>2, <1>3, <1>4, <1>5, <1>6, <1>7, <1>8, <1>9, <1>10 DEF Step

\* Every step preserves the invariant.
LEMMA NextIInv == IInv /\ [Next]_vars => IInv'
<1> SUFFICES ASSUME IInv, [Next]_vars PROVE IInv'
    OBVIOUS
<1>1. CASE UNCHANGED vars
  BY <1>1 DEF vars, IInv, TypeOK, RequestOK, SentBehind, ContextPassedOn, ClosedOnTheWayOut, NothingToSend
<1>2. ASSUME NEW r \in Requests, Step(r) \/ Cancel(r) PROVE IInv'
  <2>1. TypeOK' BY <1>2, StepTypes
  <2>2. ASSUME NEW q \in Requests, q # r
        PROVE  /\ streams' = streams /\ kind' = kind
               /\ stage'[q] = stage[q] /\ outcome'[q] = outcome[q]
               /\ \A t \in Tasks : var'[<<q, t>>] = var[<<q, t>>]
               /\ yielded'[q] = yielded[q] /\ sent'[q] = sent[q] /\ closes'[q] = closes[q]
    BY <1>2, <2>2, OthersUnchanged
  <2>3. RequestOK(r)' BY <1>2, OwnStep
  <2>4. ASSUME NEW q \in Requests, q # r PROVE RequestOK(q)'
    BY <2>2, <2>4 DEF IInv, Tasks, RequestOK, SentBehind, ContextPassedOn,
                      ClosedOnTheWayOut, NothingToSend
  <2> QED BY <2>1, <2>3, <2>4 DEF IInv
<1> QED BY <1>1, <1>2 DEF Next, Done

\* The invariant holds in every reachable state.
THEOREM ServerInvariant == Spec => []IInv
BY InitIInv, NextIInv, PTL DEF Spec

\* Type correctness of the handlers, for any number of RPCs in progress.
THEOREM ServerTypeCorrect == Spec => []TypeOK
BY ServerInvariant, PTL DEF IInv

\* _grpcio_context is the context of its own request whenever code of a service
\* method runs, for any number of requests, cancelled at any point.
THEOREM ContextStaysOwn == Spec => []ContextIsOwn
<1>1. IInv => ContextIsOwn
  BY DEF IInv, RequestOK, ContextPassedOn, ContextIsOwn, RunsIn
<1> QED BY <1>1, ServerInvariant, PTL

\* A closable response iterator is closed exactly once by the end of its RPC.
THEOREM ClosesOnce == Spec => []ClosedOnce
<1>1. IInv => ClosedOnce
  BY DEF IInv, RequestOK, ClosedOnTheWayOut, ClosedOnce
<1> QED BY <1>1, ServerInvariant, PTL

\* A streaming method that returns a value sends nothing and does not end well.
THEOREM RejectsValues == Spec => []ValuesRejected
<1>1. IInv => ValuesRejected
  BY DEF IInv, RequestOK, NothingToSend, ValuesRejected
<1> QED BY <1>1, ServerInvariant, PTL
=============================================================================
