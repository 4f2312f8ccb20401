--------------------------- MODULE MessageSource ---------------------------
(***************************************************************************)
(* _AsyncMessageSourceIterator of grpcio/grpcio_async_client.py: the       *)
(* wrapper the client puts around the request producer the user hands in.  *)
(* Two coroutines share it.  The reader (the sending task) pulls messages  *)
(* with __anext__; the closer (the RPC method, when it ends) calls         *)
(* aclose().  The closer may arrive while the reader is suspended inside   *)
(* the producer; the wrapper then leaves the close to the reader.          *)
(*                                                                         *)
(* asyncio runs one coroutine at a time and switches only where one of     *)
(* them suspends.  A code segment between two suspensions that takes more  *)
(* than one step here keeps the event loop busy: see LoopFree.             *)
(***************************************************************************)
EXTENDS Naturals

CONSTANTS Kinds,        \* the kinds of producer to consider
          MaxMessages   \* bound: no producer yields more messages than this

\* What the code asks of the producer: isinstance(_, AsyncIterable), and
\* whether its iterator has aclose(), close() or neither.
AllKinds == {"async_aclose", "async_plain", "sync_close", "sync_plain"}

ASSUME KindsAssumption == Kinds \subseteq AllKinds
ASSUME MaxMessagesAssumption == MaxMessages \in Nat

VARIABLES
  kind,         \* the producer's kind, fixed for the life of the wrapper
  producer,     \* what the producer is doing; "fresh" while _iterator is None
  produced,     \* messages the producer has yielded so far
  closeCalls,   \* calls of the producer's aclose() or close() so far
  closed,       \* _closed
  closeCalled,  \* _close_called
  iterating,    \* _iterating
  reader,       \* where the reader is in __anext__
  got,          \* what __anext__ is about to return or raise, or last did
  closer        \* where the closer is in aclose(), then how aclose() ended

sourceVars == <<kind, producer, produced, closeCalls, closed, closeCalled,
                iterating, reader, got, closer>>

Sync     == kind \in {"sync_close", "sync_plain"}
Closable == kind \in {"async_aclose", "sync_close"}

\* How a pull of the producer ends, and how a call of its aclose() ends.
Answers   == {"message", "stop", "error", "cancelled"}
CloseEnds == {"ok", "error", "cancelled"}

SourceTypeOK ==
  /\ kind \in Kinds
  /\ producer \in {"fresh", "idle", "running", "over", "closing", "closed"}
  /\ produced \in 0 .. MaxMessages
  /\ closeCalls \in Nat
  /\ closed \in BOOLEAN /\ closeCalled \in BOOLEAN /\ iterating \in BOOLEAN
  /\ reader \in {"out", "pulling", "answered", "closing", "returned"}
  /\ got \in Answers \cup {"none"}
  /\ closer \in {"out", "closing"} \cup CloseEnds

SourceInit ==
  /\ kind \in Kinds
  /\ producer = "fresh" /\ produced = 0 /\ closeCalls = 0
  /\ closed = FALSE /\ closeCalled = FALSE /\ iterating = FALSE
  /\ reader = "out" /\ got = "none" /\ closer = "out"

-----------------------------------------------------------------------------
\* Code that runs without giving the event loop a chance to switch: the
\* reader between two awaits, and the body of a synchronous producer.
ReaderRuns == reader \in {"answered", "returned"}
LoopFree   == ~ReaderRuns /\ ~(Sync /\ producer \in {"running", "closing"})

\* Mutant: _close_iterator forgets that it has been called before.
CallsCloseAgain == producer # "fresh" /\ Closable

\* _close_iterator finds something to call.
CallsClose == ~closeCalled /\ producer # "fresh" /\ Closable

\* _close_iterator up to the call of aclose() or close().
CloseIterator ==
  /\ closeCalled' = TRUE
  /\ IF CallsClose
     THEN closeCalls' = closeCalls + 1 /\ producer' = "closing"
     ELSE UNCHANGED <<closeCalls, producer>>

\* __anext__ up to its await.  "async for" does not pull again once a pull
\* has stopped or raised.
Anext ==
  /\ reader = "out" /\ got \in {"none", "message"}
  /\ IF closed
     THEN /\ reader' = "returned" /\ got' = "stop"
          /\ UNCHANGED <<producer, iterating>>
     ELSE /\ reader' = "pulling" /\ iterating' = TRUE /\ producer' = "running"
          /\ UNCHANGED got
  /\ UNCHANGED <<kind, produced, closeCalls, closed, closeCalled, closer>>

\* The producer answers the pull; every path clears _iterating first.
Answer(r) ==
  /\ reader = "pulling"
  /\ Sync => r # "cancelled"
  /\ IF r = "message"
     THEN produced < MaxMessages /\ produced' = produced + 1 /\ producer' = "idle"
     ELSE producer' = "over" /\ UNCHANGED produced
  /\ iterating' = FALSE
  /\ reader' = "answered" /\ got' = r
  /\ UNCHANGED <<kind, closeCalls, closed, closeCalled, closer>>

\* Mutants: __anext__ does not look at _closed again after its await; or it
\* does so only when the pull gave a message and not when it raised.
MustCloseUnchecked == got = "stop"
MustCloseUnlessRaised == got = "stop" \/ (closed /\ got = "message")

\* __anext__ closes the producer when it stopped or the closer came meanwhile.
MustClose == got = "stop" \/ closed

\* The rest of __anext__, which turns a message nobody wants into a stop.
Settle ==
  /\ reader = "answered"
  /\ closed' = (closed \/ got = "stop")
  /\ IF MustClose
     THEN /\ CloseIterator
          /\ reader' = IF CallsClose THEN "closing" ELSE "returned"
          /\ got' = IF got = "message" THEN "stop" ELSE got
     ELSE /\ reader' = "returned"
          /\ UNCHANGED <<closeCalled, closeCalls, producer, got>>
  /\ UNCHANGED <<kind, produced, iterating, closer>>

\* What __anext__ raises after closing: the failure of the close, or else what
\* it was raising already.
AfterClose(r) == IF r = "ok" THEN got ELSE r

\* The producer's aclose() that __anext__ awaits ends.
ReaderClosed(r) ==
  /\ reader = "closing"
  /\ reader' = "returned" /\ producer' = "closed"
  /\ got' = AfterClose(r)
  /\ UNCHANGED <<kind, produced, closeCalls, closed, closeCalled, iterating, closer>>

\* The reader takes what __anext__ returned or raised.
Take ==
  /\ reader = "returned"
  /\ reader' = "out"
  /\ UNCHANGED <<kind, producer, produced, closeCalls, closed, closeCalled,
                 iterating, got, closer>>

\* Mutant: aclose() does not care whether a pull is under way.
HandsOverNever == FALSE

\* aclose() leaves the close to the reader.
HandsOver == iterating

\* aclose() up to the await of the producer's own aclose(), or to its end.
Aclose ==
  /\ closer = "out"
  /\ closed' = TRUE
  /\ IF HandsOver
     THEN closer' = "ok" /\ UNCHANGED <<closeCalled, closeCalls, producer>>
     ELSE CloseIterator /\ closer' = IF CallsClose THEN "closing" ELSE "ok"
  /\ UNCHANGED <<kind, produced, iterating, reader, got>>

\* The producer's aclose() that aclose() awaits ends.
CloserClosed(r) ==
  /\ closer = "closing"
  /\ closer' = r /\ producer' = "closed"
  /\ UNCHANGED <<kind, produced, closeCalls, closed, closeCalled, iterating,
                 reader, got>>

\* Nothing is left to do: the reader will not pull and aclose() has ended.
SourceEnded ==
  /\ reader = "out" /\ got \notin {"none", "message"} /\ closer \in CloseEnds
  /\ UNCHANGED sourceVars

SourceNext ==
  \/ LoopFree /\ Anext
  \/ \E r \in Answers : Answer(r)
  \/ Settle
  \/ \E r \in CloseEnds : ReaderClosed(r)
  \/ Take
  \/ LoopFree /\ Aclose
  \/ ~ReaderRuns /\ \E r \in CloseEnds : CloserClosed(r)
  \/ SourceEnded

\* The reader's code runs to its next suspension, and a producer that is being
\* closed finishes.  Nothing obliges a producer to answer a pull.
SourceFairness ==
  /\ WF_sourceVars(Settle)
  /\ WF_sourceVars(Take)
  /\ WF_sourceVars(\E r \in CloseEnds : ReaderClosed(r))
  /\ WF_sourceVars(~ReaderRuns /\ \E r \in CloseEnds : CloserClosed(r))

SourceSpec == SourceInit /\ [][SourceNext]_sourceVars /\ SourceFairness

-----------------------------------------------------------------------------
\* The hand-over of the close between the two coroutines loses nothing: once
\* the wrapper is closed and no pull is under way, the close of a producer
\* that was started and can be closed has been asked for exactly once.
\* (Lines 293-294, 298-299 and 323-324: whoever comes last closes.)
CloseNotLost ==
  closed /\ ~iterating /\ reader # "answered" /\ Closable /\ producer # "fresh"
    => closeCalls = 1

\* A message the producer yields after the closer came is never handed to the
\* sending task, which would write it to a finished call.  (Lines 297-301.)
NoMessageAfterClose ==
  [][closed /\ reader' = "returned" => got' # "message"]_sourceVars

\* Once the wrapper is closed and its pull has been answered, a producer that
\* can be closed ends up closed.
ClosedInTheEnd ==
  (closed /\ ~iterating /\ Closable /\ producer # "fresh") ~> (producer = "closed")

\* The producer's view of the wrapper.
Lifecycle == INSTANCE ProducerLifecycle

\* The wrapper keeps the promise of ProducerLifecycle to every producer, under
\* every interleaving of the sending task and the closing RPC method.
KeepsLifecycle == Lifecycle!LifecycleSpec
=============================================================================
