SPECIFICATION Spec
CONSTANTS
  Kinds = {"async_aclose", "async_plain", "sync_close", "sync_plain"}
  MaxMessages = 2
  Methods = {"unary_stream", "stream_unary", "stream_stream"}
  MaxResponses = 1
  MaxCancels = 2
INVARIANTS TypeOK CloseNotLost
INVARIANTS ExitIsClean CleanEndMeansComplete ProducerErrorReported NoSpuriousCancel
PROPERTIES NoMessageAfterClose ClosedInTheEnd KeepsLifecycle
PROPERTIES SendingStops ProducerFailureEnds CancellationEnds
