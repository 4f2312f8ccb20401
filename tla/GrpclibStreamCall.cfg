SPECIFICATION Spec
CONSTANTS
  Methods = {"unary_unary", "unary_stream", "stream_unary", "stream_stream"}
  MaxMessages = 3
  MaxResponses = 3
  MaxCancels = 2
CHECK_DEADLOCK FALSE
INVARIANTS CleanEndMeansComplete OutcomeTellsStatus
PROPERTIES SendingStops ServerEndsStream
