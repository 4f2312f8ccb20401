SPECIFICATION Spec
CONSTANTS
  Requests = {r1, r2}
  MaxResponses = 2
  None = None
INVARIANTS TypeOK ContextIsOwn ClosedOnce ValuesRejected
PROPERTY CancelledEnds
