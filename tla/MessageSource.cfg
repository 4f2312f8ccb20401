SPECIFICATION SourceSpec
CONSTANTS
  Kinds = {"async_aclose", "async_plain", "sync_close", "sync_plain"}
  MaxMessages = 2
INVARIANTS SourceTypeOK CloseNotLost
PROPERTIES NoMessageAfterClose ClosedInTheEnd KeepsLifecycle
