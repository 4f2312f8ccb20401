SPECIFICATION Spec
CONSTANTS
  GroupBits = 3
  WordBits = 8
  IntBits = 4
  Messages <- Newer
  Known = {1, 2, 3}
  MaxSent = 3
CHECK_DEADLOCK FALSE
INVARIANT Framing
