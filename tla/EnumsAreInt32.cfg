SPECIFICATION CodecSpec
CONSTANTS
  GroupBits = 3
  WordBits = 8
  IntBits = 4
  Numbers = {1, 9}
CHECK_DEADLOCK FALSE
INVARIANT EnumsAreInt32
