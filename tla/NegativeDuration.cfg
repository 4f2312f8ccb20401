SPECIFICATION Spec
CONSTANTS
  Base = 4
  Timestamps <- None
  Durations <- AroundEpoch
  Offsets <- Zones
  MaxFloatError = 1
CHECK_DEADLOCK FALSE
INVARIANT DurationKept
