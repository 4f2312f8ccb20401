SPECIFICATION Spec
CONSTANTS
  Base = 4
  Timestamps <- AroundEpoch
  Durations <- NotNegative
  Offsets <- Zones
  MaxFloatError = 1
CHECK_DEADLOCK FALSE
INVARIANT NanosPreserved
