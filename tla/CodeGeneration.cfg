SPECIFICATION Spec
CONSTANTS
  Packages <- TreePackages
  Objects <- MCObjects
  Lower <- MCLower
  Keywords <- MCKeywords
  HeaderNames <- MCHeaderNames
  Settings <- EveryClient
  MaxTypes = 2
  MaxUses = 2
INVARIANT ReferencesDenote
INVARIANT ImportsWritten
INVARIANT NeverFails
CHECK_DEADLOCK FALSE
