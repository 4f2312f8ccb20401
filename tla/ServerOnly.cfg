SPECIFICATION Spec
CONSTANTS
  Packages <- TreePackages
  Objects <- MCObjects
  Lower <- MCLower
  Keywords <- MCKeywords
  HeaderNames <- MCHeaderNames
  Settings <- ServerOnly
  MaxTypes = 2
  MaxUses = 2
INVARIANT ReferencesDenote
CHECK_DEADLOCK FALSE
