SPECIFICATION Spec
CONSTANTS
  Options <- MCOptions
  Files <- MCFiles
  Attributes <- MCAttributes
INVARIANTS RoutesMeet NamesImported CollisionsReported
\* The plugin ends with an error when an option is wrong, and a package without services
\* has nothing to call.
CHECK_DEADLOCK FALSE
