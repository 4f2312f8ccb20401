SPECIFICATION Spec
CONSTANTS
  Implicit = {1}
  Optional = {2, 3, 4}
  Repeated = {5}
  Group = {3, 4}
  Classes = {"v1", "v2", "v3"}
  Known <- Versions
  Values = {0, 1}
  MaxItems = 2
  None = None
INVARIANT NothingLost
