SPECIFICATION Spec
CONSTANTS
  Implicit = {1}
  Optional = {3, 4}
  Repeated = {}
  Group = {3, 4}
  Classes = {"v1", "v2"}
  Known <- GrownGroup
  Values = {0, 1}
  MaxItems = 2
  None = None
INVARIANT OneofExclusive
