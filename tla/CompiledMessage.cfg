SPECIFICATION Spec
CONSTANTS
  Declarations <- MCDeclarations
  ItemValues <- MCItemValues
  KeyValues <- MCKeyValues
  Registered = {"Sub", "Int32Value", "Any"}
  MaxItems = 2
  MaxName = 3
INVARIANTS CompiledAsDeclared NamesComeBack MessageKept JsonIsCanonical
