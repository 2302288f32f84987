SPECIFICATION Spec
CONSTANTS
  Call = {c1, c2}
  End = {e1}
  MaxInstances = 2
PROPERTIES ImplementsRPC CallEnds
