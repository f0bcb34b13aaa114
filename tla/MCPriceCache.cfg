SPECIFICATION Spec
CONSTANTS
  None = None
  Proc = {p, q}
  List = {"ec2", "gce"}
  Client <- MCClient
  MaxAge = 0
  Longest = 1
  LastDay = 2
  MaxHurt = 1
SYMMETRY Symmetry
CHECK_DEADLOCK FALSE
INVARIANTS
  WholeUnlessHurt
PROPERTIES
  KeepsPromise
