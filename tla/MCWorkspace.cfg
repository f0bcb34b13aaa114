SPECIFICATION Spec
CONSTANTS
  None = None
  Id = {"a", "b", "c"}
  LoadValue <- MCLoadValue
  Documents <- MCDocuments
  Kept <- MCKept
  MaxEdits = 2
  MaxLoads = 1
  MaxReloads = 1
INVARIANTS
  IdleIsOfThis
PROPERTIES
  SavedComesBack
  EditsStaySound
  ComesToRest
