SPECIFICATION Spec
CONSTANTS
  None = None
  Proc = {"sync"}
  Syncer = "sync"
  List <- MCList
  Client <- MCClient
  Oldest = 1
  Region <- MCRegion
  AnyRegion = "*"
  Item = {"x", "y", "z"}
  Published <- MCPublished
  Catalogs <- MCCatalogs
  Options <- MCOptions
  LastDay = 3
  MaxRuns = 2
CHECK_DEADLOCK FALSE
INVARIANT
  VerifiedTableWasRead
