SPECIFICATION MCSpec
CONSTANTS
  Second = 6
  Minute = 10
  None = None
  Absent = Absent
  EntryType = "entry"
  Queues <- MCQueues
  Consumers <- MCConsumers
  Limited <- MCLimited
  Scouters <- MCScouters
  Codes <- MCCodes
  Names <- MCNames
  Synced <- MCSynced
  Short = {"input"}
  Catalog <- MCCatalog
  Labels <- MCLabels
  Asks = {"export", "traffic", "flow", "gaps", "review", "reconcile"}
CHECK_DEADLOCK FALSE
INVARIANTS
  SameWork
  PeakCoversAverage
  ScenarioAlone
  UnreadExplained
  GapsAnswered
  KnownFindingsStand
  BillAddsUp
  EveryNodeShown
  Legible
