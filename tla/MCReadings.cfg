SPECIFICATION MCSpec
CONSTANTS
  Id = {"a", "b", "c", "d"}
  Group = {"g", "b"}
  Kind = {"request", "transfer", "read", "write"}
  None = None
  Unreadable = Unreadable
  Declarations <- MCDeclarations
  Missing = Missing
  PriceIds <- MCPriceIds
  PriceBook <- MCPriceBook
  Scouters <- MCScouters
  Typings <- MCTypings
  Entry = "entry"
  Latencies <- MCLatencies
  QuotaBook <- MCQuotaBook
  SLABook <- MCSLABook
  Applied <- MCApplied
  MaxPaths = 3
INVARIANTS
  ForwardOrder
  RefusedOnlyForCycle
  LoadOverRoutes
  UnpricedExplained
  TotalBillsEveryUnitOnce
  PathsComplete
PROPERTY
  Settles
