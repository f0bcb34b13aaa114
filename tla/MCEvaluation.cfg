SPECIFICATION Spec
CONSTANTS
  Names <- MCNames
  Inputs <- MCInputs
  MaxPasses = 6
  MaxDocumentHops = 8
INVARIANTS
  AnyOrder
  CopiesMultiply
  RefsExplain
  DocumentAgrees
PROPERTY
  KnownStays
