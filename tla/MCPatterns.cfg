SPECIFICATION Spec
CONSTANTS
  Registry <- MCRegistry
  None = None
  MaxDepth = 2
  Declarations <- MCDeclarations
INVARIANTS
  ExpandsToNodesByHand
  RollupSumsEachOnce
PROPERTIES
  ExpansionEnds
