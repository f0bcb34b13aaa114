SPECIFICATION Spec
CONSTANTS
  Registry <- MCRegistry
  None = None
  MaxDepth = 3
  Declarations <- Annotated
INVARIANT
  ReadsWhatWasWritten
