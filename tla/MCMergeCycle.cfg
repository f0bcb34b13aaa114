SPECIFICATION Spec
CONSTANTS
  None = None
  Asked = Asked
  Entry = "entry"
  Schedules <- MCSchedules
  Address = {"A", "B", "C"}
  Id <- MCId
  Value <- MCValue
  Fresh <- MCFresh
  Starts <- MCStarts
  HandNodes <- MCHandNodes
  Names <- MCNames
  MaxNumber = 4
  MaxMerges = 2
  MaxEdits = 0
INVARIANT
  ImportsLeaveNoCycle
