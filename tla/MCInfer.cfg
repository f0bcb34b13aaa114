SPECIFICATION Spec
CONSTANTS
  None = None
  Users = Users
  Self = Self
  api = api
  itg = itg
  f = f
  g = g
  q = q
  m = m
  d = d
  sec = sec
  par = par
  ver = ver
  al = al
  url = url
  acct = acct
  box = box
  page = page
  sub = sub
  model = model
  pipe = pipe
  back = back
  r = r
  Rules <- MCRules
  Inputs <- MCInputs
  Paths <- MCPaths
  Name <- MCName
INVARIANTS
  NoCycleKept
  DeclaredFirst
  SharesAddUp
CHECK_DEADLOCK FALSE
