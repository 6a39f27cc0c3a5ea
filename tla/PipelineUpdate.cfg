SPECIFICATION FairSpec
CONSTANTS
  r1 = r1
  r2 = r2
  a = a
  b = b
  NoRequest = NoRequest
  Requests = {r1, r2}
  Ids = {a, b}
  Ops = {"create", "update"}
  StorePaths = {TRUE}
  MaxCrashes = 0
PROPERTY UpdateAnswered
CHECK_DEADLOCK FALSE
