SPECIFICATION FairSpec
CONSTANTS
  r1 = r1
  r2 = r2
  a = a
  b = b
  NoRequest = NoRequest
  Requests = {r1, r2}
  Ids = {a, b}
  Ops = {"create", "update", "delete", "list", "get"}
  StorePaths = {TRUE, FALSE}
  MaxCrashes = 1
INVARIANTS
  TypeOK
  LockedReadsWhole
  QuiescentFileMatches
PROPERTIES
  AckedSurviveRestart
  RefinesRegistry
  RequestsAnswered
CHECK_DEADLOCK FALSE
