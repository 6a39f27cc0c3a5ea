SPECIFICATION Spec
CONSTANTS
  c1 = c1
  full = full
  empty = empty
  bad = bad
  Chunks = {c1}
  Lines = {full, empty}
  EmptyLines = {empty}
  BadLines = {}
  RetryLimit = 1
  Burst = 1
  MaxOutages = 1
  MaxCrashes = 0
INVARIANT FailedLogsKept
CHECK_DEADLOCK FALSE
