SPECIFICATION FairSpec
CONSTANTS
  c1 = c1
  full = full
  empty = empty
  bad = bad
  Chunks = {c1}
  Lines = {full, empty, bad}
  EmptyLines = {empty}
  BadLines = {bad}
  RetryLimit = 1
  Burst = 1
  MaxOutages = 2
  MaxCrashes = 2
INVARIANTS
  TypeOK
  DuplicatesBounded
  LossExplained
PROPERTY PostsFinish
CHECK_DEADLOCK FALSE
