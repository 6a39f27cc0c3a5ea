SPECIFICATION FairSpec
CONSTANTS
  MaxRows = 3
  MaxTime = 2
  MaxOutages = 1
  Window = 1
  Keys = {1, 2}
  Limits = {1, 2}
  DefaultLimit = 3
  StreamLimit = 1
  NamespaceLimit = 1
INVARIANTS
  TypeOK
  PagingSkipsNothing
  PageFillsTotal
  StatsTotalExplained
PROPERTY StreamCatchesUp
CHECK_DEADLOCK FALSE
