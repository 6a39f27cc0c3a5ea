SPECIFICATION FairSpec
CONSTANTS
  e1 = e1
  e2 = e2
  e3 = e3
  w1 = w1
  w2 = w2
  i1 = i1
  i2 = i2
  h1 = h1
  Logs = {e1, e2, e3}
  Workers = {w1, w2}
  Inserters = {i1, i2}
  Handlers = {h1}
  QueueSize = 2
  BatchCapacity = 1
  MaxRetries = 1
INVARIANTS
  TypeOK
  NoSendAfterClose
  EntriesAccounted
  DrainedBeforeClose
  CloseSparesRequests
PROPERTY ShutdownCompletes
CHECK_DEADLOCK FALSE
