SPECIFICATION FairSpec
CONSTANTS
  e1 = e1
  w1 = w1
  i1 = i1
  i2 = i2
  h1 = h1
  Logs = {e1}
  Workers = {w1}
  Inserters = {i1, i2}
  Handlers = {h1}
  QueueSize = 1
  BatchCapacity = 1
  MaxRetries = 2
  MaxOutages = 1
  MaxHiccups = 0
  MaxDials = 1
PROPERTIES
  ImplementsPool
  ImplementsConnection
  ConnectedInserts
CHECK_DEADLOCK FALSE
