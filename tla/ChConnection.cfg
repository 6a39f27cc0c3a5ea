SPECIFICATION FairSpec
CONSTANTS
  w1 = w1
  w2 = w2
  MaxRetries = 2
  MaxOutages = 3
  MaxHiccups = 2
  MaxDials = 4
  Inserters = {w1, w2}
INVARIANTS
  TypeOK
  ConnectedMeansLatestClient
  InsertClientUsable
  PoolsBounded
PROPERTIES
  FirstConnection
  ReconnectsInTime
CHECK_DEADLOCK FALSE
