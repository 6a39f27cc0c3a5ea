SPECIFICATION FairSpec
CONSTANTS
  w1 = w1
  w2 = w2
  MaxRetries = 2
  MaxOutages = 3
  MaxHiccups = 0
  MaxDials = 4
  Inserters = {w1, w2}
PROPERTY AutoReconnects
CHECK_DEADLOCK FALSE
