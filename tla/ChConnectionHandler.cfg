SPECIFICATION Spec
CONSTANTS
  w1 = w1
  w2 = w2
  MaxRetries = 2
  MaxOutages = 3
  MaxHiccups = 2
  MaxDials = 4
  Inserters = {w1, w2}
INVARIANT HandlerSeesConnection
CHECK_DEADLOCK FALSE
