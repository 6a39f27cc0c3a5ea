SPECIFICATION FairSpec
CONSTANTS
  l1 = l1
  l2 = l2
  l3 = l3
  r1 = r1
  r2 = r2
  NoLog = NoLog
  Logs = {l1, l2, l3}
  Requests = {r1, r2}
  Capacity = 1
  MaxIds = 2
INVARIANTS
  TypeOK
  NoEntryLost
  FlushClears
  BlockedByRefill
PROPERTY RequestsEnd
CHECK_DEADLOCK FALSE
