SPECIFICATION Spec
CONSTANT MaxRecords = 3
INVARIANTS
  TypeOK
  ValidBodyComplete
  DoubledOnlyAlone
  MissingExplained
  RefusedMeansUnreadable
CHECK_DEADLOCK FALSE
