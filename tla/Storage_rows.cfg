SPECIFICATION FairSpec
CONSTANTS
  Symbols = {"BTC", "ETH"}
  QueueCap = 2
  BatchRows = 3
  PerMinute = 3
  MaxTime = 4
  MaxRestarts = 1
INVARIANTS TypeOK Accounted OneRowPerProcess
PROPERTIES AcceptedIsTried
CHECK_DEADLOCK FALSE
