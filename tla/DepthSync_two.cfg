SPECIFICATION FairSpec
CONSTANTS
  Absent = Absent
  Levels = {"bid"}
  Qty = {0, 1}
  Symbols = {"BTC", "ETH"}
  Focus <- TwoFocus
  SnapshotReach <- OneLevelReach
  MaxVersion = 2
  QueueCap = 2
  SnapshotLag = 0

PROPERTIES GapHeals
