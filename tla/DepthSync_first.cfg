SPECIFICATION Spec
CONSTANTS
  Absent = Absent
  Levels = {"bid", "ask"}
  Qty = {0, 1}
  Symbols = {"BTC"}
  Focus <- OneFocus
  SnapshotReach <- FullReach
  MaxVersion = 4
  QueueCap = 2
  SnapshotLag = 0

PROPERTIES FirstDeltaBridges
