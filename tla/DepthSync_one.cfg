SPECIFICATION Spec
CONSTANTS
  Absent = Absent
  Levels = {"bid", "ask"}
  Qty = {0, 1}
  Symbols = {"BTC"}
  Focus <- OneFocus
  SnapshotReach <- LimitedReach
  MaxVersion = 4
  QueueCap = 2
  SnapshotLag = 1
INVARIANTS TypeOK BookIntegrity TrustAgreement
PROPERTIES GapMeansLoss GapHeldUntilSnapshot BooksAreMirrors
