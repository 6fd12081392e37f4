SPECIFICATION Spec
CONSTANTS
  StaleAfter = 3
  MaxDelay = 1
  Ahead = 2
INVARIANTS TypeOK ModeAgreement PacketReasons LriFromPresentBook StaleInTime SilenceShows
