SPECIFICATION FairSpec
CONSTANTS
  Focus <- MCFocus
  Conns = {"market", "depth"}
  QueueCap = 2
  MaxFrames = 3
INVARIANTS FramesInOrder OpenGapMeansFailure
PROPERTIES FramesApplied BootEnds
