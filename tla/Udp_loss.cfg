SPECIFICATION StreamSpec
CONSTANTS
  SeqSpace = 16
  MaxList = 6
  CountRetry = 3
  OnePackSize = 2
  Frames <- MCFrames
  LiveWindow = 6
  Horizon = 8
  OverflowWraps = TRUE
  MaxFrames = 6
  MaxSize = 5
  MaxLoss = 1
INVARIANTS StreamTypeOK
PROPERTIES ImplementsCache SkipsOnlyGone RequestsServed
CHECK_DEADLOCK FALSE
