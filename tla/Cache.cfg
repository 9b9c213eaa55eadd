SPECIFICATION LiveSpec
CONSTANTS
  SeqSpace = 12
  MaxList = 3
  CountRetry = 2
  OnePackSize = 2
  Frames <- MCFrames
  LiveWindow = 4
  Horizon = 5
  OverflowWraps = TRUE
INVARIANTS TypeOK ListSorted ReportedWhole RequestsOnlyMissing
PROPERTIES BackOnlyAfterGivingUp NoSilentDrop ListDrains
