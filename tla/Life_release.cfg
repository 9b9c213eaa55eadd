SPECIFICATION LiveSpec
CONSTANTS
  MaxData = 1
PROPERTIES ReleaseEnds
CHECK_DEADLOCK FALSE
