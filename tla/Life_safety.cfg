SPECIFICATION LiveSpec
CONSTANTS
  MaxData = 2
INVARIANTS TypeOK JoinedBeforeFreed SendsOnOpenSocket
PROPERTIES DataTaken ReportThreadsJoined
CHECK_DEADLOCK FALSE
