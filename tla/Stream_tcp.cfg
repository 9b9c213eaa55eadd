SPECIFICATION LiveStreamSpec
CONSTANTS
  Lengths = {0, 3}
  HeadSize = 2
  MaxSlice = 2
  RecvBufSize = 4
  VideoLimit = 1
  AudioLimit = 2
  MaxMessages = 3
  MaxWire = 3
  NoMessage = NoMessage
INVARIANTS StreamTypeOK OrderedPerType RoomToRecv
PROPERTIES ImplementsFifo SentArrives
CHECK_DEADLOCK FALSE
