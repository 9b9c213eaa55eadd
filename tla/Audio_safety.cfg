SPECIFICATION Spec
CONSTANTS
  SeqSpace = 12
  OnePackSize = 2
  Frames <- MCFrames
  LiveWindow = 3
  Horizon = 5
  MaxPayload = 12
  Others = {1, 2}
  OverflowWraps = TRUE
INVARIANTS TypeOK AudioHasAllSlices LaterAudioTaken
PROPERTIES AudioMovesForward
