CONSTANTS
    InSize = 3
    OutSize = 2
    Times = 5
SPECIFICATION LiveSpec
INVARIANT TypeOK
INVARIANT NoFrameLost
PROPERTY PacketsTaken
