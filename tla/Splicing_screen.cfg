CONSTANTS
    Clients = {a, b}
    Turning = {}
    MaxChanges = 3
    TVScreenwidth = 1920
    TVScreenheight = 1080
SPECIFICATION LiveSpec
INVARIANT TypeOK
INVARIANT WrittenWhole
PROPERTY PicturesShown
CHECK_DEADLOCK FALSE
