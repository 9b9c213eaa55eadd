CONSTANTS
    Limit = 15
    MaxOutage = 14
SPECIFICATION LiveSpec
INVARIANT TypeOK
INVARIANT LiveKept
PROPERTY EndNoticed
PROPERTY InfoArrives
