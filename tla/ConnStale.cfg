CONSTANTS
    MaxOps = 5
    WBufMax = 3
    RBufMax = 2
    NetCap = 2
    MsgWatermark = 100
    BytesWatermark = 100
    FailureLimit = 0
    FailureCap = 1
    CursorMod = 8
    MaxCloses = 0
    Faults = {}
SPECIFICATION Spec
PROPERTY OnlyNewInput
CHECK_DEADLOCK FALSE
