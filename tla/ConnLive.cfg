CONSTANTS
    MaxOps = 6
    WBufMax = 3
    RBufMax = 1
    NetCap = 2
    MsgWatermark = 2
    BytesWatermark = 100
    FailureLimit = 0
    FailureCap = 1
    CursorMod = 12
    MaxCloses = 0
    Faults = {}
SPECIFICATION FairSpec
INVARIANT QuitDelivers
PROPERTY CallsEnd
CHECK_DEADLOCK FALSE
