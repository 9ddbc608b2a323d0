CONSTANTS
    MaxOps = 5
    WBufMax = 3
    RBufMax = 2
    NetCap = 2
    MsgWatermark = 4
    BytesWatermark = 5
    FailureLimit = 3
    FailureCap = 3
    CursorMod = 8
    MaxCloses = 1
    Faults = {"timeout", "connect", "refuse"}
SPECIFICATION Spec
INVARIANT FlushSendsBuffer
CHECK_DEADLOCK FALSE
