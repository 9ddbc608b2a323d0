CONSTANTS
    MaxOps = 4
    WBufMax = 3
    RBufMax = 2
    NetCap = 2
    MsgWatermark = 3
    BytesWatermark = 5
    FailureLimit = 2
    FailureCap = 2
    CursorMod = 8
    MaxCloses = 1
    Faults = {"timeout", "connect", "refuse"}
SPECIFICATION Spec
INVARIANTS TypeOK OwnAnswer ExecutedInOrder RecursionStops
CHECK_DEADLOCK FALSE
