CONSTANTS
    Hosts = {0, 1, 2}
    Weight <- Weights
    Points = 2
    PointsKetama = 4
    PerHash = 2
    Addition = 1
    MaxHash = 14
    Value <- Values
    Retry = 1
    Limit = 1
    MaxChanges = 4
    Faults = {"realloc"}
SPECIFICATION Spec
INVARIANTS TypeOK Fits RoutesToOwner EjectedIsScheduled
PROPERTY OnlyAffectedKeysMove
CHECK_DEADLOCK FALSE
