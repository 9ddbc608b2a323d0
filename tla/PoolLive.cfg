CONSTANTS
    NoThread = NoThread
    t1 = t1
    t2 = t2
    t3 = t3
    Threads <- Threads3
    Size = 2
    Initial = 0
    MaxPops = 2
    MaxSets = 1
    Faults = {"set", "partial"}
    HoldAndWait = FALSE
    DestroyInUse = TRUE
SPECIFICATION FairSpec
PROPERTY BlockedPopReturns
CHECK_DEADLOCK FALSE
