CONSTANTS
    NoThread = NoThread
    t1 = t1
    t2 = t2
    t3 = t3
    Threads <- Threads3
    Size = 2
    Initial = 1
    MaxPops = 2
    MaxSets = 2
    Faults = {"clone", "set", "spurious"}
    HoldAndWait = TRUE
    DestroyInUse = FALSE
SPECIFICATION Spec
SYMMETRY Sym3
INVARIANTS TypeOK NoSharing Capacity NoLostWakeup FreeIsCurrent
PROPERTY KeepsPromise
CHECK_DEADLOCK FALSE
