CONSTANTS
    WinSize = 2
    ExecNum = 6
    MaxFaults = 2
    KeyOffset <- MCKeyOffset
    Modes <- MCModes
SPECIFICATION Spec
INVARIANTS TypeOK OwnAnswer NoFalseAlarm WarmedUp InProportion WindowsTrue
PROPERTIES MissesReal Finishes
CHECK_DEADLOCK FALSE
