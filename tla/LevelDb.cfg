CONSTANTS
    MaxLevel = 2
    L0Trigger = 2
    LevelLimit = 2
    Databases <- MCDatabases
    Histories <- MCHistories
    Wanted <- MCWanted
    MaxRuns = 2
    MaxFaults = 1
CHECK_DEADLOCK FALSE
SPECIFICATION Spec
INVARIANTS TypeOK NothingLost FilesKept NewestAbove
PROPERTY ImplementsStore Ends
