CONSTANTS
    MaxLevel = 2
    L0Trigger = 2
    LevelLimit = 2
    Databases <- MCSplitKey
    Histories = {}
    Wanted <- MCWanted
    MaxRuns = 1
    MaxFaults = 0
CHECK_DEADLOCK FALSE
SPECIFICATION Spec
INVARIANT DeletedStaysDeleted
