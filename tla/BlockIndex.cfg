CONSTANTS
    Databases <- MCDatabases
    Prefix <- MCPrefix
    Requests <- MCRequests
    SecondsPerDay = 2
    Heights = {0, 1, 2}
    Times = {0, 1, 2}
    Counts = {1, 2}
    MaxEntries = 3
SPECIFICATION Spec
INVARIANTS TypeOK IndexExact HeightsExact DaysExact DaysInOrder
