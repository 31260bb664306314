SPECIFICATION LiveSpec
CONSTANTS
    Tasks = {t1}
    Keys = {k1}
    MaxAttempts = 1
    Second = 2
    MaxTime = 3
    MaxRevision = 2
    ArchiveCalls = {"archived"}
    Retention = 1
    MaxForeign = 0
    MaxFaults = 0
    MaxReloads = 0
    MaxRestarts = 0
PROPERTIES
    ArchivedCatchesUp
CHECK_DEADLOCK FALSE
