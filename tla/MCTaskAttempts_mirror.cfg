SPECIFICATION LiveSpec
CONSTANTS
    Tasks = {t1}
    Keys = {k1}
    MaxAttempts = 1
    Second = 2
    MaxTime = 3
    MaxRevision = 2
    ArchiveCalls = {"open", "archived"}
    Retention = 1
    MaxForeign = 2
    MaxFaults = 2
    MaxReloads = 1
    MaxRestarts = 0
PROPERTIES
    MirrorCatchesUp
CHECK_DEADLOCK FALSE
