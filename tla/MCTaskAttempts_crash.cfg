SPECIFICATION Spec
CONSTANTS
    Tasks = {t1, t2}
    Keys = {k1, k2}
    MaxAttempts = 2
    Second = 2
    MaxTime = 3
    MaxRevision = 1
    ArchiveCalls = {}
    Retention = 1
    MaxForeign = 0
    MaxFaults = 2
    MaxReloads = 0
    MaxRestarts = 1
INVARIANTS
    CapacityInv
    OneAttemptPerRequest
    RunHasDurableAttempt
    OutcomeIsReal
PROPERTIES
    TerminalAttemptIsFinal
SYMMETRY IdSymmetry
CHECK_DEADLOCK FALSE
