\* Three requests, retention pressure, one failed history write, one shutdown, one restart.
SPECIFICATION Spec
CONSTANTS
    MaxRuns = 3
    Retention = 2
    MaxFaults = 1
    MaxRestarts = 1
INVARIANTS
    TypeOK
    SlotInv
    PublishedIsDurable
    CanceledOnlyIfAsked
    CancelReachesRun
    CleanShutdown
    SlotHeldByLiveRun
PROPERTIES
    ServesContract
CHECK_DEADLOCK FALSE
