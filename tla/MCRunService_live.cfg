\* Fair goroutines, no faults, no eviction; the shutdown deadline may or may not pass.
SPECIFICATION FairSpec
CONSTANTS
    MaxRuns = 2
    Retention = 2
    MaxFaults = 0
    MaxRestarts = 0
PROPERTIES
    EveryRunSettles
    ShutdownReturns
CHECK_DEADLOCK FALSE
