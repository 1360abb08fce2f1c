\* A submission that races shutdown.
SPECIFICATION Spec
CONSTANTS
    r1 = r1  r2 = r2  r3 = r3
    Runs <- OneRun
    Deleted <- NoRuns
    Cancelled <- NoRuns
    MaxWorkers = 1
    CallbacksUnderLock = TRUE
    MaxPools = 1
    MaxKills = 0
    MayShutDown = TRUE
    MaxCrashes = 0
CHECK_DEADLOCK FALSE
INVARIANTS NothingLeftQueued
