\* Two workers, a kill, a deletion, shutdown and a crash.
SPECIFICATION Spec
CONSTANTS
    r1 = r1  r2 = r2  r3 = r3
    Runs <- TwoRuns
    Deleted <- OneRun
    Cancelled <- NoRuns
    MaxWorkers = 2
    CallbacksUnderLock = FALSE
    MaxPools = 4
    MaxKills = 1
    MayShutDown = TRUE
    MaxCrashes = 1
CHECK_DEADLOCK FALSE
INVARIANTS TypeOK SlotsConserved QueuedIffListed LiveRunHasOwner PoolsAccounted
PROPERTIES StatusMovesForward
