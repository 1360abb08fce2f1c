\* One killed worker, two runs on its pool, a third one next.
SPECIFICATION Spec
CONSTANTS
    r1 = r1  r2 = r2  r3 = r3
    Runs <- ThreeRuns
    Deleted <- NoRuns
    Cancelled <- NoRuns
    MaxWorkers = 2
    CallbacksUnderLock = TRUE
    MaxPools = 4
    MaxKills = 1
    MayShutDown = FALSE
    MaxCrashes = 0
CHECK_DEADLOCK FALSE
INVARIANTS RebuildLosesNothing
