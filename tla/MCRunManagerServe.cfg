\* Three runs on two workers of a server with a kill and a cancellation, that nobody stops.
SPECIFICATION FairSpec
CONSTANTS
    r1 = r1  r2 = r2  r3 = r3
    Runs <- ThreeRuns
    Deleted <- NoRuns
    Cancelled <- OneRun
    MaxWorkers = 2
    CallbacksUnderLock = TRUE
    MaxPools = 4
    MaxKills = 1
    MayShutDown = FALSE
    MaxCrashes = 0
CHECK_DEADLOCK FALSE
INVARIANTS RunningWithinWorkers
PROPERTIES RunningEnds QueueMoves
