SPECIFICATION FairSpec
CONSTANTS
    j1 = j1
    j2 = j2
    j3 = j3
    j4 = j4
    j5 = j5
    n1 = n1
    n2 = n2
    u1 = u1
    u2 = u2
    Jobs = {j1, j2, j3, j4, j5}
    Nodes = {n1}
    Tenants = {u1, u2}
    Job <- QueueJob
    Arrivals <- QueueArrivals
    ClosedLoop = {j3}
    Horizon = 7
    WakeInterval = 3
    FailureGaps = {}
    MaintGaps = {}
    RepairDelays = {1}
    DrainGrace = 1
    Forced = {}
    Cap <- QueueCap
    RejectOverQuota = TRUE
    NodeChips = 2
    Round = 2
INVARIANTS
    EventsMatchHandles
    QuotaConserved
    WakePromised
    WorkAccounted
PROPERTIES
    OneSettledRound
    Terminates
