SPECIFICATION Spec
CONSTANTS
    j1 = j1
    j2 = j2
    j3 = j3
    j4 = j4
    j5 = j5
    n1 = n1
    n2 = n2
    u1 = u1
    u2 = u2
    Jobs = {j1, j2}
    Nodes = {n1, n2}
    Tenants = {u1, u2}
    Job <- FailJob
    Arrivals <- FailArrivals
    ClosedLoop = {}
    Horizon = 9
    WakeInterval = 0
    FailureGaps = {3, 4}
    MaintGaps = {2, 5}
    RepairDelays = {2}
    DrainGrace = 1
    Forced <- FailForced
    Cap <- FailCap
    RejectOverQuota = FALSE
    NodeChips = 2
    Round = 2
INVARIANTS
    TypeOK
    LifecycleAgrees
    EventsMatchHandles
    DownNodesComeBack
    DrainsMakeProgress
    MetricsAgree
PROPERTIES
    WorkNeverRegresses
    ChangeWakesScheduler
    ImplementsJobLife
