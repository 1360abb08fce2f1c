------------------------------- MODULE Engine -------------------------------
(***************************************************************************)
(* The discrete-event engine of fleetsim (engine/sim.py): one loop pops     *)
(* the earliest event of the queue and runs its handler to the end.  The    *)
(* module keeps every handler's control: job life cycle, checkpoint         *)
(* accounting, preemption grace, node failures, maintenance drains, quota   *)
(* admission and the coalescing of scheduler wakes.                         *)
(*                                                                          *)
(* What is abstracted:                                                      *)
(*  - time is counted in ticks, speed and checkpoint efficiency are 1;      *)
(*  - the queue is the SET of live events.  Ties of (time, rank), which the *)
(*    code breaks by push order, are broken arbitrarily, and a stored event *)
(*    handle is the time of the event it names: a tombstoned event is gone  *)
(*    from the set;                                                         *)
(*  - random draws are choices from small sets of gaps and delays;          *)
(*  - the scheduler is any sequence of actions that the engine accepts;     *)
(*  - the fleet is flat and of one chip type, its used-chip counters are    *)
(*    derived from the allocations; there is no calendar reservation.       *)
(***************************************************************************)
EXTENDS Integers, FiniteSets, Sequences

CONSTANTS
    Jobs,             \* job ids
    Nodes,            \* leaf ids
    Tenants,          \* tenant names
    Job,              \* Job[j]: the declarative fields of job j (class Job)
    Arrivals,         \* the order in which the source hands out open-loop jobs
    ClosedLoop,       \* jobs a closed-loop source submits through refill
    NodeChips,        \* chips of a node
    Horizon, Round,   \* scenario.sim.horizon_us, round_us
    WakeInterval,     \* Scheduler.wake_interval; 0 stands for None
    FailureGaps,      \* possible gaps of the sampled failure process
    MaintGaps,        \* possible gaps of the sampled maintenance process
    RepairDelays,     \* possible repair and maintenance durations
    DrainGrace,       \* FailureModelConfig.drain_grace_us
    Forced,           \* node events placed on the queue by hand
    Cap,              \* Cap[u]: chip quota of tenant u; None: unlisted
    RejectOverQuota   \* quota.over_quota = "reject"

None == -1
Nil == "nil"

JobStatus == {"PENDING", "ADMITTED", "RUNNING", "PREEMPTED",
              "COMPLETED", "FAILED", "CANCELED", "TIMEOUT", "NODE_FAIL"}
Terminal == {"COMPLETED", "FAILED", "CANCELED", "TIMEOUT", "NODE_FAIL"}
NodeState == {"HEALTHY", "DRAINING", "FAILED", "MAINTENANCE"}
BestEffort == 0
Prod == 2
Monitoring == 3

\* Mutant of Rank: the round comes before what times out at its time.
RankWakeFirst ==
    [NODE_REPAIR |-> 0, JOB_COMPLETION |-> 1, NODE_FAILURE |-> 2,
     FORCED_FAILURE |-> 2, PREEMPTION_DONE |-> 3, JOB_ARRIVAL |-> 4,
     MAINTENANCE_DRAIN |-> 5, FORCED_DRAIN |-> 5, DRAIN_GRACE |-> 5,
     VALID_UNTIL |-> 7, LIFETIME |-> 7, SCHED_WAKE |-> 6, METRICS_FLUSH |-> 8]

\* Event kinds; MAINTENANCE_DRAIN and JOB_TIMEOUT are split by their payload.
Rank == [NODE_REPAIR |-> 0, JOB_COMPLETION |-> 1, NODE_FAILURE |-> 2,
         FORCED_FAILURE |-> 2, PREEMPTION_DONE |-> 3, JOB_ARRIVAL |-> 4,
         MAINTENANCE_DRAIN |-> 5, FORCED_DRAIN |-> 5, DRAIN_GRACE |-> 5,
         VALID_UNTIL |-> 6, LIFETIME |-> 6, SCHED_WAKE |-> 7,
         METRICS_FLUSH |-> 8]

Ev(t, type, arg) == [time |-> t, type |-> type, arg |-> arg]

JobEvents == {"JOB_COMPLETION", "PREEMPTION_DONE", "JOB_ARRIVAL",
              "VALID_UNTIL", "LIFETIME"}
NodeEvents == {"NODE_REPAIR", "FORCED_FAILURE", "FORCED_DRAIN", "DRAIN_GRACE"}
LoopEvents == {"NODE_FAILURE", "MAINTENANCE_DRAIN", "SCHED_WAKE",
               "METRICS_FLUSH"}
Event == [time : Nat, type : JobEvents, arg : Jobs]
         \cup [time : Nat, type : NodeEvents, arg : Nodes]
         \cup [time : Nat, type : LoopEvents, arg : {Nil}]

ASSUME ConfigAssumption ==
    /\ Horizon \in Nat /\ Round \in Nat \ {0} /\ WakeInterval \in Nat
    /\ IsFiniteSet(Jobs) /\ IsFiniteSet(Nodes)
    /\ NodeChips \in Nat \ {0} /\ DrainGrace \in Nat
    /\ Nil \notin Nodes \cup Jobs
    /\ FailureGaps \subseteq Nat \ {0} /\ MaintGaps \subseteq Nat \ {0}
    /\ RepairDelays \subseteq Nat \ {0} /\ RepairDelays # {}
    /\ Arrivals \in Seq(Jobs) /\ ClosedLoop \subseteq Jobs
    /\ \A i \in 1 .. Len(Arrivals) : Arrivals[i] \notin ClosedLoop
    /\ \A i, k \in 1 .. Len(Arrivals) : Arrivals[i] = Arrivals[k] => i = k
    /\ Cap \in [Tenants -> Nat \cup {None}] /\ RejectOverQuota \in BOOLEAN
    /\ Job \in [Jobs -> [submit : Nat, valid : BOOLEAN, chips : Nat \ {0},
                         tier : 0 .. 3, tenant : Tenants,
                         preemptible : BOOLEAN, spot : BOOLEAN,
                         minRuntime : Nat, total : Nat, interval : Nat,
                         save : Nat, overhead : Nat, final : Terminal,
                         validUntil : Nat \cup {None},
                         lifetime : Nat \cup {None}]]
    /\ Forced \subseteq [time : Nat, type : {"FORCED_FAILURE", "FORCED_DRAIN"},
                         arg : Nodes]

\* next_arrival yields times in order (workload/base.py); the run ends with a
\* ValueError otherwise ("job source went backwards").
ASSUME SourceInOrder ==
    \A i, k \in 1 .. Len(Arrivals) :
       i <= k => Job[Arrivals[i]].submit <= Job[Arrivals[k]].submit

VARIABLES
    now, queue, phase,       \* the loop; phase: inside or outside a wake
    nextArr,                 \* index of the next arrival the source returns
    lastWake, wakeTimes, dirty,
    status, known,           \* Job.status; keys of Simulator._jobs
    pending, running, graced,\* keys of _pending, _running, _graced
    alloc,                   \* alloc[j]: the leaves job j holds ({}: none)
    kept, lost, bank, started, stint, over, failReq,         \* _JobRt
    complAt, graceAt, lifeAt, validAt,                       \* its handles
    nodeState, maintWait, maintFor, hazard, failureAt, maintAt,
    tier, committed, inQuota,
    mAlloc, mHealthy, mFinished    \* running totals the metrics sink is told

loopVars == <<phase, nextArr, lastWake>>
jobVars == <<status, pending, running, graced, alloc>>
workVars == <<kept, lost, bank, started, stint, over, failReq>>
handleVars == <<complAt, graceAt, lifeAt, validAt>>
nodeVars == <<nodeState, maintWait, maintFor, hazard>>
armVars == <<failureAt, maintAt>>
quotaVars == <<tier, committed, inQuota>>
metricVars == <<mAlloc, mHealthy, mFinished>>
vars == <<now, queue, loopVars, wakeTimes, dirty, jobVars, known, workVars,
          handleVars, nodeVars, armVars, quotaVars, metricVars>>
-----------------------------------------------------------------------------
(* Helpers.  A definition headed "Mutant" is a plausible bug in the one that  *)
(* follows it; no specification uses it, and a run must notice it.            *)

Min2(a, b) == IF a < b THEN a ELSE b
Max2(a, b) == IF a > b THEN a ELSE b

Owners(n) == {j \in Jobs : n \in alloc[j]}

\* Chips job j takes on each of its leaves: a sub-node gang takes its chips
\* on one leaf, a whole-node gang takes every chip of each leaf.
Share(j) == Min2(Job[j].chips, NodeChips)

\* Chips the jobs of S take, take[j] each: a sum, as the size of a set.
Taken(S, take) == Cardinality(UNION {{j} \X (1 .. take[j]) : j \in S})
ChipsOf(S) == Taken(S, [j \in Jobs |-> Job[j].chips])
FreeChips(n) == NodeChips - Taken(Owners(n), [j \in Jobs |-> Share(j)])

\* Mutant of Work: a stint shorter than its restart overhead is not clipped.
WorkUnclipped(j, t) == Min2(t - stint[j] - over[j], Job[j].total - kept[j])

\* _JobRt.stint_work_s
Work(j, t) ==
    Min2(Max2(0, t - stint[j] - over[j]), Job[j].total - kept[j])

\* Mutant of KeptAfter: floors to a checkpoint below what a drain has banked.
KeptFloored(j, t, banked) ==
    LET cum == kept[j] + Work(j, t)
        i == Job[j].interval
    IN IF i = 0 THEN kept[j]
       ELSE IF banked THEN Min2(cum, Job[j].total)
       ELSE (cum \div i) * i

\* What survives an interruption of j at t (Simulator._interrupt).
KeptAfter(j, t, banked) ==
    LET cum == kept[j] + Work(j, t)
        i == Job[j].interval
    IN IF i = 0 THEN kept[j]
       ELSE IF banked THEN Min2(cum, Job[j].total)
       ELSE Min2(Max2((cum \div i) * i, kept[j]), Job[j].total)

Interrupt(S, t, banked) ==
    /\ kept' = [j \in Jobs |->
                  IF j \in S THEN KeptAfter(j, t, banked[j]) ELSE kept[j]]
    /\ lost' = [j \in Jobs |->
                  IF j \in S
                  THEN lost[j] + kept[j] + Work(j, t) - KeptAfter(j, t, banked[j])
                  ELSE lost[j]]
    /\ bank' = [j \in Jobs |-> bank[j] /\ j \notin S]

\* The live events that the handles h of the jobs of S name.
Named(S, h, type) == {Ev(h[j], type, j) : j \in {k \in S : h[k] # None}}

\* Mutant of NamedAll: the lifetime event outlives its job.
NamedAllButLifetime(S) == Named(S, complAt, "JOB_COMPLETION")
                          \cup Named(S, graceAt, "PREEMPTION_DONE")
                          \cup Named(S, validAt, "VALID_UNTIL")

\* Every event of the jobs of S (_tombstone).
NamedAll(S) == Named(S, complAt, "JOB_COMPLETION")
               \cup Named(S, graceAt, "PREEMPTION_DONE")
               \cup Named(S, lifeAt, "LIFETIME")
               \cup Named(S, validAt, "VALID_UNTIL")

Cleared(h, S) == [j \in Jobs |-> IF j \in S THEN None ELSE h[j]]

\* Mutants of Boundary: a boundary that already ran is used again; the wake is
\* one round late.
BoundaryRepeats(t) == ((t + Round - 1) \div Round) * Round
BoundaryLate(t) == (t \div Round + 2) * Round

\* _mark_dirty: one wake at the next round boundary that has not run yet.
Boundary(t) ==
    LET b == ((t + Round - 1) \div Round) * Round
    IN IF lastWake # None /\ b <= lastWake THEN lastWake + Round ELSE b

\* _ensure_wake
WakeEvents(b) ==
    IF b \in wakeTimes THEN {} ELSE {Ev(b, "SCHED_WAKE", Nil)}

MarkDirty(t) == dirty' = TRUE /\ wakeTimes' = wakeTimes \cup {Boundary(t)}
NotDirty == UNCHANGED <<dirty, wakeTimes>>

\* Mutant of Emptied: looks at the owners before the release.
EmptiedEarly(rel, wait) ==
    {m \in wait : nodeState[m] = "DRAINING" /\ Owners(m) = {}}

\* _check_maint_transition for the leaves that the release of the jobs of rel
\* touches: the past-grace DRAINING leaves that it empties.
Emptied(rel, wait) ==
    {m \in wait : /\ nodeState[m] = "DRAINING"
                  /\ Owners(m) \cap rel # {}
                  /\ Owners(m) \subseteq rel}

\* Mutant of MaintDone: nothing brings the node back.
MaintForever(E, t) == {}

\* The end of the maintenance that the leaves of E enter at t.
MaintDone(E, t) == {Ev(t + maintFor[m], "NODE_REPAIR", m) : m \in E}

\* _release of the jobs of rel; n (or Nil) is a leaf that fails in this step.
Release(rel, n, t) ==
    LET E == Emptied(rel, maintWait \ {n})
    IN /\ alloc' = [j \in Jobs |-> IF j \in rel THEN {} ELSE alloc[j]]
       /\ mAlloc' = mAlloc - ChipsOf({j \in rel : alloc[j] # {}})
       /\ nodeState' = [m \in Nodes |-> IF m = n THEN "FAILED"
                                        ELSE IF m \in E THEN "MAINTENANCE"
                                        ELSE nodeState[m]]
       /\ maintWait' = maintWait \ (E \cup {n})
       /\ maintFor' = [m \in Nodes |->
                         IF m = n \/ m \in E THEN None ELSE maintFor[m]]

\* _arm: the possible next times of a sampled process whose handle is h.
ArmTimes(h, gaps, t) ==
    IF h # None \/ gaps = {} THEN {h} ELSE {t + g : g \in gaps}
Armed(type, before, after) ==
    IF before = after THEN {} ELSE {Ev(after, type, Nil)}

\* _schedule_next_arrival
ArrivalEvents(i) ==
    IF i > Len(Arrivals) THEN {}
    ELSE {Ev(Job[Arrivals[i]].submit, "JOB_ARRIVAL", Arrivals[i])}
-----------------------------------------------------------------------------
(* The loop: run(). *)

Before(e, f) == \/ e.time < f.time
                \/ e.time = f.time /\ Rank[e.type] < Rank[f.type]

\* The event that the loop may pop next.
Due(e, type) ==
    /\ phase = "run" /\ e.type = type /\ e.time <= Horizon
    /\ \A f \in queue : ~ Before(f, e)

Init ==
    /\ now = 0 /\ phase = "run" /\ nextArr = 2
    /\ lastWake = None /\ dirty = FALSE
    /\ wakeTimes = IF WakeInterval # 0 \/ ClosedLoop # {} THEN {0} ELSE {}
    /\ status = [j \in Jobs |-> "PENDING"] /\ known = {}
    /\ pending = {} /\ running = {} /\ graced = {}
    /\ alloc = [j \in Jobs |-> {}]
    /\ kept = [j \in Jobs |-> 0] /\ lost = [j \in Jobs |-> 0]
    /\ bank = [j \in Jobs |-> FALSE] /\ started = [j \in Jobs |-> FALSE]
    /\ stint = [j \in Jobs |-> 0] /\ over = [j \in Jobs |-> 0]
    /\ failReq = [j \in Jobs |-> FALSE]
    /\ complAt = [j \in Jobs |-> None] /\ graceAt = [j \in Jobs |-> None]
    /\ lifeAt = [j \in Jobs |-> None] /\ validAt = [j \in Jobs |-> None]
    /\ nodeState = [n \in Nodes |-> "HEALTHY"] /\ maintWait = {}
    /\ maintFor = [n \in Nodes |-> None] /\ hazard = Nodes
    /\ failureAt \in ArmTimes(None, FailureGaps, 0)
    /\ maintAt \in ArmTimes(None, MaintGaps, 0)
    /\ tier = [j \in Jobs |-> Job[j].tier]
    /\ committed = [u \in Tenants |-> 0] /\ inQuota = {}
    /\ mAlloc = 0 /\ mHealthy = Cardinality(Nodes) /\ mFinished = 0
    /\ queue = ArrivalEvents(1) \cup Forced
               \cup Armed("NODE_FAILURE", None, failureAt)
               \cup Armed("MAINTENANCE_DRAIN", None, maintAt)
               \cup {Ev(t, "SCHED_WAKE", Nil) : t \in wakeTimes}
               \cup {Ev(t, "METRICS_FLUSH", Nil) : t \in {Round} \cap 0 .. Horizon - 1}

\* The horizon is reached: run() returns.
Finalize ==
    /\ phase = "run"
    /\ \A e \in queue : e.time > Horizon
    /\ phase' = "done" /\ now' = Horizon
    /\ UNCHANGED <<queue, nextArr, lastWake, wakeTimes, dirty, jobVars, known,
                   workVars, handleVars, nodeVars, armVars, quotaVars, metricVars>>

OnFlush(e) ==
    /\ Due(e, "METRICS_FLUSH")
    /\ now' = e.time
    /\ queue' = (queue \ {e}) \cup
                  {Ev(t, "METRICS_FLUSH", Nil) :
                      t \in {e.time + Round} \cap 0 .. Horizon - 1}
    /\ UNCHANGED <<loopVars, wakeTimes, dirty, jobVars, known, workVars,
                   handleVars, nodeVars, armVars, quotaVars, metricVars>>
-----------------------------------------------------------------------------
(* Submission and admission. *)

\* _submit_job of a gang whose segment decomposition is impossible.
SubmitInvalid(j) ==
    /\ ~ Job[j].valid
    /\ known' = known \cup {j}
    /\ status' = [status EXCEPT ![j] = "FAILED"]
    /\ mFinished' = mFinished + 1
    /\ UNCHANGED <<pending, validAt, quotaVars>>

\* Mutant of OverQuota: the job itself is not counted.
OverQuotaByOne(j) ==
    LET u == Job[j].tenant IN Cap[u] # None /\ committed[u] >= Cap[u]

\* The job would push its tenant past the cap.
OverQuota(j) ==
    LET u == Job[j].tenant
    IN Cap[u] # None /\ committed[u] + Job[j].chips > Cap[u]

SubmitRejected(j) ==
    /\ Job[j].valid /\ OverQuota(j) /\ RejectOverQuota
    /\ known' = known \cup {j}
    /\ status' = [status EXCEPT ![j] = "FAILED"]
    /\ mFinished' = mFinished + 1
    /\ UNCHANGED <<pending, validAt, quotaVars>>

\* QuotaAdmission.admit: commit, demote, or let an unlisted tenant through.
Admit(j) ==
    LET u == Job[j].tenant
    IN IF Cap[u] = None THEN UNCHANGED quotaVars
       ELSE IF OverQuota(j)
            THEN /\ tier' = [tier EXCEPT ![j] = BestEffort]
                 /\ UNCHANGED <<committed, inQuota>>
       ELSE /\ committed' = [committed EXCEPT ![u] = @ + Job[j].chips]
            /\ inQuota' = inQuota \cup {j}
            /\ UNCHANGED tier

SubmitAdmitted(j, t) ==
    /\ Job[j].valid /\ ~ (OverQuota(j) /\ RejectOverQuota)
    /\ known' = known \cup {j}
    /\ status' = [status EXCEPT ![j] = "ADMITTED"]
    /\ pending' = pending \cup {j}
    /\ Admit(j)
    /\ validAt' = [validAt EXCEPT ![j] =
                     IF Job[j].validUntil = None THEN None
                     ELSE Max2(t, Job[j].validUntil)]
    /\ UNCHANGED mFinished

SubmitUnchanged == UNCHANGED <<lastWake, running, graced, alloc, workVars,
                               complAt, graceAt, lifeAt, nodeVars, armVars,
                               mAlloc, mHealthy>>

OnArrival(e) ==
    LET j == e.arg
        t == e.time
        rest == (queue \ {e}) \cup ArrivalEvents(nextArr)
    IN /\ Due(e, "JOB_ARRIVAL")
       /\ now' = t /\ nextArr' = nextArr + 1
       /\ \/ /\ SubmitInvalid(j) \/ SubmitRejected(j)
             /\ queue' = rest
             /\ NotDirty
          \/ /\ SubmitAdmitted(j, t)
             /\ queue' = rest \cup Named({j}, validAt', "VALID_UNTIL")
                              \cup WakeEvents(Boundary(t))
             /\ MarkDirty(t)
       /\ UNCHANGED phase /\ SubmitUnchanged

\* A closed-loop source tops its backlog up inside the wake (_refill).
Refill(j) ==
    /\ phase = "refill" /\ j \in ClosedLoop \ known
    /\ \/ /\ SubmitInvalid(j) \/ SubmitRejected(j)
          /\ UNCHANGED queue
       \/ /\ SubmitAdmitted(j, now)
          /\ queue' = queue \cup Named({j}, validAt', "VALID_UNTIL")
    /\ NotDirty /\ UNCHANGED <<now, phase, nextArr>> /\ SubmitUnchanged
-----------------------------------------------------------------------------
(* The end of a job. *)

\* Mutant of Schedulable: freed chips alone ask for no wake.
SchedulableIfPending(j) == j \in pending

\* The end of j frees chips or shortens the queue.
Schedulable(j) == alloc[j] # {} \/ j \in pending

\* _finish: release, cancel every event of the job, drop the quota
\* commitment, report, mark dirty when something schedulable changed.
Finish(j, t, final, popped) ==
    LET E == Emptied({j}, maintWait)
    IN /\ Release({j}, Nil, t)
       /\ status' = [status EXCEPT ![j] = final]
       /\ pending' = pending \ {j}
       /\ running' = running \ {j}
       /\ graced' = graced \ {j}
       /\ complAt' = Cleared(complAt, {j}) /\ graceAt' = Cleared(graceAt, {j})
       /\ lifeAt' = Cleared(lifeAt, {j}) /\ validAt' = Cleared(validAt, {j})
       /\ inQuota' = inQuota \ {j}
       /\ committed' = IF j \in inQuota
                       THEN [committed EXCEPT ![Job[j].tenant] = @ - Job[j].chips]
                       ELSE committed
       /\ mFinished' = mFinished + 1
       /\ queue' = (queue \ (popped \cup NamedAll({j}))) \cup MaintDone(E, t)
                     \cup (IF Schedulable(j) THEN WakeEvents(Boundary(t)) ELSE {})
       /\ IF Schedulable(j) THEN MarkDirty(t) ELSE NotDirty
       /\ UNCHANGED <<loopVars, known, started, stint, over, failReq, hazard,
                      armVars, tier, mHealthy>>

\* A trace job ends with its recorded status (terminal_status_override).
OnCompletion(e) ==
    LET j == e.arg
    IN /\ Due(e, "JOB_COMPLETION")
       /\ now' = e.time
       /\ kept' = [kept EXCEPT ![j] = Job[j].total]
       /\ UNCHANGED <<lost, bank>>
       /\ Finish(j, e.time, Job[j].final, {e})

\* _on_timeout, payload valid_until: only a job that never started expires.
OnValidUntil(e) ==
    LET j == e.arg
    IN /\ Due(e, "VALID_UNTIL")
       /\ now' = e.time
       /\ IF started[j] \/ status[j] \in Terminal
          THEN /\ queue' = queue \ {e}
               /\ validAt' = Cleared(validAt, {j})
               /\ NotDirty
               /\ UNCHANGED <<loopVars, jobVars, known, workVars, complAt,
                              graceAt, lifeAt, nodeVars, armVars, quotaVars,
                              metricVars>>
          ELSE /\ Finish(j, e.time, "FAILED", {e})
               /\ UNCHANGED <<kept, lost, bank>>

\* _on_timeout, payload lifetime: whatever the job is doing, it ends.
OnLifetime(e) ==
    LET j == e.arg
    IN /\ Due(e, "LIFETIME")
       /\ now' = e.time
       /\ IF status[j] \in Terminal
          THEN /\ queue' = queue \ {e}
               /\ lifeAt' = Cleared(lifeAt, {j})
               /\ NotDirty
               /\ UNCHANGED <<loopVars, jobVars, known, workVars, complAt,
                              graceAt, validAt, nodeVars, armVars, quotaVars,
                              metricVars>>
          ELSE /\ Interrupt({i \in {j} : status[i] \in {"RUNNING", "PREEMPTED"}},
                            e.time, bank)
               /\ Finish(j, e.time, "TIMEOUT", {e})
-----------------------------------------------------------------------------
(* The scheduler's wake. *)

OnWake(e) ==
    /\ Due(e, "SCHED_WAKE")
    /\ now' = e.time
    /\ queue' = queue \ {e}
    /\ wakeTimes' = wakeTimes \ {e.time}
    /\ lastWake' = e.time
    /\ dirty' = FALSE
    /\ phase' = "refill"
    /\ UNCHANGED <<nextArr, jobVars, known, workVars, handleVars, nodeVars,
                   armVars, quotaVars, metricVars>>

\* The view is built after the refill; from here on actions are applied.
BuildView ==
    /\ phase = "refill" /\ phase' = "wake"
    /\ UNCHANGED <<now, queue, nextArr, lastWake, wakeTimes, dirty, jobVars,
                   known, workVars, handleVars, nodeVars, armVars, quotaVars,
                   metricVars>>

\* FleetTree.apply accepts job j on the leaves S: HEALTHY leaves, one leaf
\* with room for a sub-node gang, leaves without owners for a whole-node one.
Fits(j, S) ==
    /\ S # {} /\ Cardinality(S) * Share(j) = Job[j].chips
    /\ \A n \in S : nodeState[n] = "HEALTHY"
    /\ \A n \in S : IF Cardinality(S) = 1 THEN FreeChips(n) >= Share(j)
                    ELSE Owners(n) = {}

\* Mutant of CompletionTime: a restarted job begins from nothing.
CompletionFromScratch(j, overhead) == now + overhead + Job[j].total

\* When the stint that starts now delivers what job j still owes.
CompletionTime(j, overhead) == now + overhead + (Job[j].total - kept[j])

\* _apply_place and _start_job
Place(j, S) ==
    LET overhead == IF started[j] THEN Job[j].overhead ELSE 0
        end == CompletionTime(j, overhead)
        life == IF started[j] \/ Job[j].lifetime = None THEN lifeAt[j]
                ELSE now + Job[j].lifetime
    IN /\ phase = "wake" /\ j \in pending /\ Fits(j, S)
       /\ alloc' = [alloc EXCEPT ![j] = S]
       /\ pending' = pending \ {j} /\ running' = running \cup {j}
       /\ status' = [status EXCEPT ![j] = "RUNNING"]
       /\ stint' = [stint EXCEPT ![j] = now]
       /\ over' = [over EXCEPT ![j] = overhead]
       /\ failReq' = [failReq EXCEPT ![j] = FALSE]
       /\ started' = [started EXCEPT ![j] = TRUE]
       /\ complAt' = [complAt EXCEPT ![j] = end]
       /\ lifeAt' = [lifeAt EXCEPT ![j] = life]
       /\ validAt' = IF started[j] THEN validAt ELSE Cleared(validAt, {j})
       /\ queue' = (queue \ (IF started[j] THEN {}
                             ELSE Named({j}, validAt, "VALID_UNTIL")))
                   \cup {Ev(end, "JOB_COMPLETION", j)}
                   \cup (IF started[j] THEN {}
                         ELSE Named({j}, lifeAt', "LIFETIME"))
       /\ mAlloc' = mAlloc + Job[j].chips
       /\ NotDirty
       /\ UNCHANGED <<now, loopVars, graced, known, kept, lost, bank, graceAt,
                      nodeVars, armVars, quotaVars, mHealthy, mFinished>>

\* _apply_preempt accepts victim v; p is the preemptor or Nil.
MayPreempt(v, p) ==
    /\ phase = "wake" /\ status[v] = "RUNNING"
    /\ tier[v] # Monitoring /\ Job[v].preemptible
    /\ now - stint[v] >= Job[v].minRuntime
    /\ IF p = Nil THEN tier[v] # Prod
       ELSE p \in known /\ tier[v] < tier[p]

\* _preempt: SPOT capacity gets no notice.
GraceEnd(v, t) == t + (IF Job[v].spot THEN 0 ELSE Job[v].save)

\* Mutant of Evict: the victims stay in the table of running jobs.
EvictKeepsRunning(S, t) ==
    /\ status' = [j \in Jobs |-> IF j \in S THEN "PREEMPTED" ELSE status[j]]
    /\ running' = running /\ graced' = graced \cup S
    /\ complAt' = Cleared(complAt, S)
    /\ graceAt' = [j \in Jobs |-> IF j \in S THEN GraceEnd(j, t) ELSE graceAt[j]]

\* _preempt(REQUEUE) of the jobs of S: chips stay held through the grace.
Evict(S, t) ==
    /\ status' = [j \in Jobs |-> IF j \in S THEN "PREEMPTED" ELSE status[j]]
    /\ running' = running \ S /\ graced' = graced \cup S
    /\ complAt' = Cleared(complAt, S)
    /\ graceAt' = [j \in Jobs |-> IF j \in S THEN GraceEnd(j, t) ELSE graceAt[j]]

PreemptRequeue(v, p) ==
    /\ MayPreempt(v, p)
    /\ Evict({v}, now)
    /\ queue' = (queue \ Named({v}, complAt, "JOB_COMPLETION"))
                \cup Named({v}, graceAt', "PREEMPTION_DONE")
    /\ NotDirty
    /\ UNCHANGED <<now, loopVars, pending, alloc, known, workVars, lifeAt,
                   validAt, nodeVars, armVars, quotaVars, metricVars>>

PreemptCancel(v, p) ==
    /\ MayPreempt(v, p)
    /\ Interrupt({v}, now, bank)
    /\ Finish(v, now, "CANCELED", {})
    /\ UNCHANGED now

\* The action list is exhausted: arm the next periodic wake.
EndWake ==
    LET t == now + WakeInterval
        periodic == WakeInterval # 0 /\ t <= Horizon
    IN /\ phase = "wake" /\ phase' = "run"
       /\ wakeTimes' = IF periodic THEN wakeTimes \cup {t} ELSE wakeTimes
       /\ queue' = queue \cup (IF periodic THEN WakeEvents(t) ELSE {})
       /\ UNCHANGED <<now, nextArr, lastWake, dirty, jobVars, known, workVars,
                      handleVars, nodeVars, armVars, quotaVars, metricVars>>

\* The grace of a requeueing preemption is over.
OnPreemptionDone(e) ==
    LET j == e.arg
        t == e.time
    IN /\ Due(e, "PREEMPTION_DONE")
       /\ now' = t
       /\ Interrupt({j}, t, bank)
       /\ Release({j}, Nil, t)
       /\ graceAt' = Cleared(graceAt, {j})
       /\ graced' = graced \ {j} /\ pending' = pending \cup {j}
       /\ status' = [status EXCEPT ![j] = "PENDING"]
       /\ queue' = (queue \ {e}) \cup MaintDone(Emptied({j}, maintWait), t)
                     \cup WakeEvents(Boundary(t))
       /\ MarkDirty(t)
       /\ UNCHANGED <<loopVars, running, known, started, stint, over, failReq,
                      complAt, lifeAt, validAt, hazard, armVars, quotaVars,
                      mHealthy, mFinished>>
-----------------------------------------------------------------------------
(* Failures, repairs and drains. *)

\* Mutant of HealthLost: a draining node is counted out twice.
HealthLostTwice(n) == 1

\* Healthy nodes lost by the failure of n: a draining one is already out.
HealthLost(n) == IF nodeState[n] = "HEALTHY" THEN 1 ELSE 0

\* _fail_node: every resident is interrupted and requeued, running or graced.
FailNode(n, t, rest) ==
    LET victims == Owners(n)
        noBank == [j \in Jobs |-> FALSE]
    IN /\ Interrupt(victims, t, noBank)
       /\ Release(victims, n, t)
       /\ hazard' = hazard \ {n}
       /\ mHealthy' = mHealthy - HealthLost(n)
       /\ status' = [j \in Jobs |-> IF j \in victims THEN "PENDING" ELSE status[j]]
       /\ running' = running \ victims /\ graced' = graced \ victims
       /\ pending' = pending \cup victims
       /\ failReq' = [j \in Jobs |-> failReq[j] \/ j \in victims]
       /\ complAt' = Cleared(complAt, victims)
       /\ graceAt' = Cleared(graceAt, victims)
       /\ \E d \in RepairDelays :
            queue' = (rest \ (Named(victims, complAt, "JOB_COMPLETION")
                              \cup Named(victims, graceAt, "PREEMPTION_DONE")))
                     \cup {Ev(t + d, "NODE_REPAIR", n)}
                     \cup MaintDone(Emptied(victims, maintWait \ {n}), t)
                     \cup WakeEvents(Boundary(t))
       /\ MarkDirty(t)
       /\ UNCHANGED <<loopVars, known, started, stint, over, lifeAt, validAt,
                      quotaVars, mFinished>>

NoNodeEvent(rest) ==
    /\ queue' = rest /\ NotDirty
    /\ UNCHANGED <<loopVars, jobVars, known, workVars, handleVars, nodeVars,
                   quotaVars, metricVars>>

\* A sampled failure: thinned away, or a victim the hazard tree picks.
OnFailure(e) ==
    /\ Due(e, "NODE_FAILURE")
    /\ now' = e.time
    /\ failureAt' \in ArmTimes(None, FailureGaps, e.time)
    /\ LET rest == (queue \ {e}) \cup Armed("NODE_FAILURE", None, failureAt')
       IN \/ NoNodeEvent(rest)
          \/ \E n \in hazard : FailNode(n, e.time, rest)
    /\ UNCHANGED maintAt

OnForcedFailure(e) ==
    /\ Due(e, "FORCED_FAILURE")
    /\ now' = e.time
    /\ IF nodeState[e.arg] \in {"HEALTHY", "DRAINING"}
       THEN FailNode(e.arg, e.time, queue \ {e})
       ELSE NoNodeEvent(queue \ {e})
    /\ UNCHANGED armVars

OnRepair(e) ==
    LET n == e.arg
    IN /\ Due(e, "NODE_REPAIR")
       /\ now' = e.time
       /\ IF nodeState[n] \notin {"FAILED", "MAINTENANCE"}
          THEN NoNodeEvent(queue \ {e}) /\ UNCHANGED armVars
          ELSE /\ nodeState' = [nodeState EXCEPT ![n] = "HEALTHY"]
               /\ hazard' = hazard \cup {n}
               /\ mHealthy' = mHealthy + 1
               /\ failureAt' \in ArmTimes(failureAt, FailureGaps, e.time)
               /\ maintAt' \in ArmTimes(maintAt, MaintGaps, e.time)
               /\ queue' = (queue \ {e})
                           \cup Armed("NODE_FAILURE", failureAt, failureAt')
                           \cup Armed("MAINTENANCE_DRAIN", maintAt, maintAt')
                           \cup WakeEvents(Boundary(e.time))
               /\ MarkDirty(e.time)
               /\ UNCHANGED <<loopVars, jobVars, known, workVars, handleVars,
                              maintWait, maintFor, quotaVars, mAlloc, mFinished>>

\* _drain_node: no new placements; residents run on through the grace.
DrainNode(n, t, rest) ==
    /\ nodeState' = [nodeState EXCEPT ![n] = "DRAINING"]
    /\ hazard' = hazard \ {n}
    /\ mHealthy' = mHealthy - 1
    /\ \E d \in RepairDelays : maintFor' = [maintFor EXCEPT ![n] = d]
    /\ queue' = rest \cup {Ev(t + DrainGrace, "DRAIN_GRACE", n)}
                     \cup WakeEvents(Boundary(t))
    /\ MarkDirty(t)
    /\ UNCHANGED <<loopVars, jobVars, known, workVars, handleVars, maintWait,
                   quotaVars, mAlloc, mFinished>>

OnMaintenance(e) ==
    /\ Due(e, "MAINTENANCE_DRAIN")
    /\ now' = e.time
    /\ maintAt' \in ArmTimes(None, MaintGaps, e.time)
    /\ LET rest == (queue \ {e}) \cup Armed("MAINTENANCE_DRAIN", None, maintAt')
       IN \/ NoNodeEvent(rest)
          \/ \E n \in hazard : DrainNode(n, e.time, rest)
    /\ UNCHANGED failureAt

OnForcedDrain(e) ==
    /\ Due(e, "FORCED_DRAIN")
    /\ now' = e.time
    /\ IF nodeState[e.arg] = "HEALTHY"
       THEN DrainNode(e.arg, e.time, queue \ {e})
       ELSE NoNodeEvent(queue \ {e})
    /\ UNCHANGED armVars

\* _on_drain_grace: running residents are evicted with a banked checkpoint;
\* an empty node enters maintenance at once.
EndDrainGrace(n, t, rest) ==
    LET S == Owners(n) \cap running
        E == IF Owners(n) = {} THEN {n} ELSE {}
    IN /\ Evict(S, t)
       /\ bank' = [j \in Jobs |-> bank[j] \/ j \in S]
       /\ nodeState' = [m \in Nodes |-> IF m \in E THEN "MAINTENANCE"
                                        ELSE nodeState[m]]
       /\ maintWait' = (maintWait \cup {n}) \ E
       /\ maintFor' = [m \in Nodes |-> IF m \in E THEN None ELSE maintFor[m]]
       /\ queue' = (rest \ Named(S, complAt, "JOB_COMPLETION"))
                   \cup Named(S, graceAt', "PREEMPTION_DONE")
                   \cup MaintDone(E, t)
       /\ NotDirty
       /\ UNCHANGED <<loopVars, pending, alloc, known, kept, lost, started,
                      stint, over, failReq, lifeAt, validAt, hazard, quotaVars,
                      metricVars>>

OnDrainGrace(e) ==
    /\ Due(e, "DRAIN_GRACE")
    /\ now' = e.time
    /\ IF nodeState[e.arg] = "DRAINING"
       THEN EndDrainGrace(e.arg, e.time, queue \ {e})
       ELSE NoNodeEvent(queue \ {e})
    /\ UNCHANGED armVars
-----------------------------------------------------------------------------
\* One turn of the loop: the earliest event goes to the handler of its type.
Turn ==
    \/ \E e \in queue : OnRepair(e)
    \/ \E e \in queue : OnCompletion(e)
    \/ \E e \in queue : OnFailure(e)
    \/ \E e \in queue : OnForcedFailure(e)
    \/ \E e \in queue : OnPreemptionDone(e)
    \/ \E e \in queue : OnArrival(e)
    \/ \E e \in queue : OnMaintenance(e)
    \/ \E e \in queue : OnForcedDrain(e)
    \/ \E e \in queue : OnDrainGrace(e)
    \/ \E e \in queue : OnValidUntil(e)
    \/ \E e \in queue : OnLifetime(e)
    \/ \E e \in queue : OnWake(e)
    \/ \E e \in queue : OnFlush(e)

\* Inside a wake: the refill, then the scheduler's list of actions.
InWake ==
    \/ \E j \in Jobs : Refill(j)
    \/ BuildView
    \/ \E j \in Jobs, S \in SUBSET Nodes : Place(j, S)
    \/ \E v \in Jobs, p \in Jobs \cup {Nil} :
          PreemptRequeue(v, p) \/ PreemptCancel(v, p)
    \/ EndWake

\* run() has returned: nothing happens any more.
Stopped == phase = "done" /\ UNCHANGED vars

Next == Turn \/ InWake \/ Finalize \/ Stopped

Spec == Init /\ [][Next]_vars

\* The loop is one thread that never blocks.
FairSpec == Spec /\ WF_vars(Next)
-----------------------------------------------------------------------------
(* Properties. *)

\* The type invariant.
TypeOK ==
    /\ now \in Nat /\ phase \in {"run", "refill", "wake", "done"}
    /\ queue \subseteq Event
    /\ nextArr \in Nat \ {0} /\ lastWake \in Nat \cup {None}
    /\ wakeTimes \subseteq Nat /\ dirty \in BOOLEAN
    /\ status \in [Jobs -> JobStatus]
    /\ known \subseteq Jobs /\ pending \subseteq Jobs
    /\ running \subseteq Jobs /\ graced \subseteq Jobs
    /\ alloc \in [Jobs -> SUBSET Nodes]
    /\ kept \in [Jobs -> Nat] /\ lost \in [Jobs -> Nat]
    /\ bank \in [Jobs -> BOOLEAN] /\ started \in [Jobs -> BOOLEAN]
    /\ stint \in [Jobs -> Nat] /\ over \in [Jobs -> Nat]
    /\ failReq \in [Jobs -> BOOLEAN]
    /\ complAt \in [Jobs -> Nat \cup {None}]
    /\ graceAt \in [Jobs -> Nat \cup {None}]
    /\ lifeAt \in [Jobs -> Nat \cup {None}]
    /\ validAt \in [Jobs -> Nat \cup {None}]
    /\ nodeState \in [Nodes -> NodeState]
    /\ maintWait \subseteq Nodes /\ hazard \subseteq Nodes
    /\ maintFor \in [Nodes -> Nat \cup {None}]
    /\ failureAt \in Nat \cup {None} /\ maintAt \in Nat \cup {None}
    /\ tier \in [Jobs -> 0 .. 3] /\ inQuota \subseteq Jobs
    /\ committed \in [Tenants -> Int]
    /\ mHealthy \in Int /\ mFinished \in Nat

\* Job.status, the three job tables and the fleet's allocations are five
\* records of one fact, each updated by hand in every handler: they agree.  The
\* drain's bank flag is only ever up inside a grace window, and a requeue is
\* tagged as a failure's only until the job runs again.
LifecycleAgrees ==
    \A j \in Jobs :
      /\ status[j] = "RUNNING" <=> j \in running
      /\ status[j] = "PREEMPTED" <=> j \in graced
      /\ j \in pending <=> j \in known /\ status[j] \in {"ADMITTED", "PENDING"}
      /\ j \notin known => status[j] = "PENDING"
      /\ alloc[j] # {} <=> j \in running \cup graced
      /\ bank[j] => j \in graced
      /\ failReq[j] => started[j] /\ status[j] \in Terminal \cup {"PENDING"}
      /\ started[j] => j \in known
      /\ j \in running \cup graced => started[j]

EventsOf(j, type) == {e \in queue : e.type = type /\ e.arg = j}

\* Lazy cancellation never leaves a stale event behind and never loses a live
\* one: the events of a job on the queue are exactly those its handles name,
\* a running job has a completion event, a graced one the end of its grace,
\* and a job in any other state has neither.
EventsMatchHandles ==
    \A j \in Jobs :
      /\ EventsOf(j, "JOB_COMPLETION") = Named({j}, complAt, "JOB_COMPLETION")
      /\ EventsOf(j, "PREEMPTION_DONE") = Named({j}, graceAt, "PREEMPTION_DONE")
      /\ EventsOf(j, "LIFETIME") = Named({j}, lifeAt, "LIFETIME")
      /\ EventsOf(j, "VALID_UNTIL") = Named({j}, validAt, "VALID_UNTIL")
      /\ complAt[j] # None <=> j \in running
      /\ graceAt[j] # None <=> j \in graced
      /\ validAt[j] # None => j \in pending /\ ~ started[j]
      /\ lifeAt[j] # None => started[j] /\ status[j] \notin Terminal

\* A node that goes down comes back, once: a FAILED or MAINTENANCE node holds
\* no job and has exactly one repair event on the queue, any other node has
\* none (so the early return of _on_repair is never taken).
DownNodesComeBack ==
    \A n \in Nodes :
      /\ nodeState[n] \in {"FAILED", "MAINTENANCE"} =>
           /\ Owners(n) = {}
           /\ \E e \in queue : EventsOf(n, "NODE_REPAIR") = {e}
      /\ nodeState[n] \in {"HEALTHY", "DRAINING"} => EventsOf(n, "NODE_REPAIR") = {}

\* No drain gets stuck: a DRAINING node either has its grace event to come or
\* waits only for residents that are already leaving; its maintenance duration
\* has been drawn (the default of _check_maint_transition is never used), and
\* only HEALTHY nodes are offered as victims of the sampled processes.
DrainsMakeProgress ==
    /\ \A n \in Nodes :
         nodeState[n] = "DRAINING" =>
           /\ maintFor[n] # None
           /\ n \notin maintWait => EventsOf(n, "DRAIN_GRACE") # {}
    /\ \A n \in maintWait :
         /\ nodeState[n] = "DRAINING"
         /\ Owners(n) # {} /\ Owners(n) \subseteq graced
    /\ hazard = {n \in Nodes : nodeState[n] = "HEALTHY"}

\* The totals the metrics sink accumulates from the engine's calls are those of
\* the engine's state: chips_allocated/freed, healthy_delta, job_finished.
MetricsAgree ==
    /\ mAlloc = ChipsOf(running \cup graced)
    /\ mHealthy = Cardinality({n \in Nodes : nodeState[n] = "HEALTHY"})
    /\ mFinished = Cardinality({j \in Jobs : status[j] \in Terminal})

\* Quota conservation (class QuotaAdmission): the commitment of a tenant is the
\* chips of its in-quota jobs, all of them unfinished, and within its cap.
QuotaConserved ==
    /\ \A j \in inQuota : j \in known /\ status[j] \notin Terminal
    /\ \A u \in Tenants :
         /\ committed[u] = ChipsOf({j \in inQuota : Job[j].tenant = u})
         /\ Cap[u] # None => committed[u] <= Cap[u]

\* A completion event fires when the work is done: the stint it ends delivers
\* exactly what the job still owes, and delivered work never exceeds the job.
WorkAccounted ==
    \A j \in Jobs :
      /\ kept[j] <= Job[j].total
      /\ j \in running => complAt[j] = stint[j] + over[j] + Job[j].total - kept[j]
      /\ status[j] = "COMPLETED" => kept[j] = Job[j].total

\* A state change is seen by the scheduler within one round: while the dirty
\* flag is up, a wake is due no later than one round from now.
\* The wakes on the queue are those _wake_times remembers.
WakePromised ==
    /\ wakeTimes = {e.time : e \in {f \in queue : f.type = "SCHED_WAKE"}}
    /\ dirty => \E t \in wakeTimes : now <= t /\ t <= now + Round

\* Whatever makes more work placeable marks the state dirty: no handler frees
\* chips of a healthy node, or queues a job, without asking for a wake.
PlaceableChips(n) == IF nodeState[n] = "HEALTHY" THEN FreeChips(n) ELSE 0
ChangeWakesScheduler ==
    [][ \/ \E n \in Nodes : PlaceableChips(n) < PlaceableChips(n)'
        \/ pending' \ pending # {}
        => dirty' \/ phase = "refill" ]_vars

\* "kept_work_s never regresses" (class _JobRt), and lost work is never
\* returned, whatever mix of checkpoints, drain banks and failures.
WorkNeverRegresses ==
    [][ \A j \in Jobs : kept[j] <= kept'[j] /\ lost[j] <= lost'[j] ]_vars

\* Each timestamp has at most one scheduling round, and the scheduler sees
\* settled state: whatever is to happen at or before its time has happened, the
\* timeouts too; only the flush of the metrics (and a wake to be coalesced) may
\* be left.
OneSettledRound ==
    [][ phase = "run" /\ phase' = "refill" =>
          /\ lastWake < now'
          /\ \A e \in queue' : \/ e.time > now'
                                \/ e.type \in {"SCHED_WAKE", "METRICS_FLUSH"}
      ]_vars

\* The engine implements the abstract life of a job (module JobLife): no job
\* comes back after its end, runs without having been queued, completes from
\* anywhere but its chips or with work undone, or gains work while waiting.
LifeOf(j) ==
    CASE j \notin known -> "new"
      [] j \in pending -> "queued"
      [] j \in running -> "running"
      [] j \in graced -> "leaving"
      [] status[j] = "COMPLETED" -> "completed"
      [] OTHER -> "over"

Life == INSTANCE JobLife WITH
            Length <- [j \in Jobs |-> Job[j].total],
            life <- [j \in Jobs |-> LifeOf(j)], work <- kept
ImplementsJobLife == Life!Spec

\* run() reaches the horizon: no chain of zero-length grace windows, requeues
\* and wakes keeps the clock from advancing.
Terminates == <>(phase = "done")
=============================================================================
