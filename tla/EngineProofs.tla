---------------------------- MODULE EngineProofs ----------------------------
(***************************************************************************)
(* Theorems about the discrete-event engine (module Engine), proved for all *)
(* jobs, nodes, tenants, schedules of failures and quotas.                  *)
(*                                                                         *)
(* Types and durable work come first.  Then the redundant records of a job *)
(* agree, and the queue holds exactly the events its handles name.  These  *)
(* two carry one another: a handler may trust the event it is given        *)
(* because the event is tied to a state of the job, and the ties hold      *)
(* because every handler that ends such a state cancels the event.  From   *)
(* them follows that the engine implements the abstract life of a job, and *)
(* that a completion delivers what the job owes.                           *)
(***************************************************************************)
EXTENDS Engine, FiniteSetTheorems, TLAPS

\* Durable work never exceeds the job, and the length of the maintenance that
\* ends a drain has been drawn: what the types of lost and of the events need.
WorkBounded == \A j \in Jobs : kept[j] <= Job[j].total
DrainDrawn == \A n \in Nodes : nodeState[n] = "DRAINING" => maintFor[n] \in Nat

TypeInv == TypeOK /\ WorkBounded /\ DrainDrawn

USE DEF None

-----------------------------------------------------------------------------
(* Operators. *)

\* Flooring to a multiple stays within the number.
LEMMA FloorBound ==
    ASSUME NEW a \in Nat, NEW i \in Nat \ {0}
    PROVE  (a \div i) * i \in Nat /\ (a \div i) * i <= a
  BY Z3

\* The fields of a job have the types of class Job.
LEMMA JobFields ==
    ASSUME NEW j \in Jobs
    PROVE  /\ Job[j].submit \in Nat /\ Job[j].valid \in BOOLEAN
           /\ Job[j].chips \in Nat \ {0} /\ Job[j].tier \in 0 .. 3
           /\ Job[j].tenant \in Tenants /\ Job[j].spot \in BOOLEAN
           /\ Job[j].minRuntime \in Nat /\ Job[j].total \in Nat
           /\ Job[j].interval \in Nat /\ Job[j].save \in Nat
           /\ Job[j].overhead \in Nat /\ Job[j].final \in Terminal
           /\ Job[j].validUntil \in Nat \cup {None}
           /\ Job[j].lifetime \in Nat \cup {None}
  BY ConfigAssumption DEF ConfigAssumption

\* The work of a stint is between nothing and what the job still owes.
LEMMA WorkType ==
    ASSUME TypeInv, NEW j \in Jobs, NEW t \in Nat
    PROVE  Work(j, t) \in Nat /\ Work(j, t) <= Job[j].total - kept[j]
  <1>1. /\ kept[j] \in Nat /\ stint[j] \in Nat /\ over[j] \in Nat
        /\ kept[j] <= Job[j].total /\ Job[j].total \in Nat
    BY JobFields DEF TypeInv, TypeOK, WorkBounded
  <1>. QED
    BY <1>1 DEF Work, Min2, Max2

\* An interruption keeps part of the work done, and never less than before.
LEMMA KeptAfterType ==
    ASSUME TypeInv, NEW j \in Jobs, NEW t \in Nat, NEW b \in BOOLEAN
    PROVE  /\ KeptAfter(j, t, b) \in Nat
           /\ kept[j] <= KeptAfter(j, t, b)
           /\ KeptAfter(j, t, b) <= kept[j] + Work(j, t)
           /\ KeptAfter(j, t, b) <= Job[j].total
  <1>1. /\ kept[j] \in Nat /\ kept[j] <= Job[j].total
        /\ Job[j].total \in Nat /\ Job[j].interval \in Nat
    BY JobFields DEF TypeInv, TypeOK, WorkBounded
  <1>2. Work(j, t) \in Nat /\ Work(j, t) <= Job[j].total - kept[j]
    BY WorkType
  <1> DEFINE cum == kept[j] + Work(j, t)
             floor == (cum \div Job[j].interval) * Job[j].interval
  <1>3. cum \in Nat
    BY <1>1, <1>2
  <1>4. Job[j].interval # 0 => floor \in Nat /\ floor <= cum
    BY <1>1, <1>3, FloorBound
  <1> HIDE DEF floor
  <1>5. KeptAfter(j, t, b) = IF Job[j].interval = 0 THEN kept[j]
                             ELSE IF b THEN Min2(cum, Job[j].total)
                             ELSE Min2(Max2(floor, kept[j]), Job[j].total)
    BY DEF KeptAfter, floor
  <1>. QED
    BY <1>1, <1>2, <1>4, <1>5 DEF Min2, Max2

LEMMA InterruptType ==
    ASSUME TypeInv, NEW S \in SUBSET Jobs, NEW t \in Nat,
           NEW b \in [Jobs -> BOOLEAN], Interrupt(S, t, b)
    PROVE  /\ kept' \in [Jobs -> Nat] /\ lost' \in [Jobs -> Nat]
           /\ bank' \in [Jobs -> BOOLEAN] /\ WorkBounded'
           /\ \A j \in Jobs : kept[j] <= kept'[j] /\ lost[j] <= lost'[j]
  <1>1. \A j \in Jobs : /\ KeptAfter(j, t, b[j]) \in Nat
                        /\ kept[j] <= KeptAfter(j, t, b[j])
                        /\ KeptAfter(j, t, b[j]) <= kept[j] + Work(j, t)
                        /\ KeptAfter(j, t, b[j]) <= Job[j].total
                        /\ Work(j, t) \in Nat
    BY KeptAfterType, WorkType
  <1>2. /\ kept \in [Jobs -> Nat] /\ lost \in [Jobs -> Nat]
        /\ bank \in [Jobs -> BOOLEAN]
        /\ \A j \in Jobs : kept[j] <= Job[j].total
    BY DEF TypeInv, TypeOK, WorkBounded
  <1>3. kept' \in [Jobs -> Nat] /\ \A j \in Jobs :
            kept[j] <= kept'[j] /\ kept'[j] <= Job[j].total
    BY <1>1, <1>2 DEF Interrupt
  <1>4. \A j \in Jobs : lost[j] + kept[j] + Work(j, t) - KeptAfter(j, t, b[j]) \in Nat
                        /\ lost[j] <= lost[j] + kept[j] + Work(j, t)
                                        - KeptAfter(j, t, b[j])
    BY <1>1, <1>2
  <1>5. lost' \in [Jobs -> Nat] /\ \A j \in Jobs : lost[j] <= lost'[j]
    BY <1>2, <1>4 DEF Interrupt
  <1>6. bank' \in [Jobs -> BOOLEAN]
    BY <1>2 DEF Interrupt
  <1>. QED
    BY <1>3, <1>5, <1>6 DEF WorkBounded

LEMMA NamedType ==
    ASSUME NEW S \in SUBSET Jobs, NEW h \in [Jobs -> Nat \cup {None}],
           NEW type \in JobEvents
    PROVE  Named(S, h, type) \subseteq Event
  BY DEF Named, Ev, Event

LEMMA ClearedType ==
    ASSUME NEW S, NEW h \in [Jobs -> Nat \cup {None}]
    PROVE  Cleared(h, S) \in [Jobs -> Nat \cup {None}]
  BY DEF Cleared

\* The round boundary a state change asks for is a time.
LEMMA BoundaryType ==
    ASSUME TypeInv, NEW t \in Nat
    PROVE  Boundary(t) \in Nat
  <1> DEFINE b == ((t + Round - 1) \div Round) * Round
  <1>1. Round \in Nat \ {0} /\ lastWake \in Nat \cup {None}
    BY ConfigAssumption DEF TypeInv, TypeOK, ConfigAssumption
  <1>2. b \in Nat
    BY <1>1, FloorBound
  <1>3. Boundary(t) = IF lastWake # None /\ b <= lastWake THEN lastWake + Round
                      ELSE b
    BY DEF Boundary
  <1> HIDE DEF b
  <1>. QED
    BY <1>1, <1>2, <1>3

LEMMA MarkDirtyType ==
    ASSUME TypeInv, NEW t \in Nat
    PROVE  /\ WakeEvents(Boundary(t)) \subseteq Event
           /\ MarkDirty(t) => wakeTimes' \subseteq Nat /\ dirty' \in BOOLEAN
  <1>1. Boundary(t) \in Nat
    BY BoundaryType
  <1>2. wakeTimes \subseteq Nat
    BY DEF TypeInv, TypeOK
  <1>3. WakeEvents(Boundary(t)) \subseteq Event
    BY <1>1 DEF WakeEvents, Ev, Event, LoopEvents
  <1>4. MarkDirty(t) => wakeTimes' \subseteq Nat
    BY <1>1, <1>2 DEF MarkDirty
  <1>5. MarkDirty(t) => dirty' \in BOOLEAN
    BY DEF MarkDirty
  <1>. QED
    BY <1>3, <1>4, <1>5

LEMMA NotDirtyType ==
    ASSUME TypeInv, NotDirty
    PROVE  wakeTimes' \subseteq Nat /\ dirty' \in BOOLEAN
  BY DEF TypeInv, TypeOK, NotDirty

LEMMA ReleaseType ==
    ASSUME TypeInv, NEW rel \in SUBSET Jobs, NEW n \in Nodes \cup {Nil},
           NEW t \in Nat, Release(rel, n, t)
    PROVE  /\ alloc' \in [Jobs -> SUBSET Nodes]
           /\ nodeState' \in [Nodes -> NodeState]
           /\ maintWait' \subseteq Nodes
           /\ maintFor' \in [Nodes -> Nat \cup {None}]
           /\ DrainDrawn'
  <1>1. /\ alloc \in [Jobs -> SUBSET Nodes] /\ nodeState \in [Nodes -> NodeState]
        /\ maintWait \subseteq Nodes /\ maintFor \in [Nodes -> Nat \cup {None}]
        /\ \A m \in Nodes : nodeState[m] = "DRAINING" => maintFor[m] \in Nat
    BY DEF TypeInv, TypeOK, DrainDrawn
  <1> DEFINE E == Emptied(rel, maintWait \ {n})
  <1>2. E \subseteq maintWait
    BY DEF Emptied
  <1> HIDE DEF E
  <1>3. /\ alloc' = [j \in Jobs |-> IF j \in rel THEN {} ELSE alloc[j]]
        /\ nodeState' = [m \in Nodes |-> IF m = n THEN "FAILED"
                                        ELSE IF m \in E THEN "MAINTENANCE"
                                        ELSE nodeState[m]]
        /\ maintWait' = maintWait \ (E \cup {n})
        /\ maintFor' = [m \in Nodes |->
                         IF m = n \/ m \in E THEN None ELSE maintFor[m]]
    BY DEF Release, E
  <1>. QED
    BY <1>1, <1>2, <1>3 DEF NodeState, DrainDrawn

\* Only past-grace DRAINING nodes leave for maintenance, whose length is known.
LEMMA MaintDoneType ==
    ASSUME TypeInv, NEW rel, NEW wait \in SUBSET Nodes, NEW t \in Nat
    PROVE  MaintDone(Emptied(rel, wait), t) \subseteq Event
  <1>1. \A m \in Emptied(rel, wait) : m \in Nodes /\ maintFor[m] \in Nat
    BY DEF Emptied, TypeInv, DrainDrawn
  <1>. QED
    BY <1>1 DEF MaintDone, Ev, Event, NodeEvents

LEMMA ArmType ==
    ASSUME NEW h \in Nat \cup {None}, NEW t \in Nat,
           NEW gaps \in {FailureGaps, MaintGaps}, NEW h2 \in ArmTimes(h, gaps, t),
           NEW type \in LoopEvents
    PROVE  h2 \in Nat \cup {None} /\ Armed(type, h, h2) \subseteq Event
  <1>1. gaps \subseteq Nat \ {0}
    BY ConfigAssumption DEF ConfigAssumption
  <1>2. h2 \in Nat \cup {None} /\ (h2 # h => h2 \in Nat)
    BY <1>1 DEF ArmTimes
  <1>. QED
    BY <1>2 DEF Armed, Ev, Event

LEMMA ArrivalType ==
    ASSUME NEW i \in Nat \ {0}
    PROVE  ArrivalEvents(i) \subseteq Event
  <1>1. Arrivals \in Seq(Jobs)
    BY ConfigAssumption DEF ConfigAssumption
  <1>2. i <= Len(Arrivals) => Arrivals[i] \in Jobs
    BY <1>1
  <1>3. i <= Len(Arrivals) => Job[Arrivals[i]].submit \in Nat
    BY <1>2, JobFields
  <1>. QED
    BY <1>1, <1>2, <1>3 DEF ArrivalEvents, Ev, Event, JobEvents

-----------------------------------------------------------------------------
(* Handlers.  TypeInv is the conjunction of one part per group of variables   *)
(* of Engine; a handler is shown to preserve each part.                       *)

LoopT == /\ phase \in {"run", "refill", "wake", "done"}
         /\ nextArr \in Nat \ {0} /\ lastWake \in Nat \cup {None}
WakeT == wakeTimes \subseteq Nat /\ dirty \in BOOLEAN
JobT == /\ status \in [Jobs -> JobStatus]
        /\ pending \subseteq Jobs /\ running \subseteq Jobs
        /\ graced \subseteq Jobs /\ alloc \in [Jobs -> SUBSET Nodes]
WorkT == /\ kept \in [Jobs -> Nat] /\ lost \in [Jobs -> Nat]
         /\ bank \in [Jobs -> BOOLEAN] /\ started \in [Jobs -> BOOLEAN]
         /\ stint \in [Jobs -> Nat] /\ over \in [Jobs -> Nat]
         /\ failReq \in [Jobs -> BOOLEAN] /\ WorkBounded
HandleT == /\ complAt \in [Jobs -> Nat \cup {None}]
           /\ graceAt \in [Jobs -> Nat \cup {None}]
           /\ lifeAt \in [Jobs -> Nat \cup {None}]
           /\ validAt \in [Jobs -> Nat \cup {None}]
NodeT == /\ nodeState \in [Nodes -> NodeState]
         /\ maintWait \subseteq Nodes /\ hazard \subseteq Nodes
         /\ maintFor \in [Nodes -> Nat \cup {None}] /\ DrainDrawn
ArmT == failureAt \in Nat \cup {None} /\ maintAt \in Nat \cup {None}
QuotaT == /\ tier \in [Jobs -> 0 .. 3] /\ inQuota \subseteq Jobs
          /\ committed \in [Tenants -> Int]
MetricT == mHealthy \in Int /\ mFinished \in Nat
TimeT == now \in Nat /\ queue \subseteq Event /\ known \subseteq Jobs

LEMMA Parts ==
    TypeInv <=> /\ LoopT /\ WakeT /\ JobT /\ WorkT /\ HandleT /\ NodeT
                /\ ArmT /\ QuotaT /\ MetricT /\ TimeT
  BY DEF TypeInv, TypeOK, LoopT, WakeT, JobT, WorkT, HandleT, NodeT, ArmT,
         QuotaT, MetricT, TimeT

LEMMA PartsNext ==
    LoopT' /\ WakeT' /\ JobT' /\ WorkT' /\ HandleT' /\ NodeT' /\ ArmT'
      /\ QuotaT' /\ MetricT' /\ TimeT' => TypeInv'
  BY DEF TypeInv, TypeOK, LoopT, WakeT, JobT, WorkT, HandleT, NodeT, ArmT,
         QuotaT, MetricT, TimeT

\* A handler that leaves a group of variables alone preserves its part.
LEMMA Same ==
    ASSUME TypeInv
    PROVE  /\ UNCHANGED loopVars => LoopT'
           /\ UNCHANGED <<wakeTimes, dirty>> => WakeT'
           /\ UNCHANGED jobVars => JobT'
           /\ UNCHANGED workVars => WorkT'
           /\ UNCHANGED handleVars => HandleT'
           /\ UNCHANGED nodeVars => NodeT'
           /\ UNCHANGED armVars => ArmT'
           /\ UNCHANGED quotaVars => QuotaT'
           /\ UNCHANGED metricVars => MetricT'
  <1>. LoopT /\ WakeT /\ JobT /\ WorkT /\ HandleT /\ NodeT /\ ArmT /\ QuotaT
         /\ MetricT
    BY Parts
  <1>1. UNCHANGED loopVars => LoopT'
    BY DEF loopVars, LoopT
  <1>2. UNCHANGED <<wakeTimes, dirty>> => WakeT'
    BY DEF WakeT
  <1>3. UNCHANGED jobVars => JobT'
    BY DEF jobVars, JobT
  <1>4. UNCHANGED workVars => WorkT'
    BY DEF workVars, WorkT, WorkBounded
  <1>5. UNCHANGED handleVars => HandleT'
    BY DEF handleVars, HandleT
  <1>6. UNCHANGED nodeVars => NodeT'
    BY DEF nodeVars, NodeT, DrainDrawn
  <1>7. UNCHANGED armVars => ArmT'
    BY DEF armVars, ArmT
  <1>8. UNCHANGED quotaVars => QuotaT'
    BY DEF quotaVars, QuotaT
  <1>9. UNCHANGED metricVars => MetricT'
    BY DEF metricVars, MetricT
  <1>. QED
    BY <1>1, <1>2, <1>3, <1>4, <1>5, <1>6, <1>7, <1>8, <1>9

\* The event a handler receives names what its type says.
LEMMA EventType ==
    ASSUME TypeInv, NEW e \in queue
    PROVE  /\ e.time \in Nat
           /\ e.type \in JobEvents => e.arg \in Jobs
           /\ e.type \in NodeEvents => e.arg \in Nodes
  BY DEF TypeInv, TypeOK, Event, JobEvents, NodeEvents, LoopEvents

\* _mark_dirty leaves the wake memory typed, asked for or not.
LEMMA DirtyType ==
    ASSUME TypeInv, NEW t \in Nat, MarkDirty(t) \/ NotDirty
    PROVE  WakeT' /\ WakeEvents(Boundary(t)) \subseteq Event
  BY MarkDirtyType, NotDirtyType DEF WakeT

LEMMA InitType == Init => TypeInv
  <1> SUFFICES ASSUME Init PROVE TypeInv
    OBVIOUS
  <1>1. queue \subseteq Event
    <2>1. ArrivalEvents(1) \subseteq Event
      BY ArrivalType
    <2>2. Forced \subseteq Event
      BY ConfigAssumption DEF ConfigAssumption, Event, NodeEvents
    <2>3. /\ Armed("NODE_FAILURE", None, failureAt) \subseteq Event
          /\ Armed("MAINTENANCE_DRAIN", None, maintAt) \subseteq Event
      BY ArmType DEF Init, LoopEvents
    <2>4. {Ev(t, "SCHED_WAKE", Nil) : t \in wakeTimes} \subseteq Event
      BY DEF Init, Ev, Event, LoopEvents
    <2>5. {Ev(t, "METRICS_FLUSH", Nil) : t \in {Round} \cap 0 .. Horizon - 1}
            \subseteq Event
      BY DEF Ev, Event, LoopEvents
    <2>. QED
      BY <2>1, <2>2, <2>3, <2>4, <2>5 DEF Init
  <1>2. failureAt \in Nat \cup {None} /\ maintAt \in Nat \cup {None}
    BY ArmType DEF Init, LoopEvents
  <1>3. tier \in [Jobs -> 0 .. 3] /\ WorkBounded
    BY JobFields DEF Init, WorkBounded
  <1>4. Cardinality(Nodes) \in Int
    BY FS_CardinalityType, ConfigAssumption DEF ConfigAssumption
  <1>5. DrainDrawn
    BY DEF Init, DrainDrawn
  <1>6. /\ now \in Nat /\ phase \in {"run", "refill", "wake", "done"}
        /\ nextArr \in Nat \ {0} /\ lastWake \in Nat \cup {None}
        /\ wakeTimes \subseteq Nat /\ mFinished \in Nat /\ mHealthy \in Int
    BY <1>4 DEF Init
  <1>7. /\ dirty \in BOOLEAN /\ bank \in [Jobs -> BOOLEAN]
        /\ started \in [Jobs -> BOOLEAN] /\ failReq \in [Jobs -> BOOLEAN]
    BY DEF Init
  <1>8. /\ status \in [Jobs -> JobStatus] /\ alloc \in [Jobs -> SUBSET Nodes]
        /\ nodeState \in [Nodes -> NodeState]
        /\ known \subseteq Jobs /\ pending \subseteq Jobs
        /\ running \subseteq Jobs /\ graced \subseteq Jobs
        /\ maintWait \subseteq Nodes /\ hazard \subseteq Nodes
        /\ inQuota \subseteq Jobs
    BY DEF Init, JobStatus, NodeState
  <1>9. /\ kept \in [Jobs -> Nat] /\ lost \in [Jobs -> Nat]
        /\ stint \in [Jobs -> Nat] /\ over \in [Jobs -> Nat]
        /\ complAt \in [Jobs -> Nat \cup {None}]
        /\ graceAt \in [Jobs -> Nat \cup {None}]
        /\ lifeAt \in [Jobs -> Nat \cup {None}]
        /\ validAt \in [Jobs -> Nat \cup {None}]
        /\ maintFor \in [Nodes -> Nat \cup {None}]
        /\ committed \in [Tenants -> Int]
    BY DEF Init
  <1>. QED
    BY <1>1, <1>2, <1>3, <1>5, <1>6, <1>7, <1>8, <1>9 DEF TypeInv, TypeOK

LEMMA FinalizeType == TypeInv /\ Finalize => TypeInv'
  <1> SUFFICES ASSUME TypeInv, Finalize PROVE TypeInv'
    OBVIOUS
  <1>1. LoopT' /\ TimeT'
    BY ConfigAssumption DEF ConfigAssumption, Finalize, TypeInv, TypeOK, LoopT, TimeT
  <1>. QED
    BY <1>1, Same, PartsNext DEF Finalize

LEMMA FlushType ==
    ASSUME TypeInv, NEW e \in queue, OnFlush(e)
    PROVE  TypeInv'
  <1>1. queue \subseteq Event /\ known \subseteq Jobs /\ e.time \in Nat
    BY EventType DEF TypeInv, TypeOK
  <1>2. \A t \in {e.time + Round} \cap 0 .. Horizon - 1 :
            Ev(t, "METRICS_FLUSH", Nil) \in Event
    BY DEF Ev, Event, LoopEvents
  <1>3. TimeT'
    BY <1>1, <1>2 DEF OnFlush, TimeT
  <1>. QED
    BY <1>3, Same, PartsNext DEF OnFlush

\* Submission, refused or admitted, types the job's own records.
LEMMA SubmitType ==
    ASSUME TypeInv, NEW j \in Jobs, NEW t \in Nat,
           SubmitInvalid(j) \/ SubmitRejected(j) \/ SubmitAdmitted(j, t),
           SubmitUnchanged
    PROVE  /\ JobT' /\ WorkT' /\ HandleT' /\ NodeT' /\ ArmT' /\ QuotaT'
           /\ MetricT' /\ known' \subseteq Jobs
  <1>. JobT /\ HandleT /\ QuotaT /\ MetricT /\ known \subseteq Jobs
    BY Parts DEF TimeT
  <1>1. WorkT' /\ NodeT' /\ ArmT'
    BY Same DEF SubmitUnchanged, nodeVars, armVars
  <1>2. known' \subseteq Jobs
    BY DEF SubmitInvalid, SubmitRejected, SubmitAdmitted
  <1>3. MetricT'
    BY DEF SubmitInvalid, SubmitRejected, SubmitAdmitted, SubmitUnchanged, MetricT
  <1>4. JobT'
    BY DEF SubmitInvalid, SubmitRejected, SubmitAdmitted, SubmitUnchanged, JobT,
           JobStatus
  <1>5. HandleT'
    BY JobFields DEF SubmitInvalid, SubmitRejected, SubmitAdmitted, SubmitUnchanged,
           HandleT, Max2
  <1>6. QuotaT'
    <2>1. Admit(j) => QuotaT'
      BY JobFields DEF Admit, QuotaT, BestEffort, quotaVars
    <2>. QED
      BY <2>1 DEF SubmitInvalid, SubmitRejected, SubmitAdmitted, quotaVars, QuotaT
  <1>. QED
    BY <1>1, <1>2, <1>3, <1>4, <1>5, <1>6

LEMMA ArrivalHandlerType ==
    ASSUME TypeInv, NEW e \in queue, OnArrival(e)
    PROVE  TypeInv'
  <1>1. e.arg \in Jobs /\ e.time \in Nat
    BY EventType DEF OnArrival, Due, JobEvents
  <1>2. /\ JobT' /\ WorkT' /\ HandleT' /\ NodeT' /\ ArmT' /\ QuotaT'
        /\ MetricT' /\ known' \subseteq Jobs
    BY <1>1, SubmitType DEF OnArrival
  <1>3. WakeT' /\ WakeEvents(Boundary(e.time)) \subseteq Event
    BY <1>1, DirtyType DEF OnArrival
  <1>4. LoopT'
    BY Parts DEF OnArrival, SubmitUnchanged, LoopT
  <1>5. TimeT'
    <2>1. ArrivalEvents(nextArr) \subseteq Event /\ queue \subseteq Event
      BY ArrivalType DEF TypeInv, TypeOK
    <2>2. Named({e.arg}, validAt', "VALID_UNTIL") \subseteq Event
      BY <1>1, <1>2, NamedType DEF HandleT, JobEvents
    <2>. QED
      BY <1>1, <1>2, <1>3, <2>1, <2>2 DEF OnArrival, TimeT
  <1>. QED
    BY <1>2, <1>3, <1>4, <1>5, PartsNext

LEMMA RefillType ==
    ASSUME TypeInv, NEW j \in Jobs, Refill(j)
    PROVE  TypeInv'
  <1>. now \in Nat /\ queue \subseteq Event
    BY DEF TypeInv, TypeOK
  <1>1. /\ JobT' /\ WorkT' /\ HandleT' /\ NodeT' /\ ArmT' /\ QuotaT'
        /\ MetricT' /\ known' \subseteq Jobs
    BY SubmitType DEF Refill
  <1>2. LoopT' /\ WakeT'
    BY Same DEF Refill, SubmitUnchanged, loopVars, NotDirty
  <1>3. TimeT'
    <2>1. Named({j}, validAt', "VALID_UNTIL") \subseteq Event
      BY <1>1, NamedType DEF HandleT, JobEvents
    <2>. QED
      BY <1>1, <2>1 DEF Refill, TimeT
  <1>. QED
    BY <1>1, <1>2, <1>3, PartsNext

\* The end of a job; the caller accounts for its work.
LEMMA FinishType ==
    ASSUME TypeInv, NEW j \in Jobs, NEW t \in Nat, NEW final \in JobStatus,
           NEW popped, Finish(j, t, final, popped),
           now' \in Nat, kept' \in [Jobs -> Nat], lost' \in [Jobs -> Nat],
           bank' \in [Jobs -> BOOLEAN], WorkBounded'
    PROVE  TypeInv'
  <1>. /\ LoopT /\ WakeT /\ JobT /\ WorkT /\ HandleT /\ NodeT /\ ArmT /\ QuotaT
       /\ MetricT /\ TimeT
    BY Parts
  <1>1. /\ alloc' \in [Jobs -> SUBSET Nodes] /\ nodeState' \in [Nodes -> NodeState]
        /\ maintWait' \subseteq Nodes
        /\ maintFor' \in [Nodes -> Nat \cup {None}] /\ DrainDrawn'
    BY ReleaseType DEF Finish
  <1>2. JobT'
    BY <1>1 DEF Finish, JobT
  <1>3. NodeT'
    BY <1>1 DEF Finish, NodeT
  <1>4. WorkT'
    BY DEF Finish, WorkT
  <1>5. HandleT'
    BY ClearedType DEF Finish, HandleT
  <1>6. QuotaT'
    BY JobFields DEF Finish, QuotaT
  <1>7. MetricT'
    BY DEF Finish, MetricT
  <1>8. WakeT' /\ WakeEvents(Boundary(t)) \subseteq Event
    <2>1. MarkDirty(t) \/ NotDirty
      BY DEF Finish
    <2>. QED
      BY <2>1, DirtyType
  <1>9. LoopT' /\ ArmT'
    BY Same DEF Finish
  <1>10. TimeT'
    <2>1. MaintDone(Emptied({j}, maintWait), t) \subseteq Event
      BY MaintDoneType DEF NodeT
    <2>. QED
      BY <1>8, <2>1 DEF Finish, TimeT
  <1>. QED
    BY <1>2, <1>3, <1>4, <1>5, <1>6, <1>7, <1>8, <1>9, <1>10, PartsNext

LEMMA CompletionType ==
    ASSUME TypeInv, NEW e \in queue, OnCompletion(e)
    PROVE  TypeInv'
  <1>1. e.arg \in Jobs /\ e.time \in Nat
    BY EventType DEF OnCompletion, Due, JobEvents
  <1>2. Job[e.arg].final \in JobStatus /\ \A j \in Jobs : Job[j].total \in Nat
    BY <1>1, JobFields DEF Terminal, JobStatus
  <1>3. kept' \in [Jobs -> Nat] /\ WorkBounded'
    BY <1>1, <1>2 DEF OnCompletion, TypeInv, TypeOK, WorkBounded
  <1>4. lost' \in [Jobs -> Nat] /\ bank' \in [Jobs -> BOOLEAN] /\ now' \in Nat
    BY <1>1 DEF OnCompletion, TypeInv, TypeOK
  <1>. QED
    BY <1>1, <1>2, <1>3, <1>4, FinishType DEF OnCompletion

\* An event that finds its job already over, or started, is only dropped.
LEMMA ValidUntilType ==
    ASSUME TypeInv, NEW e \in queue, OnValidUntil(e)
    PROVE  TypeInv'
  <1>1. e.arg \in Jobs /\ e.time \in Nat
    BY EventType DEF OnValidUntil, Due, JobEvents
  <1>2. CASE started[e.arg] \/ status[e.arg] \in Terminal
    <2>1. HandleT'
      BY <1>2, ClearedType, Parts DEF OnValidUntil, HandleT
    <2>2. TimeT'
      BY <1>1, <1>2, Parts DEF OnValidUntil, TimeT
    <2>. QED
      BY <1>2, <2>1, <2>2, Same, PartsNext DEF OnValidUntil, NotDirty
  <1>3. CASE ~ (started[e.arg] \/ status[e.arg] \in Terminal)
    <2>1. /\ kept' \in [Jobs -> Nat] /\ lost' \in [Jobs -> Nat]
          /\ bank' \in [Jobs -> BOOLEAN] /\ WorkBounded' /\ now' \in Nat
      BY <1>1, <1>3 DEF OnValidUntil, TypeInv, TypeOK, WorkBounded
    <2>2. Finish(e.arg, e.time, "FAILED", {e}) /\ "FAILED" \in JobStatus
      BY <1>3 DEF OnValidUntil, JobStatus
    <2>. QED
      BY <1>1, <2>1, <2>2, FinishType
  <1>. QED
    BY <1>2, <1>3

LEMMA LifetimeType ==
    ASSUME TypeInv, NEW e \in queue, OnLifetime(e)
    PROVE  TypeInv'
  <1>1. e.arg \in Jobs /\ e.time \in Nat
    BY EventType DEF OnLifetime, Due, JobEvents
  <1>2. CASE status[e.arg] \in Terminal
    <2>1. HandleT'
      BY <1>2, ClearedType, Parts DEF OnLifetime, HandleT
    <2>2. TimeT'
      BY <1>1, <1>2, Parts DEF OnLifetime, TimeT
    <2>. QED
      BY <1>2, <2>1, <2>2, Same, PartsNext DEF OnLifetime, NotDirty
  <1>3. CASE status[e.arg] \notin Terminal
    <2>1. bank \in [Jobs -> BOOLEAN] /\ now' \in Nat
      BY <1>1 DEF OnLifetime, TypeInv, TypeOK
    <2>2. /\ kept' \in [Jobs -> Nat] /\ lost' \in [Jobs -> Nat]
          /\ bank' \in [Jobs -> BOOLEAN] /\ WorkBounded'
      BY <1>1, <1>3, <2>1, InterruptType DEF OnLifetime
    <2>3. Finish(e.arg, e.time, "TIMEOUT", {e}) /\ "TIMEOUT" \in JobStatus
      BY <1>3 DEF OnLifetime, JobStatus
    <2>. QED
      BY <1>1, <2>1, <2>2, <2>3, FinishType
  <1>. QED
    BY <1>2, <1>3

LEMMA WakeType ==
    ASSUME TypeInv, NEW e \in queue, OnWake(e)
    PROVE  TypeInv'
  <1>1. e.time \in Nat
    BY EventType
  <1>2. LoopT' /\ TimeT' /\ wakeTimes' \subseteq Nat
    BY <1>1, Parts DEF OnWake, LoopT, TimeT, WakeT
  <1>3. WakeT'
    BY <1>2 DEF OnWake, WakeT
  <1>. QED
    BY <1>2, <1>3, Same, PartsNext DEF OnWake

LEMMA BuildViewType == TypeInv /\ BuildView => TypeInv'
  <1> SUFFICES ASSUME TypeInv, BuildView PROVE TypeInv'
    OBVIOUS
  <1>1. LoopT' /\ TimeT'
    BY Parts DEF BuildView, LoopT, TimeT
  <1>. QED
    BY <1>1, Same, PartsNext DEF BuildView

LEMMA PlaceType ==
    ASSUME TypeInv, NEW j \in Jobs, NEW S \in SUBSET Nodes, Place(j, S)
    PROVE  TypeInv'
  <1>. LoopT /\ JobT /\ WorkT /\ HandleT /\ TimeT
    BY Parts
  <1> DEFINE overhead == IF started[j] THEN Job[j].overhead ELSE 0
             end == CompletionTime(j, overhead)
             life == IF started[j] \/ Job[j].lifetime = None THEN lifeAt[j]
                     ELSE now + Job[j].lifetime
  <1>1. overhead \in Nat /\ now \in Nat
    BY JobFields DEF TimeT
  <1>2. end \in Nat
    <2>1. kept[j] \in Nat /\ Job[j].total \in Nat /\ kept[j] <= Job[j].total
      BY JobFields DEF WorkT, WorkBounded
    <2> HIDE DEF overhead
    <2>. QED
      BY <1>1, <2>1 DEF CompletionTime
  <1>3. life \in Nat \cup {None}
    BY <1>1, JobFields DEF HandleT
  <1> HIDE DEF overhead, end, life
  <1>4. JobT'
    BY DEF Place, JobT, JobStatus
  <1>5. stint' \in [Jobs -> Nat] /\ over' \in [Jobs -> Nat]
    BY <1>1 DEF Place, WorkT, overhead
  <1>6. started' \in [Jobs -> BOOLEAN] /\ failReq' \in [Jobs -> BOOLEAN]
    BY DEF Place, WorkT
  <1>7. WorkT'
    BY <1>5, <1>6 DEF Place, WorkT, WorkBounded
  <1>8. HandleT'
    <2>1. complAt' \in [Jobs -> Nat \cup {None}]
      BY <1>2 DEF Place, HandleT, end, overhead
    <2>2. lifeAt' \in [Jobs -> Nat \cup {None}]
      BY <1>3 DEF Place, HandleT, life
    <2>3. validAt' \in [Jobs -> Nat \cup {None}] /\ graceAt' = graceAt
      BY ClearedType DEF Place, HandleT
    <2>. QED
      BY <2>1, <2>2, <2>3 DEF HandleT
  <1>9. TimeT'
    <2>1. Named({j}, lifeAt', "LIFETIME") \subseteq Event
      BY <1>8, NamedType DEF HandleT, JobEvents
    <2>2. Ev(end, "JOB_COMPLETION", j) \in Event
      BY <1>2 DEF Ev, Event, JobEvents
    <2>. QED
      BY <2>1, <2>2 DEF Place, TimeT, end, overhead
  <1>10. MetricT'
    BY Parts DEF Place, MetricT
  <1>. QED
    BY <1>4, <1>7, <1>8, <1>9, <1>10, Same, PartsNext DEF Place, NotDirty

\* An eviction clears the completion and dates the end of the grace.
LEMMA EvictType ==
    ASSUME TypeInv, NEW S \in SUBSET Jobs, NEW t \in Nat, Evict(S, t)
    PROVE  /\ status' \in [Jobs -> JobStatus] /\ running' \subseteq Jobs
           /\ graced' \subseteq Jobs
           /\ complAt' \in [Jobs -> Nat \cup {None}]
           /\ graceAt' \in [Jobs -> Nat \cup {None}]
  <1>. JobT /\ HandleT
    BY Parts
  <1>1. \A j \in Jobs : GraceEnd(j, t) \in Nat
    BY JobFields DEF GraceEnd
  <1>2. graceAt' \in [Jobs -> Nat \cup {None}]
    BY <1>1 DEF Evict, HandleT
  <1>3. complAt' \in [Jobs -> Nat \cup {None}]
    BY ClearedType DEF Evict, HandleT
  <1>. QED
    BY <1>2, <1>3 DEF Evict, JobT, JobStatus

LEMMA PreemptRequeueType ==
    ASSUME TypeInv, NEW v \in Jobs, NEW p, PreemptRequeue(v, p)
    PROVE  TypeInv'
  <1>. JobT /\ HandleT /\ TimeT
    BY Parts
  <1>1. /\ status' \in [Jobs -> JobStatus] /\ running' \subseteq Jobs
        /\ graced' \subseteq Jobs
        /\ complAt' \in [Jobs -> Nat \cup {None}]
        /\ graceAt' \in [Jobs -> Nat \cup {None}]
    BY EvictType DEF PreemptRequeue, TimeT
  <1>2. JobT' /\ HandleT'
    BY <1>1 DEF PreemptRequeue, JobT, HandleT
  <1>3. Named({v}, graceAt', "PREEMPTION_DONE") \subseteq Event
    BY <1>1, NamedType DEF JobEvents
  <1>4. TimeT'
    BY <1>3 DEF PreemptRequeue, TimeT
  <1>. QED
    BY <1>2, <1>4, Same, PartsNext DEF PreemptRequeue, NotDirty

LEMMA PreemptCancelType ==
    ASSUME TypeInv, NEW v \in Jobs, NEW p, PreemptCancel(v, p)
    PROVE  TypeInv'
  <1>1. now \in Nat /\ bank \in [Jobs -> BOOLEAN] /\ "CANCELED" \in JobStatus
    BY DEF TypeInv, TypeOK, JobStatus
  <1>2. /\ kept' \in [Jobs -> Nat] /\ lost' \in [Jobs -> Nat]
        /\ bank' \in [Jobs -> BOOLEAN] /\ WorkBounded'
    BY <1>1, InterruptType DEF PreemptCancel
  <1>. QED
    BY <1>1, <1>2, FinishType DEF PreemptCancel

LEMMA EndWakeType == TypeInv /\ EndWake => TypeInv'
  <1> SUFFICES ASSUME TypeInv, EndWake PROVE TypeInv'
    OBVIOUS
  <1> DEFINE t == now + WakeInterval
  <1>. LoopT /\ WakeT /\ TimeT
    BY Parts
  <1>1. t \in Nat
    BY ConfigAssumption DEF ConfigAssumption, TimeT
  <1> HIDE DEF t
  <1>2. LoopT'
    BY DEF EndWake, LoopT
  <1>3. WakeT'
    BY <1>1 DEF EndWake, WakeT, t
  <1>4. WakeEvents(t) \subseteq Event
    BY <1>1 DEF WakeEvents, Ev, Event, LoopEvents
  <1>5. TimeT'
    BY <1>4 DEF EndWake, TimeT, t
  <1>. QED
    BY <1>2, <1>3, <1>5, Same, PartsNext DEF EndWake

LEMMA PreemptionDoneType ==
    ASSUME TypeInv, NEW e \in queue, OnPreemptionDone(e)
    PROVE  TypeInv'
  <1>. JobT /\ WorkT /\ HandleT /\ NodeT /\ TimeT
    BY Parts
  <1>1. e.arg \in Jobs /\ e.time \in Nat
    BY EventType DEF OnPreemptionDone, Due, JobEvents
  <1>2. /\ kept' \in [Jobs -> Nat] /\ lost' \in [Jobs -> Nat]
        /\ bank' \in [Jobs -> BOOLEAN] /\ WorkBounded'
    BY <1>1, InterruptType DEF OnPreemptionDone, WorkT
  <1>3. /\ alloc' \in [Jobs -> SUBSET Nodes] /\ nodeState' \in [Nodes -> NodeState]
        /\ maintWait' \subseteq Nodes
        /\ maintFor' \in [Nodes -> Nat \cup {None}] /\ DrainDrawn'
    BY <1>1, ReleaseType DEF OnPreemptionDone
  <1>4. WakeT' /\ WakeEvents(Boundary(e.time)) \subseteq Event
    BY <1>1, DirtyType DEF OnPreemptionDone
  <1>5. JobT'
    BY <1>1, <1>3 DEF OnPreemptionDone, JobT, JobStatus
  <1>6. WorkT' /\ NodeT'
    BY <1>2, <1>3 DEF OnPreemptionDone, WorkT, NodeT
  <1>7. HandleT'
    BY ClearedType DEF OnPreemptionDone, HandleT
  <1>8. TimeT'
    <2>1. MaintDone(Emptied({e.arg}, maintWait), e.time) \subseteq Event
      BY <1>1, MaintDoneType DEF NodeT
    <2>. QED
      BY <1>1, <1>4, <2>1 DEF OnPreemptionDone, TimeT
  <1>9. MetricT' /\ LoopT' /\ ArmT' /\ QuotaT'
    BY Parts, Same DEF OnPreemptionDone, MetricT
  <1>. QED
    BY <1>4, <1>5, <1>6, <1>7, <1>8, <1>9, PartsNext

-----------------------------------------------------------------------------
(* Failures, repairs and drains. *)

LEMMA FailNodeType ==
    ASSUME TypeInv, NEW n \in Nodes, NEW t \in Nat, NEW rest \in SUBSET Event,
           FailNode(n, t, rest), now' \in Nat, ArmT'
    PROVE  TypeInv'
  <1>. JobT /\ WorkT /\ HandleT /\ NodeT /\ TimeT /\ MetricT
    BY Parts
  <1> DEFINE victims == Owners(n)
             noBank == [j \in Jobs |-> FALSE]
  <1>1. victims \subseteq Jobs /\ noBank \in [Jobs -> BOOLEAN]
    BY DEF Owners
  <1>2. /\ kept' \in [Jobs -> Nat] /\ lost' \in [Jobs -> Nat]
        /\ bank' \in [Jobs -> BOOLEAN] /\ WorkBounded'
    <2>1. Interrupt(victims, t, noBank)
      BY DEF FailNode
    <2>. QED
      BY <1>1, <2>1, InterruptType
  <1>3. /\ alloc' \in [Jobs -> SUBSET Nodes] /\ nodeState' \in [Nodes -> NodeState]
        /\ maintWait' \subseteq Nodes
        /\ maintFor' \in [Nodes -> Nat \cup {None}] /\ DrainDrawn'
    <2>1. Release(victims, n, t)
      BY DEF FailNode
    <2>. QED
      BY <1>1, <2>1, ReleaseType
  <1>4. WakeT' /\ WakeEvents(Boundary(t)) \subseteq Event
    BY DirtyType DEF FailNode
  <1>5. JobT'
    BY <1>1, <1>3 DEF FailNode, JobT, JobStatus
  <1>6. failReq' \in [Jobs -> BOOLEAN]
    BY DEF FailNode
  <1>7. WorkT'
    BY <1>2, <1>6 DEF FailNode, WorkT
  <1>8. NodeT'
    BY <1>3 DEF FailNode, NodeT
  <1>9. HandleT'
    BY ClearedType DEF FailNode, HandleT
  <1>10. MetricT'
    BY DEF FailNode, MetricT, HealthLost
  <1>11. TimeT'
    <2>1. MaintDone(Emptied(victims, maintWait \ {n}), t) \subseteq Event
      BY MaintDoneType DEF NodeT
    <2>2. \A d \in RepairDelays : Ev(t + d, "NODE_REPAIR", n) \in Event
      BY ConfigAssumption DEF ConfigAssumption, Ev, Event, NodeEvents
    <2>3. queue' \subseteq Event
      BY <1>4, <2>1, <2>2 DEF FailNode
    <2>. QED
      BY <2>3 DEF FailNode, TimeT
  <1>12. LoopT' /\ QuotaT'
    BY Same DEF FailNode
  <1>. QED
    BY <1>4, <1>5, <1>7, <1>8, <1>9, <1>10, <1>11, <1>12, PartsNext

LEMMA NoNodeEventType ==
    ASSUME TypeInv, NEW rest \in SUBSET Event, NoNodeEvent(rest),
           now' \in Nat, ArmT'
    PROVE  TypeInv'
  <1>1. TimeT'
    BY Parts DEF NoNodeEvent, TimeT
  <1>. QED
    BY <1>1, Same, PartsNext DEF NoNodeEvent, NotDirty

\* What the arming of a sampled process leaves on the queue.
LEMMA RearmType ==
    ASSUME TypeInv, NEW e \in queue, NEW t \in Nat
    PROVE  /\ failureAt' \in ArmTimes(None, FailureGaps, t) =>
                /\ failureAt' \in Nat \cup {None}
                /\ (queue \ {e}) \cup Armed("NODE_FAILURE", None, failureAt')
                     \subseteq Event
           /\ maintAt' \in ArmTimes(None, MaintGaps, t) =>
                /\ maintAt' \in Nat \cup {None}
                /\ (queue \ {e}) \cup Armed("MAINTENANCE_DRAIN", None, maintAt')
                     \subseteq Event
           /\ failureAt' \in ArmTimes(failureAt, FailureGaps, t) =>
                /\ failureAt' \in Nat \cup {None}
                /\ Armed("NODE_FAILURE", failureAt, failureAt') \subseteq Event
           /\ maintAt' \in ArmTimes(maintAt, MaintGaps, t) =>
                /\ maintAt' \in Nat \cup {None}
                /\ Armed("MAINTENANCE_DRAIN", maintAt, maintAt') \subseteq Event
  <1>1. /\ queue \subseteq Event /\ None \in Nat \cup {None}
        /\ failureAt \in Nat \cup {None} /\ maintAt \in Nat \cup {None}
        /\ "NODE_FAILURE" \in LoopEvents /\ "MAINTENANCE_DRAIN" \in LoopEvents
    BY DEF TypeInv, TypeOK, LoopEvents
  <1>. QED
    BY <1>1, ArmType

LEMMA FailureType ==
    ASSUME TypeInv, NEW e \in queue, OnFailure(e)
    PROVE  TypeInv'
  <1> DEFINE rest == (queue \ {e}) \cup Armed("NODE_FAILURE", None, failureAt')
  <1>1. e.time \in Nat /\ now' \in Nat
    BY EventType DEF OnFailure
  <1>2. rest \subseteq Event /\ ArmT'
    BY <1>1, RearmType, Parts DEF OnFailure, ArmT
  <1>3. NoNodeEvent(rest) \/ \E n \in hazard : FailNode(n, e.time, rest)
    BY DEF OnFailure
  <1>4. hazard \subseteq Nodes
    BY Parts DEF NodeT
  <1>. QED
    BY <1>1, <1>2, <1>3, <1>4, FailNodeType, NoNodeEventType

LEMMA ForcedFailureType ==
    ASSUME TypeInv, NEW e \in queue, OnForcedFailure(e)
    PROVE  TypeInv'
  <1>1. e.arg \in Nodes /\ e.time \in Nat /\ now' \in Nat
    BY EventType DEF OnForcedFailure, Due, NodeEvents
  <1>2. queue \ {e} \subseteq Event /\ ArmT'
    BY Parts, Same DEF OnForcedFailure, TimeT
  <1>. QED
    BY <1>1, <1>2, FailNodeType, NoNodeEventType DEF OnForcedFailure

LEMMA RepairType ==
    ASSUME TypeInv, NEW e \in queue, OnRepair(e)
    PROVE  TypeInv'
  <1>. NodeT /\ MetricT /\ TimeT /\ ArmT
    BY Parts
  <1>1. e.arg \in Nodes /\ e.time \in Nat /\ now' \in Nat
    BY EventType DEF OnRepair, Due, NodeEvents
  <1>2. CASE nodeState[e.arg] \notin {"FAILED", "MAINTENANCE"}
    <2>1. NoNodeEvent(queue \ {e}) /\ ArmT'
      BY <1>2, Same DEF OnRepair
    <2>. QED
      BY <1>1, <2>1, NoNodeEventType DEF TimeT
  <1>3. CASE nodeState[e.arg] \in {"FAILED", "MAINTENANCE"}
    <2>1. WakeT' /\ WakeEvents(Boundary(e.time)) \subseteq Event
      BY <1>1, <1>3, DirtyType DEF OnRepair
    <2>2. NodeT'
      BY <1>1, <1>3 DEF OnRepair, NodeT, NodeState, DrainDrawn
    <2>3. /\ ArmT'
          /\ Armed("NODE_FAILURE", failureAt, failureAt') \subseteq Event
          /\ Armed("MAINTENANCE_DRAIN", maintAt, maintAt') \subseteq Event
      BY <1>1, <1>3, RearmType DEF OnRepair, ArmT
    <2>4. TimeT'
      BY <1>1, <1>3, <2>1, <2>3 DEF OnRepair, TimeT
    <2>5. MetricT'
      BY <1>3 DEF OnRepair, MetricT
    <2>. QED
      BY <1>3, <2>1, <2>2, <2>3, <2>4, <2>5, Same, PartsNext DEF OnRepair
  <1>. QED
    BY <1>2, <1>3

LEMMA DrainNodeType ==
    ASSUME TypeInv, NEW n \in Nodes, NEW t \in Nat, NEW rest \in SUBSET Event,
           DrainNode(n, t, rest), now' \in Nat, ArmT'
    PROVE  TypeInv'
  <1>. NodeT /\ MetricT /\ TimeT
    BY Parts
  <1>1. WakeT' /\ WakeEvents(Boundary(t)) \subseteq Event
    BY DirtyType DEF DrainNode
  <1>2. \A d \in RepairDelays : d \in Nat
    BY ConfigAssumption DEF ConfigAssumption
  <1>3. NodeT'
    BY <1>2 DEF DrainNode, NodeT, NodeState, DrainDrawn
  <1>4. Ev(t + DrainGrace, "DRAIN_GRACE", n) \in Event
    BY ConfigAssumption DEF ConfigAssumption, Ev, Event, NodeEvents
  <1>5. TimeT'
    BY <1>1, <1>4 DEF DrainNode, TimeT
  <1>6. MetricT'
    BY DEF DrainNode, MetricT
  <1>. QED
    BY <1>1, <1>3, <1>5, <1>6, Same, PartsNext DEF DrainNode

LEMMA MaintenanceType ==
    ASSUME TypeInv, NEW e \in queue, OnMaintenance(e)
    PROVE  TypeInv'
  <1> DEFINE rest == (queue \ {e}) \cup Armed("MAINTENANCE_DRAIN", None, maintAt')
  <1>1. e.time \in Nat /\ now' \in Nat
    BY EventType DEF OnMaintenance
  <1>2. rest \subseteq Event /\ ArmT'
    BY <1>1, RearmType, Parts DEF OnMaintenance, ArmT
  <1>3. NoNodeEvent(rest) \/ \E n \in hazard : DrainNode(n, e.time, rest)
    BY DEF OnMaintenance
  <1>4. hazard \subseteq Nodes
    BY Parts DEF NodeT
  <1>. QED
    BY <1>1, <1>2, <1>3, <1>4, DrainNodeType, NoNodeEventType

LEMMA ForcedDrainType ==
    ASSUME TypeInv, NEW e \in queue, OnForcedDrain(e)
    PROVE  TypeInv'
  <1>1. e.arg \in Nodes /\ e.time \in Nat /\ now' \in Nat
    BY EventType DEF OnForcedDrain, Due, NodeEvents
  <1>2. queue \ {e} \subseteq Event /\ ArmT'
    BY Parts, Same DEF OnForcedDrain, TimeT
  <1>. QED
    BY <1>1, <1>2, DrainNodeType, NoNodeEventType DEF OnForcedDrain

LEMMA DrainGraceType ==
    ASSUME TypeInv, NEW e \in queue, OnDrainGrace(e)
    PROVE  TypeInv'
  <1>. JobT /\ WorkT /\ HandleT /\ NodeT /\ TimeT
    BY Parts
  <1>1. e.arg \in Nodes /\ e.time \in Nat /\ now' \in Nat
    BY EventType DEF OnDrainGrace, Due, NodeEvents
  <1>2. queue \ {e} \subseteq Event /\ ArmT'
    BY Same DEF OnDrainGrace, TimeT
  <1>3. ASSUME NEW n \in Nodes, n = e.arg, nodeState[n] = "DRAINING",
               EndDrainGrace(n, e.time, queue \ {e})
        PROVE  TypeInv'
    <2> DEFINE S == Owners(n) \cap running
               E == IF Owners(n) = {} THEN {n} ELSE {}
    <2>1. S \in SUBSET Jobs /\ Evict(S, e.time)
      BY <1>3 DEF EndDrainGrace, Owners
    <2>2. /\ status' \in [Jobs -> JobStatus] /\ running' \subseteq Jobs
          /\ graced' \subseteq Jobs
          /\ complAt' \in [Jobs -> Nat \cup {None}]
          /\ graceAt' \in [Jobs -> Nat \cup {None}]
      BY <1>1, <2>1, EvictType
    <2>3. JobT' /\ HandleT'
      BY <1>3, <2>2 DEF EndDrainGrace, JobT, HandleT
    <2>4. bank' \in [Jobs -> BOOLEAN]
      BY <1>3 DEF EndDrainGrace
    <2>5. WorkT'
      BY <1>3, <2>4 DEF EndDrainGrace, WorkT, WorkBounded
    <2>6. NodeT'
      BY <1>3 DEF EndDrainGrace, NodeT, NodeState, DrainDrawn
    <2>7. TimeT'
      <3>1. Named(S, graceAt', "PREEMPTION_DONE") \subseteq Event
        BY <2>1, <2>2, NamedType DEF JobEvents
      <3>2. MaintDone(E, e.time) \subseteq Event
        <4>1. maintFor[n] \in Nat
          BY <1>3 DEF NodeT, DrainDrawn
        <4>. QED
          BY <1>1, <4>1 DEF MaintDone, Ev, Event, NodeEvents
      <3>. QED
        BY <1>1, <1>2, <1>3, <3>1, <3>2 DEF EndDrainGrace, TimeT
    <2>. QED
      BY <1>2, <1>3, <2>3, <2>5, <2>6, <2>7, Same, PartsNext
         DEF EndDrainGrace, NotDirty
  <1>. QED
    BY <1>1, <1>2, <1>3, NoNodeEventType DEF OnDrainGrace

-----------------------------------------------------------------------------
(* The step and the theorem. *)

LEMMA NextType == TypeInv /\ [Next]_vars => TypeInv'
  <1> SUFFICES ASSUME TypeInv, [Next]_vars PROVE TypeInv'
    OBVIOUS
  <1>1. ASSUME Turn PROVE TypeInv'
    BY <1>1, RepairType, CompletionType, FailureType, ForcedFailureType,
       PreemptionDoneType, ArrivalHandlerType, MaintenanceType, ForcedDrainType,
       DrainGraceType, ValidUntilType, LifetimeType, WakeType, FlushType
       DEF Turn
  <1>2. ASSUME InWake PROVE TypeInv'
    <2>1. ASSUME NEW v \in Jobs, NEW p \in Jobs \cup {Nil},
                 PreemptRequeue(v, p) \/ PreemptCancel(v, p)
          PROVE  TypeInv'
      BY <2>1, PreemptRequeueType, PreemptCancelType
    <2>. QED
      BY <1>2, <2>1, RefillType, BuildViewType, PlaceType, EndWakeType DEF InWake
  <1>3. ASSUME Finalize PROVE TypeInv'
    BY <1>3, FinalizeType
  <1>4. ASSUME UNCHANGED vars PROVE TypeInv'
    <2>1. UNCHANGED <<now, queue, known, wakeTimes, dirty>>
      BY <1>4 DEF vars
    <2>2. UNCHANGED <<loopVars, jobVars, workVars, handleVars, nodeVars, armVars,
                      quotaVars, metricVars>>
      BY <1>4 DEF vars
    <2>3. TimeT'
      BY <2>1, Parts DEF TimeT
    <2>. QED
      BY <2>1, <2>2, <2>3, Same, PartsNext
  <1>. QED
    BY <1>1, <1>2, <1>3, <1>4 DEF Next, Stopped

\* Type correctness of the engine, for every scenario and every scheduler.  It
\* contains that no event is ever dated before time 0 or names the wrong kind
\* of thing, and that the lost work of a job never goes negative.
THEOREM TypeCorrect == Spec => []TypeOK
  <1>1. Init => TypeInv
    BY InitType
  <1>2. TypeInv /\ [Next]_vars => TypeInv'
    BY NextType
  <1>3. TypeInv => TypeOK
    BY DEF TypeInv
  <1>. QED
    BY <1>1, <1>2, <1>3, PTL DEF Spec

-----------------------------------------------------------------------------
(* Durable and lost work. *)

\* The work a job has banked, and the work it has lost, as it is after the step.
Grows == \A j \in Jobs : kept[j] <= kept'[j] /\ lost[j] <= lost'[j]

LEMMA SameWorkGrows ==
    ASSUME TypeInv, kept' = kept, lost' = lost
    PROVE  Grows
  <1>1. kept \in [Jobs -> Nat] /\ lost \in [Jobs -> Nat]
    BY DEF TypeInv, TypeOK
  <1>. QED
    BY <1>1 DEF Grows

LEMMA InterruptGrows ==
    ASSUME TypeInv, NEW S \in SUBSET Jobs, NEW t \in Nat,
           NEW b \in [Jobs -> BOOLEAN], Interrupt(S, t, b)
    PROVE  Grows
  BY InterruptType DEF Grows

LEMMA TurnGrows ==
    ASSUME TypeInv, Turn
    PROVE  Grows
  <1>. /\ bank \in [Jobs -> BOOLEAN]
       /\ [j \in Jobs |-> FALSE] \in [Jobs -> BOOLEAN]
    BY DEF TypeInv, TypeOK
  <1>1. ASSUME NEW n \in Nodes, NEW t \in Nat, NEW rest, FailNode(n, t, rest)
        PROVE  Grows
    BY <1>1, InterruptGrows DEF FailNode, Owners
  <1>2. ASSUME NEW rest, NoNodeEvent(rest) PROVE Grows
    BY <1>2, SameWorkGrows DEF NoNodeEvent, workVars
  <1>3. ASSUME NEW n, NEW t, NEW rest, DrainNode(n, t, rest) PROVE Grows
    BY <1>3, SameWorkGrows DEF DrainNode, workVars
  <1>4. ASSUME NEW e \in queue, OnRepair(e) PROVE Grows
    BY <1>2, <1>4, SameWorkGrows DEF OnRepair, workVars
  <1>5. ASSUME NEW e \in queue, OnCompletion(e) PROVE Grows
    <2>1. e.arg \in Jobs
      BY <1>5, EventType DEF OnCompletion, Due, JobEvents
    <2>2. /\ kept \in [Jobs -> Nat] /\ lost \in [Jobs -> Nat]
          /\ kept[e.arg] <= Job[e.arg].total
      BY <2>1 DEF TypeInv, TypeOK, WorkBounded
    <2>. QED
      BY <1>5, <2>1, <2>2 DEF OnCompletion, Grows
  <1>6. ASSUME NEW e \in queue, OnFailure(e) PROVE Grows
    <2>1. e.time \in Nat /\ hazard \subseteq Nodes
      BY EventType DEF TypeInv, TypeOK
    <2>. QED
      BY <1>1, <1>2, <1>6, <2>1 DEF OnFailure
  <1>7. ASSUME NEW e \in queue, OnForcedFailure(e) PROVE Grows
    <2>1. e.time \in Nat /\ e.arg \in Nodes
      BY <1>7, EventType DEF OnForcedFailure, Due, NodeEvents
    <2>. QED
      BY <1>1, <1>2, <1>7, <2>1 DEF OnForcedFailure
  <1>8. ASSUME NEW e \in queue, OnPreemptionDone(e) PROVE Grows
    <2>1. e.time \in Nat /\ e.arg \in Jobs
      BY <1>8, EventType DEF OnPreemptionDone, Due, JobEvents
    <2>. QED
      BY <1>8, <2>1, InterruptGrows DEF OnPreemptionDone
  <1>9. ASSUME NEW e \in queue, OnArrival(e) PROVE Grows
    BY <1>9, SameWorkGrows DEF OnArrival, SubmitUnchanged, workVars
  <1>10. ASSUME NEW e \in queue, OnMaintenance(e) PROVE Grows
    BY <1>2, <1>3, <1>10 DEF OnMaintenance
  <1>11. ASSUME NEW e \in queue, OnForcedDrain(e) PROVE Grows
    BY <1>2, <1>3, <1>11 DEF OnForcedDrain
  <1>12. ASSUME NEW e \in queue, OnDrainGrace(e) PROVE Grows
    BY <1>2, <1>12, SameWorkGrows DEF OnDrainGrace, EndDrainGrace
  <1>13. ASSUME NEW e \in queue, OnValidUntil(e) PROVE Grows
    BY <1>13, SameWorkGrows DEF OnValidUntil, workVars
  <1>14. ASSUME NEW e \in queue, OnLifetime(e) PROVE Grows
    <2>1. e.time \in Nat /\ e.arg \in Jobs
      BY <1>14, EventType DEF OnLifetime, Due, JobEvents
    <2>. QED
      BY <1>14, <2>1, InterruptGrows, SameWorkGrows DEF OnLifetime, workVars
  <1>15. ASSUME NEW e \in queue, OnWake(e) \/ OnFlush(e) PROVE Grows
    BY <1>15, SameWorkGrows DEF OnWake, OnFlush, workVars
  <1>. QED
    BY <1>4, <1>5, <1>6, <1>7, <1>8, <1>9, <1>10, <1>11, <1>12, <1>13, <1>14,
       <1>15 DEF Turn

LEMMA InWakeGrows ==
    ASSUME TypeInv, InWake
    PROVE  Grows
  <1>1. now \in Nat /\ bank \in [Jobs -> BOOLEAN]
    BY DEF TypeInv, TypeOK
  <1>2. ASSUME NEW j \in Jobs, Refill(j) PROVE Grows
    BY <1>2, SameWorkGrows DEF Refill, SubmitUnchanged, workVars
  <1>3. ASSUME NEW j \in Jobs, NEW S \in SUBSET Nodes, Place(j, S) PROVE Grows
    BY <1>3, SameWorkGrows DEF Place
  <1>4. ASSUME NEW v \in Jobs, NEW p, PreemptRequeue(v, p) PROVE Grows
    BY <1>4, SameWorkGrows DEF PreemptRequeue, workVars
  <1>5. ASSUME NEW v \in Jobs, NEW p, PreemptCancel(v, p) PROVE Grows
    BY <1>1, <1>5, InterruptGrows DEF PreemptCancel
  <1>6. ASSUME BuildView \/ EndWake PROVE Grows
    BY <1>6, SameWorkGrows DEF BuildView, EndWake, workVars
  <1>. QED
    BY <1>2, <1>3, <1>4, <1>5, <1>6 DEF InWake

\* No mix of checkpoints, drain banks, preemptions and failures, for any
\* checkpoint interval and any schedule, takes durable work back from a job or
\* lowers its count of lost work ("kept_work_s never regresses", class _JobRt).
THEOREM DurableWork == Spec => WorkNeverRegresses
  <1>1. Init => TypeInv
    BY InitType
  <1>2. TypeInv /\ [Next]_vars => TypeInv'
    BY NextType
  <1>3. TypeInv /\ [Next]_vars => [Grows]_vars
    <2> SUFFICES ASSUME TypeInv, Next PROVE Grows \/ UNCHANGED vars
      OBVIOUS
    <2>1. Finalize => Grows
      BY SameWorkGrows DEF Finalize, workVars
    <2>. QED
      BY <2>1, TurnGrows, InWakeGrows DEF Next, Stopped
  <1>4. [Grows]_vars <=> [\A j \in Jobs : kept[j] <= kept'[j]
                                          /\ lost[j] <= lost'[j]]_vars
    BY DEF Grows
  <1>. QED
    BY <1>1, <1>2, <1>3, <1>4, PTL DEF Spec, WorkNeverRegresses

-----------------------------------------------------------------------------
(* The life of a job: the inductive invariant. *)

\* The queue and the handle h name the same events of a type.
Tracks(h, type) ==
    \A e \in Event : e.type = type => (e \in queue <=> h[e.arg] = e.time)

EventsTracked ==
    /\ Tracks(complAt, "JOB_COMPLETION") /\ Tracks(graceAt, "PREEMPTION_DONE")
    /\ Tracks(lifeAt, "LIFETIME") /\ Tracks(validAt, "VALID_UNTIL")

\* A handle is set in the states of the job that its event belongs to.
HandlesLinked ==
    \A j \in Jobs :
      /\ complAt[j] # None <=> j \in running
      /\ graceAt[j] # None <=> j \in graced
      /\ validAt[j] # None => j \in pending /\ ~ started[j]
      /\ lifeAt[j] # None => started[j] /\ status[j] \notin Terminal

\* The source hands a job out once: the arrival on the queue is the last one
\* handed out, not submitted yet, and neither is any later one.
ArrivalsFresh ==
    /\ \A e \in queue : e.type = "JOB_ARRIVAL" =>
         /\ nextArr - 1 \in 1 .. Len(Arrivals)
         /\ e = Ev(Job[Arrivals[nextArr - 1]].submit, "JOB_ARRIVAL",
                   Arrivals[nextArr - 1])
         /\ e.arg \notin known
    /\ \A i \in 1 .. Len(Arrivals) : i >= nextArr => Arrivals[i] \notin known

LifeInv ==
    TypeInv /\ LifecycleAgrees /\ EventsTracked /\ HandlesLinked /\ ArrivalsFresh

-----------------------------------------------------------------------------
(* What is on the queue. *)

Handled == {"JOB_COMPLETION", "PREEMPTION_DONE", "LIFETIME", "VALID_UNTIL"}
Followed == Handled \cup {"JOB_ARRIVAL"}

\* An event is named by a handle when time and job are the handle's.
LEMMA NamedMember ==
    ASSUME NEW S \in SUBSET Jobs, NEW h \in [Jobs -> Nat \cup {None}],
           NEW type \in Handled, NEW e \in Event
    PROVE  e \in Named(S, h, type) <=>
             e.type = type /\ e.arg \in S /\ h[e.arg] = e.time
  <1>1. e = Ev(e.time, e.type, e.arg) /\ e.time \in Nat
    BY DEF Ev, Event
  <1>2. ASSUME e \in Named(S, h, type)
        PROVE  e.type = type /\ e.arg \in S /\ h[e.arg] = e.time
    BY <1>2 DEF Named, Ev
  <1>3. ASSUME e.type = type, e.arg \in S, h[e.arg] = e.time
        PROVE  e \in Named(S, h, type)
    <2>1. e.arg \in {k \in S : h[k] # None} /\ e = Ev(h[e.arg], type, e.arg)
      BY <1>1, <1>3
    <2>. QED
      BY <2>1 DEF Named
  <1>. QED
    BY <1>2, <1>3

LEMMA OneNamed ==
    ASSUME NEW j \in Jobs, NEW h \in [Jobs -> Nat \cup {None}],
           NEW type \in Handled, NEW e \in Event
    PROVE  e \in Named({j}, h, type) <=> e.type = type /\ e.arg = j /\ h[j] = e.time
  <1>1. {j} \in SUBSET Jobs
    OBVIOUS
  <1>2. e \in Named({j}, h, type) <=>
           e.type = type /\ e.arg \in {j} /\ h[e.arg] = e.time
    BY <1>1, NamedMember
  <1>. QED
    BY <1>2

\* Repairs, wakes and sampled events are none of a job's.
LEMMA OtherEvents ==
    ASSUME NEW e, e.type \in Followed, NEW E, NEW t, NEW b, NEW h, NEW h2,
           NEW type \in LoopEvents
    PROVE  /\ e \notin MaintDone(E, t) /\ e \notin WakeEvents(b)
           /\ e \notin Armed(type, h, h2)
  BY DEF MaintDone, WakeEvents, Armed, Ev, Followed, Handled, LoopEvents

LEMMA ArrivalMember ==
    ASSUME NEW i \in Nat \ {0}, NEW e \in ArrivalEvents(i)
    PROVE  /\ i \in 1 .. Len(Arrivals) /\ e.type = "JOB_ARRIVAL"
           /\ e = Ev(Job[Arrivals[i]].submit, "JOB_ARRIVAL", Arrivals[i])
           /\ e.arg = Arrivals[i]
  <1>1. Len(Arrivals) \in Nat
    BY ConfigAssumption DEF ConfigAssumption
  <1>. QED
    BY <1>1 DEF ArrivalEvents, Ev

\* The equality of module Engine, from the pointwise form.
LEMMA TracksEquality ==
    ASSUME TypeInv, NEW h \in [Jobs -> Nat \cup {None}], NEW type \in Handled,
           Tracks(h, type), NEW j \in Jobs
    PROVE  EventsOf(j, type) = Named({j}, h, type)
  <1>1. queue \subseteq Event
    BY DEF TypeInv, TypeOK
  <1>2. \A e \in Named({j}, h, type) : e \in Event
    BY NamedType DEF Handled, JobEvents
  <1>3. \A e \in Event : e \in Named({j}, h, type) <=>
             e.type = type /\ e.arg \in {j} /\ h[e.arg] = e.time
    BY NamedMember
  <1>. QED
    BY <1>1, <1>2, <1>3 DEF EventsOf, Tracks

\* A step that leaves the handles and the events they name alone.
LEMMA TrackedSame ==
    ASSUME EventsTracked, UNCHANGED handleVars,
           \A e \in Event : e.type \in Handled => (e \in queue' <=> e \in queue)
    PROVE  EventsTracked'
  BY DEF EventsTracked, Tracks, handleVars, Handled

\* A step that adds no arrival and submits no job.
LEMMA FreshSame ==
    ASSUME ArrivalsFresh, nextArr' = nextArr, known' = known,
           \A e \in queue' : e.type = "JOB_ARRIVAL" => e \in queue
    PROVE  ArrivalsFresh'
  BY DEF ArrivalsFresh

LEMMA LifecycleSame ==
    ASSUME LifecycleAgrees, UNCHANGED <<jobVars, known, bank, failReq, started>>
    PROVE  LifecycleAgrees'
  BY DEF LifecycleAgrees, jobVars

LEMMA LinkedSame ==
    ASSUME HandlesLinked,
           UNCHANGED <<handleVars, running, graced, pending, status, started>>
    PROVE  HandlesLinked'
  BY DEF HandlesLinked, handleVars

-----------------------------------------------------------------------------
(* Init, and the steps that move no job. *)

LEMMA InitLife == Init => LifeInv
  <1> SUFFICES ASSUME Init PROVE LifeInv
    OBVIOUS
  <1>1. TypeInv
    BY InitType
  <1>2. LifecycleAgrees
    BY DEF Init, LifecycleAgrees, JobStatus, Terminal
  <1>3. HandlesLinked
    BY DEF Init, HandlesLinked
  <1>4. \A e \in queue : e.type \in Followed => e \in ArrivalEvents(1)
    <2>1. \A e \in Forced : e.type \notin Followed
      BY ConfigAssumption DEF ConfigAssumption, Followed, Handled
    <2>2. \A e : e.type \in Followed =>
            /\ e \notin Armed("NODE_FAILURE", None, failureAt)
            /\ e \notin Armed("MAINTENANCE_DRAIN", None, maintAt)
      BY OtherEvents DEF LoopEvents
    <2>3. \A e : e.type \in Followed =>
            /\ e \notin {Ev(t, "SCHED_WAKE", Nil) : t \in wakeTimes}
            /\ e \notin {Ev(t, "METRICS_FLUSH", Nil) :
                            t \in {Round} \cap 0 .. Horizon - 1}
      BY DEF Ev, Followed, Handled
    <2>. QED
      BY <2>1, <2>2, <2>3 DEF Init
  <1>5. EventsTracked
    <2>1. \A e \in Event : e.type \in Handled => e \notin queue /\ e.time # None
      BY <1>4, ArrivalMember DEF Event, Handled, Followed
    <2>2. \A e \in Event : e.type \in Handled => e.arg \in Jobs
      BY DEF Event, Handled, JobEvents, NodeEvents, LoopEvents
    <2>. QED
      BY <2>1, <2>2 DEF Init, EventsTracked, Tracks, Handled
  <1>6. ArrivalsFresh
    <2>1. nextArr - 1 = 1 /\ known = {}
      BY DEF Init
    <2>. QED
      BY <1>4, <2>1, ArrivalMember DEF ArrivalsFresh, Followed
  <1>. QED
    BY <1>1, <1>2, <1>3, <1>5, <1>6 DEF LifeInv

\* A step that leaves the jobs alone and adds no event of theirs.
QuietStep ==
    /\ UNCHANGED <<jobVars, known, bank, failReq, started, handleVars, nextArr>>
    /\ \A e : e.type \in Followed => (e \in queue' <=> e \in queue)

LEMMA QuietLife ==
    ASSUME LifeInv, TypeInv', QuietStep
    PROVE  LifeInv'
  <1>1. LifecycleAgrees'
    BY LifecycleSame DEF LifeInv, QuietStep
  <1>2. EventsTracked'
    BY TrackedSame DEF LifeInv, QuietStep, Followed
  <1>3. HandlesLinked'
    BY LinkedSame DEF LifeInv, QuietStep, jobVars
  <1>4. ArrivalsFresh'
    BY FreshSame DEF LifeInv, QuietStep, Followed
  <1>. QED
    BY <1>1, <1>2, <1>3, <1>4 DEF LifeInv

LEMMA QuietTurn ==
    ASSUME NEW e \in queue,
           OnFlush(e) \/ OnWake(e) \/ OnRepair(e) \/ OnMaintenance(e)
             \/ OnForcedDrain(e)
    PROVE  QuietStep
  <1>1. ASSUME NEW rest, NoNodeEvent(rest),
               \A f : f.type \in Followed => (f \in rest <=> f \in queue)
        PROVE  QuietStep
    BY <1>1 DEF NoNodeEvent, QuietStep, loopVars, workVars
  <1>2. ASSUME NEW n, NEW t, NEW rest, DrainNode(n, t, rest),
               \A f : f.type \in Followed => (f \in rest <=> f \in queue)
        PROVE  QuietStep
    <2>1. \A f : f.type \in Followed =>
             f \notin WakeEvents(Boundary(t)) /\ f # Ev(t + DrainGrace, "DRAIN_GRACE", n)
      BY OtherEvents DEF Ev, Followed, Handled, LoopEvents
    <2>. QED
      BY <1>2, <2>1 DEF DrainNode, QuietStep, loopVars, workVars
  <1>3. CASE OnFlush(e)
    <2>1. \A f : f.type \in Followed => (f \in queue' <=> f \in queue)
      BY <1>3 DEF OnFlush, Due, Ev, Followed, Handled
    <2>. QED
      BY <1>3, <2>1 DEF OnFlush, QuietStep, loopVars, workVars
  <1>4. CASE OnWake(e)
    <2>1. \A f : f.type \in Followed => (f \in queue' <=> f \in queue)
      BY <1>4 DEF OnWake, Due, Followed, Handled
    <2>. QED
      BY <1>4, <2>1 DEF OnWake, QuietStep, workVars
  <1>5. CASE OnRepair(e)
    <2>1. e.type \notin Followed
      BY <1>5 DEF OnRepair, Due, Followed, Handled
    <2>2. CASE nodeState[e.arg] \notin {"FAILED", "MAINTENANCE"}
      BY <1>1, <1>5, <2>1, <2>2 DEF OnRepair
    <2>3. CASE nodeState[e.arg] \in {"FAILED", "MAINTENANCE"}
      <3>1. \A f : f.type \in Followed => (f \in queue' <=> f \in queue)
        BY <1>5, <2>1, <2>3, OtherEvents DEF OnRepair, LoopEvents
      <3>. QED
        BY <1>5, <2>3, <3>1 DEF OnRepair, QuietStep, loopVars, workVars
    <2>. QED
      BY <2>2, <2>3
  <1>6. CASE OnMaintenance(e)
    <2>1. \A f : f.type \in Followed =>
             (f \in (queue \ {e}) \cup Armed("MAINTENANCE_DRAIN", None, maintAt')
                <=> f \in queue)
      BY <1>6, OtherEvents DEF OnMaintenance, Due, Followed, Handled, LoopEvents
    <2>. QED
      BY <1>1, <1>2, <1>6, <2>1 DEF OnMaintenance
  <1>7. CASE OnForcedDrain(e)
    <2>1. \A f : f.type \in Followed => (f \in queue \ {e} <=> f \in queue)
      BY <1>7 DEF OnForcedDrain, Due, Followed, Handled
    <2>. QED
      BY <1>1, <1>2, <1>7, <2>1 DEF OnForcedDrain
  <1>. QED
    BY <1>3, <1>4, <1>5, <1>6, <1>7

LEMMA QuietWake ==
    ASSUME BuildView \/ EndWake \/ Finalize \/ UNCHANGED vars
    PROVE  QuietStep
  <1>1. CASE EndWake
    <2>1. \A f : f.type \in Followed => (f \in queue' <=> f \in queue)
      BY <1>1, OtherEvents DEF EndWake, LoopEvents
    <2>. QED
      BY <1>1, <2>1 DEF EndWake, QuietStep, workVars
  <1>2. CASE BuildView \/ Finalize \/ UNCHANGED vars
    BY <1>2 DEF BuildView, Finalize, QuietStep, vars, loopVars, workVars
  <1>. QED
    BY <1>1, <1>2

-----------------------------------------------------------------------------
(* Submission. *)

\* A new job holds nothing and nothing names it.
LEMMA NewJob ==
    ASSUME LifeInv, NEW j \in Jobs, j \notin known
    PROVE  /\ j \notin pending /\ j \notin running /\ j \notin graced
           /\ ~ started[j] /\ ~ bank[j] /\ ~ failReq[j]
           /\ alloc[j] = {} /\ status[j] = "PENDING"
           /\ complAt[j] = None /\ graceAt[j] = None
           /\ lifeAt[j] = None /\ validAt[j] = None
  BY DEF LifeInv, LifecycleAgrees, HandlesLinked

LEMMA SubmitLife ==
    ASSUME LifeInv, NEW j \in Jobs, j \notin known, NEW t \in Nat,
           SubmitInvalid(j) \/ SubmitRejected(j) \/ SubmitAdmitted(j, t),
           SubmitUnchanged
    PROVE  LifecycleAgrees' /\ HandlesLinked' /\ known' = known \cup {j}
  <1>1. /\ j \notin pending /\ j \notin running /\ j \notin graced
        /\ ~ started[j] /\ ~ bank[j] /\ ~ failReq[j]
        /\ alloc[j] = {} /\ status[j] = "PENDING"
        /\ complAt[j] = None /\ graceAt[j] = None
        /\ lifeAt[j] = None /\ validAt[j] = None
    BY NewJob
  <1>2. /\ status \in [Jobs -> JobStatus] /\ validAt \in [Jobs -> Nat \cup {None}]
    BY DEF LifeInv, TypeInv, TypeOK
  <1>3. UNCHANGED <<running, graced, alloc, bank, failReq, started, complAt,
                    graceAt, lifeAt>>
    BY DEF SubmitUnchanged, workVars
  <1>4. \/ /\ status' = [status EXCEPT ![j] = "FAILED"]
           /\ UNCHANGED <<pending, validAt>>
        \/ /\ status' = [status EXCEPT ![j] = "ADMITTED"]
           /\ pending' = pending \cup {j}
           /\ \A k \in Jobs : k # j => validAt'[k] = validAt[k]
    BY <1>2 DEF SubmitInvalid, SubmitRejected, SubmitAdmitted
  <1>5. known' = known \cup {j}
    BY DEF SubmitInvalid, SubmitRejected, SubmitAdmitted
  <1>6. LifecycleAgrees'
    BY <1>1, <1>2, <1>3, <1>4, <1>5 DEF LifeInv, LifecycleAgrees, Terminal
  <1>7. HandlesLinked'
    BY <1>1, <1>2, <1>3, <1>4 DEF LifeInv, HandlesLinked, Terminal
  <1>. QED
    BY <1>5, <1>6, <1>7

\* The handle of a submitted job's expiry names the event that is pushed.
LEMMA SubmitTracked ==
    ASSUME LifeInv, TypeInv', NEW j \in Jobs, j \notin known, NEW t \in Nat,
           SubmitInvalid(j) \/ SubmitRejected(j) \/ SubmitAdmitted(j, t),
           SubmitUnchanged,
           \A e \in Event : e.type \in Handled =>
              (e \in queue' <=> e \in queue \/ e \in Named({j}, validAt', "VALID_UNTIL"))
    PROVE  EventsTracked'
  <1>1. validAt[j] = None
    BY NewJob
  <1>2. validAt' \in [Jobs -> Nat \cup {None}] /\ validAt \in [Jobs -> Nat \cup {None}]
    BY DEF LifeInv, TypeInv, TypeOK
  <1>3. \A k \in Jobs : k # j => validAt'[k] = validAt[k]
    BY <1>2 DEF SubmitInvalid, SubmitRejected, SubmitAdmitted
  <1>4. \A e \in Event : e \in Named({j}, validAt', "VALID_UNTIL") <=>
           e.type = "VALID_UNTIL" /\ e.arg \in {j} /\ validAt'[e.arg] = e.time
    BY <1>2, NamedMember DEF Handled
  <1>5. \A e \in Event : /\ e.time # None
                         /\ e.type \in Handled => e.arg \in Jobs
    BY DEF Event, Handled, JobEvents, NodeEvents, LoopEvents
  <1>6. Tracks(validAt, "VALID_UNTIL")'
    <2> SUFFICES ASSUME NEW e \in Event, e.type = "VALID_UNTIL"
                 PROVE  e \in queue' <=> validAt'[e.arg] = e.time
      BY DEF Tracks
    <2>1. e \in queue <=> validAt[e.arg] = e.time
      BY DEF LifeInv, EventsTracked, Tracks
    <2>. QED
      BY <1>1, <1>3, <1>4, <1>5, <2>1 DEF Handled
  <1>7. UNCHANGED <<complAt, graceAt, lifeAt>>
    BY DEF SubmitUnchanged
  <1>8. \A e \in Event : e.type \in Handled \ {"VALID_UNTIL"} =>
           (e \in queue' <=> e \in queue)
    BY <1>4 DEF Handled
  <1>. QED
    BY <1>6, <1>7, <1>8 DEF LifeInv, EventsTracked, Tracks, Handled

LEMMA ArrivalLife ==
    ASSUME LifeInv, TypeInv', NEW e \in queue, OnArrival(e)
    PROVE  LifeInv'
  <1> DEFINE j == e.arg
  <1>1. /\ nextArr - 1 \in 1 .. Len(Arrivals) /\ j = Arrivals[nextArr - 1]
        /\ j \notin known
        /\ \A f \in queue : f.type = "JOB_ARRIVAL" => f = e
    BY DEF LifeInv, ArrivalsFresh, OnArrival, Due, Ev
  <1>2. j \in Jobs /\ e.time \in Nat /\ e.type = "JOB_ARRIVAL"
    BY EventType DEF LifeInv, OnArrival, Due, JobEvents
  <1>3. nextArr \in Nat \ {0} /\ Len(Arrivals) \in Nat
    BY ConfigAssumption DEF ConfigAssumption, LifeInv, TypeInv, TypeOK
  <1>4. /\ SubmitInvalid(j) \/ SubmitRejected(j) \/ SubmitAdmitted(j, e.time)
        /\ SubmitUnchanged /\ nextArr' = nextArr + 1
    BY DEF OnArrival
  <1>5. LifecycleAgrees' /\ HandlesLinked' /\ known' = known \cup {j}
    BY <1>1, <1>2, <1>4, SubmitLife
  <1>6. EventsTracked'
    <2>1. \A f \in Event : f.type \in Handled =>
             /\ f # e /\ f \notin ArrivalEvents(nextArr)
             /\ f \notin WakeEvents(Boundary(e.time))
      <3>1. \A f : f.type \in Handled => f \notin WakeEvents(Boundary(e.time))
        BY OtherEvents DEF Followed, LoopEvents
      <3>. QED
        BY <1>2, <1>3, <3>1, ArrivalMember DEF Handled
    <2>2. CASE /\ SubmitInvalid(j) \/ SubmitRejected(j)
               /\ queue' = (queue \ {e}) \cup ArrivalEvents(nextArr)
      <3>1. UNCHANGED handleVars
        BY <1>4, <2>2 DEF SubmitInvalid, SubmitRejected, SubmitUnchanged, handleVars
      <3>. QED
        BY <2>1, <2>2, <3>1, TrackedSame DEF LifeInv
    <2>3. CASE queue' = ((queue \ {e}) \cup ArrivalEvents(nextArr))
                          \cup Named({j}, validAt', "VALID_UNTIL")
                          \cup WakeEvents(Boundary(e.time))
      <3>1. \A f \in Event : f.type \in Handled =>
              (f \in queue' <=> f \in queue \/ f \in Named({j}, validAt', "VALID_UNTIL"))
        BY <2>1, <2>3
      <3>. QED
        BY <1>1, <1>2, <1>4, <3>1, SubmitTracked
    <2>. QED
      BY <2>2, <2>3 DEF OnArrival
  <1>7. ArrivalsFresh'
    <2>1. \A f \in queue' : f.type = "JOB_ARRIVAL" => f \in ArrivalEvents(nextArr)
      <3>1. \A f : f.type = "JOB_ARRIVAL" => f \notin WakeEvents(Boundary(e.time))
        BY OtherEvents DEF Followed, LoopEvents
      <3>2. \A f : f.type = "JOB_ARRIVAL" =>
              f \notin Named({j}, validAt', "VALID_UNTIL")
        BY DEF Named, Ev
      <3>. QED
        BY <1>1, <3>1, <3>2 DEF OnArrival
    <2>2. \A i, k \in 1 .. Len(Arrivals) : Arrivals[i] = Arrivals[k] => i = k
      BY ConfigAssumption DEF ConfigAssumption
    <2>3. \A i \in 1 .. Len(Arrivals) : i >= nextArr => Arrivals[i] \notin known'
      BY <1>1, <1>3, <1>5, <2>2 DEF LifeInv, ArrivalsFresh
    <2>4. \A f \in queue' : f.type = "JOB_ARRIVAL" =>
             /\ nextArr \in 1 .. Len(Arrivals)
             /\ f = Ev(Job[Arrivals[nextArr]].submit, "JOB_ARRIVAL", Arrivals[nextArr])
             /\ f.arg = Arrivals[nextArr]
      BY <1>3, <2>1, ArrivalMember
    <2>5. nextArr' - 1 = nextArr
      BY <1>3, <1>4
    <2>6. \A f \in queue' : f.type = "JOB_ARRIVAL" => f.arg \notin known'
      BY <1>3, <2>3, <2>4
    <2>7. \A i \in 1 .. Len(Arrivals) : i >= nextArr' => Arrivals[i] \notin known'
      BY <1>3, <1>4, <2>3
    <2>. QED
      BY <2>4, <2>5, <2>6, <2>7 DEF ArrivalsFresh
  <1>. QED
    BY <1>5, <1>6, <1>7 DEF LifeInv

LEMMA RefillLife ==
    ASSUME LifeInv, TypeInv', NEW j \in Jobs, Refill(j)
    PROVE  LifeInv'
  <1>1. j \notin known /\ j \in ClosedLoop /\ now \in Nat
    BY DEF Refill, LifeInv, TypeInv, TypeOK
  <1>2. /\ SubmitInvalid(j) \/ SubmitRejected(j) \/ SubmitAdmitted(j, now)
        /\ SubmitUnchanged /\ nextArr' = nextArr
    BY DEF Refill
  <1>3. LifecycleAgrees' /\ HandlesLinked' /\ known' = known \cup {j}
    BY <1>1, <1>2, SubmitLife
  <1>4. EventsTracked'
    <2>1. CASE (SubmitInvalid(j) \/ SubmitRejected(j)) /\ queue' = queue
      <3>1. UNCHANGED handleVars
        BY <1>2, <2>1 DEF SubmitInvalid, SubmitRejected, SubmitUnchanged, handleVars
      <3>. QED
        BY <2>1, <3>1, TrackedSame DEF LifeInv
    <2>2. CASE queue' = queue \cup Named({j}, validAt', "VALID_UNTIL")
      BY <1>1, <1>2, <2>2, SubmitTracked
    <2>. QED
      BY <2>1, <2>2 DEF Refill
  <1>5. ArrivalsFresh'
    <2>1. \A f \in queue' : f.type = "JOB_ARRIVAL" => f \in queue
      BY DEF Refill, Named, Ev
    <2>2. \A i \in 1 .. Len(Arrivals) : Arrivals[i] # j
      BY <1>1, ConfigAssumption DEF ConfigAssumption
    <2>3. \A f \in queue : f.type = "JOB_ARRIVAL" => f.arg # j
      BY <2>2 DEF LifeInv, ArrivalsFresh, Ev
    <2>. QED
      BY <1>2, <1>3, <2>1, <2>2, <2>3 DEF LifeInv, ArrivalsFresh
  <1>. QED
    BY <1>3, <1>4, <1>5 DEF LifeInv

-----------------------------------------------------------------------------
(* The steps that move jobs: the jobs of a set S change, the others do not.   *)

Records(k) ==
    <<status[k], k \in pending, k \in running, k \in graced, alloc[k], bank[k],
      failReq[k], started[k], complAt[k], graceAt[k], lifeAt[k], validAt[k]>>

\* What LifecycleAgrees and HandlesLinked say of job k.
JobAgrees(k) ==
    /\ status[k] = "RUNNING" <=> k \in running
    /\ status[k] = "PREEMPTED" <=> k \in graced
    /\ k \in pending <=> k \in known /\ status[k] \in {"ADMITTED", "PENDING"}
    /\ k \notin known => status[k] = "PENDING"
    /\ alloc[k] # {} <=> k \in running \cup graced
    /\ bank[k] => k \in graced
    /\ failReq[k] => started[k] /\ status[k] \in Terminal \cup {"PENDING"}
    /\ started[k] => k \in known
    /\ k \in running \cup graced => started[k]
    /\ complAt[k] # None <=> k \in running
    /\ graceAt[k] # None <=> k \in graced
    /\ validAt[k] # None => k \in pending /\ ~ started[k]
    /\ lifeAt[k] # None => started[k] /\ status[k] \notin Terminal

LEMMA JobAgreesNow ==
    ASSUME LifeInv, NEW k \in Jobs
    PROVE  JobAgrees(k)
  BY DEF LifeInv, LifecycleAgrees, HandlesLinked, JobAgrees

\* The jobs outside S keep their records, those of S agree afterwards, no job
\* is submitted and the queue follows the handles of S.
MovesOnly(S) ==
    /\ known' = known /\ nextArr' = nextArr
    /\ \A k \in Jobs : k \notin S => Records(k)' = Records(k)
    /\ \A k \in S : JobAgrees(k)'
    /\ \A e \in queue' : e.type = "JOB_ARRIVAL" => e \in queue
    /\ \A e \in Event : e.type \in Handled /\ e.arg \notin S =>
                           (e \in queue' <=> e \in queue)

\* The events of the jobs of S are those of the new handle.
Follows(S, h, type) ==
    \A e \in Event : e.type = type /\ e.arg \in S =>
                        (e \in queue' <=> h[e.arg] = e.time)

LEMMA EventArg ==
    ASSUME NEW e \in Event, e.type \in Handled
    PROVE  e.arg \in Jobs /\ e.time \in Nat /\ e.time # None
  BY DEF Event, Handled, JobEvents, NodeEvents, LoopEvents

LEMMA MoveLife ==
    ASSUME LifeInv, TypeInv', NEW S \in SUBSET Jobs, MovesOnly(S),
           Follows(S, complAt', "JOB_COMPLETION"),
           Follows(S, graceAt', "PREEMPTION_DONE"),
           Follows(S, lifeAt', "LIFETIME"), Follows(S, validAt', "VALID_UNTIL")
    PROVE  LifeInv'
  <1>1. \A k \in Jobs : JobAgrees(k)'
    <2> SUFFICES ASSUME NEW k \in Jobs, k \notin S PROVE JobAgrees(k)'
      BY DEF MovesOnly
    <2>1. JobAgrees(k) /\ Records(k)' = Records(k) /\ known' = known
      BY JobAgreesNow DEF MovesOnly
    <2>. QED
      BY <2>1 DEF JobAgrees, Records
  <1>2. LifecycleAgrees'
    BY <1>1 DEF LifecycleAgrees, JobAgrees
  <1>3. HandlesLinked'
    BY <1>1 DEF HandlesLinked, JobAgrees
  <1>4. ArrivalsFresh'
    BY FreshSame DEF LifeInv, MovesOnly
  <1>5. \A k \in Jobs : k \notin S =>
           /\ complAt'[k] = complAt[k] /\ graceAt'[k] = graceAt[k]
           /\ lifeAt'[k] = lifeAt[k] /\ validAt'[k] = validAt[k]
    BY DEF MovesOnly, Records
  <1>6. EventsTracked
    BY DEF LifeInv
  <1>7. Tracks(complAt, "JOB_COMPLETION")'
    BY <1>5, <1>6, EventArg DEF EventsTracked, Tracks, Follows, MovesOnly, Handled
  <1>8. Tracks(graceAt, "PREEMPTION_DONE")'
    BY <1>5, <1>6, EventArg DEF EventsTracked, Tracks, Follows, MovesOnly, Handled
  <1>9. Tracks(lifeAt, "LIFETIME")'
    BY <1>5, <1>6, EventArg DEF EventsTracked, Tracks, Follows, MovesOnly, Handled
  <1>10. Tracks(validAt, "VALID_UNTIL")'
    BY <1>5, <1>6, EventArg DEF EventsTracked, Tracks, Follows, MovesOnly, Handled
  <1>. QED
    BY <1>2, <1>3, <1>4, <1>7, <1>8, <1>9, <1>10 DEF LifeInv, EventsTracked

\* Repairs and wakes are none of a job's events.
LEMMA ServiceEvents ==
    ASSUME NEW E, NEW t, NEW b
    PROVE  \A e : e.type \in Followed => e \notin MaintDone(E, t)
                                         /\ e \notin WakeEvents(b)
  BY OtherEvents DEF LoopEvents

-----------------------------------------------------------------------------
(* The end of a job. *)

LEMMA FinishLife ==
    ASSUME LifeInv, TypeInv', NEW j \in known, NEW t \in Nat,
           NEW final \in Terminal,
           NEW popped, \A e \in popped : e.type \in Handled /\ e.arg = j,
           Finish(j, t, final, popped),
           ~ bank'[j], \A k \in Jobs : k # j => bank'[k] = bank[k]
    PROVE  LifeInv'
  <1>1. /\ status \in [Jobs -> JobStatus] /\ j \in Jobs
        /\ complAt \in [Jobs -> Nat \cup {None}]
        /\ graceAt \in [Jobs -> Nat \cup {None}]
        /\ lifeAt \in [Jobs -> Nat \cup {None}]
        /\ validAt \in [Jobs -> Nat \cup {None}]
    BY DEF LifeInv, TypeInv, TypeOK
  <1>2. /\ alloc' = [k \in Jobs |-> IF k \in {j} THEN {} ELSE alloc[k]]
        /\ status' = [status EXCEPT ![j] = final]
        /\ pending' = pending \ {j} /\ running' = running \ {j}
        /\ graced' = graced \ {j}
        /\ complAt' = Cleared(complAt, {j}) /\ graceAt' = Cleared(graceAt, {j})
        /\ lifeAt' = Cleared(lifeAt, {j}) /\ validAt' = Cleared(validAt, {j})
        /\ known' = known /\ started' = started /\ failReq' = failReq
        /\ nextArr' = nextArr
    BY DEF Finish, Release, loopVars
  <1>3. \A k \in Jobs : k # j => Records(k)' = Records(k)
    BY <1>1, <1>2 DEF Records, Cleared
  <1>4. JobAgrees(j)'
    <2>1. JobAgrees(j)
      BY <1>1, JobAgreesNow
    <2>2. /\ status'[j] = final /\ j \notin pending' /\ j \notin running'
          /\ j \notin graced' /\ alloc'[j] = {} /\ complAt'[j] = None
          /\ graceAt'[j] = None /\ lifeAt'[j] = None /\ validAt'[j] = None
      BY <1>1, <1>2 DEF Cleared
    <2>. QED
      BY <1>2, <2>1, <2>2 DEF JobAgrees, Terminal
  <1>5. \A e : e.type \in Followed =>
           (e \in queue' <=> e \in queue \ (popped \cup NamedAll({j})))
    BY ServiceEvents DEF Finish
  <1>6. \A e \in Event : e.type \in Handled =>
           (e \in NamedAll({j}) <=>
              /\ e.arg = j
              /\ \/ e.type = "JOB_COMPLETION" /\ complAt[j] = e.time
                 \/ e.type = "PREEMPTION_DONE" /\ graceAt[j] = e.time
                 \/ e.type = "LIFETIME" /\ lifeAt[j] = e.time
                 \/ e.type = "VALID_UNTIL" /\ validAt[j] = e.time)
    <2> SUFFICES ASSUME NEW e \in Event, e.type \in Handled
                 PROVE  e \in NamedAll({j}) <=>
                          /\ e.arg = j
                          /\ \/ e.type = "JOB_COMPLETION" /\ complAt[j] = e.time
                             \/ e.type = "PREEMPTION_DONE" /\ graceAt[j] = e.time
                             \/ e.type = "LIFETIME" /\ lifeAt[j] = e.time
                             \/ e.type = "VALID_UNTIL" /\ validAt[j] = e.time
      OBVIOUS
    <2>. /\ "JOB_COMPLETION" \in Handled /\ "PREEMPTION_DONE" \in Handled
         /\ "LIFETIME" \in Handled /\ "VALID_UNTIL" \in Handled
      BY DEF Handled
    <2>1. e \in Named({j}, complAt, "JOB_COMPLETION") <=>
             e.type = "JOB_COMPLETION" /\ e.arg = j /\ complAt[j] = e.time
      BY <1>1, OneNamed
    <2>2. e \in Named({j}, graceAt, "PREEMPTION_DONE") <=>
             e.type = "PREEMPTION_DONE" /\ e.arg = j /\ graceAt[j] = e.time
      BY <1>1, OneNamed
    <2>3. e \in Named({j}, lifeAt, "LIFETIME") <=>
             e.type = "LIFETIME" /\ e.arg = j /\ lifeAt[j] = e.time
      BY <1>1, OneNamed
    <2>4. e \in Named({j}, validAt, "VALID_UNTIL") <=>
             e.type = "VALID_UNTIL" /\ e.arg = j /\ validAt[j] = e.time
      BY <1>1, OneNamed
    <2>. QED
      <3>1. e \in NamedAll({j}) <=>
              \/ e \in Named({j}, complAt, "JOB_COMPLETION")
              \/ e \in Named({j}, graceAt, "PREEMPTION_DONE")
              \/ e \in Named({j}, lifeAt, "LIFETIME")
              \/ e \in Named({j}, validAt, "VALID_UNTIL")
        BY DEF NamedAll
      <3>. QED
        BY <2>1, <2>2, <2>3, <2>4, <3>1, Zenon
  <1>7. \A e \in Event : e.type \in Handled /\ e.arg # j =>
           (e \in queue' <=> e \in queue)
    BY <1>5, <1>6 DEF Followed
  <1>8. \A e \in Event : e.type \in Handled /\ e.arg = j => e \notin queue'
    BY <1>5, <1>6 DEF Followed, Handled, LifeInv, EventsTracked, Tracks
  <1>9. \A e \in queue' : e.type = "JOB_ARRIVAL" => e \in queue
    BY <1>5 DEF Followed
  <1>10. MovesOnly({j})
    BY <1>2, <1>3, <1>4, <1>7, <1>9 DEF MovesOnly
  <1>11. /\ Follows({j}, complAt', "JOB_COMPLETION")
         /\ Follows({j}, graceAt', "PREEMPTION_DONE")
         /\ Follows({j}, lifeAt', "LIFETIME")
         /\ Follows({j}, validAt', "VALID_UNTIL")
    BY <1>1, <1>2, <1>8, EventArg DEF Follows, Cleared, Handled
  <1>. QED
    BY <1>1, <1>10, <1>11, MoveLife

LEMMA CompletionLife ==
    ASSUME LifeInv, TypeInv', NEW e \in queue, OnCompletion(e)
    PROVE  LifeInv'
  <1>1. e.arg \in Jobs /\ e.time \in Nat /\ e.type = "JOB_COMPLETION" /\ e \in Event
    BY EventType DEF LifeInv, OnCompletion, Due, JobEvents, TypeInv, TypeOK
  <1>2. complAt[e.arg] = e.time /\ e.time # None
    BY <1>1, EventArg DEF LifeInv, EventsTracked, Tracks, Handled
  <1>3. e.arg \in known /\ ~ bank[e.arg]
    BY <1>1, <1>2, JobAgreesNow DEF JobAgrees
  <1>4. Job[e.arg].final \in Terminal
    BY <1>1, JobFields
  <1>5. bank' = bank /\ Finish(e.arg, e.time, Job[e.arg].final, {e})
    BY DEF OnCompletion
  <1>. QED
    BY <1>1, <1>3, <1>4, <1>5, FinishLife DEF Handled

LEMMA ValidUntilLife ==
    ASSUME LifeInv, TypeInv', NEW e \in queue, OnValidUntil(e)
    PROVE  LifeInv'
  <1>1. e.arg \in Jobs /\ e.time \in Nat /\ e.type = "VALID_UNTIL" /\ e \in Event
    BY EventType DEF LifeInv, OnValidUntil, Due, JobEvents, TypeInv, TypeOK
  <1>2. validAt[e.arg] = e.time /\ e.time # None
    BY <1>1, EventArg DEF LifeInv, EventsTracked, Tracks, Handled
  <1>3. /\ e.arg \in known /\ ~ bank[e.arg]
        /\ ~ started[e.arg] /\ status[e.arg] \notin Terminal
    BY <1>1, <1>2, JobAgreesNow DEF JobAgrees, Terminal
  <1>4. bank' = bank /\ Finish(e.arg, e.time, "FAILED", {e})
    BY <1>3 DEF OnValidUntil
  <1>. QED
    BY <1>1, <1>3, <1>4, FinishLife DEF Handled, Terminal

\* Cutting the stint of a job that holds chips clears its drain bank.
LEMMA InterruptBank ==
    ASSUME LifeInv, NEW S \in SUBSET Jobs, NEW t, NEW b, Interrupt(S, t, b),
           NEW k \in Jobs
    PROVE  bank'[k] <=> bank[k] /\ k \notin S
  BY DEF Interrupt

LEMMA LifetimeLife ==
    ASSUME LifeInv, TypeInv', NEW e \in queue, OnLifetime(e)
    PROVE  LifeInv'
  <1> DEFINE j == e.arg
             S == {i \in {j} : status[i] \in {"RUNNING", "PREEMPTED"}}
  <1>1. j \in Jobs /\ e.time \in Nat /\ e.type = "LIFETIME" /\ e \in Event
    BY EventType DEF LifeInv, OnLifetime, Due, JobEvents, TypeInv, TypeOK
  <1>2. lifeAt[j] = e.time /\ e.time # None
    BY <1>1, EventArg DEF LifeInv, EventsTracked, Tracks, Handled
  <1>3. JobAgrees(j)
    BY <1>1, JobAgreesNow
  <1>4. j \in known /\ status[j] \notin Terminal
    BY <1>2, <1>3 DEF JobAgrees
  <1>5. Interrupt(S, e.time, bank) /\ Finish(j, e.time, "TIMEOUT", {e})
    BY <1>4 DEF OnLifetime
  <1>6. \A k \in Jobs : bank'[k] <=> bank[k] /\ k \notin S
    BY <1>1, <1>5, InterruptBank
  <1>7. ~ bank'[j]
    BY <1>1, <1>3, <1>6 DEF JobAgrees
  <1>8. \A k \in Jobs : k # j => bank'[k] = bank[k]
    <2>1. bank \in [Jobs -> BOOLEAN] /\ bank' \in [Jobs -> BOOLEAN]
      BY DEF LifeInv, TypeInv, TypeOK
    <2>. QED
      BY <1>6, <2>1
  <1>. QED
    BY <1>1, <1>4, <1>5, <1>7, <1>8, FinishLife DEF Handled, Terminal

LEMMA PreemptCancelLife ==
    ASSUME LifeInv, TypeInv', NEW v \in Jobs, NEW p, PreemptCancel(v, p)
    PROVE  LifeInv'
  <1>1. JobAgrees(v) /\ status[v] = "RUNNING" /\ now \in Nat
    BY JobAgreesNow DEF PreemptCancel, MayPreempt, LifeInv, TypeInv, TypeOK
  <1>2. Interrupt({v}, now, bank) /\ Finish(v, now, "CANCELED", {})
    BY DEF PreemptCancel
  <1>3. \A k \in Jobs : bank'[k] <=> bank[k] /\ k \notin {v}
    BY <1>2, InterruptBank
  <1>4. \A k \in Jobs : k # v => bank'[k] = bank[k]
    <2>1. bank \in [Jobs -> BOOLEAN] /\ bank' \in [Jobs -> BOOLEAN]
      BY DEF LifeInv, TypeInv, TypeOK
    <2>. QED
      BY <1>3, <2>1
  <1>5. v \in known
    BY <1>1 DEF JobAgrees
  <1>. QED
    BY <1>1, <1>2, <1>3, <1>4, <1>5, FinishLife DEF Terminal

-----------------------------------------------------------------------------
(* Placement and preemption. *)

LEMMA PlaceLife ==
    ASSUME LifeInv, TypeInv', NEW j \in Jobs, NEW S \in SUBSET Nodes, Place(j, S)
    PROVE  LifeInv'
  <1> DEFINE overhead == IF started[j] THEN Job[j].overhead ELSE 0
             end == CompletionTime(j, overhead)
             life == IF started[j] \/ Job[j].lifetime = None THEN lifeAt[j]
                     ELSE now + Job[j].lifetime
  <1>1. /\ status \in [Jobs -> JobStatus] /\ alloc \in [Jobs -> SUBSET Nodes]
        /\ failReq \in [Jobs -> BOOLEAN] /\ started \in [Jobs -> BOOLEAN]
        /\ complAt \in [Jobs -> Nat \cup {None}]
        /\ lifeAt \in [Jobs -> Nat \cup {None}]
        /\ validAt \in [Jobs -> Nat \cup {None}]
        /\ complAt' \in [Jobs -> Nat \cup {None}]
        /\ lifeAt' \in [Jobs -> Nat \cup {None}]
    BY DEF LifeInv, TypeInv, TypeOK
  <1>2. /\ j \in pending /\ S # {}
        /\ alloc' = [alloc EXCEPT ![j] = S]
        /\ pending' = pending \ {j} /\ running' = running \cup {j}
        /\ status' = [status EXCEPT ![j] = "RUNNING"]
        /\ failReq' = [failReq EXCEPT ![j] = FALSE]
        /\ started' = [started EXCEPT ![j] = TRUE]
        /\ complAt' = [complAt EXCEPT ![j] = end]
        /\ lifeAt' = [lifeAt EXCEPT ![j] = life]
        /\ validAt' = IF started[j] THEN validAt ELSE Cleared(validAt, {j})
        /\ graced' = graced /\ known' = known /\ bank' = bank
        /\ graceAt' = graceAt /\ nextArr' = nextArr
        /\ queue' = (queue \ (IF started[j] THEN {}
                              ELSE Named({j}, validAt, "VALID_UNTIL")))
                    \cup {Ev(end, "JOB_COMPLETION", j)}
                    \cup (IF started[j] THEN {}
                          ELSE Named({j}, lifeAt', "LIFETIME"))
    BY DEF Place, Fits, loopVars
  <1> HIDE DEF life, end
  <1>3. JobAgrees(j)
    BY JobAgreesNow
  <1>4. status[j] \in {"ADMITTED", "PENDING"}
    BY <1>2, <1>3 DEF JobAgrees
  <1>5. complAt[j] = None /\ graceAt[j] = None /\ j \notin graced /\ ~ bank[j]
    BY <1>3, <1>4 DEF JobAgrees
  <1>6. complAt'[j] = end /\ end \in Nat /\ validAt'[j] = None
    <2>1. complAt'[j] = end
      BY <1>1, <1>2
    <2>2. end \in Nat
      <3>1. now \in Nat /\ kept[j] \in Nat /\ kept[j] <= Job[j].total
        BY DEF LifeInv, TypeInv, TypeOK, WorkBounded
      <3>. QED
        BY <3>1, JobFields DEF end, CompletionTime
    <2>3. validAt'[j] = None
      BY <1>1, <1>2, <1>3 DEF JobAgrees, Cleared
    <2>. QED
      BY <2>1, <2>2, <2>3
  <1>7. \A k \in Jobs : k # j => Records(k)' = Records(k)
    BY <1>1, <1>2 DEF Records, Cleared
  <1>8. JobAgrees(j)'
    <2>1. /\ status'[j] = "RUNNING" /\ j \in running' /\ j \notin pending'
          /\ alloc'[j] # {} /\ ~ failReq'[j] /\ started'[j] /\ j \in known'
      BY <1>1, <1>2, <1>3 DEF JobAgrees
    <2>. QED
      BY <1>2, <1>5, <1>6, <2>1 DEF JobAgrees, Terminal
  <1>9. \A e \in Event : e.type \in Handled =>
           /\ e \in Named({j}, validAt, "VALID_UNTIL") <=>
                e.type = "VALID_UNTIL" /\ e.arg = j /\ validAt[j] = e.time
           /\ e \in Named({j}, lifeAt', "LIFETIME") <=>
                e.type = "LIFETIME" /\ e.arg = j /\ lifeAt'[j] = e.time
    <2>. "VALID_UNTIL" \in Handled /\ "LIFETIME" \in Handled
      BY DEF Handled
    <2>1. \A e \in Event : e \in Named({j}, validAt, "VALID_UNTIL") <=>
                e.type = "VALID_UNTIL" /\ e.arg = j /\ validAt[j] = e.time
      BY <1>1, OneNamed
    <2>2. \A e \in Event : e \in Named({j}, lifeAt', "LIFETIME") <=>
                e.type = "LIFETIME" /\ e.arg = j /\ lifeAt'[j] = e.time
      BY <1>1, OneNamed
    <2>. QED
      BY <2>1, <2>2
  <1>10. \A e : e = Ev(end, "JOB_COMPLETION", j) =>
           e.type = "JOB_COMPLETION" /\ e.arg = j /\ e.time = end
    BY DEF Ev
  <1>11. \A e \in Event : e.type = "JOB_COMPLETION" /\ e.arg = j =>
           (e = Ev(end, "JOB_COMPLETION", j) <=> e.time = end)
    BY DEF Ev, Event
  <1>12. \A e \in Event : e.type \in Handled /\ e.arg # j =>
           (e \in queue' <=> e \in queue)
    BY <1>2, <1>9, <1>10
  <1>13. \A e \in queue' : e.type = "JOB_ARRIVAL" => e \in queue
    BY <1>2, <1>10 DEF Named, Ev
  <1>14. MovesOnly({j})
    BY <1>2, <1>7, <1>8, <1>12, <1>13 DEF MovesOnly
  <1>15. Follows({j}, complAt', "JOB_COMPLETION")
    <2> SUFFICES ASSUME NEW e \in Event, e.type = "JOB_COMPLETION", e.arg = j
                 PROVE  e \in queue' <=> e.time = end
      BY <1>6 DEF Follows
    <2>1. e \notin queue
      BY <1>5, EventArg DEF LifeInv, EventsTracked, Tracks, Handled
    <2>. QED
      BY <1>2, <1>9, <1>11, <2>1 DEF Handled
  <1>16. Follows({j}, graceAt', "PREEMPTION_DONE")
    BY <1>2, <1>9, <1>10
       DEF Follows, Handled, LifeInv, EventsTracked, Tracks
  <1>17. Follows({j}, lifeAt', "LIFETIME")
    <2> SUFFICES ASSUME NEW e \in Event, e.type = "LIFETIME", e.arg = j
                 PROVE  e \in queue' <=> lifeAt'[j] = e.time
      BY DEF Follows
    <2>1. e \in queue <=> lifeAt[j] = e.time
      BY DEF LifeInv, EventsTracked, Tracks
    <2>2. CASE started[j]
      <3>1. lifeAt'[j] = lifeAt[j]
        BY <1>1, <1>2, <2>2 DEF life
      <3>. QED
        BY <1>2, <1>10, <2>1, <2>2, <3>1
    <2>3. CASE ~ started[j]
      <3>1. e \notin queue
        BY <1>3, <2>1, <2>3, EventArg DEF JobAgrees, Handled
      <3>. QED
        BY <1>2, <1>9, <1>10, <2>3, <3>1 DEF Handled
    <2>. QED
      BY <2>2, <2>3
  <1>18. Follows({j}, validAt', "VALID_UNTIL")
    <2> SUFFICES ASSUME NEW e \in Event, e.type = "VALID_UNTIL", e.arg = j
                 PROVE  e \notin queue'
      BY <1>6, EventArg DEF Follows, Handled
    <2>1. e \in queue <=> validAt[j] = e.time
      BY DEF LifeInv, EventsTracked, Tracks
    <2>2. started[j] => e \notin queue
      BY <1>3, <2>1, EventArg DEF JobAgrees, Handled
    <2>. QED
      BY <1>2, <1>9, <1>10, <2>1, <2>2 DEF Handled
  <1>. QED
    BY <1>14, <1>15, <1>16, <1>17, <1>18, MoveLife

\* Evicted jobs trade their completion event for the end of a grace window.
LEMMA EvictLife ==
    ASSUME LifeInv, TypeInv', NEW S \in SUBSET running, NEW t \in Nat, NEW rest,
           Evict(S, t),
           rest = (queue \ Named(S, complAt, "JOB_COMPLETION"))
                  \cup Named(S, graceAt', "PREEMPTION_DONE"),
           \A e : e.type \in Followed => (e \in queue' <=> e \in rest),
           \A k \in Jobs : k \notin S => bank'[k] = bank[k],
           UNCHANGED <<pending, alloc, known, started, failReq, nextArr, lifeAt,
                       validAt>>
    PROVE  LifeInv'
  <1>1. /\ status \in [Jobs -> JobStatus] /\ running \subseteq Jobs
        /\ complAt \in [Jobs -> Nat \cup {None}]
        /\ graceAt' \in [Jobs -> Nat \cup {None}]
    BY DEF LifeInv, TypeInv, TypeOK
  <1>2. S \in SUBSET Jobs /\ \A k \in S : k \in Jobs /\ JobAgrees(k) /\ k \in running
    BY <1>1, JobAgreesNow
  <1>3. \A k \in S : /\ status'[k] = "PREEMPTED" /\ k \notin running' /\ k \in graced'
                     /\ complAt'[k] = None /\ graceAt'[k] = GraceEnd(k, t)
    BY <1>2 DEF Evict, Cleared
  <1>4. \A k \in S : graceAt'[k] # None
    <2> SUFFICES ASSUME NEW k \in S PROVE graceAt'[k] # None
      OBVIOUS
    <2>1. Job[k].save \in Nat
      BY <1>2, JobFields
    <2>. QED
      BY <1>3, <2>1 DEF GraceEnd
  <1>5. \A k \in S : JobAgrees(k)'
    <2> SUFFICES ASSUME NEW k \in S PROVE JobAgrees(k)'
      OBVIOUS
    <2>1. JobAgrees(k) /\ k \in running
      BY <1>2
    <2>2. /\ status[k] = "RUNNING" /\ k \notin pending /\ alloc[k] # {}
          /\ started[k] /\ k \in known /\ ~ failReq[k] /\ validAt[k] = None
      BY <2>1 DEF JobAgrees, Terminal
    <2>. QED
      BY <1>3, <1>4, <2>2 DEF JobAgrees, Terminal
  <1>6. \A k \in Jobs : k \notin S => Records(k)' = Records(k)
    BY <1>1 DEF Evict, Records, Cleared
  <1>7. \A e \in Event : e.type \in Handled =>
           /\ e \in Named(S, complAt, "JOB_COMPLETION") <=>
                e.type = "JOB_COMPLETION" /\ e.arg \in S /\ complAt[e.arg] = e.time
           /\ e \in Named(S, graceAt', "PREEMPTION_DONE") <=>
                e.type = "PREEMPTION_DONE" /\ e.arg \in S /\ graceAt'[e.arg] = e.time
    <2>. "JOB_COMPLETION" \in Handled /\ "PREEMPTION_DONE" \in Handled
      BY DEF Handled
    <2>1. \A e \in Event : e \in Named(S, complAt, "JOB_COMPLETION") <=>
             e.type = "JOB_COMPLETION" /\ e.arg \in S /\ complAt[e.arg] = e.time
      BY <1>1, <1>2, NamedMember
    <2>2. \A e \in Event : e \in Named(S, graceAt', "PREEMPTION_DONE") <=>
             e.type = "PREEMPTION_DONE" /\ e.arg \in S /\ graceAt'[e.arg] = e.time
      BY <1>1, <1>2, NamedMember
    <2>. QED
      BY <2>1, <2>2
  <1>8. \A e \in Event : e.type \in Handled =>
           (e \in queue' <=>
              \/ e \in queue /\ ~ (/\ e.type = "JOB_COMPLETION" /\ e.arg \in S
                                   /\ complAt[e.arg] = e.time)
              \/ /\ e.type = "PREEMPTION_DONE" /\ e.arg \in S
                 /\ graceAt'[e.arg] = e.time)
    BY <1>7 DEF Followed
  <1>9. \A e \in queue' : e.type = "JOB_ARRIVAL" => e \in queue
    BY DEF Named, Ev, Followed
  <1>10. MovesOnly(S)
    BY <1>5, <1>6, <1>8, <1>9 DEF MovesOnly
  <1>11. Follows(S, complAt', "JOB_COMPLETION")
    BY <1>3, <1>8, EventArg DEF Follows, Handled, LifeInv, EventsTracked, Tracks
  <1>12. Follows(S, graceAt', "PREEMPTION_DONE")
    <2> SUFFICES ASSUME NEW e \in Event, e.type = "PREEMPTION_DONE", e.arg \in S
                 PROVE  e \notin queue
      BY <1>8 DEF Follows, Handled
    <2>1. e \in queue <=> graceAt[e.arg] = e.time
      BY DEF LifeInv, EventsTracked, Tracks
    <2>2. graceAt[e.arg] = None
      BY <1>2 DEF JobAgrees
    <2>. QED
      BY <2>1, <2>2, EventArg DEF Handled
  <1>13. Follows(S, lifeAt', "LIFETIME")
    BY <1>8 DEF Follows, Handled, LifeInv, EventsTracked, Tracks
  <1>14. Follows(S, validAt', "VALID_UNTIL")
    BY <1>8 DEF Follows, Handled, LifeInv, EventsTracked, Tracks
  <1>. QED
    BY <1>2, <1>10, <1>11, <1>12, <1>13, <1>14, MoveLife

LEMMA PreemptRequeueLife ==
    ASSUME LifeInv, TypeInv', NEW v \in Jobs, NEW p, PreemptRequeue(v, p)
    PROVE  LifeInv'
  <1>1. v \in running /\ now \in Nat
    BY JobAgreesNow DEF PreemptRequeue, MayPreempt, LifeInv, TypeInv, TypeOK, JobAgrees
  <1>2. /\ Evict({v}, now) /\ {v} \in SUBSET running
        /\ queue' = (queue \ Named({v}, complAt, "JOB_COMPLETION"))
                      \cup Named({v}, graceAt', "PREEMPTION_DONE")
        /\ UNCHANGED <<pending, alloc, known, started, failReq, bank, nextArr,
                       lifeAt, validAt>>
    BY <1>1 DEF PreemptRequeue, workVars, loopVars
  <1>. QED
    BY <1>1, <1>2, EvictLife

LEMMA DrainGraceLife ==
    ASSUME LifeInv, TypeInv', NEW e \in queue, OnDrainGrace(e)
    PROVE  LifeInv'
  <1>1. e.time \in Nat /\ e.type = "DRAIN_GRACE"
    BY EventType DEF LifeInv, OnDrainGrace, Due
  <1>2. \A f : f.type \in Followed => (f \in queue \ {e} <=> f \in queue)
    BY <1>1 DEF Followed, Handled
  <1>3. CASE NoNodeEvent(queue \ {e})
    <2>1. QuietStep
      BY <1>2, <1>3 DEF NoNodeEvent, QuietStep, loopVars, workVars
    <2>. QED
      BY <2>1, QuietLife
  <1>4. CASE EndDrainGrace(e.arg, e.time, queue \ {e})
    <2> DEFINE n == e.arg
               S == Owners(n) \cap running
               E == IF Owners(n) = {} THEN {n} ELSE {}
               rest == (queue \ Named(S, complAt, "JOB_COMPLETION"))
                         \cup Named(S, graceAt', "PREEMPTION_DONE")
    <2>1. /\ Evict(S, e.time) /\ S \in SUBSET running
          /\ bank' = [k \in Jobs |-> bank[k] \/ k \in S]
          /\ queue' = ((queue \ {e}) \ Named(S, complAt, "JOB_COMPLETION"))
                       \cup Named(S, graceAt', "PREEMPTION_DONE")
                       \cup MaintDone(E, e.time)
          /\ UNCHANGED <<pending, alloc, known, started, failReq, nextArr,
                         lifeAt, validAt>>
      BY <1>4 DEF EndDrainGrace, loopVars
    <2>2. \A f : f.type \in Followed => (f \in queue' <=> f \in rest)
      <3>1. \A f : f.type \in Followed => f # e /\ f \notin MaintDone(E, e.time)
        BY <1>1, ServiceEvents DEF Followed, Handled
      <3>. QED
        BY <2>1, <3>1
    <2>3. \A k \in Jobs : k \notin S => bank'[k] = bank[k]
      <3>1. bank \in [Jobs -> BOOLEAN] /\ bank' \in [Jobs -> BOOLEAN]
        BY DEF LifeInv, TypeInv, TypeOK
      <3>. QED
        BY <2>1, <3>1
    <2> HIDE DEF S, E
    <2>. QED
      BY <1>1, <2>1, <2>2, <2>3, EvictLife
  <1>. QED
    BY <1>3, <1>4 DEF OnDrainGrace

-----------------------------------------------------------------------------
(* Requeueing: the end of a grace window and the failure of a node.           *)

LEMMA RequeueLife ==
    ASSUME LifeInv, TypeInv', NEW S \in SUBSET (running \cup graced),
           \A k \in S : /\ status'[k] = "PENDING" /\ k \in pending'
                        /\ k \notin running' /\ k \notin graced'
                        /\ alloc'[k] = {} /\ ~ bank'[k]
                        /\ complAt'[k] = None /\ graceAt'[k] = None,
           \A k \in Jobs : k \notin S => Records(k)' = Records(k),
           UNCHANGED <<known, started, nextArr, lifeAt, validAt>>,
           \A e \in queue' : e.type = "JOB_ARRIVAL" => e \in queue,
           \A e \in Event : e.type \in Handled =>
              (e \in queue' <=>
                 e \in queue /\ ~ (/\ e.type \in {"JOB_COMPLETION", "PREEMPTION_DONE"}
                                   /\ e.arg \in S))
    PROVE  LifeInv'
  <1>1. S \in SUBSET Jobs /\ \A k \in S : k \in Jobs /\ k \in running \cup graced
    BY DEF LifeInv, TypeInv, TypeOK
  <1>2. \A k \in S : JobAgrees(k)'
    <2> SUFFICES ASSUME NEW k \in S PROVE JobAgrees(k)'
      OBVIOUS
    <2>1. JobAgrees(k) /\ k \in running \cup graced
      BY <1>1, JobAgreesNow
    <2>2. started[k] /\ k \in known /\ validAt[k] = None
      BY <2>1 DEF JobAgrees
    <2>. QED
      BY <2>2 DEF JobAgrees, Terminal
  <1>3. MovesOnly(S)
    BY <1>2 DEF MovesOnly
  <1>4. /\ Follows(S, complAt', "JOB_COMPLETION")
        /\ Follows(S, graceAt', "PREEMPTION_DONE")
    BY EventArg DEF Follows, Handled
  <1>5. /\ Follows(S, lifeAt', "LIFETIME")
        /\ Follows(S, validAt', "VALID_UNTIL")
    BY DEF Follows, Handled, LifeInv, EventsTracked, Tracks
  <1>. QED
    BY <1>1, <1>3, <1>4, <1>5, MoveLife

LEMMA PreemptionDoneLife ==
    ASSUME LifeInv, TypeInv', NEW e \in queue, OnPreemptionDone(e)
    PROVE  LifeInv'
  <1> DEFINE j == e.arg
  <1>1. j \in Jobs /\ e.type = "PREEMPTION_DONE" /\ e \in Event /\ e.time # None
    BY EventType, EventArg
       DEF LifeInv, OnPreemptionDone, Due, JobEvents, TypeInv, TypeOK, Handled
  <1>2. graceAt[j] = e.time
    BY <1>1 DEF LifeInv, EventsTracked, Tracks
  <1>3. j \in graced /\ j \notin running /\ complAt[j] = None
    <2>1. JobAgrees(j)
      BY <1>1, JobAgreesNow
    <2>. QED
      BY <1>1, <1>2, <2>1 DEF JobAgrees
  <1>4. /\ status \in [Jobs -> JobStatus]
        /\ graceAt \in [Jobs -> Nat \cup {None}]
        /\ bank \in [Jobs -> BOOLEAN] /\ bank' \in [Jobs -> BOOLEAN]
    BY DEF LifeInv, TypeInv, TypeOK
  <1>5. /\ Interrupt({j}, e.time, bank)
        /\ alloc' = [k \in Jobs |-> IF k \in {j} THEN {} ELSE alloc[k]]
        /\ graceAt' = Cleared(graceAt, {j})
        /\ graced' = graced \ {j} /\ pending' = pending \cup {j}
        /\ status' = [status EXCEPT ![j] = "PENDING"]
        /\ UNCHANGED <<running, known, started, failReq, complAt, nextArr, lifeAt,
                       validAt>>
    BY DEF OnPreemptionDone, Release, loopVars
  <1>6. \A k \in Jobs : bank'[k] <=> bank[k] /\ k \notin {j}
    BY <1>1, <1>5, InterruptBank
  <1>7. /\ status'[j] = "PENDING" /\ j \in pending' /\ j \notin running'
        /\ j \notin graced' /\ alloc'[j] = {} /\ ~ bank'[j]
        /\ complAt'[j] = None /\ graceAt'[j] = None
    BY <1>1, <1>3, <1>4, <1>5, <1>6 DEF Cleared
  <1>8. \A k \in Jobs : k # j => Records(k)' = Records(k)
    <2>1. \A k \in Jobs : k # j => bank'[k] = bank[k]
      BY <1>4, <1>6
    <2>. QED
      BY <1>4, <1>5, <2>1 DEF Records, Cleared
  <1>9. \A f : f.type \in Followed => (f \in queue' <=> f \in queue \ {e})
    BY ServiceEvents DEF OnPreemptionDone
  <1>10. \A f \in Event : f.type \in Handled =>
           (f \in queue' <=>
              f \in queue /\ ~ (/\ f.type \in {"JOB_COMPLETION", "PREEMPTION_DONE"}
                                /\ f.arg \in {j}))
    <2> SUFFICES ASSUME NEW f \in Event, f.type \in Handled
                 PROVE  f = e <=>
                          /\ f \in queue /\ f.arg = j
                          /\ f.type \in {"JOB_COMPLETION", "PREEMPTION_DONE"}
      BY <1>9 DEF Followed
    <2>1. f.type = "JOB_COMPLETION" /\ f.arg = j => f \notin queue
      BY <1>3, EventArg DEF LifeInv, EventsTracked, Tracks, Handled
    <2>2. f.type = "PREEMPTION_DONE" /\ f.arg = j /\ f \in queue => f = e
      <3>1. f.type = "PREEMPTION_DONE" /\ f.arg = j /\ f \in queue =>
              f.time = e.time
        BY <1>2 DEF LifeInv, EventsTracked, Tracks
      <3>. QED
        BY <1>1, <3>1 DEF Event
    <2>. QED
      BY <1>1, <2>1, <2>2
  <1>11. \A f \in queue' : f.type = "JOB_ARRIVAL" => f \in queue
    BY <1>9 DEF Followed
  <1>12. {j} \in SUBSET (running \cup graced)
    BY <1>3
  <1> HIDE DEF j
  <1>. QED
    BY <1>5, <1>7, <1>8, <1>10, <1>11, <1>12, RequeueLife

LEMMA FailNodeLife ==
    ASSUME LifeInv, TypeInv', NEW n \in Nodes, NEW t \in Nat, NEW rest,
           FailNode(n, t, rest),
           \A e : e.type \in Followed => (e \in rest <=> e \in queue)
    PROVE  LifeInv'
  <1> DEFINE victims == Owners(n)
             noBank == [j \in Jobs |-> FALSE]
  <1>1. /\ status \in [Jobs -> JobStatus]
        /\ complAt \in [Jobs -> Nat \cup {None}]
        /\ graceAt \in [Jobs -> Nat \cup {None}]
        /\ bank \in [Jobs -> BOOLEAN] /\ bank' \in [Jobs -> BOOLEAN]
        /\ failReq \in [Jobs -> BOOLEAN]
    BY DEF LifeInv, TypeInv, TypeOK
  <1>2. victims \in SUBSET Jobs
    BY DEF Owners
  <1>3. victims \in SUBSET (running \cup graced)
    <2> SUFFICES ASSUME NEW k \in victims PROVE k \in running \cup graced
      OBVIOUS
    <2>1. JobAgrees(k) /\ alloc[k] # {}
      BY <1>2, JobAgreesNow DEF Owners
    <2>. QED
      BY <2>1 DEF JobAgrees
  <1>4. PICK d \in RepairDelays :
           queue' = (rest \ (Named(victims, complAt, "JOB_COMPLETION")
                             \cup Named(victims, graceAt, "PREEMPTION_DONE")))
                    \cup {Ev(t + d, "NODE_REPAIR", n)}
                    \cup MaintDone(Emptied(victims, maintWait \ {n}), t)
                    \cup WakeEvents(Boundary(t))
    BY DEF FailNode
  <1>5. /\ Interrupt(victims, t, noBank)
        /\ alloc' = [k \in Jobs |-> IF k \in victims THEN {} ELSE alloc[k]]
        /\ status' = [k \in Jobs |-> IF k \in victims THEN "PENDING" ELSE status[k]]
        /\ running' = running \ victims /\ graced' = graced \ victims
        /\ pending' = pending \cup victims
        /\ failReq' = [k \in Jobs |-> failReq[k] \/ k \in victims]
        /\ complAt' = Cleared(complAt, victims)
        /\ graceAt' = Cleared(graceAt, victims)
        /\ UNCHANGED <<known, started, nextArr, lifeAt, validAt>>
    BY DEF FailNode, Release, loopVars
  <1> HIDE DEF victims, noBank
  <1>6. \A k \in Jobs : bank'[k] <=> bank[k] /\ k \notin victims
    BY <1>2, <1>5, InterruptBank
  <1>7. \A k \in victims : /\ status'[k] = "PENDING" /\ k \in pending'
                           /\ k \notin running' /\ k \notin graced'
                           /\ alloc'[k] = {} /\ ~ bank'[k]
                           /\ complAt'[k] = None /\ graceAt'[k] = None
    BY <1>2, <1>5, <1>6 DEF Cleared
  <1>8. \A k \in Jobs : k \notin victims => Records(k)' = Records(k)
    <2>1. \A k \in Jobs : k \notin victims => bank'[k] = bank[k]
      BY <1>1, <1>6
    <2>2. \A k \in Jobs : k \notin victims => failReq'[k] = failReq[k]
      BY <1>1, <1>5
    <2>. QED
      BY <1>1, <1>5, <2>1, <2>2 DEF Records, Cleared
  <1>9. \A e : e.type \in Followed =>
           (e \in queue' <=>
              e \in queue \ (Named(victims, complAt, "JOB_COMPLETION")
                             \cup Named(victims, graceAt, "PREEMPTION_DONE")))
    <2>1. \A e : e.type \in Followed => e # Ev(t + d, "NODE_REPAIR", n)
      BY DEF Ev, Followed, Handled
    <2>. QED
      BY <1>4, <2>1, ServiceEvents
  <1>10. \A e \in Event : e.type \in Handled =>
           (e \in queue' <=>
              e \in queue /\ ~ (/\ e.type \in {"JOB_COMPLETION", "PREEMPTION_DONE"}
                                /\ e.arg \in victims))
    <2> SUFFICES ASSUME NEW e \in Event, e.type \in Handled, e \in queue
                 PROVE  e \in Named(victims, complAt, "JOB_COMPLETION")
                               \cup Named(victims, graceAt, "PREEMPTION_DONE")
                          <=> /\ e.type \in {"JOB_COMPLETION", "PREEMPTION_DONE"}
                              /\ e.arg \in victims
      BY <1>9 DEF Followed
    <2>. "JOB_COMPLETION" \in Handled /\ "PREEMPTION_DONE" \in Handled
      BY DEF Handled
    <2>1. e \in Named(victims, complAt, "JOB_COMPLETION") <=>
             e.type = "JOB_COMPLETION" /\ e.arg \in victims /\ complAt[e.arg] = e.time
      BY <1>1, <1>2, NamedMember
    <2>2. e \in Named(victims, graceAt, "PREEMPTION_DONE") <=>
             e.type = "PREEMPTION_DONE" /\ e.arg \in victims /\ graceAt[e.arg] = e.time
      BY <1>1, <1>2, NamedMember
    <2>3. /\ e.type = "JOB_COMPLETION" => complAt[e.arg] = e.time
          /\ e.type = "PREEMPTION_DONE" => graceAt[e.arg] = e.time
      BY DEF LifeInv, EventsTracked, Tracks
    <2>. QED
      BY <2>1, <2>2, <2>3
  <1>11. \A e \in queue' : e.type = "JOB_ARRIVAL" => e \in queue
    BY <1>9 DEF Followed
  <1>. QED
    BY <1>3, <1>5, <1>7, <1>8, <1>10, <1>11, RequeueLife

LEMMA FailureLife ==
    ASSUME LifeInv, TypeInv', NEW e \in queue, OnFailure(e) \/ OnForcedFailure(e)
    PROVE  LifeInv'
  <1>1. ASSUME NEW rest, NoNodeEvent(rest),
               \A f : f.type \in Followed => (f \in rest <=> f \in queue)
        PROVE  LifeInv'
    <2>1. QuietStep
      BY <1>1 DEF NoNodeEvent, QuietStep, loopVars, workVars
    <2>. QED
      BY <2>1, QuietLife
  <1>2. e.time \in Nat
    BY EventType DEF LifeInv
  <1>3. CASE OnFailure(e)
    <2> DEFINE rest == (queue \ {e}) \cup Armed("NODE_FAILURE", None, failureAt')
    <2>1. \A f : f.type \in Followed => (f \in rest <=> f \in queue)
      BY <1>3, OtherEvents DEF OnFailure, Due, Followed, Handled, LoopEvents
    <2>2. NoNodeEvent(rest) \/ \E n \in hazard : FailNode(n, e.time, rest)
      BY <1>3 DEF OnFailure
    <2>3. hazard \subseteq Nodes
      BY DEF LifeInv, TypeInv, TypeOK
    <2> HIDE DEF rest
    <2>. QED
      BY <1>1, <1>2, <2>1, <2>2, <2>3, FailNodeLife
  <1>4. CASE OnForcedFailure(e)
    <2>1. \A f : f.type \in Followed => (f \in queue \ {e} <=> f \in queue)
      BY <1>4 DEF OnForcedFailure, Due, Followed, Handled
    <2>2. e.arg \in Nodes
      BY <1>4, EventType DEF OnForcedFailure, Due, NodeEvents, LifeInv
    <2>. QED
      BY <1>1, <1>2, <1>4, <2>1, <2>2, FailNodeLife DEF OnForcedFailure
  <1>. QED
    BY <1>3, <1>4

-----------------------------------------------------------------------------
(* The step and the theorems. *)

LEMMA NextLife == LifeInv /\ [Next]_vars => LifeInv'
  <1> SUFFICES ASSUME LifeInv, [Next]_vars PROVE LifeInv'
    OBVIOUS
  <1>1. TypeInv'
    BY NextType DEF LifeInv
  <1>2. ASSUME Turn PROVE LifeInv'
    <2>1. ASSUME NEW e \in queue,
                 OnFlush(e) \/ OnWake(e) \/ OnRepair(e) \/ OnMaintenance(e)
                   \/ OnForcedDrain(e)
          PROVE  LifeInv'
      BY <1>1, <2>1, QuietTurn, QuietLife
    <2>. QED
      BY <1>1, <1>2, <2>1, CompletionLife, FailureLife, PreemptionDoneLife,
         ArrivalLife, DrainGraceLife, ValidUntilLife, LifetimeLife DEF Turn
  <1>3. ASSUME InWake PROVE LifeInv'
    <2>1. ASSUME BuildView \/ EndWake PROVE LifeInv'
      BY <1>1, <2>1, QuietWake, QuietLife
    <2>. QED
      BY <1>1, <1>3, <2>1, RefillLife, PlaceLife, PreemptRequeueLife,
         PreemptCancelLife DEF InWake
  <1>4. ASSUME Finalize \/ UNCHANGED vars PROVE LifeInv'
    BY <1>1, <1>4, QuietWake, QuietLife
  <1>. QED
    BY <1>2, <1>3, <1>4 DEF Next, Stopped

LEMMA LifeInvariant == Spec => []LifeInv
  BY InitLife, NextLife, PTL DEF Spec

\* In every scenario and under every scheduler, the status of a job, the three
\* job tables, the allocations and the flags of _JobRt tell the same story
\* after every handler: no job is in two tables, holds chips while it waits, or
\* keeps a drain's bank flag past its grace window.
THEOREM LifecycleSound == Spec => []LifecycleAgrees
  <1>1. LifeInv => LifecycleAgrees
    BY DEF LifeInv
  <1>. QED
    BY <1>1, LifeInvariant, PTL

\* Lazy cancellation is exact for every scenario: a tombstoned event never
\* fires for a job that has moved on, and no running or leaving job is left
\* without the event that will end its state.
THEOREM CancellationExact == Spec => []EventsMatchHandles
  <1>1. LifeInv => EventsMatchHandles
    <2> SUFFICES ASSUME LifeInv PROVE EventsMatchHandles
      OBVIOUS
    <2>1. /\ complAt \in [Jobs -> Nat \cup {None}]
          /\ graceAt \in [Jobs -> Nat \cup {None}]
          /\ lifeAt \in [Jobs -> Nat \cup {None}]
          /\ validAt \in [Jobs -> Nat \cup {None}] /\ TypeInv
      BY DEF LifeInv, TypeInv, TypeOK
    <2>2. /\ "JOB_COMPLETION" \in Handled /\ "PREEMPTION_DONE" \in Handled
          /\ "LIFETIME" \in Handled /\ "VALID_UNTIL" \in Handled
      BY DEF Handled
    <2>3. /\ Tracks(complAt, "JOB_COMPLETION") /\ Tracks(graceAt, "PREEMPTION_DONE")
          /\ Tracks(lifeAt, "LIFETIME") /\ Tracks(validAt, "VALID_UNTIL")
      BY DEF LifeInv, EventsTracked
    <2>4. \A j \in Jobs :
            EventsOf(j, "JOB_COMPLETION") = Named({j}, complAt, "JOB_COMPLETION")
      BY <2>1, <2>2, <2>3, TracksEquality
    <2>5. \A j \in Jobs :
            EventsOf(j, "PREEMPTION_DONE") = Named({j}, graceAt, "PREEMPTION_DONE")
      BY <2>1, <2>2, <2>3, TracksEquality
    <2>6. \A j \in Jobs : EventsOf(j, "LIFETIME") = Named({j}, lifeAt, "LIFETIME")
      BY <2>1, <2>2, <2>3, TracksEquality
    <2>7. \A j \in Jobs :
            EventsOf(j, "VALID_UNTIL") = Named({j}, validAt, "VALID_UNTIL")
      BY <2>1, <2>2, <2>3, TracksEquality
    <2>. QED
      BY <2>4, <2>5, <2>6, <2>7 DEF LifeInv, HandlesLinked, EventsMatchHandles
  <1>. QED
    BY <1>1, LifeInvariant, PTL
-----------------------------------------------------------------------------
(* The engine implements the abstract life of a job (module JobLife): under   *)
(* the mapping of module Engine its initial states are initial states of      *)
(* JobLife, and each of its steps is a step of JobLife or leaves life and     *)
(* work alone.  The proof is about one job at a time: in every handler each   *)
(* job makes one move of JobLife.                                             *)

(* The mapping, read off the tables the engine keeps. *)

\* The state of a job in JobLife is the table the job is in; a finished job is
\* in none and its status says how it ended.
Maps(j) ==
    /\ LifeOf(j) = "new" <=> j \notin known
    /\ LifeOf(j) = "queued" <=> j \in pending
    /\ LifeOf(j) = "running" <=> j \in running
    /\ LifeOf(j) = "leaving" <=> j \in graced
    /\ LifeOf(j) = "completed" <=> status[j] = "COMPLETED"
    /\ LifeOf(j) = "over" <=> status[j] \in Terminal \ {"COMPLETED"}
    /\ LifeOf(j) \in {"new", "queued", "running", "leaving", "completed", "over"}

\* The cases of LifeOf exclude one another because the records agree.
LEMMA MapsNow ==
    ASSUME LifeInv, NEW j \in Jobs
    PROVE  Maps(j)
  <1>1. JobAgrees(j) /\ status[j] \in JobStatus
    BY JobAgreesNow DEF LifeInv, TypeInv, TypeOK
  <1>2. CASE j \notin known
    BY <1>1, <1>2 DEF JobAgrees, Maps, LifeOf, Terminal
  <1>3. CASE j \in pending
    BY <1>1, <1>3 DEF JobAgrees, Maps, LifeOf, Terminal
  <1>4. CASE j \in running
    BY <1>1, <1>4 DEF JobAgrees, Maps, LifeOf, Terminal
  <1>5. CASE j \in graced
    BY <1>1, <1>5 DEF JobAgrees, Maps, LifeOf, Terminal
  <1>6. CASE /\ j \in known /\ j \notin pending /\ j \notin running
             /\ j \notin graced
    <2>1. status[j] \in Terminal
      BY <1>1, <1>6 DEF JobAgrees, JobStatus, Terminal
    <2>. QED
      BY <1>6, <2>1 DEF Maps, LifeOf, Terminal
  <1>. QED
    BY <1>2, <1>3, <1>4, <1>5, <1>6

\* The same after a step, which preserves the invariant.
LEMMA MapsNext ==
    ASSUME LifeInv', NEW j \in Jobs
    PROVE  Maps(j)'
  <1>1. JobAgrees(j)' /\ status'[j] \in JobStatus
    BY DEF LifeInv, LifecycleAgrees, HandlesLinked, JobAgrees, TypeInv, TypeOK
  <1>2. CASE j \notin known'
    BY <1>1, <1>2 DEF JobAgrees, Maps, LifeOf, Terminal
  <1>3. CASE j \in pending'
    BY <1>1, <1>3 DEF JobAgrees, Maps, LifeOf, Terminal
  <1>4. CASE j \in running'
    BY <1>1, <1>4 DEF JobAgrees, Maps, LifeOf, Terminal
  <1>5. CASE j \in graced'
    BY <1>1, <1>5 DEF JobAgrees, Maps, LifeOf, Terminal
  <1>6. CASE /\ j \in known' /\ j \notin pending' /\ j \notin running'
             /\ j \notin graced'
    <2>1. status'[j] \in Terminal
      BY <1>1, <1>6 DEF JobAgrees, JobStatus, Terminal
    <2>. QED
      BY <1>6, <2>1 DEF Maps, LifeOf, Terminal
  <1>. QED
    BY <1>2, <1>3, <1>4, <1>5, <1>6

-----------------------------------------------------------------------------
(* The moves of one job. *)

\* JobLife's Step, of the mapped variables.
Move(before, after, w, w2, total) ==
    \/ /\ before \in {"running", "leaving"} /\ after \in {"queued", "over"}
       /\ w <= w2 /\ w2 <= total
    \/ before = "running" /\ after = "completed" /\ w2 = total
    \/ /\ w2 = w
       /\ \/ before = "new" /\ after \in {"queued", "over"}
          \/ before = "queued" /\ after = "running"
          \/ before = "running" /\ after = "leaving"
          \/ before = "queued" /\ after = "over"
          \/ after = before

Moves(j) == Move(LifeOf(j), LifeOf(j)', kept[j], kept'[j], Job[j].total)

\* A handler that leaves the records of a job alone leaves its life alone.
StaysPut(j) ==
    /\ status'[j] = status[j] /\ kept'[j] = kept[j]
    /\ j \in known' <=> j \in known
    /\ j \in pending' <=> j \in pending
    /\ j \in running' <=> j \in running
    /\ j \in graced' <=> j \in graced

LEMMA StayMoves ==
    ASSUME NEW j \in Jobs, StaysPut(j)
    PROVE  Moves(j)
  <1>1. LifeOf(j)' = LifeOf(j)
    BY DEF StaysPut, LifeOf
  <1>. QED
    BY <1>1 DEF Moves, Move, StaysPut

\* A handler that touches no job at all.
LEMMA QuietMoves ==
    ASSUME QuietStep, kept' = kept, NEW j \in Jobs
    PROVE  Moves(j)
  <1>1. StaysPut(j)
    BY DEF QuietStep, StaysPut, jobVars
  <1>. QED
    BY <1>1, StayMoves

\* Submission: a new job is queued or refused.
LEMMA SubmitMoves ==
    ASSUME LifeInv, LifeInv', NEW j \in Jobs, j \notin known, NEW t,
           SubmitInvalid(j) \/ SubmitRejected(j) \/ SubmitAdmitted(j, t),
           SubmitUnchanged, NEW k \in Jobs
    PROVE  Moves(k)
  <1>1. status \in [Jobs -> JobStatus]
    BY DEF LifeInv, TypeInv, TypeOK
  <1>2. kept' = kept /\ running' = running /\ graced' = graced
    BY DEF SubmitUnchanged, workVars
  <1>3. known' = known \cup {j}
    BY DEF SubmitInvalid, SubmitRejected, SubmitAdmitted
  <1>4. CASE k = j
    <2>1. status'[j] = "FAILED" \/ j \in pending'
      BY <1>1 DEF SubmitInvalid, SubmitRejected, SubmitAdmitted
    <2>2. LifeOf(j) = "new" /\ LifeOf(j)' \in {"queued", "over"}
      BY <2>1, MapsNow, MapsNext DEF Maps, Terminal
    <2>. QED
      BY <1>2, <1>4, <2>2 DEF Moves, Move
  <1>5. CASE k # j
    <2>1. status'[k] = status[k] /\ (k \in pending' <=> k \in pending)
      BY <1>1, <1>5 DEF SubmitInvalid, SubmitRejected, SubmitAdmitted
    <2>. QED
      BY <1>2, <1>3, <1>5, <2>1, StayMoves DEF StaysPut
  <1>. QED
    BY <1>4, <1>5

\* The end of job j: its place before and the work it keeps decide the move.
LEMMA FinishMoves ==
    ASSUME LifeInv, LifeInv', NEW j \in known, NEW t, NEW final \in Terminal,
           NEW popped, Finish(j, t, final, popped),
           \A k \in Jobs : k # j => kept'[k] = kept[k],
           \/ /\ j \in running \cup graced /\ final # "COMPLETED"
              /\ kept[j] <= kept'[j] /\ kept'[j] <= Job[j].total
           \/ j \in running /\ final = "COMPLETED" /\ kept'[j] = Job[j].total
           \/ j \in pending /\ final # "COMPLETED" /\ kept'[j] = kept[j],
           NEW k \in Jobs
    PROVE  Moves(k)
  <1>1. status \in [Jobs -> JobStatus] /\ j \in Jobs
    BY DEF LifeInv, TypeInv, TypeOK
  <1>2. /\ status' = [status EXCEPT ![j] = final]
        /\ pending' = pending \ {j} /\ running' = running \ {j}
        /\ graced' = graced \ {j} /\ known' = known
    BY DEF Finish
  <1>3. CASE k = j
    <2>1. status'[j] = final
      BY <1>1, <1>2
    <2>2. LifeOf(j)' = IF final = "COMPLETED" THEN "completed" ELSE "over"
      BY <1>1, <2>1, MapsNext DEF Maps
    <2>3. Maps(j)
      BY <1>1, MapsNow
    <2>. QED
      BY <1>3, <2>2, <2>3 DEF Moves, Move, Maps
  <1>4. CASE k # j
    BY <1>1, <1>2, <1>4, StayMoves DEF StaysPut
  <1>. QED
    BY <1>3, <1>4

LEMMA CompletionMoves ==
    ASSUME LifeInv, LifeInv', NEW e \in queue, OnCompletion(e), NEW k \in Jobs
    PROVE  Moves(k)
  <1>1. e.arg \in Jobs /\ e.time \in Nat /\ e.type = "JOB_COMPLETION" /\ e \in Event
    BY EventType DEF LifeInv, OnCompletion, Due, JobEvents, TypeInv, TypeOK
  <1>2. complAt[e.arg] = e.time /\ e.time # None
    BY <1>1, EventArg DEF LifeInv, EventsTracked, Tracks, Handled
  <1>3. e.arg \in running /\ e.arg \in known
    BY <1>1, <1>2, JobAgreesNow DEF JobAgrees
  <1>4. Job[e.arg].final \in Terminal /\ Job[e.arg].total \in Nat
    BY <1>1, JobFields
  <1>5. /\ kept' = [kept EXCEPT ![e.arg] = Job[e.arg].total]
        /\ Finish(e.arg, e.time, Job[e.arg].final, {e})
    BY DEF OnCompletion
  <1>6. kept \in [Jobs -> Nat] /\ kept[e.arg] <= Job[e.arg].total
    BY <1>1 DEF LifeInv, TypeInv, TypeOK, WorkBounded
  <1>7. /\ kept'[e.arg] = Job[e.arg].total
        /\ \A i \in Jobs : i # e.arg => kept'[i] = kept[i]
    BY <1>1, <1>5, <1>6
  <1>. QED
    BY <1>1, <1>3, <1>4, <1>5, <1>6, <1>7, FinishMoves

LEMMA ValidUntilMoves ==
    ASSUME LifeInv, LifeInv', NEW e \in queue, OnValidUntil(e), NEW k \in Jobs
    PROVE  Moves(k)
  <1>1. e.arg \in Jobs /\ e.time \in Nat /\ e.type = "VALID_UNTIL" /\ e \in Event
    BY EventType DEF LifeInv, OnValidUntil, Due, JobEvents, TypeInv, TypeOK
  <1>2. validAt[e.arg] = e.time /\ e.time # None
    BY <1>1, EventArg DEF LifeInv, EventsTracked, Tracks, Handled
  <1>3. /\ e.arg \in known /\ e.arg \in pending
        /\ ~ started[e.arg] /\ status[e.arg] \notin Terminal
    BY <1>1, <1>2, JobAgreesNow DEF JobAgrees, Terminal
  <1>4. kept' = kept /\ Finish(e.arg, e.time, "FAILED", {e})
    BY <1>3 DEF OnValidUntil
  <1>. QED
    BY <1>3, <1>4, FinishMoves DEF Terminal

\* A job cut short outside S keeps its work; one of S keeps part of its stint.
LEMMA InterruptKeeps ==
    ASSUME LifeInv, NEW S \in SUBSET Jobs, NEW t \in Nat,
           NEW b \in [Jobs -> BOOLEAN], Interrupt(S, t, b), NEW k \in Jobs
    PROVE  /\ k \notin S => kept'[k] = kept[k]
           /\ kept[k] <= kept'[k] /\ kept'[k] <= Job[k].total
  <1>1. WorkBounded' /\ kept[k] <= kept'[k]
    BY InterruptType DEF LifeInv
  <1>. QED
    BY <1>1 DEF Interrupt, WorkBounded

LEMMA LifetimeMoves ==
    ASSUME LifeInv, LifeInv', NEW e \in queue, OnLifetime(e), NEW k \in Jobs
    PROVE  Moves(k)
  <1> DEFINE j == e.arg
             S == {i \in {j} : status[i] \in {"RUNNING", "PREEMPTED"}}
  <1>1. j \in Jobs /\ e.time \in Nat /\ e.type = "LIFETIME" /\ e \in Event
    BY EventType DEF LifeInv, OnLifetime, Due, JobEvents, TypeInv, TypeOK
  <1>2. lifeAt[j] = e.time /\ e.time # None
    BY <1>1, EventArg DEF LifeInv, EventsTracked, Tracks, Handled
  <1>3. JobAgrees(j) /\ bank \in [Jobs -> BOOLEAN] /\ status[j] \in JobStatus
    BY <1>1, JobAgreesNow DEF LifeInv, TypeInv, TypeOK
  <1>4. j \in known /\ status[j] \notin Terminal
    BY <1>2, <1>3 DEF JobAgrees
  <1>5. Interrupt(S, e.time, bank) /\ Finish(j, e.time, "TIMEOUT", {e})
    BY <1>4 DEF OnLifetime
  <1>6. S \in SUBSET Jobs /\ (j \in S <=> j \in running \cup graced)
          /\ (j \in pending <=> j \notin S)
    BY <1>1, <1>3, <1>4 DEF JobAgrees, JobStatus, Terminal
  <1>7. \A i \in Jobs : i # j => i \notin S
    OBVIOUS
  <1> HIDE DEF j, S
  <1>8. /\ \A i \in Jobs : i # j => kept'[i] = kept[i]
        /\ j \notin S => kept'[j] = kept[j]
        /\ kept[j] <= kept'[j] /\ kept'[j] <= Job[j].total
    BY <1>1, <1>3, <1>5, <1>6, <1>7, InterruptKeeps
  <1>. QED
    BY <1>4, <1>5, <1>6, <1>8, FinishMoves DEF Terminal

LEMMA PreemptCancelMoves ==
    ASSUME LifeInv, LifeInv', NEW v \in Jobs, NEW p, PreemptCancel(v, p),
           NEW k \in Jobs
    PROVE  Moves(k)
  <1>1. /\ JobAgrees(v) /\ status[v] = "RUNNING" /\ now \in Nat
        /\ bank \in [Jobs -> BOOLEAN]
    BY JobAgreesNow DEF PreemptCancel, MayPreempt, LifeInv, TypeInv, TypeOK
  <1>2. Interrupt({v}, now, bank) /\ Finish(v, now, "CANCELED", {})
    BY DEF PreemptCancel
  <1>3. v \in known /\ v \in running
    BY <1>1 DEF JobAgrees
  <1>4. /\ \A i \in Jobs : i # v => kept'[i] = kept[i]
        /\ kept[v] <= kept'[v] /\ kept'[v] <= Job[v].total
    BY <1>1, <1>2, InterruptKeeps
  <1>. QED
    BY <1>2, <1>3, <1>4, FinishMoves DEF Terminal

-----------------------------------------------------------------------------
(* Placement, preemption and requeueing. *)

LEMMA PlaceMoves ==
    ASSUME LifeInv, LifeInv', NEW j \in Jobs, NEW S \in SUBSET Nodes, Place(j, S),
           NEW k \in Jobs
    PROVE  Moves(k)
  <1>1. status \in [Jobs -> JobStatus]
    BY DEF LifeInv, TypeInv, TypeOK
  <1>2. /\ j \in pending
        /\ pending' = pending \ {j} /\ running' = running \cup {j}
        /\ status' = [status EXCEPT ![j] = "RUNNING"]
        /\ graced' = graced /\ known' = known /\ kept' = kept
    BY DEF Place
  <1>3. CASE k = j
    <2>1. LifeOf(j) = "queued" /\ LifeOf(j)' = "running"
      BY <1>2, MapsNow, MapsNext DEF Maps
    <2>. QED
      BY <1>2, <1>3, <2>1 DEF Moves, Move
  <1>4. CASE k # j
    BY <1>1, <1>2, <1>4, StayMoves DEF StaysPut
  <1>. QED
    BY <1>3, <1>4

\* A grace window begins; work is settled when it ends.
LEMMA EvictMoves ==
    ASSUME LifeInv, LifeInv', NEW S \in SUBSET running, NEW t, Evict(S, t),
           UNCHANGED <<pending, known, kept>>, NEW k \in Jobs
    PROVE  Moves(k)
  <1>1. CASE k \in S
    <2>1. k \in running /\ k \in graced'
      BY <1>1 DEF Evict
    <2>2. LifeOf(k) = "running" /\ LifeOf(k)' = "leaving"
      BY <2>1, MapsNow, MapsNext DEF Maps
    <2>. QED
      BY <2>2 DEF Moves, Move
  <1>2. CASE k \notin S
    BY <1>2, StayMoves DEF StaysPut, Evict
  <1>. QED
    BY <1>1, <1>2

\* The jobs of S leave their chips for the queue with part of their work.
LEMMA RequeueMoves ==
    ASSUME LifeInv, LifeInv', NEW S \in SUBSET (running \cup graced),
           NEW t \in Nat, NEW b \in [Jobs -> BOOLEAN], Interrupt(S, t, b),
           status' = [i \in Jobs |-> IF i \in S THEN "PENDING" ELSE status[i]],
           pending' = pending \cup S, running' = running \ S,
           graced' = graced \ S, known' = known, NEW k \in Jobs
    PROVE  Moves(k)
  <1>1. S \in SUBSET Jobs
    BY DEF LifeInv, TypeInv, TypeOK
  <1>2. /\ k \notin S => kept'[k] = kept[k]
        /\ kept[k] <= kept'[k] /\ kept'[k] <= Job[k].total
    BY <1>1, InterruptKeeps
  <1>3. CASE k \in S
    <2>1. LifeOf(k) \in {"running", "leaving"}
      BY <1>3, MapsNow DEF Maps
    <2>2. LifeOf(k)' = "queued"
      BY <1>3, MapsNext DEF Maps
    <2>. QED
      BY <1>2, <2>1, <2>2 DEF Moves, Move
  <1>4. CASE k \notin S
    BY <1>2, <1>4, StayMoves DEF StaysPut
  <1>. QED
    BY <1>3, <1>4

LEMMA PreemptionDoneMoves ==
    ASSUME LifeInv, LifeInv', NEW e \in queue, OnPreemptionDone(e), NEW k \in Jobs
    PROVE  Moves(k)
  <1> DEFINE j == e.arg
  <1>1. /\ j \in Jobs /\ e.type = "PREEMPTION_DONE" /\ e \in Event
        /\ e.time # None /\ e.time \in Nat
    BY EventType, EventArg
       DEF LifeInv, OnPreemptionDone, Due, JobEvents, TypeInv, TypeOK, Handled
  <1>2. graceAt[j] = e.time
    BY <1>1 DEF LifeInv, EventsTracked, Tracks
  <1>3. j \in graced /\ j \notin running
    <2>1. JobAgrees(j)
      BY <1>1, JobAgreesNow
    <2>. QED
      BY <1>1, <1>2, <2>1 DEF JobAgrees
  <1>4. status \in [Jobs -> JobStatus] /\ bank \in [Jobs -> BOOLEAN]
    BY DEF LifeInv, TypeInv, TypeOK
  <1>5. /\ Interrupt({j}, e.time, bank)
        /\ graced' = graced \ {j} /\ pending' = pending \cup {j}
        /\ status' = [status EXCEPT ![j] = "PENDING"]
        /\ running' = running /\ known' = known
    BY DEF OnPreemptionDone
  <1>6. /\ running' = running \ {j} /\ {j} \in SUBSET (running \cup graced)
        /\ status' = [i \in Jobs |-> IF i \in {j} THEN "PENDING" ELSE status[i]]
    BY <1>3, <1>4, <1>5
  <1> HIDE DEF j
  <1>. QED
    BY <1>1, <1>4, <1>5, <1>6, RequeueMoves

LEMMA FailNodeMoves ==
    ASSUME LifeInv, LifeInv', NEW n \in Nodes, NEW t \in Nat, NEW rest,
           FailNode(n, t, rest), NEW k \in Jobs
    PROVE  Moves(k)
  <1> DEFINE victims == Owners(n)
             noBank == [j \in Jobs |-> FALSE]
  <1>1. victims \in SUBSET (running \cup graced)
    <2> SUFFICES ASSUME NEW i \in victims PROVE i \in running \cup graced
      OBVIOUS
    <2>1. i \in Jobs /\ alloc[i] # {}
      BY DEF Owners
    <2>. QED
      BY <2>1, JobAgreesNow DEF JobAgrees
  <1>2. /\ Interrupt(victims, t, noBank)
        /\ status' = [i \in Jobs |-> IF i \in victims THEN "PENDING" ELSE status[i]]
        /\ running' = running \ victims /\ graced' = graced \ victims
        /\ pending' = pending \cup victims /\ known' = known
    BY DEF FailNode
  <1>3. noBank \in [Jobs -> BOOLEAN]
    OBVIOUS
  <1> HIDE DEF victims, noBank
  <1>. QED
    BY <1>1, <1>2, <1>3, RequeueMoves

-----------------------------------------------------------------------------
(* The step and the theorem. *)

LEMMA TurnMoves ==
    ASSUME LifeInv, LifeInv', Turn, NEW k \in Jobs
    PROVE  Moves(k)
  <1>1. ASSUME NEW rest, NoNodeEvent(rest) PROVE Moves(k)
    BY <1>1, StayMoves DEF NoNodeEvent, StaysPut, jobVars, workVars
  <1>2. ASSUME NEW e \in queue,
               OnFlush(e) \/ OnWake(e) \/ OnRepair(e) \/ OnMaintenance(e)
                 \/ OnForcedDrain(e)
        PROVE  Moves(k)
    <2>1. kept' = kept
      BY <1>2 DEF OnFlush, OnWake, OnRepair, OnMaintenance, OnForcedDrain,
                  DrainNode, NoNodeEvent, workVars
    <2>. QED
      BY <1>2, <2>1, QuietTurn, QuietMoves
  <1>3. ASSUME NEW e \in queue, OnFailure(e) \/ OnForcedFailure(e)
        PROVE  Moves(k)
    <2>1. /\ e.time \in Nat /\ hazard \subseteq Nodes
          /\ OnForcedFailure(e) => e.arg \in Nodes
      BY EventType DEF LifeInv, TypeInv, TypeOK, OnForcedFailure, Due, NodeEvents
    <2>. QED
      BY <1>1, <1>3, <2>1, FailNodeMoves DEF OnFailure, OnForcedFailure
  <1>4. ASSUME NEW e \in queue, OnDrainGrace(e) PROVE Moves(k)
    <2>1. CASE EndDrainGrace(e.arg, e.time, queue \ {e})
      <3>1. /\ Evict(Owners(e.arg) \cap running, e.time)
            /\ UNCHANGED <<pending, known, kept>>
        BY <2>1 DEF EndDrainGrace
      <3>. QED
        BY <3>1, EvictMoves
    <2>. QED
      BY <1>1, <1>4, <2>1 DEF OnDrainGrace
  <1>5. ASSUME NEW e \in queue, OnArrival(e) PROVE Moves(k)
    <2>1. /\ e.arg \in Jobs /\ e.arg \notin known
          /\ SubmitInvalid(e.arg) \/ SubmitRejected(e.arg)
               \/ SubmitAdmitted(e.arg, e.time)
          /\ SubmitUnchanged
      BY <1>5, EventType DEF LifeInv, ArrivalsFresh, OnArrival, Due, JobEvents
    <2>. QED
      BY <2>1, SubmitMoves
  <1>. QED
    BY <1>2, <1>3, <1>4, <1>5, CompletionMoves, PreemptionDoneMoves,
       ValidUntilMoves, LifetimeMoves DEF Turn

LEMMA InWakeMoves ==
    ASSUME LifeInv, LifeInv', InWake, NEW k \in Jobs
    PROVE  Moves(k)
  <1>1. ASSUME BuildView \/ EndWake PROVE Moves(k)
    <2>1. kept' = kept
      BY <1>1 DEF BuildView, EndWake, workVars
    <2>. QED
      BY <1>1, <2>1, QuietWake, QuietMoves
  <1>2. ASSUME NEW j \in Jobs, Refill(j) PROVE Moves(k)
    BY <1>2, SubmitMoves DEF Refill
  <1>3. ASSUME NEW v \in Jobs, NEW p, PreemptRequeue(v, p) PROVE Moves(k)
    <2>1. v \in running
      BY <1>3, JobAgreesNow DEF PreemptRequeue, MayPreempt, JobAgrees
    <2>2. Evict({v}, now) /\ UNCHANGED <<pending, known, kept>>
      BY <1>3 DEF PreemptRequeue, workVars
    <2>. QED
      BY <2>1, <2>2, EvictMoves
  <1>. QED
    BY <1>1, <1>2, <1>3, PlaceMoves, PreemptCancelMoves DEF InWake

\* Every step of the engine moves every job as JobLife allows.
LEMMA NextMoves ==
    ASSUME LifeInv, LifeInv', [Next]_vars, NEW k \in Jobs
    PROVE  Moves(k)
  <1>1. ASSUME Finalize \/ UNCHANGED vars PROVE Moves(k)
    <2>1. kept' = kept
      BY <1>1 DEF Finalize, vars, workVars
    <2>. QED
      BY <1>1, <2>1, QuietWake, QuietMoves
  <1>. QED
    BY <1>1, TurnMoves, InWakeMoves DEF Next, Stopped

\* The moves of the jobs, taken together, are a step of JobLife.
LEMMA MovesImplement ==
    ASSUME LifeInv', \A j \in Jobs : Moves(j)
    PROVE  Life!Next
  <1> DEFINE life == [j \in Jobs |-> LifeOf(j)]
             life2 == [j \in Jobs |-> LifeOf(j)']
  <1>1. life' = life2
    OBVIOUS
  <1>2. life2 \in [Jobs -> Life!States] /\ kept' \in [Jobs -> Nat]
    <2>1. \A j \in Jobs : LifeOf(j)' \in Life!States
      BY MapsNext DEF Maps, Life!States
    <2>. QED
      BY <2>1 DEF LifeInv, TypeInv, TypeOK
  <1>3. ASSUME NEW j \in Jobs PROVE Life!Step(j)
    <2>1. Moves(j)
      OBVIOUS
    <2>2. life[j] = LifeOf(j) /\ life'[j] = LifeOf(j)'
      BY <1>1
    <2>3. [i \in Jobs |-> Job[i].total][j] = Job[j].total
      OBVIOUS
    <2>4. Move(life[j], life'[j], kept[j], kept'[j],
               [i \in Jobs |-> Job[i].total][j])
      BY <2>1, <2>2, <2>3 DEF Moves
    <2>. QED
      BY <2>4 DEF Move, Life!Step, Life!Leave, Life!Complete, Life!Submit,
                  Life!Start, Life!Notice, Life!Expire, Life!Stay
  <1>. QED
    BY <1>1, <1>2, <1>3 DEF Life!Next

\* The engine implements the life of a job for every scenario and scheduler:
\* no job comes back after its end, runs without having been queued, completes
\* from anywhere but its chips or with work undone, or gains work while it
\* waits, and durable work stays within the job.
THEOREM EngineImplementsJobLife == Spec => ImplementsJobLife
  <1>1. Init => Life!Init
    BY DEF Init, Life!Init, LifeOf
  <1>2. LifeInv /\ LifeInv' /\ [Next]_vars => [Life!Next]_(Life!vars)
    BY NextMoves, MovesImplement
  <1>. QED
    BY <1>1, <1>2, LifeInvariant, PTL DEF Spec, ImplementsJobLife, Life!Spec

-----------------------------------------------------------------------------
(* The completion event of a stint fires when the work is done.               *)

DeliversRest(j) ==
    complAt[j] = stint[j] + over[j] + Job[j].total - kept[j]

\* Whoever runs after a step has just been placed, or ran before it and its
\* stint is the one it had.
SameStint(j) ==
    /\ j \in running
    /\ complAt'[j] = complAt[j] /\ stint'[j] = stint[j] /\ over'[j] = over[j]

LEMMA FinishStint ==
    ASSUME LifeInv, NEW j, NEW t, NEW final, NEW popped,
           Finish(j, t, final, popped), NEW k \in Jobs, k \in running'
    PROVE  SameStint(k)
  BY DEF Finish, SameStint, Cleared

LEMMA FailNodeStint ==
    ASSUME LifeInv, NEW n, NEW t, NEW rest, FailNode(n, t, rest), NEW k \in Jobs,
           k \in running'
    PROVE  SameStint(k)
  BY DEF FailNode, SameStint, Cleared

\* A handler that leaves the running jobs, their handles and stints alone.
LEMMA IdleStint ==
    ASSUME LifeInv, UNCHANGED <<running, complAt, stint, over>>, NEW k \in Jobs,
           k \in running'
    PROVE  SameStint(k)
  BY DEF SameStint

LEMMA TurnStint ==
    ASSUME LifeInv, Turn, NEW k \in Jobs, k \in running'
    PROVE  SameStint(k)
  <1>1. ASSUME NEW rest, NoNodeEvent(rest) PROVE SameStint(k)
    BY <1>1, IdleStint DEF NoNodeEvent, jobVars, workVars, handleVars
  <1>2. ASSUME NEW n, NEW t, NEW rest, DrainNode(n, t, rest) PROVE SameStint(k)
    BY <1>2, IdleStint DEF DrainNode, jobVars, workVars, handleVars
  <1>3. ASSUME NEW e \in queue,
               OnFlush(e) \/ OnWake(e) \/ OnRepair(e) \/ OnMaintenance(e)
                 \/ OnForcedDrain(e)
        PROVE  SameStint(k)
    <2>1. CASE OnFlush(e) \/ OnWake(e)
      BY <2>1, IdleStint DEF OnFlush, OnWake, jobVars, workVars, handleVars
    <2>2. CASE OnRepair(e)
      BY <1>1, <2>2, IdleStint DEF OnRepair, jobVars, workVars, handleVars
    <2>3. CASE OnMaintenance(e) \/ OnForcedDrain(e)
      BY <1>1, <1>2, <2>3 DEF OnMaintenance, OnForcedDrain
    <2>. QED
      BY <1>3, <2>1, <2>2, <2>3
  <1>4. ASSUME NEW e \in queue, OnFailure(e) \/ OnForcedFailure(e)
        PROVE  SameStint(k)
    BY <1>1, <1>4, FailNodeStint DEF OnFailure, OnForcedFailure
  <1>5. ASSUME NEW e \in queue, OnDrainGrace(e) PROVE SameStint(k)
    <2>1. CASE EndDrainGrace(e.arg, e.time, queue \ {e})
      BY <2>1 DEF EndDrainGrace, Evict, SameStint, Cleared
    <2>. QED
      BY <1>1, <1>5, <2>1 DEF OnDrainGrace
  <1>6. ASSUME NEW e \in queue, OnArrival(e) PROVE SameStint(k)
    BY <1>6, IdleStint DEF OnArrival, SubmitUnchanged, workVars
  <1>7. ASSUME NEW e \in queue, OnPreemptionDone(e) PROVE SameStint(k)
    BY <1>7, IdleStint DEF OnPreemptionDone
  <1>8. ASSUME NEW e \in queue, OnCompletion(e) PROVE SameStint(k)
    BY <1>8, FinishStint DEF OnCompletion
  <1>9. ASSUME NEW e \in queue, OnValidUntil(e) PROVE SameStint(k)
    BY <1>9, FinishStint, IdleStint DEF OnValidUntil, jobVars, workVars
  <1>10. ASSUME NEW e \in queue, OnLifetime(e) PROVE SameStint(k)
    BY <1>10, FinishStint, IdleStint DEF OnLifetime, jobVars, workVars
  <1>. QED
    BY <1>3, <1>4, <1>5, <1>6, <1>7, <1>8, <1>9, <1>10 DEF Turn

LEMMA InWakeStint ==
    ASSUME LifeInv, InWake, NEW k \in Jobs, k \in running'
    PROVE  SameStint(k) \/ DeliversRest(k)'
  <1>1. ASSUME BuildView \/ EndWake PROVE SameStint(k)
    BY <1>1, IdleStint DEF BuildView, EndWake, jobVars, workVars, handleVars
  <1>2. ASSUME NEW j \in Jobs, Refill(j) PROVE SameStint(k)
    BY <1>2, IdleStint DEF Refill, SubmitUnchanged, workVars
  <1>3. ASSUME NEW v \in Jobs, NEW p, PreemptRequeue(v, p) PROVE SameStint(k)
    BY <1>3 DEF PreemptRequeue, Evict, SameStint, Cleared, workVars
  <1>4. ASSUME NEW v \in Jobs, NEW p, PreemptCancel(v, p) PROVE SameStint(k)
    BY <1>4, FinishStint DEF PreemptCancel
  <1>5. ASSUME NEW j \in Jobs, NEW S \in SUBSET Nodes, Place(j, S)
        PROVE  SameStint(k) \/ DeliversRest(k)'
    <2> DEFINE overhead == IF started[j] THEN Job[j].overhead ELSE 0
    <2>1. /\ running' = running \cup {j} /\ kept' = kept
          /\ stint' = [stint EXCEPT ![j] = now]
          /\ over' = [over EXCEPT ![j] = overhead]
          /\ complAt' = [complAt EXCEPT ![j] = CompletionTime(j, overhead)]
      BY <1>5 DEF Place
    <2>2. /\ stint \in [Jobs -> Nat] /\ over \in [Jobs -> Nat]
          /\ complAt \in [Jobs -> Nat \cup {None}] /\ now \in Nat
          /\ kept \in [Jobs -> Nat] /\ Job[j].total \in Nat
          /\ Job[j].overhead \in Nat
      BY JobFields DEF LifeInv, TypeInv, TypeOK
    <2>3. CASE k # j
      BY <2>1, <2>2, <2>3 DEF SameStint
    <2>4. CASE k = j
      <3>1. /\ complAt'[j] = CompletionTime(j, overhead) /\ stint'[j] = now
            /\ over'[j] = overhead /\ kept'[j] = kept[j]
        BY <2>1, <2>2
      <3>2. overhead \in Nat /\ kept[j] \in Nat
        BY <2>2
      <3> HIDE DEF overhead
      <3>. QED
        BY <2>2, <2>4, <3>1, <3>2 DEF CompletionTime, DeliversRest
    <2>. QED
      BY <2>3, <2>4
  <1>. QED
    BY <1>1, <1>2, <1>3, <1>4, <1>5 DEF InWake

WorkInv == LifeInv /\ WorkAccounted

LEMMA InitWork == Init => WorkInv
  <1> SUFFICES ASSUME Init PROVE WorkInv
    OBVIOUS
  <1>1. LifeInv
    BY InitLife
  <1>2. /\ running = {} /\ status = [j \in Jobs |-> "PENDING"]
    BY DEF Init
  <1>. QED
    BY <1>1, <1>2 DEF WorkInv, WorkAccounted, LifeInv, TypeInv, WorkBounded

LEMMA NextWork == WorkInv /\ [Next]_vars => WorkInv'
  <1> SUFFICES ASSUME WorkInv, [Next]_vars PROVE WorkInv'
    OBVIOUS
  <1>1. LifeInv /\ LifeInv'
    BY NextLife DEF WorkInv
  <1> SUFFICES ASSUME NEW k \in Jobs
               PROVE  /\ kept'[k] <= Job[k].total
                      /\ k \in running' => DeliversRest(k)'
                      /\ status'[k] = "COMPLETED" => kept'[k] = Job[k].total
    BY <1>1 DEF WorkInv, WorkAccounted, DeliversRest
  <1>2. Moves(k) /\ Maps(k) /\ Maps(k)'
    BY <1>1, NextMoves, MapsNow, MapsNext
  <1>3. kept'[k] <= Job[k].total
    BY <1>1 DEF LifeInv, TypeInv, WorkBounded
  \* A completed job was completed, or leaves its chips with all of its work.
  <1>4. ASSUME status'[k] = "COMPLETED" PROVE kept'[k] = Job[k].total
    <2>1. LifeOf(k)' = "completed"
      BY <1>2, <1>4 DEF Maps
    <2>2. status[k] = "COMPLETED" => kept[k] = Job[k].total
      BY DEF WorkInv, WorkAccounted
    <2>. QED
      BY <1>2, <2>1, <2>2 DEF Moves, Move, Maps
  \* A job that stays on its chips has gained nothing yet.
  <1>5. ASSUME k \in running' PROVE DeliversRest(k)'
    <2>1. SameStint(k) \/ DeliversRest(k)'
      <3>1. ASSUME Finalize \/ UNCHANGED vars PROVE SameStint(k)
        BY <1>1, <1>5, <3>1, IdleStint
           DEF Finalize, vars, jobVars, workVars, handleVars
      <3>. QED
        BY <1>1, <1>5, <3>1, TurnStint, InWakeStint DEF Next, Stopped
    <2>2. CASE SameStint(k)
      <3>1. LifeOf(k) = "running" /\ LifeOf(k)' = "running"
        BY <1>2, <1>5, <2>2 DEF Maps, SameStint
      <3>2. kept'[k] = kept[k]
        BY <1>2, <3>1 DEF Moves, Move
      <3>3. DeliversRest(k)
        BY <2>2 DEF WorkInv, WorkAccounted, DeliversRest, SameStint
      <3>. QED
        BY <2>2, <3>2, <3>3 DEF DeliversRest, SameStint
    <2>. QED
      BY <2>1, <2>2
  <1>. QED
    BY <1>3, <1>4, <1>5

\* For every scenario and scheduler the completion event of a running job is
\* dated at the end of exactly the work the job still owes, a completed job has
\* delivered all of its work, and no job ever more than that: restarts neither
\* lose a checkpoint nor count one twice.
THEOREM CompletionDeliversAll == Spec => []WorkAccounted
  <1>1. WorkInv => WorkAccounted
    BY DEF WorkInv
  <1>. QED
    BY <1>1, InitWork, NextWork, PTL DEF Spec
=============================================================================
