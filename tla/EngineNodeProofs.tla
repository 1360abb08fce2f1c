-------------------------- MODULE EngineNodeProofs --------------------------
(***************************************************************************)
(* The nodes of the engine's fleet and the totals kept about them and about *)
(* the jobs, proved for every scenario.  A node that goes down comes back   *)
(* exactly once, and a drain never gets stuck: the two are inductive        *)
(* together with the agreement of the job records (LifeInv), since an       *)
(* eviction finds the residents of a draining node in the table of running  *)
(* jobs.  The totals of the metrics sink and of the quotas are those of the *)
(* tables, and what makes work placeable wakes the scheduler.               *)
(***************************************************************************)
EXTENDS EngineProofs

-----------------------------------------------------------------------------
(* The inductive invariant, one node at a time. *)

Down(n) == nodeState[n] \in {"FAILED", "MAINTENANCE"}

NodeOK(n) ==
    /\ Down(n) => /\ Owners(n) = {}
                  /\ \E e \in queue : EventsOf(n, "NODE_REPAIR") = {e}
    /\ ~ Down(n) => EventsOf(n, "NODE_REPAIR") = {}
    /\ nodeState[n] = "DRAINING" /\ n \notin maintWait =>
         EventsOf(n, "DRAIN_GRACE") # {}
    /\ n \in maintWait => /\ nodeState[n] = "DRAINING"
                          /\ Owners(n) # {} /\ Owners(n) \subseteq graced
    /\ n \in hazard <=> nodeState[n] = "HEALTHY"

NodeInv == LifeInv /\ \A n \in Nodes : NodeOK(n)

\* The events that NodeOK speaks of.
NodeKinds == {"NODE_REPAIR", "DRAIN_GRACE"}

\* The step neither adds nor pops such an event of node n.
KeepsEvents(n) ==
    \A e : e.type \in NodeKinds /\ e.arg = n => (e \in queue' <=> e \in queue)

\* No other event is one of these.
LEMMA ForeignEvents ==
    ASSUME NEW e, e.type \in NodeKinds
    PROVE  /\ \A S, h : \A type \in JobEvents : e \notin Named(S, h, type)
           /\ \A b : e \notin WakeEvents(b)
           /\ \A h, h2 : \A type \in LoopEvents : e \notin Armed(type, h, h2)
           /\ \A i : e \notin ArrivalEvents(i)
           /\ \A t : \A type \in LoopEvents : e # Ev(t, type, Nil)
           /\ \A t, j : \A type \in JobEvents : e # Ev(t, type, j)
  BY DEF Named, WakeEvents, Armed, ArrivalEvents, Ev, NodeKinds, JobEvents,
         LoopEvents

\* The repairs that a release asks for: one for each leaf that it empties.
LEMMA MaintMember ==
    ASSUME NEW E, NEW t, NEW e
    PROVE  /\ e \in MaintDone(E, t) => e.type = "NODE_REPAIR" /\ e.arg \in E
           /\ e \in MaintDone(E, t) =>
                e = Ev(t + maintFor[e.arg], "NODE_REPAIR", e.arg)
           /\ \A m \in E : Ev(t + maintFor[m], "NODE_REPAIR", m) \in MaintDone(E, t)
  BY DEF MaintDone, Ev

LEMMA NodeTypes ==
    ASSUME NodeInv
    PROVE  /\ nodeState \in [Nodes -> NodeState] /\ alloc \in [Jobs -> SUBSET Nodes]
           /\ maintWait \subseteq Nodes /\ hazard \subseteq Nodes
           /\ maintFor \in [Nodes -> Nat \cup {None}] /\ running \subseteq Jobs
           /\ Nil \notin Nodes
  BY ConfigAssumption DEF ConfigAssumption, NodeInv, LifeInv, TypeInv, TypeOK

\* The residents of a node run there or are leaving it.
LEMMA OwnersPlaced ==
    ASSUME LifeInv, NEW n
    PROVE  Owners(n) \subseteq running \cup graced
  <1> SUFFICES ASSUME NEW j \in Owners(n) PROVE j \in running \cup graced
    OBVIOUS
  <1>1. j \in Jobs /\ alloc[j] # {}
    BY DEF Owners
  <1>. QED
    BY <1>1, JobAgreesNow DEF JobAgrees

\* A step that leaves a node and its events alone.
LEMMA NodeSame ==
    ASSUME NEW n \in Nodes, NodeOK(n), nodeState'[n] = nodeState[n],
           n \in maintWait' <=> n \in maintWait, n \in hazard' <=> n \in hazard,
           Owners(n)' = Owners(n),
           n \in maintWait => Owners(n) \subseteq graced',
           KeepsEvents(n)
    PROVE  NodeOK(n)'
  <1>1. /\ EventsOf(n, "NODE_REPAIR")' = EventsOf(n, "NODE_REPAIR")
        /\ EventsOf(n, "DRAIN_GRACE")' = EventsOf(n, "DRAIN_GRACE")
    BY DEF EventsOf, KeepsEvents, NodeKinds
  <1>2. ASSUME Down(n) PROVE \E e \in queue' : EventsOf(n, "NODE_REPAIR")' = {e}
    <2>1. PICK e \in queue : EventsOf(n, "NODE_REPAIR") = {e}
      BY <1>2 DEF NodeOK
    <2>2. e \in queue'
      BY <1>1, <2>1 DEF EventsOf
    <2>. QED
      BY <1>1, <2>1, <2>2
  <1>. QED
    BY <1>1, <1>2 DEF NodeOK, Down

\* A step that leaves all nodes alone and takes no job out of its grace.
QuietForNodes ==
    /\ UNCHANGED nodeVars /\ alloc' = alloc /\ graced \subseteq graced'
    /\ \A n \in Nodes : KeepsEvents(n)

LEMMA QuietNodes ==
    ASSUME NodeInv, LifeInv', QuietForNodes
    PROVE  NodeInv'
  <1> SUFFICES ASSUME NEW n \in Nodes PROVE NodeOK(n)'
    BY DEF NodeInv
  <1>1. NodeOK(n) /\ KeepsEvents(n)
    BY DEF NodeInv, QuietForNodes
  <1>2. Owners(n)' = Owners(n)
    BY DEF QuietForNodes, Owners
  <1>3. n \in maintWait => Owners(n) \subseteq graced'
    BY <1>1 DEF NodeOK, QuietForNodes
  <1>. QED
    BY <1>1, <1>2, <1>3, NodeSame DEF QuietForNodes, nodeVars

LEMMA InitNodes == Init => NodeInv
  <1> SUFFICES ASSUME Init PROVE NodeInv
    OBVIOUS
  <1>1. LifeInv
    BY InitLife
  <1>2. ASSUME NEW n \in Nodes PROVE NodeOK(n)
    <2>1. nodeState[n] = "HEALTHY" /\ n \notin maintWait /\ n \in hazard
      BY DEF Init
    <2>2. \A e : e.type = "NODE_REPAIR" => e \notin queue
      <3>1. \A e \in Forced : e.type # "NODE_REPAIR"
        BY ConfigAssumption DEF ConfigAssumption
      <3>2. \A e : e.type = "NODE_REPAIR" =>
              /\ e \notin ArrivalEvents(1)
              /\ e \notin Armed("NODE_FAILURE", None, failureAt)
              /\ e \notin Armed("MAINTENANCE_DRAIN", None, maintAt)
        BY ForeignEvents DEF LoopEvents, NodeKinds
      <3>3. \A e : e.type = "NODE_REPAIR" =>
              /\ e \notin {Ev(t, "SCHED_WAKE", Nil) : t \in wakeTimes}
              /\ e \notin {Ev(t, "METRICS_FLUSH", Nil) :
                              t \in {Round} \cap 0 .. Horizon - 1}
        BY DEF Ev
      <3>. QED
        BY <3>1, <3>2, <3>3 DEF Init
    <2>. QED
      BY <2>1, <2>2 DEF NodeOK, Down, EventsOf
  <1>. QED
    BY <1>1, <1>2 DEF NodeInv

-----------------------------------------------------------------------------
(* The steps that give chips back. *)

\* The jobs of rel leave their leaves; n, if it is a node, fails in the step.
LEMMA ReleaseNodes ==
    ASSUME NodeInv, LifeInv', NEW rel \in SUBSET Jobs, NEW n, NEW t, NEW d,
           Release(rel, n, t),
           n \in Nodes => ~ Down(n) /\ Owners(n) \subseteq rel,
           graced' = graced \ rel, hazard' = hazard \ {n},
           \A e : e.type \in NodeKinds =>
              (e \in queue' <=>
                 \/ e \in queue
                 \/ e \in MaintDone(Emptied(rel, maintWait \ {n}), t)
                 \/ n \in Nodes /\ e = Ev(t + d, "NODE_REPAIR", n))
    PROVE  NodeInv'
  <1> DEFINE E == Emptied(rel, maintWait \ {n})
  <1> SUFFICES ASSUME NEW m \in Nodes PROVE NodeOK(m)'
    BY DEF NodeInv
  <1>1. NodeOK(m) /\ nodeState \in [Nodes -> NodeState]
        /\ maintFor \in [Nodes -> Nat \cup {None}]
        /\ alloc \in [Jobs -> SUBSET Nodes]
    BY NodeTypes DEF NodeInv
  <1>2. Owners(m)' = Owners(m) \ rel
    BY <1>1 DEF Release, Owners
  <1>3. m \in E <=> /\ m \in maintWait /\ m # n /\ nodeState[m] = "DRAINING"
                    /\ Owners(m) \cap rel # {} /\ Owners(m) \subseteq rel
    BY DEF Emptied
  <1>4. /\ nodeState'[m] = (IF m = n THEN "FAILED"
                            ELSE IF m \in E THEN "MAINTENANCE" ELSE nodeState[m])
        /\ maintWait' = maintWait \ (E \cup {n})
    BY DEF Release
  <1>5. \A e : e.type = "NODE_REPAIR" /\ e.arg = m =>
           (e \in queue' <=>
              \/ e \in queue
              \/ m \in E /\ e = Ev(t + maintFor[m], "NODE_REPAIR", m)
              \/ m = n /\ e = Ev(t + d, "NODE_REPAIR", m))
    <2> SUFFICES ASSUME NEW e, e.type = "NODE_REPAIR", e.arg = m
                 PROVE  e \in queue' <=>
                          \/ e \in queue
                          \/ m \in E /\ e = Ev(t + maintFor[m], "NODE_REPAIR", m)
                          \/ m = n /\ e = Ev(t + d, "NODE_REPAIR", m)
      OBVIOUS
    <2>1. e \in queue' <=> \/ e \in queue
                           \/ e \in MaintDone(E, t)
                           \/ n \in Nodes /\ e = Ev(t + d, "NODE_REPAIR", n)
      <3>1. e.type \in NodeKinds
        BY DEF NodeKinds
      <3>. QED
        BY <3>1
    <2>2. e \in MaintDone(E, t) <=>
             m \in E /\ e = Ev(t + maintFor[m], "NODE_REPAIR", m)
      BY MaintMember
    <2>3. e = Ev(t + d, "NODE_REPAIR", n) => e.arg = n
      BY DEF Ev
    <2> HIDE DEF E
    <2>. QED
      BY <2>1, <2>2, <2>3, Zenon
  <1>6. \A e : e.type = "DRAIN_GRACE" => (e \in queue' <=> e \in queue)
    <2> SUFFICES ASSUME NEW e, e.type = "DRAIN_GRACE"
                 PROVE  e \in queue' <=> e \in queue
      OBVIOUS
    <2>1. e \in queue' <=> \/ e \in queue
                           \/ e \in MaintDone(E, t)
                           \/ n \in Nodes /\ e = Ev(t + d, "NODE_REPAIR", n)
      <3>1. e.type \in NodeKinds
        BY DEF NodeKinds
      <3>. QED
        BY <3>1
    <2>2. e \notin MaintDone(E, t) /\ e # Ev(t + d, "NODE_REPAIR", n)
      BY MaintMember DEF Ev
    <2>. QED
      BY <2>1, <2>2
  <1>7. \A x : Ev(x, "NODE_REPAIR", m).type = "NODE_REPAIR"
               /\ Ev(x, "NODE_REPAIR", m).arg = m
    BY DEF Ev
  <1> HIDE DEF E
  \* The node that goes down in this step gets its one repair.
  <1>8. ASSUME NEW x, ~ Down(m), m \notin maintWait', m \notin hazard',
               nodeState'[m] \in {"FAILED", "MAINTENANCE"},
               Owners(m) \subseteq rel,
               \A e : e.type = "NODE_REPAIR" /\ e.arg = m =>
                  (e \in queue' <=> e \in queue \/ e = Ev(x, "NODE_REPAIR", m))
        PROVE  NodeOK(m)'
    <2>1. EventsOf(m, "NODE_REPAIR") = {}
      BY <1>1, <1>8 DEF NodeOK
    <2>2. EventsOf(m, "NODE_REPAIR")' = {Ev(x, "NODE_REPAIR", m)}
      BY <1>7, <1>8, <2>1 DEF EventsOf
    <2>3. Ev(x, "NODE_REPAIR", m) \in queue'
      BY <1>7, <1>8
    <2>. QED
      BY <1>2, <1>8, <2>2, <2>3 DEF NodeOK, Down
  <1>9. CASE m = n
    <2>1. m \notin hazard' /\ m \notin maintWait' /\ m \notin E
      BY <1>3, <1>4, <1>9
    <2>. QED
      BY <1>4, <1>5, <1>8, <1>9, <2>1
  <1>10. CASE m \in E
    <2>1. m \notin hazard' /\ m \notin maintWait' /\ m # n /\ ~ Down(m)
      BY <1>1, <1>3, <1>4, <1>10 DEF NodeOK, Down
    <2>. QED
      BY <1>3, <1>4, <1>5, <1>8, <1>10, <2>1
  <1>11. CASE m # n /\ m \notin E
    <2>1. /\ nodeState'[m] = nodeState[m] /\ (m \in maintWait' <=> m \in maintWait)
          /\ (m \in hazard' <=> m \in hazard)
      BY <1>4, <1>11
    <2>2. /\ EventsOf(m, "NODE_REPAIR")' = EventsOf(m, "NODE_REPAIR")
          /\ EventsOf(m, "DRAIN_GRACE")' = EventsOf(m, "DRAIN_GRACE")
      BY <1>5, <1>6, <1>11 DEF EventsOf
    <2>3. m \in maintWait => Owners(m)' # {} /\ Owners(m)' \subseteq graced'
      BY <1>1, <1>2, <1>3, <1>11 DEF NodeOK
    <2>4. ASSUME Down(m)
          PROVE  \E e \in queue' : EventsOf(m, "NODE_REPAIR")' = {e}
      <3>1. PICK e \in queue : EventsOf(m, "NODE_REPAIR") = {e}
        BY <1>1, <2>4 DEF NodeOK
      <3>2. e \in queue'
        BY <2>2, <3>1 DEF EventsOf
      <3>. QED
        BY <2>2, <3>1, <3>2
    <2>. QED
      BY <1>1, <1>2, <2>1, <2>2, <2>3, <2>4 DEF NodeOK, Down
  <1>. QED
    BY <1>9, <1>10, <1>11

LEMMA FinishNodes ==
    ASSUME NodeInv, LifeInv', NEW j \in Jobs, NEW t, NEW final, NEW popped,
           Finish(j, t, final, popped), \A e \in popped : e.type \notin NodeKinds
    PROVE  NodeInv'
  <1>1. /\ Release({j}, Nil, t) /\ graced' = graced \ {j}
        /\ hazard' = hazard \ {Nil} /\ Nil \notin Nodes /\ {j} \in SUBSET Jobs
    BY NodeTypes DEF Finish
  <1>2. maintWait = maintWait \ {Nil}
    BY NodeTypes
  <1>3. ASSUME NEW e, e.type \in NodeKinds
        PROVE  e \in queue' <=> \/ e \in queue
                                \/ e \in MaintDone(Emptied({j}, maintWait \ {Nil}), t)
    <2>1. e \notin popped /\ e \notin NamedAll({j})
      BY <1>3, ForeignEvents DEF NamedAll, JobEvents
    <2>2. e \notin (IF Schedulable(j) THEN WakeEvents(Boundary(t)) ELSE {})
      BY <1>3, ForeignEvents
    <2>. QED
      BY <1>2, <2>1, <2>2 DEF Finish
  <1>. QED
    BY <1>1, <1>3, ReleaseNodes

LEMMA PreemptionDoneNodes ==
    ASSUME NodeInv, LifeInv', NEW e \in queue, OnPreemptionDone(e)
    PROVE  NodeInv'
  <1>1. e.arg \in Jobs /\ e.type = "PREEMPTION_DONE"
    BY EventType DEF NodeInv, LifeInv, OnPreemptionDone, Due, JobEvents
  <1>2. /\ Release({e.arg}, Nil, e.time) /\ graced' = graced \ {e.arg}
        /\ hazard' = hazard \ {Nil} /\ Nil \notin Nodes
        /\ {e.arg} \in SUBSET Jobs /\ maintWait = maintWait \ {Nil}
    BY <1>1, NodeTypes DEF OnPreemptionDone
  <1>3. ASSUME NEW f, f.type \in NodeKinds
        PROVE  f \in queue' <=>
                 \/ f \in queue
                 \/ f \in MaintDone(Emptied({e.arg}, maintWait \ {Nil}), e.time)
    <2>1. f # e /\ f \notin WakeEvents(Boundary(e.time))
      BY <1>1, <1>3, ForeignEvents DEF NodeKinds
    <2>. QED
      BY <1>2, <2>1 DEF OnPreemptionDone
  <1>. QED
    BY <1>2, <1>3, ReleaseNodes

LEMMA FailNodeNodes ==
    ASSUME NodeInv, LifeInv', NEW n \in Nodes, NEW t, NEW rest,
           ~ Down(n), FailNode(n, t, rest),
           \A e : e.type \in NodeKinds => (e \in rest <=> e \in queue)
    PROVE  NodeInv'
  <1> DEFINE victims == Owners(n)
  <1>1. /\ Release(victims, n, t) /\ graced' = graced \ victims
        /\ hazard' = hazard \ {n} /\ victims \in SUBSET Jobs
    BY DEF FailNode, Owners
  <1>2. PICK d \in RepairDelays :
           queue' = (rest \ (Named(victims, complAt, "JOB_COMPLETION")
                             \cup Named(victims, graceAt, "PREEMPTION_DONE")))
                    \cup {Ev(t + d, "NODE_REPAIR", n)}
                    \cup MaintDone(Emptied(victims, maintWait \ {n}), t)
                    \cup WakeEvents(Boundary(t))
    BY DEF FailNode
  <1> HIDE DEF victims
  <1>3. ASSUME NEW e, e.type \in NodeKinds
        PROVE  e \in queue' <=>
                 \/ e \in queue
                 \/ e \in MaintDone(Emptied(victims, maintWait \ {n}), t)
                 \/ n \in Nodes /\ e = Ev(t + d, "NODE_REPAIR", n)
    <2>1. /\ e \notin Named(victims, complAt, "JOB_COMPLETION")
          /\ e \notin Named(victims, graceAt, "PREEMPTION_DONE")
          /\ e \notin WakeEvents(Boundary(t))
      BY <1>3, ForeignEvents DEF JobEvents
    <2>. QED
      BY <1>2, <1>3, <2>1
  <1>4. Owners(n) \subseteq victims
    BY DEF victims
  <1>. QED
    BY <1>1, <1>3, <1>4, ReleaseNodes

-----------------------------------------------------------------------------
(* The steps that touch no node, and placement. *)

LEMMA NoNodeEventNodes ==
    ASSUME NodeInv, LifeInv', NEW rest, NoNodeEvent(rest),
           \A e : e.type \in NodeKinds => (e \in rest <=> e \in queue)
    PROVE  NodeInv'
  <1>1. QuietForNodes
    BY DEF NoNodeEvent, QuietForNodes, KeepsEvents, jobVars
  <1>. QED
    BY <1>1, QuietNodes

LEMMA SubmitNodes ==
    ASSUME NodeInv, LifeInv',
           \/ \E e \in queue : OnArrival(e)
           \/ \E j \in Jobs : Refill(j)
    PROVE  NodeInv'
  <1>1. SubmitUnchanged
    BY DEF OnArrival, Refill
  <1>2. ASSUME NEW e, e.type \in NodeKinds PROVE e \in queue' <=> e \in queue
    <2>1. \A j : e \notin Named({j}, validAt', "VALID_UNTIL")
      BY <1>2, ForeignEvents DEF JobEvents
    <2>2. /\ \A b : e \notin WakeEvents(b)
          /\ \A i : e \notin ArrivalEvents(i)
      BY <1>2, ForeignEvents
    <2>3. CASE \E j \in Jobs : Refill(j)
      BY <2>1, <2>3 DEF Refill
    <2>4. CASE \E f \in queue : OnArrival(f)
      <3>1. PICK f \in queue : OnArrival(f)
        BY <2>4
      <3>2. e # f
        BY <1>2, <3>1 DEF OnArrival, Due, NodeKinds
      <3>. QED
        BY <2>1, <2>2, <3>1, <3>2 DEF OnArrival
    <2>. QED
      BY <2>3, <2>4
  <1>3. QuietForNodes
    BY <1>1, <1>2 DEF QuietForNodes, KeepsEvents, SubmitUnchanged
  <1>. QED
    BY <1>3, QuietNodes

\* The loop's own events and the periodic wake.
LEMMA LoopNodes ==
    ASSUME NodeInv, LifeInv',
           \/ \E e \in queue : OnWake(e) \/ OnFlush(e)
           \/ BuildView \/ EndWake \/ Finalize \/ UNCHANGED vars
    PROVE  NodeInv'
  <1>1. UNCHANGED nodeVars /\ UNCHANGED jobVars
    BY DEF OnWake, OnFlush, BuildView, EndWake, Finalize, vars
  <1>2. ASSUME NEW e, e.type \in NodeKinds PROVE e \in queue' <=> e \in queue
    <2>1. \A b : e \notin WakeEvents(b)
      BY <1>2, ForeignEvents
    <2>2. CASE BuildView \/ EndWake \/ Finalize \/ UNCHANGED vars
      BY <2>1, <2>2 DEF BuildView, EndWake, Finalize, vars
    <2>3. CASE \E f \in queue : OnWake(f) \/ OnFlush(f)
      <3>1. PICK f \in queue : OnWake(f) \/ OnFlush(f)
        BY <2>3
      <3>2. e # f
        BY <1>2, <3>1 DEF OnWake, OnFlush, Due, NodeKinds
      <3>3. \A t : e # Ev(t, "METRICS_FLUSH", Nil)
        BY <1>2, ForeignEvents DEF LoopEvents
      <3>. QED
        BY <3>1, <3>2, <3>3 DEF OnWake, OnFlush
    <2>. QED
      BY <2>2, <2>3
  <1>3. QuietForNodes
    BY <1>1, <1>2 DEF QuietForNodes, KeepsEvents, jobVars
  <1>. QED
    BY <1>3, QuietNodes

LEMMA PreemptRequeueNodes ==
    ASSUME NodeInv, LifeInv', NEW v, NEW p, PreemptRequeue(v, p)
    PROVE  NodeInv'
  <1>1. \A e : e.type \in NodeKinds => (e \in queue' <=> e \in queue)
    BY ForeignEvents DEF PreemptRequeue, JobEvents
  <1>2. QuietForNodes
    BY <1>1 DEF PreemptRequeue, Evict, QuietForNodes, KeepsEvents
  <1>. QED
    BY <1>2, QuietNodes

\* Only HEALTHY leaves are given out.
LEMMA PlaceNodes ==
    ASSUME NodeInv, LifeInv', NEW j \in Jobs, NEW S \in SUBSET Nodes, Place(j, S)
    PROVE  NodeInv'
  <1> SUFFICES ASSUME NEW m \in Nodes PROVE NodeOK(m)'
    BY DEF NodeInv
  <1>1. /\ alloc' = [alloc EXCEPT ![j] = S]
        /\ UNCHANGED <<nodeState, maintWait, hazard, graced>>
        /\ \A n \in S : nodeState[n] = "HEALTHY"
        /\ j \in pending
    BY DEF Place, Fits, nodeVars
  <1>2. NodeOK(m) /\ alloc \in [Jobs -> SUBSET Nodes]
    BY NodeTypes DEF NodeInv
  <1>3. KeepsEvents(m)
    <2>1. \A e : e.type \in NodeKinds => (e \in queue' <=> e \in queue)
      BY ForeignEvents DEF Place, JobEvents
    <2>. QED
      BY <2>1 DEF KeepsEvents
  <1>4. alloc[j] = {}
    BY <1>1, JobAgreesNow DEF NodeInv, LifeInv, JobAgrees
  <1>5. CASE m \notin S
    <2>1. Owners(m)' = Owners(m)
      BY <1>1, <1>2, <1>4, <1>5 DEF Owners
    <2>. QED
      BY <1>1, <1>2, <1>3, <2>1, NodeSame DEF NodeOK
  <1>6. CASE m \in S
    <2>1. nodeState[m] = "HEALTHY" /\ m \notin maintWait
      BY <1>1, <1>2, <1>6 DEF NodeOK
    <2>2. EventsOf(m, "NODE_REPAIR")' = EventsOf(m, "NODE_REPAIR")
      BY <1>3 DEF EventsOf, KeepsEvents, NodeKinds
    <2>. QED
      BY <1>1, <1>2, <2>1, <2>2 DEF NodeOK, Down
  <1>. QED
    BY <1>5, <1>6

-----------------------------------------------------------------------------
(* Failures, repairs and drains. *)

LEMMA FailureNodes ==
    ASSUME NodeInv, LifeInv', NEW e \in queue, OnFailure(e) \/ OnForcedFailure(e)
    PROVE  NodeInv'
  <1>1. CASE OnFailure(e)
    <2> DEFINE rest == (queue \ {e}) \cup Armed("NODE_FAILURE", None, failureAt')
    <2>1. \A f : f.type \in NodeKinds => (f \in rest <=> f \in queue)
      BY <1>1, ForeignEvents DEF OnFailure, Due, NodeKinds, LoopEvents
    <2>2. NoNodeEvent(rest) \/ \E n \in hazard : FailNode(n, e.time, rest)
      BY <1>1 DEF OnFailure
    <2>3. \A n \in hazard : n \in Nodes /\ ~ Down(n)
      BY NodeTypes DEF NodeInv, NodeOK, Down
    <2> HIDE DEF rest
    <2>. QED
      BY <2>1, <2>2, <2>3, NoNodeEventNodes, FailNodeNodes
  <1>2. CASE OnForcedFailure(e)
    <2>1. \A f : f.type \in NodeKinds => (f \in queue \ {e} <=> f \in queue)
      BY <1>2 DEF OnForcedFailure, Due, NodeKinds
    <2>2. e.arg \in Nodes
      BY <1>2, EventType DEF OnForcedFailure, Due, NodeEvents, NodeInv, LifeInv
    <2>3. nodeState[e.arg] \in {"HEALTHY", "DRAINING"} => ~ Down(e.arg)
      BY DEF Down
    <2>. QED
      BY <1>2, <2>1, <2>2, <2>3, NoNodeEventNodes, FailNodeNodes
         DEF OnForcedFailure
  <1>. QED
    BY <1>1, <1>2

\* The repair that a node waits for is the one the handler pops.
LEMMA RepairNodes ==
    ASSUME NodeInv, LifeInv', NEW e \in queue, OnRepair(e)
    PROVE  NodeInv'
  <1> DEFINE n == e.arg
  <1>1. n \in Nodes /\ e.type = "NODE_REPAIR"
    BY EventType DEF NodeInv, LifeInv, OnRepair, Due, NodeEvents
  <1>2. NodeOK(n) /\ e \in EventsOf(n, "NODE_REPAIR")
    BY <1>1 DEF NodeInv, EventsOf
  <1>3. Down(n) /\ EventsOf(n, "NODE_REPAIR") = {e}
    BY <1>2 DEF NodeOK
  <1>4. /\ nodeState' = [nodeState EXCEPT ![n] = "HEALTHY"]
        /\ hazard' = hazard \cup {n}
        /\ UNCHANGED <<alloc, graced, maintWait>>
        /\ queue' = (queue \ {e})
                    \cup Armed("NODE_FAILURE", failureAt, failureAt')
                    \cup Armed("MAINTENANCE_DRAIN", maintAt, maintAt')
                    \cup WakeEvents(Boundary(e.time))
    BY <1>3 DEF OnRepair, Down, jobVars
  <1>5. \A f : f.type \in NodeKinds => (f \in queue' <=> f \in queue \ {e})
    BY <1>4, ForeignEvents DEF LoopEvents
  <1> SUFFICES ASSUME NEW m \in Nodes PROVE NodeOK(m)'
    BY DEF NodeInv
  <1>6. NodeOK(m) /\ nodeState \in [Nodes -> NodeState]
    BY NodeTypes DEF NodeInv
  <1>7. Owners(m)' = Owners(m)
    BY <1>4 DEF Owners
  <1>8. CASE m = n
    <2>1. nodeState'[m] = "HEALTHY" /\ m \in hazard' /\ m \notin maintWait'
      BY <1>3, <1>4, <1>6, <1>8 DEF NodeOK, Down
    <2>2. EventsOf(m, "NODE_REPAIR")' = {}
      BY <1>3, <1>5, <1>8 DEF EventsOf, NodeKinds
    <2>. QED
      BY <2>1, <2>2 DEF NodeOK, Down
  <1>9. CASE m # n
    <2>1. KeepsEvents(m)
      BY <1>5, <1>9 DEF KeepsEvents
    <2>2. /\ nodeState'[m] = nodeState[m]
          /\ m \in hazard' <=> m \in hazard
          /\ m \in maintWait' <=> m \in maintWait
          /\ m \in maintWait => Owners(m) \subseteq graced'
      BY <1>4, <1>6, <1>9 DEF NodeOK
    <2>. QED
      BY <1>6, <1>7, <2>1, <2>2, NodeSame
  <1>. QED
    BY <1>8, <1>9

LEMMA DrainNodeNodes ==
    ASSUME NodeInv, LifeInv', NEW n \in Nodes, NEW t, NEW rest,
           nodeState[n] = "HEALTHY", DrainNode(n, t, rest),
           \A e : e.type \in NodeKinds => (e \in rest <=> e \in queue)
    PROVE  NodeInv'
  <1> SUFFICES ASSUME NEW m \in Nodes PROVE NodeOK(m)'
    BY DEF NodeInv
  <1>1. NodeOK(m) /\ nodeState \in [Nodes -> NodeState]
    BY NodeTypes DEF NodeInv
  <1>2. /\ nodeState' = [nodeState EXCEPT ![n] = "DRAINING"]
        /\ hazard' = hazard \ {n} /\ UNCHANGED <<alloc, graced, maintWait>>
    BY DEF DrainNode, jobVars
  <1>3. Owners(m)' = Owners(m)
    BY <1>2 DEF Owners
  <1>4. ASSUME NEW e, e.type \in NodeKinds
        PROVE  e \in queue' <=> \/ e \in queue
                                \/ e = Ev(t + DrainGrace, "DRAIN_GRACE", n)
    BY <1>4, ForeignEvents DEF DrainNode
  <1>5. LET g == Ev(t + DrainGrace, "DRAIN_GRACE", n)
        IN g.type = "DRAIN_GRACE" /\ g.arg = n
    BY DEF Ev
  <1>6. CASE m = n
    <2>1. nodeState'[m] = "DRAINING" /\ m \notin hazard' /\ m \notin maintWait'
      BY <1>1, <1>2, <1>6 DEF NodeOK
    <2>2. EventsOf(m, "NODE_REPAIR")' = {}
      <3>1. EventsOf(m, "NODE_REPAIR") = {}
        BY <1>1, <1>6 DEF NodeOK, Down
      <3>. QED
        BY <1>4, <1>5, <3>1 DEF EventsOf, NodeKinds
    <2>3. EventsOf(m, "DRAIN_GRACE")' # {}
      BY <1>4, <1>5, <1>6 DEF EventsOf, NodeKinds
    <2>. QED
      BY <2>1, <2>2, <2>3 DEF NodeOK, Down
  <1>7. CASE m # n
    <2>1. KeepsEvents(m)
      BY <1>4, <1>5, <1>7 DEF KeepsEvents
    <2>2. /\ nodeState'[m] = nodeState[m]
          /\ m \in hazard' <=> m \in hazard
          /\ m \in maintWait' <=> m \in maintWait
          /\ m \in maintWait => Owners(m) \subseteq graced'
      BY <1>1, <1>2, <1>7 DEF NodeOK
    <2>. QED
      BY <1>1, <1>3, <2>1, <2>2, NodeSame
  <1>. QED
    BY <1>6, <1>7

LEMMA DrainNodes ==
    ASSUME NodeInv, LifeInv', NEW e \in queue, OnMaintenance(e) \/ OnForcedDrain(e)
    PROVE  NodeInv'
  <1>1. CASE OnMaintenance(e)
    <2> DEFINE rest == (queue \ {e}) \cup Armed("MAINTENANCE_DRAIN", None, maintAt')
    <2>1. \A f : f.type \in NodeKinds => (f \in rest <=> f \in queue)
      BY <1>1, ForeignEvents DEF OnMaintenance, Due, NodeKinds, LoopEvents
    <2>2. NoNodeEvent(rest) \/ \E n \in hazard : DrainNode(n, e.time, rest)
      BY <1>1 DEF OnMaintenance
    <2>3. \A n \in hazard : n \in Nodes /\ nodeState[n] = "HEALTHY"
      BY NodeTypes DEF NodeInv, NodeOK
    <2> HIDE DEF rest
    <2>. QED
      BY <2>1, <2>2, <2>3, NoNodeEventNodes, DrainNodeNodes
  <1>2. CASE OnForcedDrain(e)
    <2>1. \A f : f.type \in NodeKinds => (f \in queue \ {e} <=> f \in queue)
      BY <1>2 DEF OnForcedDrain, Due, NodeKinds
    <2>2. e.arg \in Nodes
      BY <1>2, EventType DEF OnForcedDrain, Due, NodeEvents, NodeInv, LifeInv
    <2>. QED
      BY <1>2, <2>1, <2>2, NoNodeEventNodes, DrainNodeNodes DEF OnForcedDrain
  <1>. QED
    BY <1>1, <1>2

\* The grace of a drain ends: whoever still runs there is told to leave.
LEMMA DrainGraceNodes ==
    ASSUME NodeInv, LifeInv', NEW e \in queue, OnDrainGrace(e)
    PROVE  NodeInv'
  <1> DEFINE n == e.arg
             S == Owners(n) \cap running
             E == IF Owners(n) = {} THEN {n} ELSE {}
  <1> SUFFICES ASSUME NEW m \in Nodes PROVE NodeOK(m)'
    BY DEF NodeInv
  <1>1. n \in Nodes /\ e.type = "DRAIN_GRACE"
    BY EventType DEF NodeInv, LifeInv, OnDrainGrace, Due, NodeEvents
  <1>2. NodeOK(m) /\ nodeState \in [Nodes -> NodeState]
    BY NodeTypes DEF NodeInv
  <1>3. CASE nodeState[n] # "DRAINING"
    <2>1. NoNodeEvent(queue \ {e})
      BY <1>3 DEF OnDrainGrace
    <2>2. UNCHANGED <<nodeState, maintWait, hazard, alloc, graced>>
      BY <2>1 DEF NoNodeEvent, nodeVars, jobVars
    <2>3. Owners(m)' = Owners(m)
      BY <2>2 DEF Owners
    <2>4. \A f : f # e => (f \in queue' <=> f \in queue)
      BY <2>1 DEF NoNodeEvent
    <2>5. CASE m # n
      <3>1. KeepsEvents(m)
        BY <2>4, <2>5 DEF KeepsEvents
      <3>. QED
        BY <1>2, <2>2, <2>3, <3>1, NodeSame DEF NodeOK
    <2>6. CASE m = n
      <3>1. EventsOf(m, "NODE_REPAIR")' = EventsOf(m, "NODE_REPAIR")
        BY <1>1, <2>4 DEF EventsOf
      <3>2. ASSUME Down(m)
            PROVE  \E f \in queue' : EventsOf(m, "NODE_REPAIR")' = {f}
        <4>1. PICK f \in queue : EventsOf(m, "NODE_REPAIR") = {f}
          BY <1>2, <3>2 DEF NodeOK
        <4>2. f \in queue'
          BY <3>1, <4>1 DEF EventsOf
        <4>. QED
          BY <3>1, <4>1, <4>2
      <3>3. nodeState'[m] # "DRAINING"
        BY <1>3, <2>2, <2>6
      <3>. QED
        BY <1>2, <2>2, <2>3, <3>1, <3>2, <3>3 DEF NodeOK, Down
    <2>. QED
      BY <2>5, <2>6
  <1>4. CASE nodeState[n] = "DRAINING"
    <2>1. /\ Evict(S, e.time)
          /\ nodeState' = [k \in Nodes |-> IF k \in E THEN "MAINTENANCE"
                                           ELSE nodeState[k]]
          /\ maintWait' = (maintWait \cup {n}) \ E
          /\ queue' = ((queue \ {e}) \ Named(S, complAt, "JOB_COMPLETION"))
                       \cup Named(S, graceAt', "PREEMPTION_DONE")
                       \cup MaintDone(E, e.time)
          /\ hazard' = hazard /\ alloc' = alloc
      BY <1>4 DEF OnDrainGrace, EndDrainGrace
    <2>2. Owners(m)' = Owners(m) /\ graced' = graced \cup S
      BY <2>1 DEF Owners, Evict
    <2>3. ASSUME NEW f, f.type \in NodeKinds
          PROVE  f \in queue' <=> f \in queue \ {e} \/ f \in MaintDone(E, e.time)
      <3>1. /\ f \notin Named(S, complAt, "JOB_COMPLETION")
            /\ f \notin Named(S, graceAt', "PREEMPTION_DONE")
        BY <2>3, ForeignEvents DEF JobEvents
      <3>. QED
        BY <2>1, <3>1
    <2>4. CASE m # n
      <3>1. KeepsEvents(m)
        <4> SUFFICES ASSUME NEW f, f.type \in NodeKinds, f.arg = m
                     PROVE  f \in queue' <=> f \in queue
          BY DEF KeepsEvents
        <4>1. f # e /\ f \notin MaintDone(E, e.time)
          BY <2>4, MaintMember
        <4>. QED
          BY <2>3, <4>1
      <3>2. /\ nodeState'[m] = nodeState[m]
            /\ m \in hazard' <=> m \in hazard
            /\ m \in maintWait' <=> m \in maintWait
            /\ m \in maintWait => Owners(m) \subseteq graced'
        BY <1>2, <2>1, <2>2, <2>4 DEF NodeOK
      <3>. QED
        BY <1>2, <2>2, <3>1, <3>2, NodeSame
    <2>5. CASE m = n /\ Owners(n) # {}
      <3>1. /\ nodeState'[m] = "DRAINING" /\ m \in maintWait'
            /\ m \notin hazard'
        BY <1>2, <1>4, <2>1, <2>5 DEF NodeOK
      <3>2. EventsOf(m, "NODE_REPAIR")' = {}
        <4>1. EventsOf(m, "NODE_REPAIR") = {}
          BY <1>2, <1>4, <2>5 DEF NodeOK, Down
        <4>2. \A f : f \notin MaintDone(E, e.time)
          BY <2>5, MaintMember
        <4>. QED
          BY <2>3, <4>1, <4>2 DEF EventsOf, NodeKinds
      <3>3. Owners(m)' # {} /\ Owners(m)' \subseteq graced'
        <4>1. Owners(n) \subseteq running \cup graced
          BY OwnersPlaced DEF NodeInv
        <4>. QED
          BY <2>2, <2>5, <4>1
      <3>. QED
        BY <3>1, <3>2, <3>3 DEF NodeOK, Down
    <2>6. CASE m = n /\ Owners(n) = {}
      <3>1. E = {n}
        BY <2>6
      <3>2. /\ nodeState'[m] = "MAINTENANCE" /\ m \notin maintWait'
            /\ m \notin hazard'
        BY <1>2, <1>4, <2>1, <2>6, <3>1 DEF NodeOK
      <3>3. EventsOf(m, "NODE_REPAIR") = {}
        BY <1>2, <1>4, <2>6 DEF NodeOK, Down
      <3> DEFINE r == Ev(e.time + maintFor[n], "NODE_REPAIR", n)
      <3>4. r.type = "NODE_REPAIR" /\ r.arg = n
        BY DEF Ev
      <3>5. \A f : f \in MaintDone(E, e.time) <=> f = r
        BY <3>1, MaintMember
      <3> HIDE DEF E, r
      <3>6. EventsOf(m, "NODE_REPAIR")' = {r} /\ r \in queue'
        BY <2>3, <2>6, <3>3, <3>4, <3>5 DEF EventsOf, NodeKinds
      <3>. QED
        BY <2>2, <2>6, <3>2, <3>6 DEF NodeOK, Down
    <2>. QED
      BY <2>4, <2>5, <2>6
  <1>. QED
    BY <1>3, <1>4

-----------------------------------------------------------------------------
(* The step and the theorems. *)

LEMMA NextNodes == NodeInv /\ [Next]_vars => NodeInv'
  <1> SUFFICES ASSUME NodeInv, [Next]_vars PROVE NodeInv'
    OBVIOUS
  <1>1. LifeInv'
    BY NextLife DEF NodeInv
  <1>2. ASSUME NEW e \in queue, OnCompletion(e) \/ OnValidUntil(e) \/ OnLifetime(e)
        PROVE  NodeInv'
    <2>1. e.arg \in Jobs /\ e.type \notin NodeKinds
      BY <1>2, EventType DEF NodeInv, LifeInv, OnCompletion, OnValidUntil,
                             OnLifetime, Due, JobEvents, NodeKinds
    <2>2. CASE \E final : Finish(e.arg, e.time, final, {e})
      BY <1>1, <2>1, <2>2, FinishNodes
    <2>3. CASE /\ queue' = queue \ {e}
               /\ UNCHANGED <<jobVars, nodeVars>>
      <3>1. QuietForNodes
        BY <2>1, <2>3 DEF QuietForNodes, KeepsEvents, jobVars
      <3>. QED
        BY <1>1, <3>1, QuietNodes
    <2>. QED
      BY <1>2, <2>2, <2>3 DEF OnCompletion, OnValidUntil, OnLifetime
  <1>3. ASSUME Turn PROVE NodeInv'
    BY <1>1, <1>2, <1>3, FailureNodes, RepairNodes, DrainNodes, DrainGraceNodes,
       PreemptionDoneNodes, SubmitNodes, LoopNodes DEF Turn
  <1>4. ASSUME InWake PROVE NodeInv'
    <2>1. ASSUME NEW v \in Jobs, NEW p, PreemptCancel(v, p) PROVE NodeInv'
      <3>1. Finish(v, now, "CANCELED", {})
        BY <2>1 DEF PreemptCancel
      <3>. QED
        BY <1>1, <3>1, FinishNodes
    <2>. QED
      BY <1>1, <1>4, <2>1, SubmitNodes, LoopNodes, PlaceNodes,
         PreemptRequeueNodes DEF InWake
  <1>. QED
    BY <1>1, <1>3, <1>4, LoopNodes DEF Next, Stopped

LEMMA NodeInvariant == Spec => []NodeInv
  BY InitNodes, NextNodes, PTL DEF Spec, NodeInv

\* A node that goes down, by a failure or for maintenance, is empty and has
\* exactly one repair to come, for every scenario and schedule of failures and
\* drains: no overlap of a failure with a drain loses a node or repairs it twice.
THEOREM NodesComeBack == Spec => []DownNodesComeBack
  <1>1. NodeInv => DownNodesComeBack
    BY NodeTypes DEF NodeInv, NodeOK, Down, DownNodesComeBack, NodeState
  <1>. QED
    BY <1>1, NodeInvariant, PTL

\* No drain gets stuck, for every scenario: a DRAINING node has its grace event
\* to come or waits only for jobs that are already leaving, its maintenance
\* length has been drawn, and the hazard set is the HEALTHY nodes.
THEOREM DrainsProgress == Spec => []DrainsMakeProgress
  <1>1. NodeInv => DrainsMakeProgress
    <2> SUFFICES ASSUME NodeInv PROVE DrainsMakeProgress
      OBVIOUS
    <2>1. DrainDrawn /\ hazard \subseteq Nodes /\ maintWait \subseteq Nodes
      BY DEF NodeInv, LifeInv, TypeInv, TypeOK
    <2>2. \A n \in Nodes : nodeState[n] = "DRAINING" => maintFor[n] # None
      <3>1. \A x \in Nat : x # None
        BY DEF None
      <3>. QED
        BY <2>1, <3>1 DEF DrainDrawn
    <2>3. \A n \in Nodes : NodeOK(n)
      BY DEF NodeInv
    <2>4. hazard = {n \in Nodes : nodeState[n] = "HEALTHY"}
      BY <2>1, <2>3 DEF NodeOK
    <2>. QED
      BY <2>1, <2>2, <2>3, <2>4 DEF NodeOK, DrainsMakeProgress
  <1>. QED
    BY <1>1, NodeInvariant, PTL
-----------------------------------------------------------------------------
(* The totals that the engine keeps up by adding and subtracting: what the    *)
(* metrics sink has been told and the quota committed to each tenant.  Each   *)
(* handler has an effect on the set behind each total; the total follows it.  *)

(* Sums of chips.  A sum is the size of a set of pairs, one for each chip, so *)
(* that its laws are those of finite sets.                                    *)

Chips(S, take) == UNION {{j} \X (1 .. take[j]) : j \in S}
Demand == [j \in Jobs |-> Job[j].chips]

LEMMA InChips ==
    ASSUME NEW S, NEW take, NEW p
    PROVE  p \in Chips(S, take) <=> \E j \in S : \E i \in 1 .. take[j] : p = <<j, i>>
  BY DEF Chips

LEMMA TakenType ==
    ASSUME NEW S \in SUBSET Jobs, NEW take \in [Jobs -> Nat]
    PROVE  /\ IsFiniteSet(Chips(S, take)) /\ Taken(S, take) \in Nat
           /\ Taken(S, take) = Cardinality(Chips(S, take))
  <1> DEFINE Row(j) == {j} \X (1 .. take[j])
             Rows == {Row(j) : j \in S}
             row == [j \in S |-> Row(j)]
  <1>1. \A j \in S : IsFiniteSet(Row(j))
    <2> SUFFICES ASSUME NEW j \in S PROVE IsFiniteSet(Row(j))
      OBVIOUS
    <2>1. take[j] \in Int
      OBVIOUS
    <2>2. IsFiniteSet(1 .. take[j])
      BY <2>1, FS_Interval
    <2>3. IsFiniteSet({j})
      BY FS_Singleton
    <2>. QED
      BY <2>2, <2>3, FS_Product
  <1>2. IsFiniteSet(S)
    BY ConfigAssumption, FS_Subset DEF ConfigAssumption
  <1>3. row \in Surjection(S, Rows)
    BY DEF Surjection
  <1>4. IsFiniteSet(Rows)
    BY <1>2, <1>3, FS_Surjection
  <1>5. \A R \in Rows : IsFiniteSet(R)
    BY <1>1
  <1>6. IsFiniteSet(UNION Rows)
    BY <1>4, <1>5, FS_UNION
  <1>7. Chips(S, take) = UNION Rows /\ Taken(S, take) = Cardinality(UNION Rows)
    BY DEF Chips, Taken
  <1>. QED
    BY <1>6, <1>7, FS_CardinalityType

\* What disjoint sets of jobs take adds up.
LEMMA TakenUnion ==
    ASSUME NEW S \in SUBSET Jobs, NEW T \in SUBSET Jobs, S \cap T = {},
           NEW take \in [Jobs -> Nat]
    PROVE  Taken(S \cup T, take) = Taken(S, take) + Taken(T, take)
  <1>1. Chips(S \cup T, take) = Chips(S, take) \cup Chips(T, take)
    BY DEF Chips
  <1>2. Chips(S, take) \cap Chips(T, take) = {}
    <2> SUFFICES ASSUME NEW p, p \in Chips(S, take), p \in Chips(T, take)
                 PROVE  FALSE
      OBVIOUS
    <2>1. PICK j \in S : \E i \in 1 .. take[j] : p = <<j, i>>
      BY InChips
    <2>2. PICK k \in T : \E i \in 1 .. take[k] : p = <<k, i>>
      BY InChips
    <2>. QED
      BY <2>1, <2>2
  <1>3. Cardinality(Chips(S, take) \cap Chips(T, take)) = 0
    BY <1>2, FS_EmptySet
  <1>4. /\ IsFiniteSet(Chips(S, take)) /\ IsFiniteSet(Chips(T, take))
        /\ Taken(S, take) = Cardinality(Chips(S, take))
        /\ Taken(T, take) = Cardinality(Chips(T, take))
        /\ Taken(S, take) \in Nat /\ Taken(T, take) \in Nat
    BY TakenType
  <1>5. Taken(S \cup T, take) = Cardinality(Chips(S \cup T, take))
    BY DEF Taken, Chips
  <1>6. Cardinality(Chips(S, take) \cup Chips(T, take)) =
          Taken(S, take) + Taken(T, take) - 0
    BY <1>3, <1>4, FS_Union
  <1>7. Cardinality(Chips(S, take) \cup Chips(T, take)) =
          Taken(S, take) + Taken(T, take)
    BY <1>4, <1>6
  <1>. QED
    BY <1>1, <1>5, <1>7

\* More jobs take more.
LEMMA TakenMore ==
    ASSUME NEW S \in SUBSET Jobs, NEW T \in SUBSET Jobs, S \subseteq T,
           NEW take \in [Jobs -> Nat]
    PROVE  Taken(S, take) <= Taken(T, take)
  <1>1. /\ T \ S \in SUBSET Jobs /\ S \cap (T \ S) = {} /\ T = S \cup (T \ S)
    OBVIOUS
  <1>2. Taken(T, take) = Taken(S, take) + Taken(T \ S, take)
    BY <1>1, TakenUnion
  <1>3. Taken(S, take) \in Nat /\ Taken(T \ S, take) \in Nat
    BY <1>1, TakenType
  <1>. QED
    BY <1>2, <1>3

LEMMA ChipsType ==
    ASSUME NEW S \in SUBSET Jobs
    PROVE  ChipsOf(S) \in Nat /\ Demand \in [Jobs -> Nat] /\ ChipsOf(S) = Taken(S, Demand)
  <1>1. Demand \in [Jobs -> Nat]
    BY JobFields DEF Demand
  <1>. QED
    BY <1>1, TakenType DEF ChipsOf, Demand

LEMMA ChipsOfOne ==
    ASSUME NEW j \in Jobs
    PROVE  ChipsOf({j}) = Job[j].chips /\ Job[j].chips \in Nat
  <1>1. {j} \in SUBSET Jobs /\ Demand[j] = Job[j].chips /\ Job[j].chips \in Nat
    BY JobFields DEF Demand
  <1>2. Chips({j}, Demand) = {j} \X (1 .. Demand[j])
    BY DEF Chips
  <1>3. Cardinality(1 .. Demand[j]) = Demand[j] /\ IsFiniteSet(1 .. Demand[j])
    <2>1. Demand[j] \in Int /\ Demand[j] >= 0
      BY <1>1
    <2>. QED
      BY <2>1, FS_Interval
  <1>4. Cardinality({j}) = 1 /\ IsFiniteSet({j})
    BY FS_Singleton
  <1>5. Cardinality({j} \X (1 .. Demand[j])) = 1 * Demand[j]
    BY ZenonT(60), <1>3, <1>4, FS_Product
  <1>6. ChipsOf({j}) = Cardinality(Chips({j}, Demand))
    BY <1>1, ChipsType, TakenType
  <1>. QED
    BY <1>1, <1>2, <1>5, <1>6

\* The chips of the jobs that are left when those of R have gone.
LEMMA ChipsLess ==
    ASSUME NEW S \in SUBSET Jobs, NEW R \in SUBSET Jobs
    PROVE  ChipsOf(S \ R) = ChipsOf(S) - ChipsOf(S \cap R)
  <1>1. /\ S \ R \in SUBSET Jobs /\ S \cap R \in SUBSET Jobs
        /\ (S \ R) \cap (S \cap R) = {} /\ S = (S \ R) \cup (S \cap R)
    OBVIOUS
  <1>2. Taken(S, Demand) = Taken(S \ R, Demand) + Taken(S \cap R, Demand)
    BY <1>1, TakenUnion, ChipsType
  <1>. QED
    BY <1>1, <1>2, ChipsType

\* One job more.
LEMMA ChipsMore ==
    ASSUME NEW S \in SUBSET Jobs, NEW j \in Jobs, j \notin S
    PROVE  ChipsOf(S \cup {j}) = ChipsOf(S) + Job[j].chips
  <1>1. {j} \in SUBSET Jobs /\ S \cap {j} = {} /\ S \cup {j} \in SUBSET Jobs
    OBVIOUS
  <1>2. Taken(S \cup {j}, Demand) = Taken(S, Demand) + Taken({j}, Demand)
    BY <1>1, TakenUnion, ChipsType
  <1>. QED
    BY <1>1, <1>2, ChipsType, ChipsOfOne

-----------------------------------------------------------------------------
(* The totals and the sets behind them. *)

Held == running \cup graced
Ended == {j \in Jobs : status[j] \in Terminal}
InQuotaOf(u) == {j \in inQuota : Job[j].tenant = u}

TotalsInv ==
    /\ NodeInv
    /\ mAlloc = ChipsOf(Held)
    /\ mHealthy = Cardinality(hazard)
    /\ mFinished = Cardinality(Ended)
    /\ QuotaConserved

\* What a step may do to each set, and to its total.
HeldStep ==
    \/ Held' = Held /\ mAlloc' = mAlloc
    \/ \E rel \in SUBSET Jobs :
          Held' = Held \ rel /\ mAlloc' = mAlloc - ChipsOf(Held \cap rel)
    \/ \E j \in Jobs \ Held :
          Held' = Held \cup {j} /\ mAlloc' = mAlloc + Job[j].chips

HealthStep ==
    \/ hazard' = hazard /\ mHealthy' = mHealthy
    \/ \E n \in Nodes \ hazard :
          hazard' = hazard \cup {n} /\ mHealthy' = mHealthy + 1
    \/ \E n \in hazard : hazard' = hazard \ {n} /\ mHealthy' = mHealthy - 1

EndedStep ==
    \/ Ended' = Ended /\ mFinished' = mFinished
    \/ \E j \in Jobs \ Ended :
          Ended' = Ended \cup {j} /\ mFinished' = mFinished + 1

QuotaStep ==
    /\ known \subseteq known'
    /\ \A j \in inQuota' : j \in known' /\ j \notin Ended'
    /\ \/ UNCHANGED <<inQuota, committed>>
       \/ \E j \in inQuota :
             /\ inQuota' = inQuota \ {j}
             /\ committed' = [committed EXCEPT ![Job[j].tenant] = @ - Job[j].chips]
       \/ \E j \in Jobs \ inQuota :
             /\ inQuota' = inQuota \cup {j} /\ ~ OverQuota(j)
             /\ committed' = [committed EXCEPT ![Job[j].tenant] = @ + Job[j].chips]

TotalsStep == HeldStep /\ HealthStep /\ EndedStep /\ QuotaStep

LEMMA TotalTypes ==
    ASSUME NodeInv
    PROVE  /\ Held \in SUBSET Jobs /\ IsFiniteSet(hazard) /\ hazard \subseteq Nodes
           /\ IsFiniteSet(Ended) /\ inQuota \subseteq Jobs /\ known \subseteq Jobs
           /\ committed \in [Tenants -> Int] /\ mHealthy \in Int
           /\ \A u : InQuotaOf(u) \in SUBSET Jobs
  <1>1. TypeOK
    BY DEF NodeInv, LifeInv, TypeInv
  <1>2. IsFiniteSet(hazard) /\ IsFiniteSet(Ended)
    BY <1>1, ConfigAssumption, FS_Subset DEF TypeOK, ConfigAssumption, Ended
  <1>. QED
    BY <1>1, <1>2 DEF TypeOK, Held, InQuotaOf

\* The chips that a release takes off are those of the jobs that hold some.
LEMMA ReleasedHeld ==
    ASSUME NodeInv, NEW rel \in SUBSET Jobs
    PROVE  {j \in rel : alloc[j] # {}} = Held \cap rel
  BY JobAgreesNow DEF NodeInv, JobAgrees, Held

LEMMA HeldTotal ==
    ASSUME TotalsInv, HeldStep
    PROVE  mAlloc' = ChipsOf(Held')
  <1>1. Held \in SUBSET Jobs /\ mAlloc = ChipsOf(Held)
    BY TotalTypes DEF TotalsInv
  <1>2. CASE Held' = Held /\ mAlloc' = mAlloc
    BY <1>1, <1>2
  <1>3. ASSUME NEW rel \in SUBSET Jobs, Held' = Held \ rel,
               mAlloc' = mAlloc - ChipsOf(Held \cap rel)
        PROVE  mAlloc' = ChipsOf(Held')
    BY <1>1, <1>3, ChipsLess
  <1>4. ASSUME NEW j \in Jobs \ Held, Held' = Held \cup {j},
               mAlloc' = mAlloc + Job[j].chips
        PROVE  mAlloc' = ChipsOf(Held')
    BY <1>1, <1>4, ChipsMore
  <1>. QED
    BY <1>2, <1>3, <1>4 DEF HeldStep

LEMMA CountTotals ==
    ASSUME TotalsInv, HealthStep, EndedStep
    PROVE  mHealthy' = Cardinality(hazard') /\ mFinished' = Cardinality(Ended')
  <1>1. /\ IsFiniteSet(hazard) /\ IsFiniteSet(Ended)
        /\ mHealthy = Cardinality(hazard) /\ mFinished = Cardinality(Ended)
    BY TotalTypes DEF TotalsInv
  <1>2. Cardinality(hazard) \in Nat /\ Cardinality(Ended) \in Nat
    BY <1>1, FS_CardinalityType
  <1>3. mHealthy' = Cardinality(hazard')
    BY <1>1, <1>2, FS_AddElement, FS_RemoveElement DEF HealthStep
  <1>4. mFinished' = Cardinality(Ended')
    BY <1>1, <1>2, FS_AddElement DEF EndedStep
  <1>. QED
    BY <1>3, <1>4

LEMMA QuotaTotal ==
    ASSUME TotalsInv, QuotaStep
    PROVE  QuotaConserved'
  <1>1. \A j \in inQuota' : j \in known' /\ status'[j] \notin Terminal
    <2>1. inQuota' \subseteq Jobs
      BY TotalTypes DEF TotalsInv, QuotaStep
    <2>. QED
      BY <2>1 DEF QuotaStep, Ended
  <1> SUFFICES ASSUME NEW u \in Tenants
               PROVE  /\ committed'[u] = ChipsOf(InQuotaOf(u)')
                      /\ Cap[u] # None => committed'[u] <= Cap[u]
    BY <1>1 DEF QuotaConserved, InQuotaOf
  <1>2. /\ committed \in [Tenants -> Int] /\ inQuota \subseteq Jobs
        /\ InQuotaOf(u) \in SUBSET Jobs
    BY TotalTypes DEF TotalsInv
  <1>3. committed[u] = ChipsOf(InQuotaOf(u)) /\ (Cap[u] # None => committed[u] <= Cap[u])
    BY DEF TotalsInv, QuotaConserved, InQuotaOf
  <1>4. Cap[u] \in Nat \cup {None}
    BY ConfigAssumption DEF ConfigAssumption
  <1>5. CASE UNCHANGED <<inQuota, committed>>
    BY <1>3, <1>5 DEF InQuotaOf
  <1>6. ASSUME NEW j \in inQuota, inQuota' = inQuota \ {j},
               committed' = [committed EXCEPT ![Job[j].tenant] = @ - Job[j].chips]
        PROVE  /\ committed'[u] = ChipsOf(InQuotaOf(u)')
               /\ Cap[u] # None => committed'[u] <= Cap[u]
    <2>1. CASE Job[j].tenant # u
      <3>1. InQuotaOf(u)' = InQuotaOf(u) /\ committed'[u] = committed[u]
        BY <1>2, <1>6, <2>1 DEF InQuotaOf
      <3>. QED
        BY <1>3, <3>1
    <2>2. CASE Job[j].tenant = u
      <3>1. /\ InQuotaOf(u)' = InQuotaOf(u) \ {j} /\ InQuotaOf(u) \cap {j} = {j}
            /\ committed'[u] = committed[u] - Job[j].chips
            /\ {j} \in SUBSET Jobs
        BY <1>2, <1>6, <2>2 DEF InQuotaOf
      <3>2. ChipsOf(InQuotaOf(u) \ {j}) = ChipsOf(InQuotaOf(u)) - Job[j].chips
        <4>1. ChipsOf(InQuotaOf(u) \ {j}) =
                ChipsOf(InQuotaOf(u)) - ChipsOf(InQuotaOf(u) \cap {j})
          BY <1>2, <3>1, ChipsLess
        <4>. QED
          BY <1>2, <3>1, <4>1, ChipsOfOne
      <3>3. Job[j].chips \in Nat /\ committed[u] \in Int
        BY <1>2, <3>1, ChipsOfOne
      <3>. QED
        BY <1>3, <1>4, <3>1, <3>2, <3>3
    <2>. QED
      BY <2>1, <2>2
  <1>7. ASSUME NEW j \in Jobs \ inQuota, inQuota' = inQuota \cup {j}, ~ OverQuota(j),
               committed' = [committed EXCEPT ![Job[j].tenant] = @ + Job[j].chips]
        PROVE  /\ committed'[u] = ChipsOf(InQuotaOf(u)')
               /\ Cap[u] # None => committed'[u] <= Cap[u]
    <2>1. CASE Job[j].tenant # u
      <3>1. InQuotaOf(u)' = InQuotaOf(u) /\ committed'[u] = committed[u]
        BY <1>2, <1>7, <2>1 DEF InQuotaOf
      <3>. QED
        BY <1>3, <3>1
    <2>2. CASE Job[j].tenant = u
      <3>1. /\ InQuotaOf(u)' = InQuotaOf(u) \cup {j} /\ j \notin InQuotaOf(u)
            /\ committed'[u] = committed[u] + Job[j].chips
        BY <1>2, <1>7, <2>2 DEF InQuotaOf
      <3>2. ChipsOf(InQuotaOf(u) \cup {j}) = ChipsOf(InQuotaOf(u)) + Job[j].chips
        BY <1>2, <3>1, ChipsMore
      <3>3. Job[j].chips \in Nat /\ committed[u] \in Int
        BY <1>2, ChipsOfOne
      <3>4. Cap[u] # None => committed[u] + Job[j].chips <= Cap[u]
        BY <1>4, <1>7, <2>2, <3>3 DEF OverQuota
      <3>. QED
        BY <1>3, <3>1, <3>2, <3>4
    <2>. QED
      BY <2>1, <2>2
  <1>. QED
    BY <1>5, <1>6, <1>7 DEF QuotaStep

LEMMA TotalsFollow ==
    ASSUME TotalsInv, NodeInv', TotalsStep
    PROVE  TotalsInv'
  BY HeldTotal, CountTotals, QuotaTotal DEF TotalsInv, TotalsStep

-----------------------------------------------------------------------------
(* The effect of each handler. *)

\* A handler that touches no job, no node's health and no commitment.
Untouched ==
    UNCHANGED <<running, graced, status, known, hazard, committed, inQuota,
                mAlloc, mHealthy, mFinished>>

LEMMA UntouchedTotals ==
    ASSUME TotalsInv, Untouched
    PROVE  TotalsStep
  <1>1. Held' = Held /\ Ended' = Ended
    BY DEF Untouched, Held, Ended
  <1>2. \A j \in inQuota : j \in known /\ j \notin Ended
    BY DEF TotalsInv, QuotaConserved, Ended
  <1>. QED
    BY <1>1, <1>2 DEF Untouched, TotalsStep, HeldStep, HealthStep, EndedStep, QuotaStep

LEMMA QuietTotals ==
    ASSUME TotalsInv,
           \/ \E e \in queue : OnFlush(e) \/ OnWake(e)
           \/ \E rest : NoNodeEvent(rest)
           \/ BuildView \/ EndWake \/ Finalize \/ UNCHANGED vars
    PROVE  TotalsStep
  <1>1. Untouched
    BY DEF Untouched, OnFlush, OnWake, NoNodeEvent, BuildView, EndWake, Finalize,
           vars, jobVars, nodeVars, quotaVars, metricVars
  <1>. QED
    BY <1>1, UntouchedTotals

\* A new job ends at once, or is queued and counted in its tenant's quota if the
\* tenant has one and the job fits in it.
LEMMA SubmitTotals ==
    ASSUME TotalsInv, NEW j \in Jobs, j \notin known, NEW t,
           SubmitInvalid(j) \/ SubmitRejected(j) \/ SubmitAdmitted(j, t),
           SubmitUnchanged
    PROVE  TotalsStep
  <1>1. /\ status \in [Jobs -> JobStatus] /\ status[j] = "PENDING"
        /\ inQuota \subseteq Jobs /\ j \notin inQuota /\ j \notin Ended
        /\ \A k \in inQuota : k \in known /\ k \notin Ended
    <2>1. status[j] = "PENDING"
      BY NewJob DEF TotalsInv, NodeInv
    <2>2. status \in [Jobs -> JobStatus] /\ inQuota \subseteq Jobs
      BY DEF TotalsInv, NodeInv, LifeInv, TypeInv, TypeOK
    <2>. QED
      BY <2>1, <2>2 DEF TotalsInv, QuotaConserved, Ended, Terminal
  <1>2. /\ HeldStep /\ HealthStep /\ known' = known \cup {j}
    BY DEF SubmitUnchanged, SubmitInvalid, SubmitRejected, SubmitAdmitted, nodeVars,
           HeldStep, HealthStep, Held
  <1>3. CASE SubmitInvalid(j) \/ SubmitRejected(j)
    <2>1. /\ status' = [status EXCEPT ![j] = "FAILED"] /\ mFinished' = mFinished + 1
          /\ UNCHANGED <<inQuota, committed>>
      BY <1>3 DEF SubmitInvalid, SubmitRejected, quotaVars
    <2>2. Ended' = Ended \cup {j}
      BY <1>1, <2>1 DEF Ended, Terminal
    <2>3. EndedStep
      BY <1>1, <2>1, <2>2 DEF EndedStep
    <2>4. QuotaStep
      BY <1>1, <1>2, <2>1, <2>2 DEF QuotaStep
    <2>. QED
      BY <1>2, <2>3, <2>4 DEF TotalsStep
  <1>4. CASE SubmitAdmitted(j, t)
    <2>1. /\ status' = [status EXCEPT ![j] = "ADMITTED"] /\ mFinished' = mFinished
          /\ Admit(j)
      BY <1>4 DEF SubmitAdmitted
    <2>2. Ended' = Ended
      BY <1>1, <2>1 DEF Ended, Terminal
    <2>3. EndedStep
      BY <2>1, <2>2 DEF EndedStep
    <2>4. \/ UNCHANGED <<inQuota, committed>>
          \/ /\ inQuota' = inQuota \cup {j} /\ ~ OverQuota(j)
             /\ committed' = [committed EXCEPT ![Job[j].tenant] = @ + Job[j].chips]
      BY <2>1 DEF Admit, quotaVars
    <2>5. \A k \in inQuota' : k \in known' /\ k \notin Ended'
      BY <1>1, <1>2, <2>2, <2>4
    <2>6. QuotaStep
      BY <1>1, <1>2, <2>4, <2>5 DEF QuotaStep
    <2>. QED
      BY <1>2, <2>3, <2>6 DEF TotalsStep
  <1>. QED
    BY <1>3, <1>4

LEMMA FinishTotals ==
    ASSUME TotalsInv, NEW j \in Jobs, j \in known, status[j] \notin Terminal,
           NEW t, NEW final \in Terminal, NEW popped, Finish(j, t, final, popped)
    PROVE  TotalsStep
  <1>1. /\ status \in [Jobs -> JobStatus] /\ inQuota \subseteq Jobs
        /\ committed \in [Tenants -> Int]
        /\ \A k \in inQuota : k \in known /\ k \notin Ended
    <2>1. status \in [Jobs -> JobStatus]
      BY DEF TotalsInv, NodeInv, LifeInv, TypeInv, TypeOK
    <2>. QED
      BY <2>1, TotalTypes DEF TotalsInv, QuotaConserved, Ended
  <1>2. HeldStep
    <2>1. /\ Held' = Held \ {j}
          /\ mAlloc' = mAlloc - ChipsOf({k \in {j} : alloc[k] # {}})
      BY DEF Finish, Release, Held
    <2>2. {k \in {j} : alloc[k] # {}} = Held \cap {j}
      BY ReleasedHeld DEF TotalsInv
    <2>. QED
      BY <2>1, <2>2 DEF HeldStep
  <1>3. HealthStep
    BY DEF Finish, HealthStep
  <1>4. Ended' = Ended \cup {j} /\ mFinished' = mFinished + 1 /\ j \notin Ended
    BY <1>1 DEF Finish, Ended
  <1>5. EndedStep
    BY <1>4 DEF EndedStep
  <1>6. /\ known' = known /\ inQuota' = inQuota \ {j}
        /\ committed' = IF j \in inQuota
                        THEN [committed EXCEPT ![Job[j].tenant] = @ - Job[j].chips]
                        ELSE committed
    BY DEF Finish
  <1>7. \A k \in inQuota' : k \in known' /\ k \notin Ended'
    BY <1>1, <1>4, <1>6
  <1>8. QuotaStep
    <2>1. CASE j \in inQuota
      BY <1>6, <1>7, <2>1 DEF QuotaStep
    <2>2. CASE j \notin inQuota
      BY <1>6, <1>7, <2>2 DEF QuotaStep
    <2>. QED
      BY <2>1, <2>2
  <1>. QED
    BY <1>2, <1>3, <1>5, <1>8 DEF TotalsStep

\* A job that is neither submitted nor finished keeps its place in the quota.
LEMMA SameQuota ==
    ASSUME TotalsInv, UNCHANGED <<known, inQuota, committed, mFinished>>, Ended' = Ended
    PROVE  QuotaStep /\ EndedStep
  BY DEF TotalsInv, QuotaConserved, QuotaStep, EndedStep, Ended

LEMMA PlaceTotals ==
    ASSUME TotalsInv, NEW j \in Jobs, NEW S, Place(j, S)
    PROVE  TotalsStep
  <1>1. JobAgrees(j) /\ status \in [Jobs -> JobStatus]
    BY JobAgreesNow DEF TotalsInv, NodeInv, LifeInv, TypeInv, TypeOK
  <1>2. /\ j \in pending /\ status' = [status EXCEPT ![j] = "RUNNING"]
        /\ running' = running \cup {j} /\ graced' = graced
        /\ mAlloc' = mAlloc + Job[j].chips
        /\ UNCHANGED <<known, inQuota, committed, hazard, mHealthy, mFinished>>
    BY DEF Place, quotaVars, nodeVars
  <1>3. j \notin Held /\ status[j] \notin Terminal
    BY <1>1, <1>2 DEF JobAgrees, Held, Terminal
  <1>4. Held' = Held \cup {j}
    BY <1>2 DEF Held
  <1>5. Ended' = Ended
    BY <1>1, <1>2, <1>3 DEF Ended, Terminal
  <1>6. HeldStep /\ HealthStep
    BY <1>2, <1>3, <1>4 DEF HeldStep, HealthStep
  <1>. QED
    BY <1>2, <1>5, <1>6, SameQuota DEF TotalsStep

LEMMA EvictTotals ==
    ASSUME TotalsInv, NEW S \in SUBSET running, NEW t, Evict(S, t),
           UNCHANGED <<known, inQuota, committed, hazard, metricVars>>
    PROVE  TotalsStep
  <1>1. /\ \A k \in Jobs : JobAgrees(k)
        /\ status \in [Jobs -> JobStatus] /\ running \subseteq Jobs
    BY JobAgreesNow DEF TotalsInv, NodeInv, LifeInv, TypeInv, TypeOK
  <1>2. /\ \A k \in Jobs : status'[k] = IF k \in S THEN "PREEMPTED" ELSE status[k]
        /\ running' = running \ S /\ graced' = graced \cup S
    BY DEF Evict
  <1>3. Held' = Held
    BY <1>2 DEF Held
  <1>4. Ended' = Ended
    BY <1>1, <1>2 DEF Ended, JobAgrees, Terminal
  <1>5. HeldStep /\ HealthStep
    BY <1>3 DEF HeldStep, HealthStep, metricVars
  <1>. QED
    BY <1>4, <1>5, SameQuota DEF TotalsStep, metricVars

\* Jobs that hold chips go back to the queue.
LEMMA RequeueTotals ==
    ASSUME TotalsInv, NEW S \in SUBSET Held, NEW n, NEW t, Release(S, n, t), HealthStep,
           \A k \in Jobs : status'[k] = IF k \in S THEN "PENDING" ELSE status[k],
           Held' = Held \ S, UNCHANGED <<known, inQuota, committed, mFinished>>
    PROVE  TotalsStep
  <1>1. Held \in SUBSET Jobs
    BY TotalTypes DEF TotalsInv
  <1>2. HeldStep
    <2>1. S \in SUBSET Jobs /\ mAlloc' = mAlloc - ChipsOf({k \in S : alloc[k] # {}})
      BY <1>1 DEF Release
    <2>2. {k \in S : alloc[k] # {}} = Held \cap S
      BY <2>1, ReleasedHeld DEF TotalsInv
    <2>. QED
      BY <2>1, <2>2 DEF HeldStep
  <1>3. \A k \in S : status[k] \notin Terminal
    BY <1>1, JobAgreesNow DEF TotalsInv, NodeInv, JobAgrees, Held, Terminal
  <1>4. Ended' = Ended
    BY <1>3 DEF Ended, Terminal
  <1>. QED
    BY <1>2, <1>4, SameQuota DEF TotalsStep

LEMMA ArrivalTotals ==
    ASSUME TotalsInv,
           (\E e \in queue : OnArrival(e)) \/ (\E j \in Jobs : Refill(j))
    PROVE  TotalsStep
  <1>1. ASSUME NEW e \in queue, OnArrival(e) PROVE TotalsStep
    <2>1. e.arg \in Jobs /\ e.arg \notin known
      BY <1>1, EventType DEF TotalsInv, NodeInv, LifeInv, ArrivalsFresh, OnArrival,
                             Due, JobEvents
    <2>. QED
      BY <1>1, <2>1, SubmitTotals DEF OnArrival
  <1>2. ASSUME NEW j \in Jobs, Refill(j) PROVE TotalsStep
    BY <1>2, SubmitTotals DEF Refill
  <1>. QED
    BY <1>1, <1>2

\* The four handlers that end a job find it unfinished.
LEMMA EndTotals ==
    ASSUME TotalsInv,
           \/ \E e \in queue : OnCompletion(e) \/ OnValidUntil(e) \/ OnLifetime(e)
           \/ \E v \in Jobs, p \in Jobs \cup {Nil} : PreemptCancel(v, p)
    PROVE  TotalsStep
  <1>1. ASSUME NEW e \in queue, OnCompletion(e) \/ OnValidUntil(e) \/ OnLifetime(e)
        PROVE  TotalsStep
    <2>1. e.arg \in Jobs /\ e \in Event /\ EventsTracked
      BY <1>1, EventType DEF TotalsInv, NodeInv, LifeInv, TypeInv, TypeOK,
            OnCompletion, OnValidUntil, OnLifetime, Due, JobEvents
    <2>2. JobAgrees(e.arg)
      BY <2>1, JobAgreesNow DEF TotalsInv, NodeInv
    <2>3. \/ OnCompletion(e) /\ complAt[e.arg] # None
          \/ OnValidUntil(e) /\ validAt[e.arg] # None
          \/ OnLifetime(e) /\ lifeAt[e.arg] # None
      BY <1>1, <2>1, EventArg DEF EventsTracked, Tracks, Handled, OnCompletion,
            OnValidUntil, OnLifetime, Due
    <2>4. status[e.arg] \notin Terminal /\ e.arg \in known
      BY <2>2, <2>3 DEF JobAgrees, Terminal
    <2>5. \E final \in Terminal : Finish(e.arg, e.time, final, {e})
      <3>1. Job[e.arg].final \in Terminal
        BY <2>1, JobFields
      <3>2. "FAILED" \in Terminal /\ "TIMEOUT" \in Terminal
        BY DEF Terminal
      <3>3. ~ started[e.arg] \/ ~ OnValidUntil(e)
        BY <2>1, <2>2, EventArg DEF JobAgrees, EventsTracked, Tracks, Handled,
              OnValidUntil, Due
      <3>. QED
        BY <2>3, <2>4, <3>1, <3>2, <3>3 DEF OnCompletion, OnValidUntil, OnLifetime
    <2>. QED
      BY <2>1, <2>4, <2>5, FinishTotals
  <1>2. ASSUME NEW v \in Jobs, NEW p, PreemptCancel(v, p) PROVE TotalsStep
    <2>1. JobAgrees(v) /\ status[v] = "RUNNING"
      BY <1>2, JobAgreesNow DEF TotalsInv, NodeInv, PreemptCancel, MayPreempt
    <2>2. v \in known /\ status[v] \notin Terminal /\ "CANCELED" \in Terminal
      BY <2>1 DEF JobAgrees, Terminal
    <2>. QED
      BY <1>2, <2>2, FinishTotals DEF PreemptCancel
  <1>. QED
    BY <1>1, <1>2

LEMMA GraceTotals ==
    ASSUME TotalsInv,
           \/ \E e \in queue : OnDrainGrace(e)
           \/ \E v \in Jobs, p \in Jobs \cup {Nil} : PreemptRequeue(v, p)
    PROVE  TotalsStep
  <1>1. ASSUME NEW e \in queue, OnDrainGrace(e) PROVE TotalsStep
    <2>1. CASE NoNodeEvent(queue \ {e})
      BY <2>1, QuietTotals
    <2>2. CASE EndDrainGrace(e.arg, e.time, queue \ {e})
      <3>1. /\ Evict(Owners(e.arg) \cap running, e.time)
            /\ UNCHANGED <<known, inQuota, committed, hazard, metricVars>>
        BY <2>2 DEF EndDrainGrace, quotaVars
      <3>. QED
        BY <3>1, EvictTotals
    <2>. QED
      BY <1>1, <2>1, <2>2 DEF OnDrainGrace
  <1>2. ASSUME NEW v \in Jobs, NEW p, PreemptRequeue(v, p) PROVE TotalsStep
    <2>1. JobAgrees(v) /\ status[v] = "RUNNING"
      BY <1>2, JobAgreesNow DEF TotalsInv, NodeInv, PreemptRequeue, MayPreempt
    <2>2. {v} \in SUBSET running
      BY <2>1 DEF JobAgrees
    <2>3. Evict({v}, now) /\ UNCHANGED <<known, inQuota, committed, hazard, metricVars>>
      BY <1>2 DEF PreemptRequeue, quotaVars, nodeVars
    <2>. QED
      BY <2>2, <2>3, EvictTotals
  <1>. QED
    BY <1>1, <1>2

LEMMA PreemptionDoneTotals ==
    ASSUME TotalsInv, NEW e \in queue, OnPreemptionDone(e)
    PROVE  TotalsStep
  <1>1. e.arg \in Jobs /\ e \in Event /\ EventsTracked /\ e.type = "PREEMPTION_DONE"
    BY EventType DEF TotalsInv, NodeInv, LifeInv, TypeInv, TypeOK, OnPreemptionDone,
                     Due, JobEvents
  <1>2. graceAt[e.arg] # None
    BY <1>1, EventArg DEF EventsTracked, Tracks, Handled
  <1>3. /\ JobAgrees(e.arg) /\ status \in [Jobs -> JobStatus]
    BY <1>1, JobAgreesNow DEF TotalsInv, NodeInv, LifeInv, TypeInv, TypeOK
  <1>4. e.arg \in graced /\ e.arg \notin running
    BY <1>2, <1>3 DEF JobAgrees
  <1>5. /\ Release({e.arg}, Nil, e.time) /\ graced' = graced \ {e.arg}
        /\ status' = [status EXCEPT ![e.arg] = "PENDING"]
        /\ UNCHANGED <<running, known, inQuota, committed, hazard, mHealthy, mFinished>>
    BY DEF OnPreemptionDone, quotaVars
  <1>6. Held' = Held \ {e.arg} /\ {e.arg} \in SUBSET Held
    BY <1>4, <1>5 DEF Held
  <1>7. HealthStep
    BY <1>5 DEF HealthStep
  <1>8. \A k \in Jobs : status'[k] = IF k \in {e.arg} THEN "PENDING" ELSE status[k]
    BY <1>3, <1>5
  <1>. QED
    BY <1>5, <1>6, <1>7, <1>8, RequeueTotals

LEMMA FailNodeTotals ==
    ASSUME TotalsInv, NEW n \in Nodes, NEW t, NEW rest, FailNode(n, t, rest)
    PROVE  TotalsStep
  <1>1. /\ Release(Owners(n), n, t) /\ hazard' = hazard \ {n}
        /\ mHealthy' = mHealthy - HealthLost(n)
        /\ status' = [j \in Jobs |-> IF j \in Owners(n) THEN "PENDING" ELSE status[j]]
        /\ running' = running \ Owners(n) /\ graced' = graced \ Owners(n)
        /\ UNCHANGED <<known, inQuota, committed, mFinished>>
    BY DEF FailNode, quotaVars
  <1>2. Owners(n) \in SUBSET Held
    BY OwnersPlaced DEF TotalsInv, NodeInv, Held
  <1>3. Held' = Held \ Owners(n)
    BY <1>1 DEF Held
  <1>4. HealthStep
    <2>1. n \in hazard <=> nodeState[n] = "HEALTHY"
      BY DEF TotalsInv, NodeInv, NodeOK
    <2>2. mHealthy \in Int
      BY TotalTypes DEF TotalsInv
    <2>3. CASE n \in hazard
      <3>1. mHealthy' = mHealthy - 1
        BY <1>1, <2>1, <2>3 DEF HealthLost
      <3>. QED
        BY <1>1, <2>3, <3>1 DEF HealthStep
    <2>4. CASE n \notin hazard
      <3>1. mHealthy' = mHealthy /\ hazard' = hazard
        BY <1>1, <2>1, <2>2, <2>4 DEF HealthLost
      <3>. QED
        BY <3>1 DEF HealthStep
    <2>. QED
      BY <2>3, <2>4
  <1>5. \A k \in Jobs : status'[k] = IF k \in Owners(n) THEN "PENDING" ELSE status[k]
    BY <1>1
  <1>. QED
    BY <1>1, <1>2, <1>3, <1>4, <1>5, RequeueTotals

LEMMA FailureTotals ==
    ASSUME TotalsInv, NEW e \in queue, OnFailure(e) \/ OnForcedFailure(e)
    PROVE  TotalsStep
  <1>1. (\E rest : NoNodeEvent(rest)) \/ \E n \in Nodes : \E rest : FailNode(n, e.time, rest)
    <2>1. hazard \subseteq Nodes
      BY TotalTypes DEF TotalsInv
    <2>2. OnForcedFailure(e) => e.arg \in Nodes
      BY EventType DEF OnForcedFailure, Due, NodeEvents, TotalsInv, NodeInv, LifeInv
    <2>. QED
      BY <2>1, <2>2 DEF OnFailure, OnForcedFailure
  <1>. QED
    BY <1>1, QuietTotals, FailNodeTotals

LEMMA DrainTotals ==
    ASSUME TotalsInv, NEW e \in queue, OnMaintenance(e) \/ OnForcedDrain(e)
    PROVE  TotalsStep
  <1>1. \/ \E rest : NoNodeEvent(rest)
        \/ \E n \in hazard : \E rest : DrainNode(n, e.time, rest)
    <2>1. OnForcedDrain(e) => e.arg \in Nodes
      BY EventType DEF OnForcedDrain, Due, NodeEvents, TotalsInv, NodeInv, LifeInv
    <2>2. \A n \in Nodes : nodeState[n] = "HEALTHY" => n \in hazard
      BY DEF TotalsInv, NodeInv, NodeOK
    <2>. QED
      BY <2>1, <2>2 DEF OnMaintenance, OnForcedDrain
  <1>2. ASSUME NEW n \in hazard, NEW rest, DrainNode(n, e.time, rest) PROVE TotalsStep
    <2>1. /\ hazard' = hazard \ {n} /\ mHealthy' = mHealthy - 1
          /\ UNCHANGED <<running, graced, status, known, inQuota, committed, mAlloc,
                         mFinished>>
      BY <1>2 DEF DrainNode, jobVars, quotaVars
    <2>2. HealthStep
      BY <2>1 DEF HealthStep
    <2>3. HeldStep /\ Ended' = Ended
      BY <2>1 DEF HeldStep, Held, Ended
    <2>. QED
      BY <2>1, <2>2, <2>3, SameQuota DEF TotalsStep
  <1>. QED
    BY <1>1, <1>2, QuietTotals

LEMMA RepairTotals ==
    ASSUME TotalsInv, NEW e \in queue, OnRepair(e)
    PROVE  TotalsStep
  <1>1. e.arg \in Nodes /\ NodeOK(e.arg)
    BY EventType DEF OnRepair, Due, NodeEvents, TotalsInv, NodeInv, LifeInv
  <1>2. CASE NoNodeEvent(queue \ {e})
    BY <1>2, QuietTotals
  <1>3. CASE nodeState[e.arg] \in {"FAILED", "MAINTENANCE"}
    <2>1. /\ hazard' = hazard \cup {e.arg} /\ mHealthy' = mHealthy + 1
          /\ UNCHANGED <<running, graced, status, known, inQuota, committed, mAlloc,
                         mFinished>>
      BY <1>3 DEF OnRepair, jobVars, quotaVars
    <2>2. e.arg \in Nodes \ hazard
      BY <1>1, <1>3 DEF NodeOK
    <2>3. HealthStep
      BY <2>1, <2>2 DEF HealthStep
    <2>4. HeldStep /\ Ended' = Ended
      BY <2>1 DEF HeldStep, Held, Ended
    <2>. QED
      BY <2>1, <2>3, <2>4, SameQuota DEF TotalsStep
  <1>. QED
    BY <1>2, <1>3 DEF OnRepair

-----------------------------------------------------------------------------
(* The invariant and the theorems. *)

LEMMA InitTotals == Init => TotalsInv
  <1> SUFFICES ASSUME Init PROVE TotalsInv
    OBVIOUS
  <1>1. NodeInv
    BY InitNodes
  <1>2. Held = {} /\ Ended = {} /\ hazard = Nodes /\ inQuota = {}
    BY DEF Init, Held, Ended, Terminal
  <1>3. ChipsOf({}) = 0
    <2>1. Chips({}, Demand) = {}
      BY DEF Chips
    <2>2. Cardinality(Chips({}, Demand)) = 0
      BY <2>1, FS_EmptySet
    <2>. QED
      BY <2>2, ChipsType, TakenType
  <1>4. mAlloc = ChipsOf(Held)
    BY <1>2, <1>3 DEF Init
  <1>5. mHealthy = Cardinality(hazard) /\ mFinished = Cardinality(Ended)
    BY <1>2, FS_EmptySet DEF Init
  <1>6. QuotaConserved
    <2>1. \A u \in Tenants : {j \in inQuota : Job[j].tenant = u} = {}
      BY <1>2
    <2>2. \A u \in Tenants : committed[u] = 0 /\ Cap[u] \in Nat \cup {None}
      BY ConfigAssumption DEF Init, ConfigAssumption
    <2>. QED
      BY <1>2, <1>3, <2>1, <2>2 DEF QuotaConserved
  <1>. QED
    BY <1>1, <1>4, <1>5, <1>6 DEF TotalsInv

LEMMA NextTotals == TotalsInv /\ [Next]_vars => TotalsInv'
  <1> SUFFICES ASSUME TotalsInv, [Next]_vars PROVE TotalsInv'
    OBVIOUS
  <1>1. NodeInv'
    BY NextNodes DEF TotalsInv
  <1>2. ASSUME Turn PROVE TotalsStep
    BY <1>2, QuietTotals, ArrivalTotals, EndTotals, GraceTotals, PreemptionDoneTotals,
       FailureTotals, DrainTotals, RepairTotals DEF Turn
  <1>3. ASSUME InWake PROVE TotalsStep
    BY <1>3, QuietTotals, ArrivalTotals, EndTotals, GraceTotals, PlaceTotals DEF InWake
  <1>4. TotalsStep
    BY <1>2, <1>3, QuietTotals DEF Next, Stopped
  <1>. QED
    BY <1>1, <1>4, TotalsFollow

LEMMA TotalsInvariant == Spec => []TotalsInv
  BY InitTotals, NextTotals, PTL DEF Spec

\* What the metrics sink has added up from the engine's calls (chips allocated
\* and freed, health lost and regained, jobs finished) is what the engine's
\* tables say, for every scenario: no handler forgets a call or makes it twice.
THEOREM MetricsAreTrue == Spec => []MetricsAgree
  <1>1. TotalsInv => MetricsAgree
    <2> SUFFICES ASSUME TotalsInv PROVE MetricsAgree
      OBVIOUS
    <2>1. hazard = {n \in Nodes : nodeState[n] = "HEALTHY"}
      BY TotalTypes DEF TotalsInv, NodeInv, NodeOK
    <2>. QED
      BY <2>1 DEF TotalsInv, MetricsAgree, Held, Ended
  <1>. QED
    BY <1>1, TotalsInvariant, PTL

\* The chips committed to a tenant are those of its in-quota jobs, all of them
\* unfinished, and never exceed its cap, for any caps and any way jobs end.
THEOREM QuotaIsConserved == Spec => []QuotaConserved
  <1>1. TotalsInv => QuotaConserved
    BY DEF TotalsInv
  <1>. QED
    BY <1>1, TotalsInvariant, PTL

-----------------------------------------------------------------------------
(* What makes more work placeable marks the state dirty. *)

MorePlaceable ==
    \/ \E n \in Nodes : PlaceableChips(n) < PlaceableChips(n)'
    \/ pending' \ pending # {}

\* No job gives a leaf back, no leaf changes its health, no job is queued.
NothingFreed ==
    /\ \A j \in Jobs : alloc[j] \subseteq alloc'[j]
    /\ \A n \in Nodes : nodeState'[n] = "HEALTHY" <=> nodeState[n] = "HEALTHY"
    /\ pending' \subseteq pending

LEMMA FreedNothing ==
    ASSUME NothingFreed
    PROVE  ~ MorePlaceable
  <1> DEFINE take == [j \in Jobs |-> Share(j)]
  <1> SUFFICES ASSUME NEW n \in Nodes
               PROVE  ~ (PlaceableChips(n) < PlaceableChips(n)')
    BY DEF MorePlaceable, NothingFreed
  <1>1. take \in [Jobs -> Nat] /\ NodeChips \in Nat
    BY JobFields, ConfigAssumption DEF Share, Min2, ConfigAssumption
  <1>2. /\ Owners(n) \in SUBSET Jobs /\ Owners(n)' \in SUBSET Jobs
        /\ Owners(n) \subseteq Owners(n)'
    BY DEF Owners, NothingFreed
  <1> HIDE DEF take
  <1>3. /\ Taken(Owners(n), take) \in Nat /\ Taken(Owners(n)', take) \in Nat
        /\ Taken(Owners(n), take) <= Taken(Owners(n)', take)
    BY <1>1, <1>2, TakenType, TakenMore
  <1>4. /\ FreeChips(n) = NodeChips - Taken(Owners(n), take)
        /\ FreeChips(n)' = NodeChips - Taken(Owners(n)', take)
    BY DEF FreeChips, take
  <1>5. nodeState'[n] = "HEALTHY" <=> nodeState[n] = "HEALTHY"
    BY DEF NothingFreed
  <1>. QED
    BY <1>1, <1>3, <1>4, <1>5 DEF PlaceableChips

LEMMA QuietFrees ==
    ASSUME alloc' = alloc, nodeState' = nodeState, pending' \subseteq pending
    PROVE  NothingFreed
  BY DEF NothingFreed

\* The end of a job that holds no chips and is not queued changes nothing.
LEMMA FinishWakes ==
    ASSUME NodeInv, NEW j \in Jobs, NEW t, NEW final, NEW popped,
           Finish(j, t, final, popped)
    PROVE  dirty' \/ NothingFreed
  <1>1. CASE Schedulable(j)
    BY <1>1 DEF Finish, MarkDirty
  <1>2. CASE ~ Schedulable(j)
    <2>1. alloc[j] = {} /\ pending' \subseteq pending /\ Release({j}, Nil, t)
      BY <1>2 DEF Finish, Schedulable
    <2>2. \A k \in Jobs : alloc'[k] = alloc[k]
      BY <2>1 DEF Release
    <2>3. Emptied({j}, maintWait \ {Nil}) = {}
      BY <2>1 DEF Emptied, Owners
    <2>4. \A n \in Nodes : nodeState'[n] = nodeState[n]
      BY <2>1, <2>3, NodeTypes DEF Release
    <2>. QED
      BY <2>1, <2>2, <2>4 DEF NothingFreed
  <1>. QED
    BY <1>1, <1>2

LEMMA TurnWakes ==
    ASSUME NodeInv, NEW e \in queue,
           \/ OnRepair(e) \/ OnCompletion(e) \/ OnFailure(e) \/ OnForcedFailure(e)
           \/ OnPreemptionDone(e) \/ OnArrival(e) \/ OnMaintenance(e)
           \/ OnForcedDrain(e) \/ OnDrainGrace(e) \/ OnValidUntil(e)
           \/ OnLifetime(e) \/ OnWake(e) \/ OnFlush(e)
    PROVE  dirty' \/ NothingFreed
  <1>1. CASE \E rest : NoNodeEvent(rest)
    BY <1>1, QuietFrees DEF NoNodeEvent, jobVars, nodeVars
  <1>2. CASE \/ \E n, t, rest : FailNode(n, t, rest) \/ DrainNode(n, t, rest)
             \/ \E t : MarkDirty(t)
    BY <1>2 DEF FailNode, DrainNode, MarkDirty
  <1>3. CASE OnDrainGrace(e) /\ nodeState[e.arg] = "DRAINING"
    <2>1. EndDrainGrace(e.arg, e.time, queue \ {e})
      BY <1>3 DEF OnDrainGrace
    <2>2. alloc' = alloc /\ pending' = pending
      BY <2>1 DEF EndDrainGrace
    <2>3. \A m \in Nodes : m # e.arg => nodeState'[m] = nodeState[m]
      BY <2>1 DEF EndDrainGrace
    <2>4. \A m \in Nodes : nodeState'[m] \in {nodeState[m], "MAINTENANCE"}
      BY <2>1 DEF EndDrainGrace
    <2>. QED
      BY <1>3, <2>2, <2>3, <2>4 DEF NothingFreed
  <1>4. CASE OnFlush(e) \/ OnWake(e)
    BY <1>4, QuietFrees DEF OnFlush, OnWake, jobVars, nodeVars
  <1>5. CASE OnCompletion(e) \/ OnValidUntil(e) \/ OnLifetime(e)
    <2>1. e.arg \in Jobs
      BY <1>5, EventType DEF NodeInv, LifeInv, OnCompletion, OnValidUntil,
                             OnLifetime, Due, JobEvents
    <2>2. CASE \E final : Finish(e.arg, e.time, final, {e})
      BY <2>1, <2>2, FinishWakes
    <2>3. CASE UNCHANGED <<jobVars, nodeVars>>
      BY <2>3, QuietFrees DEF jobVars, nodeVars
    <2>. QED
      BY <1>5, <2>2, <2>3 DEF OnCompletion, OnValidUntil, OnLifetime
  <1>6. CASE OnArrival(e)
    <2>1. \/ \E t : MarkDirty(t)
          \/ UNCHANGED <<pending, alloc, nodeState>>
      BY <1>6 DEF OnArrival, SubmitInvalid, SubmitRejected, SubmitUnchanged, nodeVars
    <2>. QED
      BY <1>2, <2>1, QuietFrees
  <1>7. CASE OnRepair(e) \/ OnPreemptionDone(e)
    BY <1>1, <1>2, <1>7 DEF OnRepair, OnPreemptionDone
  <1>8. CASE OnFailure(e) \/ OnForcedFailure(e) \/ OnMaintenance(e) \/ OnForcedDrain(e)
    BY <1>1, <1>2, <1>8 DEF OnFailure, OnForcedFailure, OnMaintenance, OnForcedDrain
  <1>9. CASE OnDrainGrace(e) /\ nodeState[e.arg] # "DRAINING"
    BY <1>1, <1>9 DEF OnDrainGrace
  <1>. QED
    BY <1>3, <1>4, <1>5, <1>6, <1>7, <1>8, <1>9

LEMMA InWakeWakes ==
    ASSUME NodeInv, InWake, phase # "refill"
    PROVE  dirty' \/ NothingFreed
  <1>1. ASSUME NEW j \in Jobs, NEW S \in SUBSET Nodes, Place(j, S)
        PROVE  NothingFreed
    <2>1. JobAgrees(j) /\ alloc \in [Jobs -> SUBSET Nodes]
      BY JobAgreesNow, NodeTypes DEF NodeInv
    <2>2. /\ j \in pending /\ alloc' = [alloc EXCEPT ![j] = S]
          /\ pending' = pending \ {j} /\ nodeState' = nodeState
      BY <1>1 DEF Place, nodeVars
    <2>3. alloc[j] = {}
      BY <2>1, <2>2 DEF JobAgrees
    <2>. QED
      BY <2>1, <2>2, <2>3 DEF NothingFreed
  <1>2. ASSUME NEW v \in Jobs, NEW p, PreemptRequeue(v, p) PROVE NothingFreed
    BY <1>2, QuietFrees DEF PreemptRequeue, nodeVars
  <1>3. ASSUME NEW v \in Jobs, NEW p, PreemptCancel(v, p) PROVE dirty' \/ NothingFreed
    BY <1>3, FinishWakes DEF PreemptCancel
  <1>4. ASSUME BuildView \/ EndWake PROVE NothingFreed
    BY <1>4, QuietFrees DEF BuildView, EndWake, jobVars, nodeVars
  <1>5. ~ \E j \in Jobs : Refill(j)
    BY DEF Refill
  <1>. QED
    BY <1>1, <1>2, <1>3, <1>4, <1>5 DEF InWake

\* No handler frees chips of a healthy node, brings a node back, or queues a job
\* without asking for a scheduling round, except within the refill of one: for
\* every scenario, so that a policy never waits for a change it has not been shown.
THEOREM ChangesAreShown == Spec => ChangeWakesScheduler
  <1>1. NodeInv /\ [Next]_vars => [MorePlaceable => dirty' \/ phase = "refill"]_vars
    <2> SUFFICES ASSUME NodeInv, Next, phase # "refill" PROVE dirty' \/ ~ MorePlaceable
      OBVIOUS
    <2>1. ASSUME Turn PROVE dirty' \/ NothingFreed
      BY <2>1, TurnWakes DEF Turn
    <2>2. ASSUME Finalize \/ Stopped PROVE NothingFreed
      BY <2>2, QuietFrees DEF Finalize, Stopped, vars, jobVars, nodeVars
    <2>. QED
      BY <2>1, <2>2, InWakeWakes, FreedNothing DEF Next
  <1>2. [MorePlaceable => dirty' \/ phase = "refill"]_vars <=>
          [ \/ \E n \in Nodes : PlaceableChips(n) < PlaceableChips(n)'
            \/ pending' \ pending # {}
            => dirty' \/ phase = "refill" ]_vars
    BY DEF MorePlaceable
  <1>. QED
    BY <1>1, <1>2, NodeInvariant, PTL DEF Spec, ChangeWakesScheduler
=============================================================================
