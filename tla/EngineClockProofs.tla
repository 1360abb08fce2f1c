-------------------------- MODULE EngineClockProofs -------------------------
(***************************************************************************)
(* The clock and the wakes of the engine, proved for every scenario: time   *)
(* never runs back, every state change is seen by the scheduler within one  *)
(* round, and no time has two scheduling rounds.  What carries the proof is *)
(* that no handler puts an event before its own time, so that the event the *)
(* loop pops is never later than a wake somebody waits for.                 *)
(***************************************************************************)
EXTENDS EngineProofs

USE DEF None

-----------------------------------------------------------------------------
(* The inductive invariant. *)

\* Nothing on the queue is in the past, and the last wake is.
TimeForward ==
    /\ now <= Horizon /\ lastWake <= now
    /\ \A e \in queue : now <= e.time

\* The wakes on the queue are those that _wake_times remembers, one each, and
\* none of them is at or before the last wake that ran.
WakesKnown ==
    /\ \A e \in queue : e.type = "SCHED_WAKE" => e.time \in wakeTimes
    /\ \A t \in wakeTimes : Ev(t, "SCHED_WAKE", Nil) \in queue /\ lastWake < t

\* A change waits for a wake at most one round away.
WakeDue == dirty => \E t \in wakeTimes : now <= t /\ t <= now + Round

ClockInv == LifeInv /\ TimeForward /\ WakesKnown /\ WakeDue

LEMMA ClockTypes ==
    ASSUME ClockInv
    PROVE  /\ now \in Nat /\ lastWake \in Nat \cup {None} /\ wakeTimes \subseteq Nat
           /\ dirty \in BOOLEAN /\ queue \subseteq Event
           /\ Round \in Nat \ {0} /\ Horizon \in Nat /\ WakeInterval \in Nat
           /\ \A e \in queue : e.time \in Nat
  BY EventType, ConfigAssumption
     DEF ConfigAssumption, ClockInv, LifeInv, TypeInv, TypeOK

-----------------------------------------------------------------------------
(* Arithmetic of the rounds. *)

\* The round boundary at or after t is less than one round away.
LEMMA CeilingBounds ==
    ASSUME NEW t \in Nat, NEW r \in Nat \ {0}
    PROVE  LET b == ((t + r - 1) \div r) * r
           IN b \in Nat /\ t <= b /\ b <= t + r
  <1>1. \A a \in Nat : (a \div r) * r \in Nat /\ (a \div r) * r <= a
                       /\ a < (a \div r) * r + r
    BY Z3
  <1>2. t + r - 1 \in Nat
    OBVIOUS
  <1> DEFINE b == ((t + r - 1) \div r) * r
  <1>3. b \in Nat /\ b <= t + r - 1 /\ t + r - 1 < b + r
    BY <1>1, <1>2
  <1> HIDE DEF b
  <1>4. t <= b
    BY <1>3
  <1>. QED
    BY <1>3, <1>4 DEF b

\* _mark_dirty asks for a boundary that has not run yet and is at most one
\* round away.
LEMMA BoundaryBounds ==
    ASSUME ClockInv, NEW t \in Nat, now <= t
    PROVE  /\ Boundary(t) \in Nat /\ t <= Boundary(t)
           /\ Boundary(t) <= t + Round /\ lastWake < Boundary(t)
  <1> DEFINE b == ((t + Round - 1) \div Round) * Round
  <1>1. /\ Round \in Nat \ {0} /\ lastWake \in Nat \cup {None} /\ now \in Nat
        /\ lastWake <= now
    BY ClockTypes DEF ClockInv, TimeForward
  <1>2. b \in Nat /\ t <= b /\ b <= t + Round
    BY <1>1, CeilingBounds
  <1>3. Boundary(t) = IF lastWake # None /\ b <= lastWake THEN lastWake + Round
                      ELSE b
    BY DEF Boundary
  <1> HIDE DEF b
  <1>. QED
    BY <1>1, <1>2, <1>3

-----------------------------------------------------------------------------
(* The events a handler pushes are not before its own time. *)

\* Every new event of the step is at or after t.
After(t) == \A e \in queue' : e \in queue \/ t <= e.time

\* The wakes are left alone, or one is asked for at the next boundary.
WakesAsked(t) ==
    \/ /\ NotDirty
       /\ \A e : e.type = "SCHED_WAKE" => (e \in queue' <=> e \in queue)
    \/ /\ MarkDirty(t)
       /\ \A e : e.type = "SCHED_WAKE" =>
            (e \in queue' <=> e \in queue \/ e \in WakeEvents(Boundary(t)))

\* No other event is a wake.
LEMMA NotAWake ==
    ASSUME NEW e, e.type = "SCHED_WAKE"
    PROVE  /\ \A S, h : \A type \in JobEvents : e \notin Named(S, h, type)
           /\ \A E, t : e \notin MaintDone(E, t)
           /\ \A h, h2 : \A type \in LoopEvents \ {"SCHED_WAKE"} :
                e \notin Armed(type, h, h2)
           /\ \A i : e \notin ArrivalEvents(i)
           /\ \A t, x : \A type \in NodeEvents \cup JobEvents \cup {"METRICS_FLUSH"} :
                e # Ev(t, type, x)
  BY DEF Named, MaintDone, Armed, ArrivalEvents, Ev, NodeEvents, JobEvents,
         LoopEvents

LEMMA WakeAfter ==
    ASSUME ClockInv, NEW t \in Nat, now <= t, NEW e \in WakeEvents(Boundary(t))
    PROVE  t <= e.time
  BY BoundaryBounds DEF WakeEvents, Ev

LEMMA MaintAfter ==
    ASSUME ClockInv, NEW t \in Nat, NEW rel, NEW wait \in SUBSET Nodes,
           NEW e \in MaintDone(Emptied(rel, wait), t)
    PROVE  t <= e.time
  <1>1. \A m \in Emptied(rel, wait) : m \in Nodes /\ maintFor[m] \in Nat
    BY DEF Emptied, ClockInv, LifeInv, TypeInv, DrainDrawn
  <1>2. PICK m \in Emptied(rel, wait) : e = Ev(t + maintFor[m], "NODE_REPAIR", m)
    BY DEF MaintDone
  <1>3. e.time = t + maintFor[m]
    BY <1>2 DEF Ev
  <1>. QED
    BY <1>1, <1>3

LEMMA ArmedAfter ==
    ASSUME NEW h \in Nat \cup {None}, NEW t \in Nat,
           NEW gaps \in {FailureGaps, MaintGaps}, NEW h2 \in ArmTimes(h, gaps, t),
           NEW type, NEW e \in Armed(type, h, h2)
    PROVE  t <= e.time
  <1>1. gaps \subseteq Nat \ {0}
    BY ConfigAssumption DEF ConfigAssumption
  <1>2. h2 # h /\ e.time = h2
    BY DEF Armed, Ev
  <1>. QED
    BY <1>1, <1>2 DEF ArmTimes

\* A handler whose handles are at or after t.
LEMMA NamedAfter ==
    ASSUME NEW S, NEW h, NEW type, NEW t \in Nat,
           \A j \in S : h[j] # None => t <= h[j],
           NEW e \in Named(S, h, type)
    PROVE  t <= e.time
  <1>1. PICK j \in S : h[j] # None /\ e = Ev(h[j], type, j)
    BY DEF Named
  <1>2. e.time = h[j]
    BY <1>1 DEF Ev
  <1>. QED
    BY <1>1, <1>2

-----------------------------------------------------------------------------
(* The step of an ordinary handler. *)

\* A handler that runs at t, pushes nothing before t and treats the wakes
\* through _mark_dirty.
LEMMA TickClock ==
    ASSUME ClockInv, LifeInv', NEW t \in Nat, now <= t, t <= Horizon,
           \A e \in queue : t <= e.time,
           now' = t, lastWake' = lastWake, After(t), WakesAsked(t)
    PROVE  ClockInv'
  <1>1. /\ now \in Nat /\ lastWake \in Nat \cup {None} /\ wakeTimes \subseteq Nat
        /\ Round \in Nat \ {0} /\ lastWake <= now
        /\ \A e \in queue : e.time \in Nat
    BY ClockTypes DEF ClockInv, TimeForward
  <1>2. /\ Boundary(t) \in Nat /\ t <= Boundary(t)
        /\ Boundary(t) <= t + Round /\ lastWake < Boundary(t)
    BY BoundaryBounds
  <1>3. TimeForward'
    <2>1. lastWake <= t
      BY <1>1
    <2>. QED
      BY <2>1 DEF TimeForward, After
  <1>4. \A x \in wakeTimes : t <= x
    <2> SUFFICES ASSUME NEW x \in wakeTimes PROVE t <= x
      OBVIOUS
    <2>1. Ev(x, "SCHED_WAKE", Nil) \in queue
      BY DEF ClockInv, WakesKnown
    <2>2. t <= Ev(x, "SCHED_WAKE", Nil).time
      BY <2>1
    <2>. QED
      BY <2>2 DEF Ev
  <1>5. CASE /\ NotDirty
             /\ \A e : e.type = "SCHED_WAKE" => (e \in queue' <=> e \in queue)
    <2>1. wakeTimes' = wakeTimes /\ dirty' = dirty
      BY <1>5 DEF NotDirty
    <2>2. WakesKnown'
      BY <1>5, <2>1 DEF WakesKnown, ClockInv, Ev
    <2>3. WakeDue'
      <3> SUFFICES ASSUME dirty
                   PROVE  \E x \in wakeTimes : t <= x /\ x <= t + Round
        BY <2>1 DEF WakeDue
      <3>1. PICK x \in wakeTimes : now <= x /\ x <= now + Round
        BY DEF ClockInv, WakeDue
      <3>2. t <= x /\ x <= t + Round
        BY <1>1, <1>4, <3>1
      <3>. QED
        BY <3>2
    <2>. QED
      BY <1>3, <2>2, <2>3 DEF ClockInv
  <1>6. CASE /\ MarkDirty(t)
             /\ \A e : e.type = "SCHED_WAKE" =>
                  (e \in queue' <=> e \in queue \/ e \in WakeEvents(Boundary(t)))
    <2> DEFINE b == Boundary(t)
    <2>1. wakeTimes' = wakeTimes \cup {b}
      BY <1>6 DEF MarkDirty
    <2> HIDE DEF b
    <2>2. \A e : e \in WakeEvents(b) <=>
                   b \notin wakeTimes /\ e = Ev(b, "SCHED_WAKE", Nil)
      BY DEF WakeEvents
    <2>3. \A x : Ev(x, "SCHED_WAKE", Nil).type = "SCHED_WAKE"
                 /\ Ev(x, "SCHED_WAKE", Nil).time = x
      BY DEF Ev
    <2>4. \A e \in queue' : e.type = "SCHED_WAKE" => e.time \in wakeTimes'
      BY <1>6, <2>1, <2>2, <2>3 DEF ClockInv, WakesKnown, b
    <2>5. \A x \in wakeTimes' :
             Ev(x, "SCHED_WAKE", Nil) \in queue' /\ lastWake' < x
      BY <1>2, <1>6, <2>1, <2>2, <2>3 DEF ClockInv, WakesKnown, b
    <2>6. WakesKnown'
      BY <2>4, <2>5 DEF WakesKnown, Ev
    <2>7. WakeDue'
      BY <1>2, <2>1 DEF WakeDue, b
    <2>. QED
      BY <1>3, <2>6, <2>7 DEF ClockInv
  <1>. QED
    BY <1>5, <1>6 DEF WakesAsked

\* The event that the loop pops is the earliest, and not past the horizon.
LEMMA DueTime ==
    ASSUME ClockInv, NEW e \in queue, NEW type, Due(e, type)
    PROVE  /\ e.type = type /\ e.time \in Nat /\ now <= e.time
           /\ e.time <= Horizon /\ \A f \in queue : e.time <= f.time
  <1>1. e.time \in Nat /\ \A f \in queue : f.time \in Nat
    BY ClockTypes
  <1>2. \A f \in queue : ~ (f.time < e.time)
    BY DEF Due, Before
  <1>. QED
    BY <1>1, <1>2 DEF Due, ClockInv, TimeForward

\* Inside a wake the clock stands still.
LEMMA NowTime ==
    ASSUME ClockInv
    PROVE  now \in Nat /\ now <= now /\ now <= Horizon
           /\ \A f \in queue : now <= f.time
  BY ClockTypes DEF ClockInv, TimeForward

-----------------------------------------------------------------------------
(* Submission and the end of a job. *)

\* The source's next arrival is not before the one the handler pops.
LEMMA ArrivalAfter ==
    ASSUME ClockInv, NEW e \in queue, e.type = "JOB_ARRIVAL",
           NEW f \in ArrivalEvents(nextArr)
    PROVE  e.time <= f.time
  <1>1. /\ nextArr - 1 \in 1 .. Len(Arrivals)
        /\ e = Ev(Job[Arrivals[nextArr - 1]].submit, "JOB_ARRIVAL",
                  Arrivals[nextArr - 1])
    BY DEF ClockInv, LifeInv, ArrivalsFresh
  <1>2. nextArr \in Nat \ {0}
    BY DEF ClockInv, LifeInv, TypeInv, TypeOK
  <1>3. /\ nextArr \in 1 .. Len(Arrivals)
        /\ f = Ev(Job[Arrivals[nextArr]].submit, "JOB_ARRIVAL", Arrivals[nextArr])
    BY <1>2, ArrivalMember
  <1>4. Job[Arrivals[nextArr - 1]].submit <= Job[Arrivals[nextArr]].submit
    BY <1>1, <1>2, <1>3, SourceInOrder DEF SourceInOrder
  <1>. QED
    BY <1>1, <1>3, <1>4 DEF Ev

\* An admitted job expires at the earliest when it is submitted.
LEMMA ExpiryAfter ==
    ASSUME ClockInv, NEW j \in Jobs, NEW t \in Nat, SubmitAdmitted(j, t),
           NEW e \in Named({j}, validAt', "VALID_UNTIL")
    PROVE  t <= e.time
  <1>1. validAt \in [Jobs -> Nat \cup {None}] /\ Job[j].validUntil \in Nat \cup {None}
    BY JobFields DEF ClockInv, LifeInv, TypeInv, TypeOK
  <1>2. validAt'[j] # None => t <= validAt'[j]
    BY <1>1 DEF SubmitAdmitted, Max2
  <1>. QED
    BY <1>2, NamedAfter

LEMMA ArrivalClock ==
    ASSUME ClockInv, LifeInv', NEW e \in queue, OnArrival(e)
    PROVE  ClockInv'
  <1> DEFINE j == e.arg
             t == e.time
             rest == (queue \ {e}) \cup ArrivalEvents(nextArr)
  <1>1. /\ e.type = "JOB_ARRIVAL" /\ t \in Nat /\ now <= t /\ t <= Horizon
        /\ \A f \in queue : t <= f.time
    BY DueTime DEF OnArrival
  <1>2. j \in Jobs
    BY <1>1, EventType DEF ClockInv, LifeInv, JobEvents
  <1>3. now' = t /\ lastWake' = lastWake
    BY DEF OnArrival, SubmitUnchanged
  <1>4. \A f \in ArrivalEvents(nextArr) : t <= f.time
    BY <1>1, ArrivalAfter
  <1>5. \A f : f.type = "SCHED_WAKE" => (f \in rest <=> f \in queue)
    BY <1>1, NotAWake
  <1>6. CASE queue' = rest /\ NotDirty
    BY <1>1, <1>3, <1>4, <1>5, <1>6, TickClock DEF After, WakesAsked
  <1>7. CASE /\ SubmitAdmitted(j, t) /\ MarkDirty(t)
             /\ queue' = rest \cup Named({j}, validAt', "VALID_UNTIL")
                              \cup WakeEvents(Boundary(t))
    <2>1. After(t)
      BY <1>1, <1>2, <1>4, <1>7, ExpiryAfter, WakeAfter DEF After
    <2>2. WakesAsked(t)
      BY <1>5, <1>7, NotAWake DEF WakesAsked, JobEvents
    <2>. QED
      BY <1>1, <1>3, <2>1, <2>2, TickClock
  <1>. QED
    BY <1>6, <1>7 DEF OnArrival

LEMMA RefillClock ==
    ASSUME ClockInv, LifeInv', NEW j \in Jobs, Refill(j)
    PROVE  ClockInv'
  <1>1. now \in Nat /\ now' = now /\ lastWake' = lastWake /\ NotDirty
    BY ClockTypes DEF Refill, SubmitUnchanged
  <1>2. After(now)
    BY <1>1, ExpiryAfter DEF Refill, After
  <1>3. WakesAsked(now)
    BY <1>1, NotAWake DEF Refill, WakesAsked, JobEvents
  <1>. QED
    BY <1>1, <1>2, <1>3, NowTime, TickClock

LEMMA FinishClock ==
    ASSUME ClockInv, LifeInv', NEW j \in Jobs, NEW t \in Nat, now <= t,
           t <= Horizon, \A e \in queue : t <= e.time, now' = t,
           NEW final, NEW popped, \A e \in popped : e.type # "SCHED_WAKE",
           Finish(j, t, final, popped)
    PROVE  ClockInv'
  <1>1. lastWake' = lastWake /\ maintWait \in SUBSET Nodes
    BY DEF Finish, loopVars, ClockInv, LifeInv, TypeInv, TypeOK
  <1>2. queue' = (queue \ (popped \cup NamedAll({j})))
                   \cup MaintDone(Emptied({j}, maintWait), t)
                   \cup (IF Schedulable(j) THEN WakeEvents(Boundary(t)) ELSE {})
    BY DEF Finish
  <1>3. After(t)
    BY <1>1, <1>2, MaintAfter, WakeAfter DEF After
  <1>4. \A e : e.type = "SCHED_WAKE" =>
           /\ e \notin popped \cup NamedAll({j})
           /\ e \notin MaintDone(Emptied({j}, maintWait), t)
    BY NotAWake DEF NamedAll, JobEvents
  <1>5. WakesAsked(t)
    BY <1>2, <1>4 DEF Finish, WakesAsked
  <1>. QED
    BY <1>1, <1>3, <1>5, TickClock

\* A handler that finds its job moved on: it only pops its event.
LEMMA PopClock ==
    ASSUME ClockInv, LifeInv', NEW t \in Nat, now <= t,
           t <= Horizon, \A e \in queue : t <= e.time, now' = t,
           NEW e, e.type # "SCHED_WAKE", queue' = queue \ {e}, NotDirty,
           lastWake' = lastWake
    PROVE  ClockInv'
  <1>1. After(t) /\ WakesAsked(t)
    BY DEF After, WakesAsked
  <1>. QED
    BY <1>1, TickClock

LEMMA EndOfJobClock ==
    ASSUME ClockInv, LifeInv', NEW e \in queue,
           OnCompletion(e) \/ OnValidUntil(e) \/ OnLifetime(e)
    PROVE  ClockInv'
  <1>1. /\ e.type \in JobEvents /\ e.type # "SCHED_WAKE" /\ now' = e.time
        /\ e.time \in Nat /\ now <= e.time /\ e.time <= Horizon
        /\ \A f \in queue : e.time <= f.time
    BY DueTime DEF OnCompletion, OnValidUntil, OnLifetime, JobEvents
  <1>2. e.arg \in Jobs
    BY <1>1, EventType DEF ClockInv, LifeInv
  <1>3. CASE \E final : Finish(e.arg, e.time, final, {e})
    BY <1>1, <1>2, <1>3, FinishClock
  <1>4. CASE queue' = queue \ {e} /\ NotDirty /\ UNCHANGED loopVars
    BY <1>1, <1>4, PopClock DEF loopVars
  <1>. QED
    BY <1>3, <1>4 DEF OnCompletion, OnValidUntil, OnLifetime

LEMMA PreemptCancelClock ==
    ASSUME ClockInv, LifeInv', NEW v \in Jobs, NEW p, PreemptCancel(v, p)
    PROVE  ClockInv'
  <1>1. Finish(v, now, "CANCELED", {}) /\ now' = now
    BY DEF PreemptCancel
  <1>. QED
    BY <1>1, NowTime, FinishClock

-----------------------------------------------------------------------------
(* Placement and preemption. *)

LEMMA PlaceClock ==
    ASSUME ClockInv, LifeInv', NEW j \in Jobs, NEW S \in SUBSET Nodes, Place(j, S)
    PROVE  ClockInv'
  <1> DEFINE overhead == IF started[j] THEN Job[j].overhead ELSE 0
             end == CompletionTime(j, overhead)
             life == IF started[j] \/ Job[j].lifetime = None THEN lifeAt[j]
                     ELSE now + Job[j].lifetime
  <1>1. /\ now \in Nat /\ kept[j] \in Nat /\ kept[j] <= Job[j].total
        /\ Job[j].total \in Nat /\ Job[j].overhead \in Nat
        /\ Job[j].lifetime \in Nat \cup {None}
        /\ lifeAt \in [Jobs -> Nat \cup {None}]
    BY ClockTypes, JobFields DEF ClockInv, LifeInv, TypeInv, TypeOK, WorkBounded
  <1>2. now <= end
    BY <1>1 DEF CompletionTime
  <1>3. ~ started[j] => life = None \/ now <= life
    <2>1. ~ started[j] => lifeAt[j] = None
      BY JobAgreesNow DEF ClockInv, JobAgrees
    <2>. QED
      BY <1>1, <2>1
  <1>4. /\ lifeAt' = [lifeAt EXCEPT ![j] = life]
        /\ queue' = (queue \ (IF started[j] THEN {}
                              ELSE Named({j}, validAt, "VALID_UNTIL")))
                    \cup {Ev(end, "JOB_COMPLETION", j)}
                    \cup (IF started[j] THEN {}
                          ELSE Named({j}, lifeAt', "LIFETIME"))
        /\ NotDirty /\ now' = now /\ lastWake' = lastWake
    BY DEF Place, loopVars
  <1> HIDE DEF end, life
  <1>5. After(now)
    <2>1. Ev(end, "JOB_COMPLETION", j).time = end
      BY DEF Ev
    <2>2. lifeAt'[j] = life
      BY <1>1, <1>4
    <2>3. ~ started[j] => \A e \in Named({j}, lifeAt', "LIFETIME") : now <= e.time
      BY <1>1, <1>3, <2>2, NamedAfter
    <2>. QED
      BY <1>2, <1>4, <2>1, <2>3 DEF After
  <1>6. WakesAsked(now)
    <2>1. \A e : e.type = "SCHED_WAKE" =>
             /\ e \notin Named({j}, validAt, "VALID_UNTIL")
             /\ e \notin Named({j}, lifeAt', "LIFETIME")
             /\ e # Ev(end, "JOB_COMPLETION", j)
      BY NotAWake DEF JobEvents
    <2>. QED
      BY <1>4, <2>1 DEF WakesAsked
  <1>. QED
    BY <1>1, <1>4, <1>5, <1>6, NowTime, TickClock

\* A grace window ends at the earliest when it begins.
LEMMA GraceAfter ==
    ASSUME ClockInv, NEW S \in SUBSET Jobs, NEW t \in Nat, Evict(S, t),
           NEW e \in Named(S, graceAt', "PREEMPTION_DONE")
    PROVE  t <= e.time
  <1>1. \A j \in S : graceAt'[j] = GraceEnd(j, t) /\ Job[j].save \in Nat
    BY JobFields DEF Evict
  <1>2. \A j \in S : t <= graceAt'[j]
    BY <1>1 DEF GraceEnd
  <1>. QED
    BY <1>2, NamedAfter

LEMMA PreemptRequeueClock ==
    ASSUME ClockInv, LifeInv', NEW v \in Jobs, NEW p, PreemptRequeue(v, p)
    PROVE  ClockInv'
  <1>1. /\ Evict({v}, now) /\ NotDirty /\ now' = now /\ lastWake' = lastWake
        /\ queue' = (queue \ Named({v}, complAt, "JOB_COMPLETION"))
                      \cup Named({v}, graceAt', "PREEMPTION_DONE")
    BY DEF PreemptRequeue, loopVars
  <1>2. After(now)
    BY <1>1, NowTime, GraceAfter DEF After
  <1>3. WakesAsked(now)
    BY <1>1, NotAWake DEF WakesAsked, JobEvents
  <1>. QED
    BY <1>1, <1>2, <1>3, NowTime, TickClock

LEMMA PreemptionDoneClock ==
    ASSUME ClockInv, LifeInv', NEW e \in queue, OnPreemptionDone(e)
    PROVE  ClockInv'
  <1>1. /\ e.type = "PREEMPTION_DONE" /\ now' = e.time
        /\ e.time \in Nat /\ now <= e.time /\ e.time <= Horizon
        /\ \A f \in queue : e.time <= f.time
    BY DueTime DEF OnPreemptionDone
  <1>2. maintWait \in SUBSET Nodes
    BY DEF ClockInv, LifeInv, TypeInv, TypeOK
  <1>3. /\ queue' = (queue \ {e})
                      \cup MaintDone(Emptied({e.arg}, maintWait), e.time)
                      \cup WakeEvents(Boundary(e.time))
        /\ MarkDirty(e.time) /\ lastWake' = lastWake
    BY DEF OnPreemptionDone, loopVars
  <1>4. After(e.time)
    BY <1>1, <1>2, <1>3, MaintAfter, WakeAfter DEF After
  <1>5. WakesAsked(e.time)
    BY <1>1, <1>3, NotAWake DEF WakesAsked
  <1>. QED
    BY <1>1, <1>3, <1>4, <1>5, TickClock

-----------------------------------------------------------------------------
(* Failures, repairs and drains.  rest is the queue without the event popped  *)
(* and with the next event of its process.                                    *)

Rest(rest, t) ==
    /\ \A f \in rest : f \in queue \/ t <= f.time
    /\ \A f : f.type = "SCHED_WAKE" => (f \in rest <=> f \in queue)

LEMMA RestOf ==
    ASSUME ClockInv, NEW e \in queue, e.type # "SCHED_WAKE", NEW t \in Nat,
           NEW gaps \in {FailureGaps, MaintGaps}, NEW h2 \in ArmTimes(None, gaps, t),
           NEW type \in {"NODE_FAILURE", "MAINTENANCE_DRAIN"}
    PROVE  /\ Rest(queue \ {e}, t)
           /\ Rest((queue \ {e}) \cup Armed(type, None, h2), t)
  <1>1. \A f \in Armed(type, None, h2) : t <= f.time
    BY ArmedAfter
  <1>2. \A f : f.type = "SCHED_WAKE" => f \notin Armed(type, None, h2)
    BY NotAWake DEF LoopEvents
  <1>. QED
    BY <1>1, <1>2 DEF Rest

LEMMA FailNodeClock ==
    ASSUME ClockInv, LifeInv', NEW n \in Nodes, NEW t \in Nat, now <= t,
           t <= Horizon, \A e \in queue : t <= e.time, now' = t,
           NEW rest, Rest(rest, t), FailNode(n, t, rest)
    PROVE  ClockInv'
  <1> DEFINE victims == Owners(n)
             repairs == MaintDone(Emptied(victims, maintWait \ {n}), t)
             gone == Named(victims, complAt, "JOB_COMPLETION")
                     \cup Named(victims, graceAt, "PREEMPTION_DONE")
  <1>1. PICK d \in RepairDelays :
           queue' = (rest \ gone) \cup {Ev(t + d, "NODE_REPAIR", n)}
                    \cup repairs \cup WakeEvents(Boundary(t))
    BY DEF FailNode
  <1>2. MarkDirty(t) /\ lastWake' = lastWake
    BY DEF FailNode, loopVars
  <1>3. d \in Nat /\ maintWait \ {n} \in SUBSET Nodes
    BY ConfigAssumption
       DEF ConfigAssumption, ClockInv, LifeInv, TypeInv, TypeOK
  <1>4. Ev(t + d, "NODE_REPAIR", n).time = t + d
    BY DEF Ev
  <1>5. \A f \in repairs : t <= f.time
    BY <1>3, MaintAfter
  <1>6. \A f : f.type = "SCHED_WAKE" =>
           f \notin gone /\ f \notin repairs /\ f # Ev(t + d, "NODE_REPAIR", n)
    BY NotAWake DEF JobEvents, NodeEvents
  <1> HIDE DEF gone, repairs
  <1>7. After(t)
    BY <1>1, <1>3, <1>4, <1>5, WakeAfter DEF After, Rest
  <1>8. WakesAsked(t)
    BY <1>1, <1>2, <1>6 DEF WakesAsked, Rest
  <1>. QED
    BY <1>2, <1>7, <1>8, TickClock

LEMMA NoNodeEventClock ==
    ASSUME ClockInv, LifeInv', NEW t \in Nat, now <= t,
           t <= Horizon, \A e \in queue : t <= e.time, now' = t,
           NEW rest, Rest(rest, t), NoNodeEvent(rest)
    PROVE  ClockInv'
  <1>1. After(t) /\ WakesAsked(t) /\ lastWake' = lastWake
    BY DEF NoNodeEvent, After, WakesAsked, Rest, loopVars
  <1>. QED
    BY <1>1, TickClock

LEMMA DrainNodeClock ==
    ASSUME ClockInv, LifeInv', NEW n, NEW t \in Nat, now <= t,
           t <= Horizon, \A e \in queue : t <= e.time, now' = t,
           NEW rest, Rest(rest, t), DrainNode(n, t, rest)
    PROVE  ClockInv'
  <1>1. /\ queue' = rest \cup {Ev(t + DrainGrace, "DRAIN_GRACE", n)}
                         \cup WakeEvents(Boundary(t))
        /\ MarkDirty(t) /\ lastWake' = lastWake
    BY DEF DrainNode, loopVars
  <1>2. Ev(t + DrainGrace, "DRAIN_GRACE", n).time = t + DrainGrace
        /\ DrainGrace \in Nat
    BY ConfigAssumption DEF ConfigAssumption, Ev
  <1>3. \A f : f.type = "SCHED_WAKE" => f # Ev(t + DrainGrace, "DRAIN_GRACE", n)
    BY NotAWake DEF NodeEvents
  <1>4. After(t)
    BY <1>1, <1>2, WakeAfter DEF After, Rest
  <1>5. WakesAsked(t)
    BY <1>1, <1>3 DEF WakesAsked, Rest
  <1>. QED
    BY <1>1, <1>4, <1>5, TickClock

LEMMA EndDrainGraceClock ==
    ASSUME ClockInv, LifeInv', NEW n \in Nodes, NEW t \in Nat, now <= t,
           t <= Horizon, \A e \in queue : t <= e.time, now' = t,
           nodeState[n] = "DRAINING",
           NEW rest, Rest(rest, t), EndDrainGrace(n, t, rest)
    PROVE  ClockInv'
  <1> DEFINE S == Owners(n) \cap running
             E == IF Owners(n) = {} THEN {n} ELSE {}
  <1>1. /\ queue' = (rest \ Named(S, complAt, "JOB_COMPLETION"))
                    \cup Named(S, graceAt', "PREEMPTION_DONE") \cup MaintDone(E, t)
        /\ Evict(S, t) /\ NotDirty /\ lastWake' = lastWake
    BY DEF EndDrainGrace, loopVars
  <1>2. S \in SUBSET Jobs /\ maintFor[n] \in Nat
    BY DEF Owners, ClockInv, LifeInv, TypeInv, DrainDrawn
  <1>3. \A f \in MaintDone(E, t) : t <= f.time
    <2>1. \A f \in MaintDone(E, t) : f.time = t + maintFor[n]
      BY DEF MaintDone, Ev
    <2>. QED
      BY <1>2, <2>1
  <1>4. \A f : f.type = "SCHED_WAKE" =>
           /\ f \notin Named(S, complAt, "JOB_COMPLETION")
           /\ f \notin Named(S, graceAt', "PREEMPTION_DONE")
           /\ f \notin MaintDone(E, t)
    BY NotAWake DEF JobEvents
  <1> HIDE DEF S, E
  <1>5. After(t)
    BY <1>1, <1>2, <1>3, GraceAfter DEF After, Rest
  <1>6. WakesAsked(t)
    BY <1>1, <1>4 DEF WakesAsked, Rest
  <1>. QED
    BY <1>1, <1>5, <1>6, TickClock

LEMMA RepairClock ==
    ASSUME ClockInv, LifeInv', NEW e \in queue, OnRepair(e)
    PROVE  ClockInv'
  <1>1. /\ e.type = "NODE_REPAIR" /\ now' = e.time
        /\ e.time \in Nat /\ now <= e.time /\ e.time <= Horizon
        /\ \A f \in queue : e.time <= f.time
    BY DueTime DEF OnRepair
  <1>2. CASE NoNodeEvent(queue \ {e})
    <2>1. Rest(queue \ {e}, e.time)
      BY <1>1 DEF Rest
    <2>. QED
      BY <1>1, <1>2, <2>1, NoNodeEventClock
  <1>3. CASE nodeState[e.arg] \in {"FAILED", "MAINTENANCE"}
    <2>1. /\ failureAt' \in ArmTimes(failureAt, FailureGaps, e.time)
          /\ maintAt' \in ArmTimes(maintAt, MaintGaps, e.time)
          /\ queue' = (queue \ {e})
                      \cup Armed("NODE_FAILURE", failureAt, failureAt')
                      \cup Armed("MAINTENANCE_DRAIN", maintAt, maintAt')
                      \cup WakeEvents(Boundary(e.time))
          /\ MarkDirty(e.time) /\ lastWake' = lastWake
      BY <1>3 DEF OnRepair, loopVars
    <2>2. failureAt \in Nat \cup {None} /\ maintAt \in Nat \cup {None}
      BY DEF ClockInv, LifeInv, TypeInv, TypeOK
    <2>3. /\ \A f \in Armed("NODE_FAILURE", failureAt, failureAt') : e.time <= f.time
          /\ \A f \in Armed("MAINTENANCE_DRAIN", maintAt, maintAt') :
               e.time <= f.time
      BY <1>1, <2>1, <2>2, ArmedAfter
    <2>4. \A f : f.type = "SCHED_WAKE" =>
             /\ f \notin Armed("NODE_FAILURE", failureAt, failureAt')
             /\ f \notin Armed("MAINTENANCE_DRAIN", maintAt, maintAt')
      BY NotAWake DEF LoopEvents
    <2>5. After(e.time)
      BY <1>1, <2>1, <2>3, WakeAfter DEF After
    <2>6. WakesAsked(e.time)
      BY <1>1, <2>1, <2>4 DEF WakesAsked
    <2>. QED
      BY <1>1, <2>1, <2>5, <2>6, TickClock
  <1>. QED
    BY <1>2, <1>3 DEF OnRepair

LEMMA NodeClock ==
    ASSUME ClockInv, LifeInv', NEW e \in queue,
           \/ OnFailure(e) \/ OnForcedFailure(e) \/ OnMaintenance(e)
           \/ OnForcedDrain(e) \/ OnDrainGrace(e)
    PROVE  ClockInv'
  <1>1. /\ e.type # "SCHED_WAKE" /\ now' = e.time
        /\ e.time \in Nat /\ now <= e.time /\ e.time <= Horizon
        /\ \A f \in queue : e.time <= f.time
    BY DueTime DEF OnFailure, OnForcedFailure, OnMaintenance, OnForcedDrain,
                   OnDrainGrace
  <1>2. Rest(queue \ {e}, e.time)
    BY <1>1 DEF Rest
  <1>3. hazard \subseteq Nodes /\ (e.type \in NodeEvents => e.arg \in Nodes)
    BY EventType DEF ClockInv, LifeInv, TypeInv, TypeOK
  <1>4. CASE OnFailure(e)
    <2>1. Rest((queue \ {e}) \cup Armed("NODE_FAILURE", None, failureAt'), e.time)
      BY <1>1, <1>4, RestOf DEF OnFailure
    <2>. QED
      BY <1>1, <1>3, <1>4, <2>1, NoNodeEventClock, FailNodeClock DEF OnFailure
  <1>5. CASE OnMaintenance(e)
    <2>1. Rest((queue \ {e}) \cup Armed("MAINTENANCE_DRAIN", None, maintAt'), e.time)
      BY <1>1, <1>5, RestOf DEF OnMaintenance
    <2>. QED
      BY <1>1, <1>5, <2>1, NoNodeEventClock, DrainNodeClock DEF OnMaintenance
  <1>6. CASE OnForcedFailure(e)
    <2>1. e.arg \in Nodes
      BY <1>3, <1>6 DEF OnForcedFailure, Due, NodeEvents
    <2>. QED
      BY <1>1, <1>2, <1>6, <2>1, NoNodeEventClock, FailNodeClock
         DEF OnForcedFailure
  <1>7. CASE OnForcedDrain(e)
    BY <1>1, <1>2, <1>7, NoNodeEventClock, DrainNodeClock DEF OnForcedDrain
  <1>8. CASE OnDrainGrace(e)
    <2>1. e.arg \in Nodes
      BY <1>3, <1>8 DEF OnDrainGrace, Due, NodeEvents
    <2>. QED
      BY <1>1, <1>2, <1>8, <2>1, NoNodeEventClock, EndDrainGraceClock
         DEF OnDrainGrace
  <1>. QED
    BY <1>4, <1>5, <1>6, <1>7, <1>8

-----------------------------------------------------------------------------
(* The loop and the wake. *)

LEMMA FlushClock ==
    ASSUME ClockInv, LifeInv', NEW e \in queue, OnFlush(e)
    PROVE  ClockInv'
  <1> DEFINE next == {Ev(t, "METRICS_FLUSH", Nil) :
                        t \in {e.time + Round} \cap 0 .. Horizon - 1}
  <1>1. /\ e.type = "METRICS_FLUSH" /\ now' = e.time
        /\ e.time \in Nat /\ now <= e.time /\ e.time <= Horizon
        /\ \A f \in queue : e.time <= f.time
    BY DueTime DEF OnFlush
  <1>2. queue' = (queue \ {e}) \cup next /\ NotDirty /\ lastWake' = lastWake
    BY DEF OnFlush, NotDirty, loopVars
  <1>3. \A f \in next : f.time = e.time + Round /\ f.type = "METRICS_FLUSH"
    BY DEF Ev
  <1>4. Round \in Nat
    BY ClockTypes
  <1> HIDE DEF next
  <1>5. After(e.time)
    BY <1>1, <1>2, <1>3, <1>4 DEF After
  <1>6. WakesAsked(e.time)
    BY <1>1, <1>2, <1>3 DEF WakesAsked
  <1>. QED
    BY <1>1, <1>2, <1>5, <1>6, TickClock

\* The wake that runs is forgotten; the others on the queue are later.
LEMMA WakeClock ==
    ASSUME ClockInv, LifeInv', NEW e \in queue, OnWake(e)
    PROVE  ClockInv' /\ lastWake < e.time
  <1>1. /\ e.type = "SCHED_WAKE" /\ e.time \in Nat /\ now <= e.time
        /\ e.time <= Horizon /\ \A f \in queue : e.time <= f.time
    BY DueTime DEF OnWake
  <1>2. /\ now' = e.time /\ queue' = queue \ {e} /\ lastWake' = e.time
        /\ wakeTimes' = wakeTimes \ {e.time} /\ dirty' = FALSE
    BY DEF OnWake
  <1>3. /\ wakeTimes \subseteq Nat /\ queue \subseteq Event
        /\ \A f \in queue : f.time \in Nat
    BY ClockTypes
  <1>4. TimeForward' /\ WakeDue'
    BY <1>1, <1>2 DEF TimeForward, WakeDue
  <1>5. \A f \in queue' : f.type = "SCHED_WAKE" => f.time \in wakeTimes'
    <2> SUFFICES ASSUME NEW f \in queue, f # e, f.type = "SCHED_WAKE"
                 PROVE  f.time \in wakeTimes /\ f.time # e.time
      BY <1>2
    <2>1. f.time \in wakeTimes
      BY DEF ClockInv, WakesKnown
    <2>2. ASSUME f.time = e.time PROVE FALSE
      <3>1. /\ e \in [time : Nat, type : LoopEvents, arg : {Nil}]
            /\ f \in [time : Nat, type : LoopEvents, arg : {Nil}]
        BY <1>1, <1>3 DEF Event, JobEvents, NodeEvents
      <3>. QED
        BY <1>1, <2>2, <3>1
    <2>. QED
      BY <2>1, <2>2
  <1>6. \A x \in wakeTimes' : Ev(x, "SCHED_WAKE", Nil) \in queue' /\ e.time < x
    <2> SUFFICES ASSUME NEW x \in wakeTimes, x # e.time
                 PROVE  Ev(x, "SCHED_WAKE", Nil) \in queue \ {e} /\ e.time < x
      BY <1>2
    <2>1. Ev(x, "SCHED_WAKE", Nil) \in queue
      BY DEF ClockInv, WakesKnown
    <2>2. Ev(x, "SCHED_WAKE", Nil).time = x
      BY DEF Ev
    <2>3. e.time <= x
      BY <1>1, <2>1, <2>2
    <2>. QED
      BY <1>1, <1>3, <2>1, <2>2, <2>3
  <1>7. WakesKnown'
    BY <1>2, <1>5, <1>6 DEF WakesKnown, Ev
  <1>8. lastWake < e.time
    BY <1>1 DEF ClockInv, WakesKnown
  <1>. QED
    BY <1>4, <1>7, <1>8 DEF ClockInv

\* The next periodic wake is armed one interval after the one that ends.
LEMMA EndWakeClock ==
    ASSUME ClockInv, LifeInv', EndWake
    PROVE  ClockInv'
  <1> DEFINE t == now + WakeInterval
             periodic == WakeInterval # 0 /\ t <= Horizon
  <1>1. /\ now \in Nat /\ WakeInterval \in Nat /\ lastWake <= now
        /\ lastWake \in Nat \cup {None} /\ wakeTimes \subseteq Nat
        /\ Round \in Nat
    BY ClockTypes DEF ClockInv, TimeForward
  <1>2. /\ wakeTimes' = IF periodic THEN wakeTimes \cup {t} ELSE wakeTimes
        /\ queue' = queue \cup (IF periodic THEN WakeEvents(t) ELSE {})
        /\ now' = now /\ lastWake' = lastWake /\ dirty' = dirty
    BY DEF EndWake
  <1>3. periodic => lastWake < t /\ now <= t
    BY <1>1
  <1> HIDE DEF t, periodic
  <1>4. \A e : e \in WakeEvents(t) <=>
                 t \notin wakeTimes /\ e = Ev(t, "SCHED_WAKE", Nil)
    BY DEF WakeEvents
  <1>5. \A x : Ev(x, "SCHED_WAKE", Nil).time = x
    BY DEF Ev
  <1>6. TimeForward'
    BY <1>2, <1>3, <1>4, <1>5 DEF TimeForward, ClockInv
  <1>7. \A e \in queue' : e.type = "SCHED_WAKE" => e.time \in wakeTimes'
    BY <1>2, <1>4, <1>5 DEF ClockInv, WakesKnown
  <1>8. \A x \in wakeTimes' : Ev(x, "SCHED_WAKE", Nil) \in queue' /\ lastWake' < x
    BY <1>2, <1>3, <1>4 DEF ClockInv, WakesKnown
  <1>9. WakesKnown'
    BY <1>7, <1>8 DEF WakesKnown, Ev
  <1>10. WakeDue'
    BY <1>2 DEF WakeDue, ClockInv
  <1>. QED
    BY <1>6, <1>9, <1>10 DEF ClockInv

\* At the horizon the clock stops; what is left on the queue is later.
LEMMA FinalizeClock ==
    ASSUME ClockInv, LifeInv', Finalize
    PROVE  ClockInv'
  <1>1. /\ now \in Nat /\ Horizon \in Nat /\ Round \in Nat /\ now <= Horizon
        /\ lastWake <= now /\ lastWake \in Nat \cup {None}
        /\ wakeTimes \subseteq Nat /\ \A e \in queue : e.time \in Nat
    BY ClockTypes DEF ClockInv, TimeForward
  <1>2. /\ \A e \in queue : e.time > Horizon
        /\ now' = Horizon /\ UNCHANGED <<queue, lastWake, wakeTimes, dirty>>
    BY DEF Finalize
  <1>3. TimeForward'
    BY <1>1, <1>2 DEF TimeForward
  <1>4. WakesKnown'
    BY <1>2 DEF WakesKnown, ClockInv, Ev
  <1>5. WakeDue'
    <2> SUFFICES ASSUME dirty
                 PROVE  \E x \in wakeTimes : Horizon <= x /\ x <= Horizon + Round
      BY <1>2 DEF WakeDue
    <2>1. PICK x \in wakeTimes : now <= x /\ x <= now + Round
      BY DEF ClockInv, WakeDue
    <2>2. Ev(x, "SCHED_WAKE", Nil) \in queue /\ Ev(x, "SCHED_WAKE", Nil).time = x
      BY DEF ClockInv, WakesKnown, Ev
    <2>. QED
      BY <1>1, <1>2, <2>1, <2>2
  <1>. QED
    BY <1>3, <1>4, <1>5 DEF ClockInv

LEMMA StutterClock ==
    ASSUME ClockInv, LifeInv', BuildView \/ UNCHANGED vars
    PROVE  ClockInv'
  <1>1. UNCHANGED <<now, queue, lastWake, wakeTimes, dirty>>
    BY DEF BuildView, vars, loopVars
  <1>. QED
    BY <1>1 DEF ClockInv, TimeForward, WakesKnown, WakeDue, Ev

LEMMA InitClock == Init => ClockInv
  <1> SUFFICES ASSUME Init PROVE ClockInv
    OBVIOUS
  <1>1. LifeInv
    BY InitLife
  <1>2. /\ Horizon \in Nat /\ Round \in Nat \ {0} /\ queue \subseteq Event
        /\ FailureGaps \in SUBSET Nat
    BY <1>1, ConfigAssumption DEF ConfigAssumption, LifeInv, TypeInv, TypeOK
  <1>3. now = 0 /\ lastWake = None /\ ~ dirty /\ wakeTimes \subseteq {0}
    BY DEF Init
  <1>4. \A e \in queue : e.time \in Nat
    BY <1>2 DEF Event
  <1>5. TimeForward
    BY <1>2, <1>3, <1>4 DEF TimeForward
  <1>6. \A e \in queue : e.type = "SCHED_WAKE" => e.time \in wakeTimes
    <2>1. \A e \in Forced : e.type # "SCHED_WAKE"
      BY ConfigAssumption DEF ConfigAssumption
    <2>2. \A e : e.type = "SCHED_WAKE" =>
            /\ e \notin ArrivalEvents(1)
            /\ e \notin Armed("NODE_FAILURE", None, failureAt)
            /\ e \notin Armed("MAINTENANCE_DRAIN", None, maintAt)
      BY NotAWake DEF LoopEvents
    <2>3. \A e : e \in {Ev(t, "METRICS_FLUSH", Nil) :
                          t \in {Round} \cap 0 .. Horizon - 1}
                 => e.type = "METRICS_FLUSH"
      BY DEF Ev
    <2>4. \A e : e \in {Ev(t, "SCHED_WAKE", Nil) : t \in wakeTimes} =>
                   e.time \in wakeTimes
      BY DEF Ev
    <2>. QED
      BY <2>1, <2>2, <2>3, <2>4 DEF Init
  <1>7. \A x \in wakeTimes : Ev(x, "SCHED_WAKE", Nil) \in queue /\ lastWake < x
    BY <1>3 DEF Init
  <1>. QED
    BY <1>1, <1>3, <1>5, <1>6, <1>7 DEF ClockInv, WakesKnown, WakeDue

-----------------------------------------------------------------------------
(* The step and the theorems. *)

LEMMA NextClock == ClockInv /\ [Next]_vars => ClockInv'
  <1> SUFFICES ASSUME ClockInv, [Next]_vars PROVE ClockInv'
    OBVIOUS
  <1>1. LifeInv'
    BY NextLife DEF ClockInv
  <1>2. ASSUME Turn PROVE ClockInv'
    BY <1>1, <1>2, RepairClock, NodeClock, EndOfJobClock, PreemptionDoneClock,
       ArrivalClock, WakeClock, FlushClock DEF Turn
  <1>3. ASSUME InWake PROVE ClockInv'
    BY <1>1, <1>3, RefillClock, PlaceClock, PreemptRequeueClock,
       PreemptCancelClock, EndWakeClock, StutterClock DEF InWake
  <1>. QED
    BY <1>1, <1>2, <1>3, FinalizeClock, StutterClock DEF Next, Stopped

LEMMA ClockInvariant == Spec => []ClockInv
  BY InitClock, NextClock, PTL DEF Spec

\* For every scenario and round length: while a change waits for the scheduler
\* a wake is due within one round, and the wakes on the queue are those that
\* _wake_times remembers, so coalescing never swallows the last one.
THEOREM WakesArePromised == Spec => []WakePromised
  <1>1. ClockInv => WakePromised
    <2> SUFFICES ASSUME ClockInv PROVE WakePromised
      OBVIOUS
    <2>1. wakeTimes = {e.time : e \in {f \in queue : f.type = "SCHED_WAKE"}}
      <3>1. ASSUME NEW x \in wakeTimes
            PROVE  x \in {e.time : e \in {f \in queue : f.type = "SCHED_WAKE"}}
        <4>1. Ev(x, "SCHED_WAKE", Nil) \in queue
          BY DEF ClockInv, WakesKnown
        <4>2. /\ Ev(x, "SCHED_WAKE", Nil).type = "SCHED_WAKE"
              /\ Ev(x, "SCHED_WAKE", Nil).time = x
          BY DEF Ev
        <4>. QED
          BY <4>1, <4>2
      <3>2. \A e \in {f \in queue : f.type = "SCHED_WAKE"} : e.time \in wakeTimes
        BY DEF ClockInv, WakesKnown
      <3>. QED
        BY <3>1, <3>2
    <2>. QED
      BY <2>1 DEF ClockInv, WakeDue, WakePromised
  <1>. QED
    BY <1>1, ClockInvariant, PTL

\* Each time has at most one scheduling round and the scheduler sees settled
\* state, for every scenario: at a wake nothing is left at or before its time but
\* the flush of the metrics (or another wake), and no wake repeats an earlier one.
THEOREM RoundsAreSettled == Spec => OneSettledRound
  <1> DEFINE Settled ==
        phase = "run" /\ phase' = "refill" =>
          /\ lastWake < now'
          /\ \A e \in queue' : \/ e.time > now'
                                \/ e.type \in {"SCHED_WAKE", "METRICS_FLUSH"}
  <1>1. ClockInv /\ [Next]_vars => [Settled]_vars
    <2> SUFFICES ASSUME ClockInv, Next, phase = "run", phase' = "refill"
                 PROVE  /\ lastWake < now'
                        /\ \A e \in queue' :
                             \/ e.time > now'
                             \/ e.type \in {"SCHED_WAKE", "METRICS_FLUSH"}
      OBVIOUS
    <2>1. LifeInv'
      BY NextLife DEF ClockInv
    \* Only the handler of a wake enters the refill.
    <2>2. \E e \in queue : OnWake(e)
      <3>1. ~ InWake
        BY DEF InWake, Refill, BuildView, Place, PreemptRequeue, PreemptCancel,
               MayPreempt, EndWake
      <3>2. ~ Finalize /\ ~ Stopped
        BY DEF Finalize, Stopped
      <3>3. Turn
        BY <3>1, <3>2 DEF Next
      <3>4. ASSUME NEW n, NEW t, NEW rest,
                   \/ FailNode(n, t, rest) \/ NoNodeEvent(rest)
                   \/ DrainNode(n, t, rest) \/ EndDrainGrace(n, t, rest)
            PROVE  FALSE
        BY <3>4 DEF FailNode, NoNodeEvent, DrainNode, EndDrainGrace, loopVars
      <3>5. ASSUME NEW e \in queue,
                   OnFailure(e) \/ OnForcedFailure(e) \/ OnMaintenance(e)
                     \/ OnForcedDrain(e) \/ OnDrainGrace(e)
            PROVE  FALSE
        BY <3>4, <3>5 DEF OnFailure, OnForcedFailure, OnMaintenance,
                          OnForcedDrain, OnDrainGrace
      <3>6. ASSUME NEW e \in queue, OnRepair(e) PROVE FALSE
        BY <3>4, <3>6 DEF OnRepair, loopVars
      <3>7. ASSUME NEW e \in queue,
                   OnCompletion(e) \/ OnValidUntil(e) \/ OnLifetime(e)
                     \/ OnPreemptionDone(e) \/ OnArrival(e) \/ OnFlush(e)
            PROVE  FALSE
        BY <3>7 DEF OnCompletion, OnValidUntil, OnLifetime, OnPreemptionDone,
                    OnArrival, OnFlush, Finish, loopVars
      <3>. QED
        BY <3>3, <3>5, <3>6, <3>7 DEF Turn
    <2>3. PICK e \in queue : OnWake(e)
      BY <2>2
    <2>4. lastWake < e.time /\ now' = e.time /\ queue' = queue \ {e}
      BY <2>1, <2>3, WakeClock DEF OnWake
    <2>5. \A f \in queue : \/ e.time < f.time
                           \/ f.type \in {"SCHED_WAKE", "METRICS_FLUSH"}
      <3> SUFFICES ASSUME NEW f \in queue, ~ (e.time < f.time)
                   PROVE  f.type \in {"SCHED_WAKE", "METRICS_FLUSH"}
        OBVIOUS
      <3>1. e.time \in Nat /\ f.time \in Nat /\ e.time <= f.time
        BY <2>3, ClockTypes, DueTime DEF OnWake
      <3>2. e.type = "SCHED_WAKE" /\ ~ Before(f, e)
        BY <2>3 DEF OnWake, Due
      <3>3. f.time = e.time
        BY <3>1
      <3>4. ~ (Rank[f.type] < Rank["SCHED_WAKE"])
        BY <3>2, <3>3 DEF Before
      <3>5. f.type \in JobEvents \cup NodeEvents \cup LoopEvents
        BY ClockTypes DEF Event
      <3>. QED
        BY <3>4, <3>5 DEF Rank, JobEvents, NodeEvents, LoopEvents
    <2>6. \A f \in queue' : \/ f.time > now'
                            \/ f.type \in {"SCHED_WAKE", "METRICS_FLUSH"}
      BY <2>4, <2>5
    <2>. QED
      BY <2>4, <2>6
  <1>. QED
    BY <1>1, ClockInvariant, PTL DEF Spec, OneSettledRound
=============================================================================
