----------------------------- MODULE Scheduling -----------------------------
(***************************************************************************)
(* The schedulers of fleetsim on the fleet tree: EASY backfill beside the  *)
(* strict FIFO it is measured against, and the tiered-priority scheduler   *)
(* that evicts.  A wake gives the scheduler a view of the queue and the    *)
(* tree; what it finds it reserves at once, so the scan is a fold over the *)
(* queue that carries the tree along.                                      *)
(*                                                                         *)
(* Jobs are numbered in order of arrival, the order of (submit_time, id);  *)
(* an evicted job keeps its number as it keeps its submit time.            *)
(***************************************************************************)
EXTENDS FleetSearch

CONSTANTS
  Scenarios,   \* [policy, mode, profiles, fungible, timed, round, cap, evict, slow];
               \* round is the number of ticks between two wakes
  LastArrival, \* bound: the last tick at which a job arrives
  User         \* the tenant of all jobs

VARIABLES
  scenario,
  now,
  woken,     \* the wake of this tick is over
  job,       \* the profile of each job that has arrived, and when it did
  status,
  start,     \* when the stint of a running job began
  young,     \* running jobs within their minimum runtime
  claims,    \* the victims each preemptor waits for
  line,      \* the same jobs under strict FIFO, when the fleet is fungible
  promise,   \* history: the earliest shadow a job was passed over for
  excused    \* history: claimants that were outranked or cut short since, and
             \* heads past which a gang was backfilled across racks

schedVars == <<tree, scenario, now, woken, job, status, start, young, claims,
               line, promise, excused>>

NoJob == 0
NoEstimate == 0
NoPromise == -1
NotYet == [work |-> 0]

\* A profile is [spec, required, relaxAfter, tier, preemptible, guarded, est,
\* work, segments]; a job that has arrived also has its time of arrival, at.
\* Work and estimates are ticks at full speed.
Arrived == {j \in Job : job[j] # NotYet}
InState(s) == {j \in Job : status[j] = s}

---------------------------------------------------------------------------
(* Placing one job: _SearchPolicy.place, find_placement, placement_speed.  *)

MayRelax(j) ==
  /\ job[j].spec.within # AnyLevel
  /\ ~ job[j].required
  /\ job[j].spec.perSegment = 0
  /\ now - job[j].at >= job[j].relaxAfter

Unconstrained(j) == [job[j].spec EXCEPT !.within = AnyLevel]

FindPlacement(t, j) ==
  LET specs == <<job[j].spec>> \o IF MayRelax(j) THEN <<Unconstrained(j)>> ELSE << >>
  IN  FirstFit(specs, [spec \in ToSet(specs) |-> Search(t, spec, User, scenario.mode)])

\* Would j fit if the victims were gone (reclaim_feasible)?
ReclaimFeasible(t, j, victims) ==
  \E spec \in {job[j].spec} \cup IF MayRelax(j) THEN {Unconstrained(j)} ELSE {} :
    SearchAfterRelease(t, spec, victims, User, scenario.mode) # NoFit

\* A placement over several racks runs at 1 / slow of its speed.
Pace(leaves) ==
  IF Cardinality({d \in Domain : Level[d] = "rack" /\ \E l \in leaves : d \in Above[l]}) > 1
  THEN scenario.slow ELSE 1

LeavesOf(t, j) == t.alloc[j][1].nodes

\* What a scan carries: the tree with what it reserved, the jobs it placed,
\* the first job it could not place, and what the tiered scheduler adds.
Scan(t) ==
  [tree |-> t, placed |-> {}, head |-> NoJob, claims |-> claims,
   evicted |-> << >>, stop |-> FALSE, cut |-> FALSE,
   shadow |-> NoPromise]

Placed(acc, j, p) ==
  [acc EXCEPT !.tree = Applied(acc.tree, j, <<ToGang(p)>>),
              !.placed = acc.placed \cup {j},
              !.claims[j] = {}]

---------------------------------------------------------------------------
(* FIFO (strict) and EASY backfill.                                        *)

TakeOrHead(acc, j, p) ==
  IF p = NoFit THEN [acc EXCEPT !.head = j] ELSE Placed(acc, j, p)

\* The scan stops at the first job that does not fit: the head.
FifoScan(t, waiting) ==
  FoldLeft(LAMBDA acc, j : IF acc.head # NoJob THEN acc
                           ELSE TakeOrHead(acc, j, FindPlacement(acc.tree, j)),
           Scan(t), Ascending(waiting))

Pinned(d, spec) ==
  \E ct \in Types : TypesUnder(d) = {ct} /\ spec.type \in {AnyType, ct}

\* When a running job, or one placed in this wake, promises to be gone.
Begun(acc, k) == IF k \in acc.placed THEN now ELSE start[k]
ReleaseTime(acc, k) ==
  Begun(acc, k) + job[k].est * Pace(LeavesOf(acc.tree, k))

\* Mutant: jobs placed in this wake promise nothing yet.
RunningOnly(acc) == InState("running")

Active(acc) == InState("running") \cup acc.placed

\* _shadow: the times at which, by the promises, enough chips of one domain
\* are free for the head; the first of them is its shadow.
ShadowTimes(acc) ==
  LET spec == job[acc.head].spec
      In(d) ==
        LET free == acc.tree.free[d] - HeldFreeChips(acc.tree, d, User)
            leaving == {k \in Active(acc) : /\ job[k].est # NoEstimate
                                            /\ LeavesOf(acc.tree, k) \subseteq LeavesUnder[d]}
            size == [k \in leaving |-> job[k].spec.chips]
            GoneBy(e) == {k \in leaving : ReleaseTime(acc, k) <= e}
        IN  IF free >= spec.chips THEN {now}
            ELSE {Max({now, e}) : e \in {ReleaseTime(acc, k) : k \in
                    {m \in leaving : spec.chips <=
                       free + Total(GoneBy(ReleaseTime(acc, m)), size)}}}
  IN  UNION {In(d) : d \in {e \in DomainsFor(spec) : Pinned(e, spec)}}

\* Mutant: a slow placement is taken at its word.
AtFullSpeed(acc, j, p, shadow) == now + job[j].est <= shadow

GoneInTime(acc, j, p, shadow) == now + job[j].est * Pace(p.leaves) <= shadow

\* A later job that would not be gone in time gives back what it reserved.
TakeIfGone(acc, j, p, shadow) ==
  IF p # NoFit /\ GoneInTime(acc, j, p, shadow) THEN Placed(acc, j, p) ELSE acc

Backfill(scan, shadow) ==
  FoldLeft(LAMBDA acc, j :
             IF job[j].est = NoEstimate \/ now + job[j].est > shadow THEN acc
             ELSE TakeIfGone(acc, j, FindPlacement(acc.tree, j), shadow),
           [scan EXCEPT !.shadow = shadow],
           Ascending({j \in InState("pending") : j > scan.head}))

\* Without a shadow nothing is backfilled.
BackfillUntil(scan, times) ==
  IF times = {} THEN scan ELSE Backfill(scan, Min(times))

EasyBackfill(scan) ==
  IF scan.head = NoJob THEN scan ELSE BackfillUntil(scan, ShadowTimes(scan))

---------------------------------------------------------------------------
(* Tiered priority: claims, victims, and the scan.                         *)

Outranks(k, j) ==
  \/ job[k].tier > job[j].tier
  \/ job[k].tier = job[j].tier /\ k < j

\* Mutant: a victim that was requeued is still waited for.
PrunedLate ==
  [j \in Job |-> IF status[j] = "pending"
                 THEN {v \in claims[j] : status[v] \in {"graced", "pending"}} ELSE {}]

\* _prune_claims
PrunedClaims ==
  [j \in Job |-> IF status[j] = "pending"
                 THEN {v \in claims[j] : status[v] = "graced"} ELSE {}]

Eligible(j) ==
  {v \in InState("running") : /\ job[v].tier < job[j].tier
                              /\ job[v].preemptible
                              /\ v \notin young}

\* Lowest tier first, then least attained service (served ranks it); what the
\* youngest-first rule decides among equals is one of the rankings as well.
VictimOrder(S, served) ==
  By(S, [v \in S |-> job[v].tier * (Cardinality(Job) + 1) + served[v]])

\* _verify_and_refine: the plan if it makes room for j, else an extended one,
\* pruned from the least preferred victim on.
Refined(t, j, chosen, extras) ==
  LET full == chosen \o extras
      Without(kept, v) == SelectSeq(kept, LAMBDA x : x # v)
  IN  IF ReclaimFeasible(t, j, chosen) THEN chosen
      ELSE IF ~ ReclaimFeasible(t, j, full) THEN << >>
      ELSE FoldLeft(LAMBDA kept, v :
                      IF Len(kept) > 1 /\ ReclaimFeasible(t, j, Without(kept, v))
                      THEN Without(kept, v) ELSE kept,
                    full, Reverse(full))

\* The first plan that holds, over the domains in order of their ids.
FirstPlan(plan) ==
  FoldLeft(LAMBDA found, d : IF found = << >> THEN plan[d] ELSE found,
           << >>, Ascending(DOMAIN plan))

\* _plan_preemption: the first victims, by chip count, in one domain.
EnoughOf(t, j, d, order) ==
  LET Freed(n) == t.free[d] + Total(1 .. n, [i \in 1 .. n |-> job[order[i]].spec.chips])
      enough == {n \in 1 .. Len(order) : Freed(n) >= job[j].spec.chips}
  IN  IF enough = {} \/ t.free[d] >= job[j].spec.chips THEN 0 ELSE Min(enough)

Split(t, j, order, n) ==
  IF n = 0 THEN << >>
  ELSE Refined(t, j, SubSeq(order, 1, n), SubSeq(order, n + 1, Len(order)))

DomainPlan(t, j, served, d) ==
  LET order == VictimOrder({v \in Eligible(j) :
                              LeavesOf(t, v) \subseteq LeavesUnder[d]}, served)
  IN  Split(t, j, order, EnoughOf(t, j, d, order))

\* _pack_reclaim: each segment goes where it costs the fewest new victims.
ChipsIn(t, v, d) ==
  Total(LeavesUnder[d], [l \in LeavesUnder[d] |-> t.owner[l][v]])

PackReclaim(t, j, served, hosts) ==
  LET segChips == job[j].spec.chips \div job[j].segments
      list == [d \in hosts |->
                 VictimOrder({v \in Eligible(j) : ChipsIn(t, v, d) > 0}, served)]
      Credit(vs, d) == Total(DOMAIN vs, [i \in DOMAIN vs |-> ChipsIn(t, vs[i], d)])
      Rest(acc, d) == SelectSeq(list[d], LAMBDA v : ~ Contains(acc.chosen, v))
      Enough(acc, d) ==
        {n \in 0 .. Len(Rest(acc, d)) :
           (acc.hosted[d] + 1) * segChips
             <= acc.cap[d] + Credit(SubSeq(Rest(acc, d), 1, n), d)}
      HostedBy(acc, d, new) ==
        [acc EXCEPT !.hosted[d] = @ + 1,
                    !.chosen = @ \o new,
                    !.cap = [e \in hosts |-> acc.cap[e] + Credit(new, e)]]
      Cheapest(acc, cost) ==
        IF DOMAIN cost = {} THEN [acc EXCEPT !.ok = FALSE]
        ELSE LET d == By(DOMAIN cost, cost)[1]
             IN  HostedBy(acc, d, SubSeq(Rest(acc, d), 1, cost[d]))
      Able(acc) == {d \in hosts : acc.ok /\ Enough(acc, d) # {}}
      Host(acc, i) == Cheapest(acc, [d \in Able(acc) |-> Min(Enough(acc, d))])
  IN  FoldLeft(Host,
        [cap |-> [d \in hosts |-> t.free[d]], hosted |-> [d \in hosts |-> 0],
         chosen |-> << >>, ok |-> TRUE],
        [i \in 1 .. job[j].segments |-> i])

SegmentsChecked(t, j, served, outer, packed) ==
  LET extras == {v \in Eligible(j) : /\ ~ Contains(packed.chosen, v)
                                     /\ ChipsIn(t, v, outer) > 0}
  IN  IF ~ packed.ok \/ packed.chosen = << >> THEN << >>
      ELSE Refined(t, j, packed.chosen, VictimOrder(extras, served))

\* _plan_segmented_preemption
SegmentedPlan(t, j, served, outer) ==
  LET hosts == {d \in Domain : /\ Level[d] = job[j].spec.segmentLevel
                               /\ outer \in Above[d]
                               /\ TypesUnder(d) = {job[j].spec.type}}
  IN  IF hosts = {} THEN << >>
      ELSE SegmentsChecked(t, j, served, outer, PackReclaim(t, j, served, hosts))

PlanPreemption(t, j, served) ==
  LET spec == job[j].spec
  IN  IF spec.perSegment = 0
      THEN FirstPlan([d \in {e \in DomainsFor(spec) : Pinned(e, spec)} |->
                        DomainPlan(t, j, served, d)])
      ELSE FirstPlan([d \in {e \in DomainsFor(spec) : spec.type # AnyType} |->
                        SegmentedPlan(t, j, served, d)])

\* Mutant: the scan goes on behind a job that waits for its victims.
StopNever(acc, j) == acc

\* Nobody behind j may take the chips that are being freed for it.
StopAt(acc, j) == [acc EXCEPT !.stop = TRUE]

Evict(acc, j, victims) ==
  LET emitted == SubSeq(victims, 1, Min({scenario.cap, Len(victims)}))
  IN  IF victims = << >> THEN acc
      ELSE [StopAt(acc, j) EXCEPT !.claims[j] = ToSet(emitted), !.evicted = emitted,
                                  !.cut = Len(emitted) < Len(victims)]

Serve(acc, j, p, served) ==
  IF p # NoFit THEN Placed(acc, j, p)
  ELSE IF scenario.cap = 0 THEN acc
  ELSE IF acc.claims[j] # {} THEN StopAt(acc, j)
  ELSE Evict(acc, j, PlanPreemption(acc.tree, j, served))

TieredPriority(served) ==
  FoldLeft(LAMBDA acc, j : IF acc.stop THEN acc
                           ELSE Serve(acc, j, FindPlacement(acc.tree, j), served),
           [Scan(tree) EXCEPT !.claims = PrunedClaims],
           By(InState("pending"), [j \in InState("pending") |-> 0 - job[j].tier]))

---------------------------------------------------------------------------
(* The engine around the scheduler.                                        *)

SchedInit ==
  /\ tree = FreshTree
  /\ scenario \in Scenarios
  /\ now = 0
  /\ woken = FALSE
  /\ job = [j \in Job |-> NotYet]
  /\ status = [j \in Job |-> "new"]
  /\ start = [j \in Job |-> 0]
  /\ young = {}
  /\ claims = [j \in Job |-> {}]
  /\ line = [tree |-> FreshTree, status |-> status, start |-> start]
  /\ promise = [j \in Job |-> NoPromise]
  /\ excused = {}

Ends(t, begun, j) == begun[j] + job[j].work * Pace(LeavesOf(t, j))
Ending == {j \in InState("running") : scenario.timed /\ Ends(tree, start, j) = now}
EndingInLine ==
  {j \in Job : /\ scenario.fungible /\ line.status[j] = "running"
               /\ Ends(line.tree, line.start, j) = now}

\* What is due at this tick comes before its arrivals and its wake.
Settled == Ending = {} /\ EndingInLine = {}

\* Jobs arrive in the order of their numbers.
Arrive(j, profile) ==
  /\ job[j] = NotYet /\ now <= LastArrival
  /\ ~ woken /\ Settled
  /\ \A k \in Job : k < j => job[k] # NotYet
  /\ job' = [job EXCEPT ![j] = profile @@ [at |-> now]]
  /\ status' = [status EXCEPT ![j] = "pending"]
  /\ line' = IF scenario.fungible THEN [line EXCEPT !.status[j] = "pending"] ELSE line
  /\ UNCHANGED <<tree, scenario, now, woken, start, young, claims, promise, excused>>

\* A completion; without a clock at any time.
Complete(j) ==
  /\ status[j] = "running"
  /\ scenario.timed => j \in Ending
  /\ tree' = Released(tree, j)
  /\ status' = [status EXCEPT ![j] = "done"]
  /\ young' = young \ {j}
  /\ UNCHANGED <<scenario, now, woken, job, start, claims, line, promise, excused>>

CompleteInLine(j) ==
  /\ j \in EndingInLine
  /\ line' = [line EXCEPT !.tree = Released(line.tree, j), !.status[j] = "done"]
  /\ UNCHANGED <<tree, scenario, now, woken, job, status, start, young, claims,
                 promise, excused>>

\* The minimum runtime of the stint is over.
Mature(j) ==
  /\ j \in young
  /\ young' = young \ {j}
  /\ UNCHANGED <<tree, scenario, now, woken, job, status, start, claims, line,
                 promise, excused>>

\* _on_preemption_done: the victim leaves its chips and queues again.
GraceEnds(j) ==
  /\ status[j] = "graced"
  /\ tree' = Released(tree, j)
  /\ status' = [status EXCEPT ![j] = "pending"]
  /\ UNCHANGED <<scenario, now, woken, job, start, young, claims, line, promise,
                 excused>>

\* Without a clock, only the next round.
Tick ==
  /\ woken \/ now % scenario.round # 0
  /\ Settled
  /\ \/ now < LastArrival
     \/ ~ scenario.timed
     \/ \E j \in Job : "running" \in {status[j], line.status[j]}
  /\ now' = IF scenario.timed THEN now + 1 ELSE now
  /\ woken' = FALSE
  /\ UNCHANGED <<tree, scenario, job, status, start, young, claims, line, promise,
                 excused>>

\* Strict FIFO on its own fleet, with the same queue.
LineAfterWake ==
  LET acc == FifoScan(line.tree, {j \in Job : line.status[j] = "pending"})
  IN  [tree |-> acc.tree,
       status |-> [j \in Job |-> IF j \in acc.placed THEN "running" ELSE line.status[j]],
       start |-> [j \in Job |-> IF j \in acc.placed THEN now ELSE line.start[j]]]

\* _on_wake and _apply_place: the stints of this wake begin.
Started(acc) ==
  /\ start' = [j \in Job |-> IF j \in acc.placed THEN now ELSE start[j]]
  /\ young' = young \cup {j \in acc.placed : job[j].guarded}
  /\ woken' = TRUE

\* A gang was backfilled that lies partly in a domain the head could run in.
\* _shadow counts releases within one domain and misses that of such a gang.
BackfilledAcross(acc) ==
  \E k \in acc.placed, d \in DomainsFor(job[acc.head].spec) :
    /\ k > acc.head
    /\ LeavesOf(acc.tree, k) \cap LeavesUnder[d] # {}
    /\ ~ (LeavesOf(acc.tree, k) \subseteq LeavesUnder[d])

WakeEasy(acc) ==
  LET passed == \E j \in acc.placed : acc.head # NoJob /\ j > acc.head
  IN  /\ scenario.policy = "easy_backfill"
      /\ now % scenario.round = 0 /\ ~ woken /\ Settled
      /\ Started(acc)
      /\ tree' = acc.tree
      /\ status' = [j \in Job |-> IF j \in acc.placed THEN "running" ELSE status[j]]
      /\ line' = IF scenario.fungible THEN LineAfterWake ELSE line
      /\ promise' = IF passed /\ promise[acc.head] = NoPromise
                    THEN [promise EXCEPT ![acc.head] = acc.shadow]
                    ELSE promise
      /\ excused' = IF passed /\ BackfilledAcross(acc) THEN excused \cup {acc.head}
                    ELSE excused
      /\ UNCHANGED <<scenario, now, job, claims>>

\* What the scheduler may decide, in whatever order of attained service its
\* possible victims stand.
Decisions ==
  LET victims == {j \in InState("running") : job[j].preemptible}
  IN  {TieredPriority(served) :
         served \in {f \in [victims -> 1 .. Cardinality(victims)] : IsInjective(f)}}

\* In this step a job that outranks j took chips or had them freed for it.
Outranked(j) ==
  \E k \in Arrived : /\ Outranks(k, j)
                     /\ \/ status[k] = "pending" /\ status'[k] = "running"
                        \/ claims'[k] # {}

\* _on_wake, _apply_place and _apply_preempt.
WakeTiered(acc) ==
  LET gone == IF scenario.evict = "cancel" THEN "done" ELSE "graced"
  IN  /\ scenario.policy = "tiered_priority" /\ ~ woken
      /\ Started(acc)
      /\ claims' = acc.claims
      /\ tree' = IF scenario.evict = "cancel"
                 THEN FoldLeft(Released, acc.tree, acc.evicted) ELSE acc.tree
      /\ status' = [j \in Job |-> IF j \in acc.placed THEN "running"
                                  ELSE IF Contains(acc.evicted, j) THEN gone
                                  ELSE status[j]]
      /\ excused' = {j \in Job : acc.claims[j] # {} /\
                       IF PrunedClaims[j] = {} THEN acc.cut
                       ELSE j \in excused \/ Outranked(j)}
      /\ UNCHANGED <<scenario, now, job, line, promise>>

SchedNext ==
  \/ \E j \in Job, p \in scenario.profiles : Arrive(j, p)
  \/ \E j \in Job : \/ Complete(j) \/ CompleteInLine(j) \/ Mature(j) \/ GraceEnds(j)
  \/ Tick
  \/ \E acc \in {EasyBackfill(FifoScan(tree, InState("pending")))} : WakeEasy(acc)
  \/ \E acc \in Decisions : WakeTiered(acc)

\* Wakes are periodic, so there is always another one, and a grace window has
\* its event in the queue.
SchedSpec ==
  /\ SchedInit /\ [][SchedNext]_schedVars
  /\ scenario.timed \/ ([]<>woken /\ []<>~woken)
  /\ \A j \in Job : WF_schedVars(GraceEnds(j))

---------------------------------------------------------------------------
(* Properties.                                                             *)

\* At its promise, once the wake of the tick is over, j waits no longer.
KeptBy(j) ==
  promise[j] # NoPromise /\ woken /\ now >= promise[j] => status[j] # "pending"

\* EASY, estimates never too short, gangs of whole nodes: a job that others
\* were backfilled past runs from the first wake after the shadow time then
\* computed, however often it is passed over again (easy_backfill.py, THE
\* GUARANTEE).
PromiseKept == \A j \in Job : KeptBy(j)

\* The same where no gang was backfilled past the job that takes some leaves
\* of a rack it could run in and some beside it; jobs end early, its rack
\* constraint relaxes or placements run slow all the same.
PromiseKeptInDomain == \A j \in Job \ excused : KeptBy(j)

\* EASY, exact estimates, a fungible fleet: every job has started by the
\* time at which strict FIFO, given the same arrivals, starts it.
NeverLaterThanFifo ==
  woken => \A j \in Job : line.status[j] \in {"running", "done"}
                            => status[j] \in {"running", "done"}

\* Tiered priority: when the last victim of a claim has left, the job it was
\* evicted for is placed in the wake that drops the claim, unless the plan
\* was cut short by the cap or a job that outranks it came in between.
ClaimPaysOff ==
  [][\A j \in Job :
       /\ claims[j] # {} /\ claims'[j] # claims[j]
       /\ \A v \in claims[j] : status[v] # "graced"
       => status'[j] = "running" \/ j \in excused \/ Outranked(j)]_schedVars

\* Tiered priority: no claim is for ever, however the cap cuts the evictions
\* into tranches; a claim that stays stops the scan for all jobs behind it.
ClaimsResolve == \A j \in Job : claims[j] # {} ~> claims[j] = {}
=============================================================================
