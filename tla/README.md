# A TLA+ verification project for fleetsim

fleetsim (`src/src/fleetsim`) simulates a fleet of accelerators: jobs arrive, a
scheduler places gangs on nodes, nodes fail and are drained, metrics are
collected; `fleetsim serve` runs such simulations in worker processes behind a
small HTTP server. This directory models the parts of it where order matters,
checks them with TLC on small instances and proves theorems about them with the
TLA+ proof system.

Paths below are relative to `src/src/fleetsim` unless they say otherwise.

## 1. The system

| Part | State it keeps | Operations | What makes it correct |
|---|---|---|---|
| Engine (`engine/sim.py`) | clock, event queue, job tables (`_jobs`, `_pending`, `_running`, `_graced`), per-job record `_JobRt` (banked and lost work, stint, event handles), wake memory, drain and hazard records, quota commitments | one handler per event type; inside a wake, the scheduler's actions | the redundant records agree; no event is stale or lost; work is conserved; nodes come back; each change is seen by the scheduler within a round |
| Event queue (`engine/events.py`) | heap of (time, rank, sequence), set of cancelled sequences | push, cancel, pop, peek | total order; a cancelled event is never delivered |
| Random streams (`engine/rng.py`) | one generator per name | stream | a stream depends on its name only |
| Job model (`model.py`) | declarative job fields, status enums | - | - |
| Fleet tree (`fleet/tree.py`, `fleet/build.py`) | owners and health of leaves; free, healthy and whole-node counters of every ancestor; reservations | apply, release, fail, repair, drain, maintenance, searches, tentative release and re-apply | the counters are those of the leaves (`check_invariants`); a leaf is never oversubscribed |
| Schedulers (`schedulers/`) | none (FIFO, SJF), remembered ends (EASY), claims and remembered ends (tiered priority) | `schedule(view)` returns places and preemptions | the backfill guarantee; a claim is not leaked; FIFO does not overtake |
| Metrics (`metrics/`) | time-weighted integrals, per-job records, stints, samples | one call per engine event; flush; read-out by cursor | integrals are those of the true state; stints tile the time a job holds chips |
| Workload (`workload/`) | arrival processes, trace cursor | `next_arrival`, `refill` | arrivals are ordered and each job is handed out once |
| Run manager (`serve/runs.py`) | `meta.json` per run, the admission list and queue, slots, process pool, in-flight futures, cancel flags, workspace lock, live spool | submit, list, read, delete, cancel, dispatch, callback, shutdown, boot repair | slots are conserved; no run is lost or revived; positions are consistent; nothing hangs |
| Sweep manager (`serve/sweeps.py`) | one file per sweep naming its runs | create, read, delete | a sweep is created with all of its runs or none |
| HTTP server (`serve/server.py`), web client (`serve/static`) | none / page state | routes | - |
| Configuration, API, CLI (`config.py`, `api.py`, `cli.py`, `units.py`) | none | parsing, validation, wiring | - |
| Validation and rendering (`validation/`, `viz/`) | none | offline reports | - |

**How they interact.** The engine is single-threaded: `run` pops an event and
calls its handler, which calls the fleet tree, the admission policy and the
metrics sink synchronously. In a wake it refills a closed-loop source, builds a
view, calls the scheduler and applies the actions it returns. The server is
concurrent: HTTP handler threads, one dispatcher thread, one management thread
per process pool (which runs the callbacks of its futures), reaper threads for
dropped pools and the thread in `shutdown`; they share the run manager's memory
under one lock, talk through a queue and a semaphore, and reach the worker
processes through the pool and through files of the run's directory
(`cancel.flag`, `live.json`, `live.jsonl`, `live.watch`). A worker process calls
the engine; the two meet only in those files. A scheduler sees the fleet tree
through the view of its wake, which reserves at once whatever it finds a place
for, and asks it what an eviction would make room for.

**What is hard.** In the engine: events that outlive the state they were made
for, several handlers that end or move a job in slightly different ways,
overlapping grace windows of preemptions and drains, and wakes that are
coalesced. In the fleet tree: counters that are kept up by hand on every path to
the root, and owners that outlive the health of their leaf. In the schedulers:
promises and claims that outlive the wake they were made in. In the live stream:
a writer and readers of three files with no lock between them. In the server: a run passes through a list, a queue, a semaphore, a
file and a pool that change at different moments; workers are killed, pools are
rebuilt by whoever notices, futures settle before anyone listens, and shutdown
or a crash may come at any point. `PROJECT.json` lists each hazard at its line.

## 2. The modules

| Module | Models | Correspondence |
|---|---|---|
| `Engine` | `engine/sim.py` with what it needs of `events.py`, `tree.py`, `model.py` | one action per handler (`OnArrival` is `_on_arrival`, `FailNode` is `_fail_node`, ...), one per scheduler action (`Place`, `PreemptRequeue`, `PreemptCancel`); `status`, `pending`, `running`, `graced`, `kept`, `lost`, `bank`, `complAt`, ... are the fields of the same meaning of `Simulator` and `_JobRt` |
| `JobLife` | the promise of the engine about one job: its states and moves, and that durable work grows, up to the job's length, only when it leaves its chips | abstract specification; `Engine` implements it under the mapping `LifeOf` |
| `MCEngine` | instances of `Engine` | |
| `EngineProofs` | theorems about `Engine`: types, durable work, life cycle, cancellation of events, the refinement of `JobLife`, delivered work | |
| `EngineNodeProofs` | theorems about `Engine`: nodes and drains, totals of metrics and quotas, changes wake the scheduler | extends `EngineProofs` |
| `EngineClockProofs` | theorems about `Engine`: time, wakes, rounds | extends `EngineProofs` |
| `RunManager` | `serve/runs.py`: `RunManager` from `submit` to `shutdown`, `_child_run` as a worker that returns, fails or is killed | one action per step between two points where another thread can see the state (a hold of `_lock`, a queue or semaphore call, a write of `meta.json`); `dpc`, `fin`, `sub`, `can`, `spc` are the program counters of the dispatcher, the callbacks, the handlers of submit and cancel, and shutdown |
| `MCRunManager` | instances of `RunManager` | |
| `RunManagerProofs` | theorems about `RunManager` | |
| `WorkspaceLock` | `_acquire_workspace_lock`, `_release_workspace_lock`, `_repair_stale_meta` of several server processes, and what of `submit`, dispatch, callbacks and `shutdown` reaches the metas | one action per system call on `.serve.lock` (`Create`, `Read`, `Unlink`, `Write`, `Release`), the probe of a pid, the read and the rewrite of one meta, each write of a status by a thread of the server; the file is named after the process that created it, so an unlinked file keeps its writer but loses its readers |
| `MCWorkspaceLock` | instances of `WorkspaceLock` | |
| `WorkspaceLockProofs` | theorems about `WorkspaceLock` | |
| `FleetTree` | `fleet/tree.py`: what changes the tree | the state is one record, `tree`; `Applied`, `Released`, `Reapplied`, `Failed`, `Drained`, `Repaired` are `apply`, `release`, `_reapply`, `fail_node`, `drain_node`, `repair_node` as operators from state to state, `AddFree`, `AddHealthy`, `AddFreeNodes` the walks over the ancestors; an action applies an operator to the variable |
| `FleetSearch` | `fleet/tree.py`: what reads it | `Search` in four modes, segmented gangs, `SearchAfterRelease`, the fragmentation figures; extends `FleetTree` with operators and no state |
| `MCFleetTree` | an instance of both | |
| `FleetTreeProofs` | theorems about `FleetTree` | |
| `FleetSearchProofs` | theorems about `FleetSearch` | extends `FleetTreeProofs` |
| `Scheduling` | `easy_backfill.py`, `tiered_priority.py`, strict `fifo.py`, `_SearchPolicy.place`, the view and the wake of `sim.py` | extends `FleetSearch`; a scan of the queue is a fold that carries the tree with what it reserved (`Scan`, `Placed`); `FifoScan`, `EasyBackfill`, `ShadowTimes` and `TieredPriority`, `PrunedClaims`, `PlanPreemption`, `Refined`, `PackReclaim` are the methods of like names |
| `MCScheduling` | five scenarios of `Scheduling` on one fleet, a sixth on another | |
| `LiveSpool` | `_LiveSpool` and `live_payload` of `serve/runs.py`, the stints of `metrics/collector.py`, `LiveFeed` of `serve/static/live.js` | one action per write of the worker and per read of a handler thread; `rows`, `state`, `fleet` are `live.jsonl`, `live.json`, `live_fleet.json`, `memo` is `_live_offsets` |
| `MCLiveSpool` | an instance of `LiveSpool` | |
| `LiveSpoolProofs` | theorems about `LiveSpool` | |

**Abstractions of `Engine`.** The queue is the set of live events; an event
handle is the time of the event it names, and cancelling removes the event. The
handlers of one timestamp run in the order of the event ranks; ties of time and
rank are broken arbitrarily, so what is shown does not rest on push order. Time
is in ticks, speed and checkpoint efficiency are one. Random draws are choices
from small sets; the thinning of a sampled failure may reject it. The scheduler
is arbitrary: any sequence of actions that the engine's validation accepts, so
every policy, also a wrong one, is covered. The fleet is flat: a gang takes whole
leaves or part of one. Preempting a job that another action of the same wake has
just started is within reach. Forced failures and drains are events that the
caller puts on the queue before the run (`Forced`), as the tests do; the
handlers accept them beside the sampled ones. A sum of chips is the cardinality of
a set with one element for each chip of each job (`Taken`).

**Abstractions of `RunManager`.** A run is a model value, its scenario does not
matter. `meta.json` is its status and the class of its error message. Writes of
files succeed. `queue.Queue`, `threading.Semaphore` and `ProcessPoolExecutor` are
external and follow CPython: a broken executor settles all of its futures with
`BrokenProcessPool` and refuses submissions, a shut one cancels the pending ones
and refuses submissions, callbacks of one executor run one after another in its
management thread, and those of a broken one under its shutdown lock (constant
`CallbacksUnderLock`), which is what `_drop_broken_pool` guards against.
Time-outs of shutdown are nondeterministic: it may stop waiting at any moment.
`_kill_pool` is three steps: it forgets the pool, shuts it down and terminates its
workers.
The two server processes of a crash never overlap here; servers that contend for
a workspace are the subject of `WorkspaceLock`.

**Abstractions of `WorkspaceLock`.** Each process has a pid of its own and boots
once; a pid that another process has been given later, or that cannot be probed
(outside POSIX), is in `Recycled`. What an earlier crash left at the path is
`Leftover`: a dead pid or text that is no number. Each server has one run. Its
submission checks for shutdown in one step (`SubmitCheck`) and publishes in
another (`SubmitPublish`), which may come after the shutdown and after the release,
as long as the process is there; so may the end of a run, because the waits of
`shutdown` are bounded (`EndRun`). `run` says `late` of a run that was published
after the release. Deleting such a run is left out. `overlapped` is a history
variable: it remembers that a process began to take the lock while another was at
it.

**Abstractions of `FleetTree` and `FleetSearch`.** Domains are numbers in the
order of their ids. A gang is a set of leaves, whole, or some chips of one leaf
(a placement that lists a leaf twice, which `apply` refuses, cannot be written);
an allocation is a sequence of gangs, of which the instance makes one or two.
The counters are changed at all ancestors at once: the code is single-threaded
and walks the path within one call. Operations that would raise are not enabled,
with one exception: `reserve_leaves` keeps the leaves it had reserved when it
meets one that is held. Speed ratios, domain views, `fragmentation` and
`stranded_chips` are left out. What a placement anchors to is modelled, since
the engine reads it. The sorts of the searches are `By`, by a key and then by id,
each element standing at its rank; the order in which a packed mode fills leaves
is given leaf by leaf (`Place`, `PackedOrder`) where the code concatenates lists,
and `PackSegments` goes on with what is still to give. The segments of a
placement are a bag: how many each domain hosts. The dry run of
`search_after_release` is three operators: the tree it searches (`AfterRelease`),
the re-applications of its `finally` clause (`Restored`), and the tree it leaves
behind (`TreeAfter`). `SearchAssumption` is what the builder guarantees: ids are
paths, so that a parent comes before its children, levels descend and have
different names, and every leaf is in one cluster. Validation (`config.py`)
refuses duplicate levels and a group that is not deeper than its parent, but lets
a top group repeat its cluster's level and a cluster call a level `metro`; such
names are outside the assumption.

**Abstractions of `Scheduling`.** Jobs are numbered in the order of
(`submit_time`, id); an evicted job keeps its number as it keeps its submit time.
There is one tenant and nothing is held or fails: a failure breaks a promise by
any standard, and `FleetTree` has the rest. A placement over two racks is the
slow one (`Pace`). The remembered stints are the start times of running jobs.
Attained service is any ranking within a band, chosen at each wake (`Decisions`);
grace windows and minimum runtimes end at any time, and under tiered priority so
do jobs: the policy looks at none of those times. `promise` and `excused` are
history variables (for EASY, `excused` holds the heads past which a gang was
backfilled across racks), `line` is a second fleet of strict FIFO with the same
arrivals. The shadow is a count of chips, as its docstring says, so the promise
is checked for gangs of whole nodes; it need not hold for gangs that share one.

**Abstractions of `LiveSpool`.** `live.jsonl` is a sequence of bytes, two to a
row, of which an append may show any prefix; `live.json` is replaced atomically.
All lines being equally long, a reader that starts at an offset knows where they
end, and reads those whose end is there; that every offset it starts from is the
end of a line is part of what is proved.
Whether a flush finds the watch file fresh, and whether it finds the cancel flag,
is arbitrary. A handler thread reads status, state, rows with the memo, and
answers; other tabs, and handlers whose answer is lost, are `OtherReader`, which
moves the memo at any time, and `Forget` evicts it. `t0` of a row is the order of
starts. End reasons, the age of rows, the retention cap of the browser, corrupt
lines (`stalled_at`) and deletion (only a queued run can be deleted, and it has
no stream) are left out, and so is a worker that survives
`proc.join(1.0)`. A failing write of rows or state is modelled, a failing final
write in `finish`, which the code swallows, is not.

## 3. The runs

| Run | Instance | Shows |
|---|---|---|
| `engine_failures` | two jobs (a checkpointing gang over both nodes; a demoted sub-node job with a lifetime), two nodes, sampled failures and drains with two gaps each, a drain and a failure by hand, horizon 9 | the records of the engine agree in every state (`LifecycleAgrees`, `EventsMatchHandles`, `MetricsAgree`), nodes come back and drains do not get stuck, durable work only grows, whatever becomes placeable wakes the scheduler, and the engine implements `JobLife` |
| `engine_queue` | five jobs on one node: quota with rejection, expiry, lifetime, minimum runtime, a spot job of a closed-loop source, an invalid gang, a trace job that ends with NODE_FAIL, a periodic wake off the round grid, horizon 7 | quota is conserved, a completion event fires when the work is done, a wake is due within a round of every change and never repeats, each round sees settled state, and the run reaches its horizon |
| `serve_stopping` | two runs, two workers, one kill, one deletion, shutdown and a server crash | slots, positions, owners of live runs and pools are consistent at every step; a status only moves forward |
| `serve_liveness` | three runs, two workers, one kill, one cancellation, callbacks under the executor's lock | at most `max_workers` runs are running; a running run ends; a queued run gets its turn |
| `serve_rebuild` | three runs, two workers, one kill | violated: a run that never was on the dead pool is refused by the rebuilt one |
| `serve_late_submit` | one run and a shutdown | violated: a submission that races shutdown stays queued |
| `lock_serialized` | three servers, one pid reused, crashes anywhere | unless two attempts to take the lock overlap: one owner, no run live beside its own but those published after the release of their server, and no refusal without an owner |
| `lock_overlapping` | two servers, no pid reused | violated: the boot repair of one fails the live run of the other |
| `fleet_tree` | two allocations of one or two gangs, two racks with leaves of 2, 2 and of 3, 1 chips, two leaves that change health, two that are held for either of two tenants, nine specs | counters and owners are exact after every sequence (`CountersExact`, `OwnershipSound`); in every such state, for each spec, tenant and mode, what a search finds is accepted by `apply` (`SearchSound`), what exists is found as the docstrings promise (`SearchComplete`), and a planned eviction restores the tree (`DryRunLeavesNoTrace`) |
| `scheduling` | four jobs on three leaves of two chips in two racks; two scenarios of EASY backfill, three of tiered priority | a job that was passed over runs by its shadow unless a gang was backfilled across its racks (`PromiseKeptInDomain`), on a fungible fleet never later than under strict FIFO (`NeverLaterThanFifo`); a claim ends in the placement of its job (`ClaimPaysOff`) and always ends (`ClaimsResolve`) |
| `scheduling_straddle` | five jobs with exact estimates on two racks of one and of six equal nodes | violated: a gang backfilled across the racks makes the shadow recede, and the head waits past its promise (`PromiseKept`) |
| `live_stream` | two stints of up to two rows, two flushes, pages of two rows, one stray cursor | a browser holds each settled row once and in order, an overlay fits the rows it comes with (`SnapshotExact`), and a browser that follows sees the whole run (`BrowserSeesTheEnd`) |

**Bounds.** Two nodes are what a gang needs to lose one of its leaves and keep
the other, and a drain what it needs to wait for a resident that also sits
elsewhere; two jobs give a survivor and a victim, five give every way into and
out of the queue. Horizons let a job be placed, interrupted, restarted and ended,
a node fail twice, and several rounds and checkpoints pass. Two workers and three
runs give a pool with two runs on it and one that waits; one kill breaks a pool
with both runs on it; four pools are more than a behaviour with one kill creates.
`MaxKills`, `MaxCrashes` and `MaxPools` bound what happens from outside and
nothing of the code.

Two racks of unequal leaves give a gang that fits one rack only, one that fits
both together, and one that a greedy cover misses in one order and finds in
another; `Faulty` and `Holdable` name a leaf that shares its type and size with
another, the leaf that gangs share, and one of both kinds. Two allocations are
what it takes to share a leaf, to release one and keep the other, and to restore
two victims in the wrong order.

In `scheduling`, three leaves and four jobs give a head that waits for two jobs,
a candidate that fits beside it and one that does not. The scenarios are: exact
estimates on a fungible fleet, with FIFO beside it; estimates that are too long
or missing, a soft rack constraint that relaxes, a gang over all nodes, slow
placements and a wake every second tick; a tiered requeue with minimum runtimes and a segmented gang at the
top; the same with evictions one at a time; and cancellation with sub-node gangs
under `best_fit`. `LastArrival` bounds arrivals to two ticks; with durations of
up to four ticks a head is passed over more than once. `scheduling_straddle` needs a
head, two jobs in its rack that end at different times, the gang across the racks
and the late job; six nodes are what they take.

In `live_stream`, a stint over two domains settles two rows at once, so that
with the other stint a flush has more rows than a page, and an overlay more than
its cap; two flushes give an append beside a state that does not count it yet.
`Flushes` and `MaxStints` bound the run of the worker, `StrayCursors` the cursors
of other readers.

Three processes are what it takes for one reclaimer to unlink the lock of another
while a third arrives; `Interchangeable` lists the symmetric ones (the run
checks safety only).

**Deadlock** is checked for the engine, whose `Stopped` action stands for a run
that has returned, and for the fleet tree; it is not for the run manager and the
lock, because a server that has served all of its clients, or has been shut
down, does stop; nor for `scheduling`, where timed scenarios end with their jobs,
and `live_stream`, where the worker ends and the browser stops.

**Fairness.** The engine's loop is one thread that does not block: weak fairness
of `Next`. In the run manager each thread that can step does so (the dispatcher,
the callbacks of each run, the worker of each run, each reaper, a submission that
is under way, a shutdown that has begun): they are threads of a running process
and none waits for a condition that comes and goes. That a run returns is the
finite horizon of a simulation. No client is obliged to act and nothing obliges
a kill or a crash.

In `scheduling` wakes recur where there is no clock (`[]<>woken /\ []<>~woken`:
the periodic tick of the engine), and the end of a grace window is an event on
the queue (weak fairness of `GraceEnds`). No job has to end, so that a claim ends
rests on the claim alone. In `live_stream` the worker, its callback and the
browser's loop are weakly fair, as threads that do not wait for one another;
`Answer` is strongly fair, since an answer may be lost any number of times, and
the timer of the browser asks again for ever: not every answer is lost.

## 4. What the runs found

* `scheduling_straddle`: `_shadow` asks of every candidate domain which jobs lie
  *within* it. A job that takes nodes of a rack and nodes beside it is in none, so
  what it holds is neither free nor ever released. Backfilled past a head that
  wants a rack, it takes chips off the count that the promise was made on: at the
  next wake the shadow is later, and a job is let in on nodes the head was to have.
  In the run nothing else is in play: exact estimates, equal nodes, no penalty. The
  head starts at 4 instead of 2, which is also when strict FIFO starts it, against
  both halves of what `easy_backfill.py` calls THE GUARANTEE. An attempt to find
  an inductive invariant for `PromiseKept` led there: a promise rests on the chips
  that are free or come free in one domain, and every step has to keep that sum.
  Where no gang is backfilled across a domain of the head
  the promise holds, in this instance too (`PromiseKeptInDomain`).
* `serve_rebuild`: both callbacks of a broken pool drop the *current* pool. If
  the dispatcher has built a new one between them, the second drops a healthy
  pool, and the next submission to it is refused.
* `serve_late_submit`: `submit` checks for shutdown in one hold of the lock and
  publishes the run in another. Shutdown may run in between, to its end: then the
  next server may have booted when the run is published, and nobody executes the
  run or repairs it before the boot after that (`lock_serialized` has this case as
  the exception in `LiveRunsAreServed`, `serve_stopping` as the one in
  `LiveRunHasOwner`).
* `lock_overlapping`: the lock file is created in one call and gets its pid in
  another; a server that reads it in between takes it for stale. That needs two
  starts within the same moment; the theorems of `WorkspaceLockProofs` say that
  nothing else does it.

The runs of the fleet tree and the live stream found no violation of what docs and
comments promise. Four limits came up on the way and shape the properties:

* `_drain_node` keeps no handle to its grace event, and `_on_drain_grace` looks only
  at the node's state (`engine/sim.py`). A node that is drained, fails, is repaired
  and is drained again within one grace window is past its grace when the first
  event fires. The sampled failures spare draining nodes, so this takes failures
  and drains placed by hand; no property speaks of the length of a window.
* The shadow of EASY counts chips of a domain. A head that needs a whole node may
  miss its shadow when the chips that came free are on two; the docstring of
  `easy_backfill.py` says so, and `PromiseKept` is about gangs of whole nodes.
* A plan that is cut by `max_preemptions_per_wake` claims the first tranche only.
  When that has left, another job may take what it freed before the rest is
  planned; `ClaimPaysOff` excuses it, `ClaimsResolve` does not.
* The browser keeps its overlay when an answer comes without one. If the last
  flush was not watched and the worker is killed before `finish`, a browser that
  has seen the end shows a stint both as settled and as open. The promises are
  about the answers, so `SnapshotExact` speaks of an overlay that came with the
  last one.

## 5. What is proved

`EngineProofs` proves, for every set of jobs, nodes and tenants, every scenario
that satisfies `ConfigAssumption`, and every scheduler:

* `TypeCorrect`: `Spec => []TypeOK`. `TypeOK` is not inductive: that lost work
  is never negative needs durable work to be bounded by the job (`WorkBounded`),
  and that a repair is never dated before time 0 needs the maintenance length of
  a draining node to have been drawn (`DrainDrawn`), which the code's own fallback
  in `_check_maint_transition` doubts. `TypeInv` is the conjunction. The proof has
  lemmas for the operators (`Work`, `KeptAfter`, `Interrupt`, `Release`,
  `Boundary`, ...), one lemma per handler that splits the invariant along the
  groups of variables (`Parts`, `Same`), and `NextType` that collects them.
* `DurableWork`: `Spec => WorkNeverRegresses`, from the same invariant: what
  flooring to a checkpoint keeps is at least what was kept before and at most
  what was done.

and

* `LifecycleSound`: `Spec => []LifecycleAgrees`, and
* `CancellationExact`: `Spec => []EventsMatchHandles`.

  Neither is inductive alone. A completion handler does not look at the job's
  state: that the job is running follows from its event being on the queue; and
  that the event is on the queue only while the job runs follows from every
  handler that ends a state cancelling the event of that state. The invariant
  `LifeInv` therefore carries both, with the queue tied to the handles
  pointwise (`EventsTracked`), the handles tied to the states (`HandlesLinked`)
  and the arrivals: the one on the queue is the last the source handed out, and
  neither it nor a later one has been submitted (`ArrivalsFresh`). That is what
  keeps a submission from meeting a job that is already known. Steps that move
  no job share `QuietLife`; steps that move the jobs of a set share `MoveLife`,
  which asks only for the records and events of that set; `FinishLife`,
  `EvictLife` and `RequeueLife` are the three ways out of a state and serve all
  the handlers that take them.
* `EngineImplementsJobLife`: `Spec => ImplementsJobLife`. The mapping reads each
  job on its own, so a step is shown to be one move of `JobLife` or a stutter
  for each job (`Moves`), and the lemmas of `LifeInv` say which jobs a handler
  moves and from which state. A completion needs `WorkInv` as well:
* `CompletionDeliversAll`: `Spec => []WorkAccounted`. The completion event of a
  running job is at the end of the work it owes, a fact that each placement
  makes true and everything else leaves alone; `EventsTracked` brings it to the
  handler that pops the event.

`EngineNodeProofs` proves, under the same assumption:

* `NodesComeBack`: `Spec => []DownNodesComeBack`, and `DrainsProgress`:
  `Spec => []DrainsMakeProgress`. `NodeInv` is `LifeInv` and, for each node,
  `NodeOK`: what state the node is in, what events it has on the queue and who
  sits on it. `LifeInv` is needed because what a drain and a failure do to their
  residents depends on the table each is in.
* `MetricsAreTrue`: `Spec => []MetricsAgree`, and `QuotaIsConserved`:
  `Spec => []QuotaConserved`. Each total is that of a set of jobs or nodes; each
  handler is shown to change the set and the total alike (`HeldStep`,
  `HealthStep`, `EndedStep`, `QuotaStep`). A sum being a cardinality, its laws
  (`TakenUnion`, `TakenMore`) follow from the theorems about finite sets.
* `ChangesAreShown`: `Spec => ChangeWakesScheduler`. A step that does not mark the
  state dirty frees no chip of a healthy node, heals none and queues no job
  (`NothingFreed`).

`EngineClockProofs` proves `WakesArePromised` (`Spec => []WakePromised`) and
`RoundsAreSettled` (`Spec => OneSettledRound`), from `ConfigAssumption` and
`SourceInOrder`. `ClockInv` adds to `LifeInv` that nothing on the queue is in the
past (`TimeForward`), that the wakes on it are the remembered ones, all after the
last that ran (`WakesKnown`), and that a change has one within a round
(`WakeDue`). Without `TimeForward` a wake could be overtaken, and `SourceInOrder` is
what makes an arrival keep it.

`RunManagerProofs` proves, for every finite set of runs, every number of workers
and any bounds on pools, kills and crashes: `SlotsAreConserved`,
`QueueAgreesWithMeta`, `LiveRunsHaveOwners`, `RunningRunsHoldSlots`,
`PoolsAreAccounted`, `StatusNeverMovesBack` and `RunManagerTypes`. None of them is
inductive. A run passes through the list, the queue, the dispatcher's hand, a future
and its callback, each changed at a moment of its own; that a slot is not released
twice needs to know that the run is in one of them only, and that it is needs to
know what its status may be there. `ManagerInv` says so run by run:

* `Place`: a run is in one place at a time, and listed once in each queue;
* `Status`: the status that the place allows: a run that waits is queued, or
  deleted and flagged so; one that has been admitted is running or has ended; and
  a running one is in a hand that will still write its end;
* `Future`: how far its future and its callback have come, and that a callback is
  registered once;
* `Hand`: what the dispatcher holds at each of its steps, and that it serves its
  queue until shutdown puts the sentinel, which is after the queue was drained;
* `SlotFree`: a refused run has given its slot back before its status says so.

There is one lemma per thread (`ClientKeepsInv`, `DispatcherKeepsInv`,
`FinalizerKeepsInv`, `ShutdownKeepsInv`, ...), in it one step per action and one
per part of the invariant that the action can disturb, and lemmas for the queues
(`QueueAppend`, `QueueTail`, `QueueRemove`, ...).

`WorkspaceLockProofs` proves, for any number of server processes, with any pids
reused, `LockTypes` (`Spec => []TypeOK`), `OneServer` (`Spec => []OneServerUnlessOverlapped`), `BootRepairs`
(`Spec => []LiveRunsAreServed`) and `RefusedByOwner` (`Spec => NoFalseRefusal`).
The invariant `LockInv` says what holds between two attempts: the file at the path
is the owner's and holds its pid, a process that has read a pid has read the
owner's, one that is about to unlink has no owner to fear and finds the path free
when it retries, and boot repair has no live run of another server behind it, late
ones aside.

`FleetTreeProofs` proves, for every forest of domains of any depth, any leaf
sizes and chip types, any finite set of jobs and any gangs:

* `CountersCorrect`: `Spec => []CountersExact`,
* `OwnersCorrect`: `Spec => []OwnershipSound`,
* `TypeCorrect`: `Spec => []TypeOK`, and
* `TentativeReleaseUndone`: in every state that satisfies the invariant,
  releasing a job and re-applying its allocation gives the tree back.

  None is inductive alone: that `apply` does not oversubscribe a leaf rests on its
  free counter being right, that a counter stays right on the owners of the leaf
  being those of the allocations, and that no counter goes below zero on both.
  `FleetInv` is the conjunction. The argument is one about sums over the leaves
  under a domain. A sum is defined as the cardinality of a set of pairs (`Total`),
  so that its laws (`SumAdd`, `SumSame`, `SumType`, ...) follow from the theorems about finite
  sets and no induction is needed. One lemma per family of counters says that a
  change which adds to each leaf's true value what it adds to the counter keeps
  the counter true at every ancestor; one lemma per operation says by how much it
  changes each leaf. `TentativeReleaseUndone` covers one victim; several, in any
  order, are the subject of `DryRunsLeaveNoTrace` below.

`FleetSearchProofs` proves, from `FleetInv` and under `SearchAssumption`, for every
spec, tenant and mode of search:

* `SearchesAreSound`: `Spec => []SearchSound`,
* `SearchesAreComplete`: `Spec => []SearchComplete`, and
* `DryRunsLeaveNoTrace`: `Spec => []DryRunLeavesNoTrace`.

  `FleetInv` is the inductive invariant, and the work is in the operators. They are
  folds over sorted leaves, domains and victims, so a proof about them is an
  induction over data. The provers do not take the induction theorems of the
  library, which have an operator as a parameter; the file replaces them by the
  least counterexample. `LeastNumber` comes from the well-foundedness of the
  numbers; `UpwardInduction` and `FiniteInduction` follow for a set that is named
  instead of a predicate. A fold has a course, the function from the number of
  elements read to the value so far: `TableExists`, `TableRows` and `TableRuns` show
  that there is one and that the fold is its last value, and each fold of
  `FleetSearch` gets a course (`GreedyCourse`, `PackCourseExists`,
  `FreedCourseExists`, `BackCourseExists`), along which a property is carried
  step by step. `SortedLists` and `ByLists` say what a sort returns.

  *Soundness.* `Offer` is what the scans establish of an answer (usable leaves, the
  exact chips, the anchor above them); `OfferSound` derives from it, with the
  counters being right, that `apply` accepts it and that the capacity figures the
  schedulers prune with admit it. For segmented gangs the course of the packing
  keeps `Packed` (no domain gives more than it has, what is given adds up), and
  `RealizeOffers` turns that into leaves; that the leaves of two segment domains are
  distinct rests on levels not being nested.

  *Completeness.* On a divisor chain, leaves no larger than `c` that hold at least
  `c` chips contain some that hold exactly `c` (`Exchange`: take a set of least
  excess, and its smallest leaf away). So what the greedy cover still misses can
  always be made of leaves that are still to come (`ChainGreedy`), in any order
  that descends. Where sizes are mixed the packed modes retry in the order of
  first fit (`PackedCovers`). Each prune by a counter or a capacity figure has to
  be shown not to lose a fit (`PlainFinds`, `SegmentsFound`).

  *Dry runs.* `Lacks(u, t, J)` says that `u` is `t` without the allocations of `J`;
  `ReleaseLacks` and `ReapplyLacks` move one job in or out of `J`, in any order, and
  a tree that lacks nothing is `t`, since the counters are determined by the
  leaves (`LeavesDetermine`).

`LiveSpoolProofs` proves `CursorContract` (`Spec => []SnapshotExact`), for any jobs
with finite, non-empty shares of domains, any page size, and any number of stints,
flushes and other readers. What the browser holds depends on what four others have
written, each at a time of its own, so `SpoolInv` follows a row all the way:

* `Files`: the rows file is a prefix of the lines of the settled stints, the last one
  perhaps in part, and the state file is no further than the log;
* `ChildFits`: what the worker still holds in its buffer completes the file up to
  its cursor, and the states it may yet publish, `finish` included, are not older
  than the published one and name every row that had begun;
* `MemoFits`: the memo, whoever moved it last, is the end of a line;
* `RequestFits`: the rows a handler carries go on from the cursor it was asked for
  and end no later than the state it read, although the file may have grown since;
* `ViewFits`: so does what the browser has added up.

`AppendCompletes` and `LinesRead` are the two lemmas about the file, `RowsReadFit`
the one about a read with any memo; there is one lemma per action above them.

`ConfigAssumption` says what the configuration's validation and the job sources
guarantee: positive chips, rounds and gaps, distinct open-loop arrivals, finite
sets. `SourceInOrder` says that the source yields arrivals by time, which
`workload/base.py` asks of it ("with **non-decreasing** `time_us`") and without which
the run ends with a `ValueError` (`engine/sim.py`, "job source went backwards").
TLC evaluates both on every run.

`TreeAssumption` says what the constructor of the tree checks: leaves have chips and
the domains above form a forest.

Only model-checked: the schedulers. The searches they place with are proved;
`PromiseKeptInDomain`, `NeverLaterThanFifo` and `ClaimPaysOff` speak of what becomes of a
queue over many wakes, and the first two compare the fleet with what it would be
under other decisions. An inductive invariant for them would have to follow the
estimates of every running job through the nested folds of a wake. Liveness (`Terminates`,
`RunningEnds`, `QueueMoves`, `ClaimsResolve`, `BrowserSeesTheEnd`) stays with TLC:
the prover does not handle fairness. The properties that the code violates
(`PromiseKept`, `RebuildLosesNothing`, `NothingLeftQueued`, `RepairSparesTheLiving`)
have no theorem, of course.

## 6. Not modelled

Numeric code (arrival processes, distributions, the random streams, throughput
factors, time-weighted integrals), parsing and validation of scenarios, reports,
plots, HTTP routing and encoding, and the browser pages: sequential or pure, and
nothing a model checker decides better than a unit test. They are the larger part
of the source: `config.py`, `viz/`, `validation/`, `workload/synthetic.py` and the
pages under `serve/static`.

What is left of the parts that keep state:

* calendar reservations as events of the engine (`FleetTree` has the holds);
* the sweep manager, a client of the run manager that submits and deletes runs;
* the heap and the tombstones of the event queue;
* SJF, a different sort of the same queue;
* errors of the file system in the server (the worker's spool has them).

## 7. Plan

In this order, where there is room for more:

1. `Reservations`: the two events of a calendar block in `Engine`, on the holds of
   `FleetTree`.
2. `Sweeps` over `RunManager`: creation of a grid and its rollback.
3. `EventQueue`: the heap with tombstones as an implementation of the set of live
   events in `Engine`.
4. Proofs: what a placement of `FleetSearch` occupies.
