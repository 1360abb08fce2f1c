----------------------------- MODULE RunManager -----------------------------
(***************************************************************************)
(* The run manager of `fleetsim serve` (serve/runs.py): submission, the     *)
(* FIFO dispatcher, the worker-slot semaphore, the process pool and its     *)
(* rebuilds, future callbacks, deletion, cancellation, shutdown, and boot   *)
(* repair after a crash.                                                    *)
(*                                                                          *)
(* The threads are those of the server: one HTTP handler per request        *)
(* (submit, delete, cancel), the dispatcher, the management thread of each  *)
(* process pool (it runs the callbacks of that pool's futures, one at a     *)
(* time), the reaper of a dropped pool and the thread that calls shutdown.  *)
(* One action is one step between two points where another thread can see   *)
(* the state: a hold of self._lock, a queue or semaphore call, a file       *)
(* write.  ProcessPoolExecutor, Queue and Semaphore are external and behave *)
(* as CPython documents them.                                               *)
(***************************************************************************)
EXTENDS Integers, Sequences, FiniteSets, SequencesExt

CONSTANTS
    Runs,          \* the runs that clients submit (server-generated slugs)
    Deleted,       \* those that a client may delete while they are queued
    Cancelled,     \* those that a client may cancel while they run
    MaxWorkers,    \* RunManager.max_workers
    CallbacksUnderLock, \* CPython: a broken executor runs the callbacks of its
                   \* futures while it holds its shutdown lock
    MaxPools,      \* bound: process pools created over a behaviour
    MaxKills,      \* bound: workers killed from outside (OOM killer)
    MayShutDown,   \* shutdown() may be called
    MaxCrashes     \* bound: crashes of the server process

ASSUME BoundsAssumption ==
    /\ MaxWorkers \in Nat \ {0} /\ MaxPools \in Nat \ {0}
    /\ Deleted \subseteq Runs /\ Cancelled \subseteq Runs
    /\ MaxKills \in Nat /\ MaxCrashes \in Nat /\ MayShutDown \in BOOLEAN
    /\ CallbacksUnderLock \in BOOLEAN

Stop == "_STOP"
NoRun == "none"

ASSUME RunsAssumption == IsFiniteSet(Runs) /\ Stop \notin Runs /\ NoRun \notin Runs

NoPool == 0
Pools == 1 .. MaxPools

VARIABLES
    meta,        \* meta[r]: status in meta.json; "absent": no directory,
                 \* "bare": a directory without meta.json
    error,       \* error[r]: the class of meta.json's error message
    queued,      \* _queued: FIFO admission order shown to clients
    fifo,        \* _queue: the queue.Queue the dispatcher reads
    cancelled, cancelRequested, inflight, slots, shuttingDown, abort,
    flags,       \* runs whose directory holds a cancel.flag
    pool,        \* _pool
    poolState,   \* poolState[p]: unborn, up, shut or broken
    reaping,     \* pools handed to a reaper thread
    futPool, fut,\* the pool that run r was given to, the state of its future
    sub,         \* sub[r]: where the handler thread of submit(r) is
    can,         \* can[r]: where the handler thread of cancel_run(r) is
    dpc, item, dpool, tries,   \* the dispatcher and its locals
    fin, finCancelled, finAborting, finInline,   \* _finalize(r)
    spc, drained, stragglers, dying,  \* the thread in shutdown() and its locals
    kills, crashes             \* what has happened of the bounded events

diskVars == <<meta, error>>
mgrVars == <<queued, fifo, cancelled, cancelRequested, inflight, slots>>
stopVars == <<shuttingDown, abort>>
poolVars == <<pool, poolState, reaping>>
futVars == <<futPool, fut>>
dispVars == <<dpc, item, dpool, tries>>
finVars == <<fin, finCancelled, finAborting, finInline>>
shutVars == <<spc, drained, stragglers, dying>>
boundVars == <<kills, crashes>>
vars == <<diskVars, mgrVars, stopVars, flags, poolVars, futVars, sub, can,
          dispVars, finVars, shutVars, boundVars>>

Live == {"queued", "running"}
Ended == {"done", "failed"}

\* Steps of _finalize.
Finalizing == {"result", "leave", "record", "release"}

\* States in which a future holds a result or an exception.
Settled == {"done", "failed", "aborted", "died", "cancelled"}
-----------------------------------------------------------------------------
(* A new RunManager: what __init__ sets up in memory. *)

FreshMemory ==
    /\ queued' = <<>> /\ fifo' = <<>> /\ cancelled' = {}
    /\ cancelRequested' = {} /\ inflight' = {} /\ slots' = MaxWorkers
    /\ shuttingDown' = FALSE /\ abort' = FALSE
    /\ pool' = NoPool /\ reaping' = {}
    /\ fut' = [r \in Runs |-> "none"] /\ futPool' = [r \in Runs |-> NoPool]
    /\ can' = [r \in Runs |-> "idle"]
    /\ dpc' = "get" /\ item' = NoRun /\ dpool' = NoPool /\ tries' = 0
    /\ fin' = [r \in Runs |-> "idle"]
    /\ finCancelled' = [r \in Runs |-> FALSE]
    /\ finAborting' = [r \in Runs |-> FALSE]
    /\ finInline' = [r \in Runs |-> FALSE]
    /\ spc' = "idle" /\ drained' = <<>> /\ stragglers' = {} /\ dying' = NoPool

Init ==
    /\ meta = [r \in Runs |-> "absent"] /\ error = [r \in Runs |-> "none"]
    /\ queued = <<>> /\ fifo = <<>> /\ cancelled = {}
    /\ cancelRequested = {} /\ inflight = {} /\ slots = MaxWorkers
    /\ shuttingDown = FALSE /\ abort = FALSE /\ flags = {}
    /\ pool = NoPool /\ reaping = {}
    /\ poolState = [p \in Pools |-> "unborn"]
    /\ fut = [r \in Runs |-> "none"] /\ futPool = [r \in Runs |-> NoPool]
    /\ sub = [r \in Runs |-> "idle"] /\ can = [r \in Runs |-> "idle"]
    /\ dpc = "get" /\ item = NoRun /\ dpool = NoPool /\ tries = 0
    /\ fin = [r \in Runs |-> "idle"]
    /\ finCancelled = [r \in Runs |-> FALSE]
    /\ finAborting = [r \in Runs |-> FALSE]
    /\ finInline = [r \in Runs |-> FALSE]
    /\ spc = "idle" /\ drained = <<>> /\ stragglers = {} /\ dying = NoPool
    /\ kills = 0 /\ crashes = 0

\* The server process dies; the next one repairs the metas it left behind
\* before it serves anything (_repair_stale_meta).
RepairStaleMeta ==
    /\ meta' = [r \in Runs |-> IF meta[r] \in Live THEN "failed" ELSE meta[r]]
    /\ error' = [r \in Runs |-> IF meta[r] \in Live THEN "restart" ELSE error[r]]

CrashAndBoot ==
    /\ crashes < MaxCrashes /\ crashes' = crashes + 1
    /\ FreshMemory
    /\ RepairStaleMeta
    /\ poolState' = [p \in Pools |->
                       IF poolState[p] = "unborn" THEN "unborn" ELSE "broken"]
    /\ sub' = [r \in Runs |-> IF sub[r] = "idle" THEN "idle" ELSE "returned"]
    /\ UNCHANGED <<flags, kills>>
-----------------------------------------------------------------------------
(* _set_status_locked, on a directory that exists. *)

SetStatus(r, status, why) ==
    IF meta[r] = "absent" THEN UNCHANGED diskVars
    ELSE /\ meta' = [meta EXCEPT ![r] = status]
         /\ error' = IF why = "none" THEN error ELSE [error EXCEPT ![r] = why]

(* submit(): the shutdown check, the directory, publication, the queue. *)

\* Mutant of SubmitCheck: the queue is fed as soon as the directory exists.
PutBeforePublish(r) ==
    /\ sub[r] = "idle" /\ ~ shuttingDown
    /\ meta' = [meta EXCEPT ![r] = "bare"]
    /\ sub' = [sub EXCEPT ![r] = "made"]
    /\ fifo' = Append(fifo, r)
    /\ UNCHANGED <<error, queued, cancelled, cancelRequested, inflight, slots,
                   stopVars, flags, poolVars, futVars, can, dispVars, finVars,
                   shutVars, boundVars>>

\* The check is one lock hold; the directory it leads to is a fresh one, which
\* no other thread looks at before it is published.
SubmitCheck(r) ==
    /\ sub[r] = "idle"
    /\ \/ /\ shuttingDown
          /\ sub' = [sub EXCEPT ![r] = "returned"] /\ UNCHANGED meta
       \/ /\ ~ shuttingDown
          /\ meta' = [meta EXCEPT ![r] = "bare"]
          /\ sub' = [sub EXCEPT ![r] = "made"]
    /\ UNCHANGED <<error, mgrVars, stopVars, flags, poolVars, futVars, can,
                   dispVars, finVars, shutVars, boundVars>>

\* One lock hold: meta.json says queued and _queued knows it.
SubmitPublish(r) ==
    /\ sub[r] = "made"
    /\ meta' = [meta EXCEPT ![r] = "queued"]
    /\ queued' = Append(queued, r)
    /\ sub' = [sub EXCEPT ![r] = "published"]
    /\ UNCHANGED <<error, fifo, cancelled, cancelRequested, inflight, slots,
                   stopVars, flags, poolVars, futVars, can, dispVars, finVars,
                   shutVars, boundVars>>

SubmitPut(r) ==
    /\ sub[r] = "published"
    /\ fifo' = Append(fifo, r)
    /\ sub' = [sub EXCEPT ![r] = "returned"]
    /\ UNCHANGED <<diskVars, queued, cancelled, cancelRequested, inflight,
                   slots, stopVars, flags, poolVars, futVars, can, dispVars,
                   finVars, shutVars, boundVars>>

\* Mutant of Delete: the queued list is left to the dispatcher.
DeleteKeepsPosition(r) ==
    /\ r \in Deleted /\ meta[r] = "queued"
    /\ cancelled' = cancelled \cup {r}
    /\ meta' = [meta EXCEPT ![r] = "absent"]
    /\ UNCHANGED <<error, queued, fifo, cancelRequested, inflight, slots,
                   stopVars, flags, poolVars, futVars, sub, can, dispVars,
                   finVars, shutVars, boundVars>>

(* delete_queued(): one lock hold. *)
Delete(r) ==
    /\ r \in Deleted /\ meta[r] = "queued"
    /\ cancelled' = cancelled \cup {r}
    /\ queued' = RemoveFirst(queued, r)
    /\ meta' = [meta EXCEPT ![r] = "absent"]
    /\ UNCHANGED <<error, fifo, cancelRequested, inflight, slots, stopVars,
                   flags, poolVars, futVars, sub, can, dispVars, finVars,
                   shutVars, boundVars>>

(* cancel_run(): the status is read without the lock. *)
CancelRead(r) ==
    /\ r \in Cancelled /\ can[r] = "idle" /\ meta[r] = "running"
    /\ can' = [can EXCEPT ![r] = "read"]
    /\ UNCHANGED <<diskVars, mgrVars, stopVars, flags, poolVars, futVars, sub,
                   dispVars, finVars, shutVars, boundVars>>

CancelRequest(r) ==
    /\ can[r] = "read"
    /\ cancelRequested' = cancelRequested \cup {r}
    /\ can' = [can EXCEPT ![r] = "asked"]
    /\ UNCHANGED <<diskVars, queued, fifo, cancelled, inflight, slots, stopVars,
                   flags, poolVars, futVars, sub, dispVars, finVars, shutVars,
                   boundVars>>

CancelFlag(r) ==
    /\ can[r] = "asked"
    /\ flags' = flags \cup {r}
    /\ can' = [can EXCEPT ![r] = "returned"]
    /\ UNCHANGED <<diskVars, mgrVars, stopVars, poolVars, futVars, sub,
                   dispVars, finVars, shutVars, boundVars>>
-----------------------------------------------------------------------------
(* The dispatcher: _work_loop, _acquire_slot, _submit_run, _ensure_pool. *)

\* The first look of _acquire_slot at the abort flag comes with the get.
Get ==
    /\ dpc = "get" /\ fifo # <<>>
    /\ fifo' = Tail(fifo)
    /\ IF Head(fifo) = Stop THEN dpc' = "stopped" /\ item' = NoRun
       ELSE dpc' = (IF abort THEN "drop" ELSE "slot") /\ item' = Head(fifo)
    /\ UNCHANGED <<diskVars, queued, cancelled, cancelRequested, inflight,
                   slots, stopVars, flags, poolVars, futVars, sub, can, dpool,
                   tries, finVars, shutVars, boundVars>>

\* A wait that has begun may still end with a slot once abort is set.
AcquireSlot ==
    /\ dpc = "slot"
    /\ \/ slots > 0 /\ slots' = slots - 1 /\ dpc' = "admit"
       \/ abort /\ dpc' = "drop" /\ UNCHANGED slots
    /\ UNCHANGED <<diskVars, queued, fifo, cancelled, cancelRequested, inflight,
                   stopVars, flags, poolVars, futVars, sub, can, item, dpool,
                   tries, finVars, shutVars, boundVars>>

\* Mutant of Admission: a deleted run keeps the slot.
AdmissionKeepsSlot ==
    /\ dpc = "admit" /\ item \in cancelled
    /\ cancelled' = cancelled \ {item}
    /\ dpc' = "get" /\ item' = NoRun
    /\ UNCHANGED <<diskVars, queued, tries, slots, fifo, cancelRequested,
                   inflight, stopVars, flags, poolVars, futVars, sub, can,
                   dpool, finVars, shutVars, boundVars>>

\* One lock hold: leave the queued list and write "running".  The slot of a
\* deleted run goes back inside the hold, that of a run that raced a shutdown
\* right after it.
Admission ==
    /\ dpc = "admit"
    /\ \/ /\ item \in cancelled
          /\ cancelled' = cancelled \ {item}
          /\ slots' = slots + 1
          /\ dpc' = "get" /\ item' = NoRun
          /\ UNCHANGED <<diskVars, queued, tries>>
       \/ /\ item \notin cancelled /\ ~ abort
          /\ queued' = RemoveFirst(queued, item)
          /\ SetStatus(item, "running", "none")
          /\ dpc' = "ensure" /\ tries' = 1
          /\ UNCHANGED <<cancelled, slots, item>>
       \/ /\ item \notin cancelled /\ abort
          /\ slots' = slots + 1
          /\ dpc' = "drop"
          /\ UNCHANGED <<diskVars, queued, cancelled, item, tries>>
    /\ UNCHANGED <<fifo, cancelRequested, inflight, stopVars, flags, poolVars,
                   futVars, sub, can, dpool, finVars, shutVars, boundVars>>

\* _drop_queued: one lock hold.
DropQueued(r) ==
    /\ cancelled' = cancelled \ {r}
    /\ queued' = RemoveFirst(queued, r)
    /\ IF r \in cancelled THEN UNCHANGED diskVars
       ELSE SetStatus(r, "failed", "shutdown")

DispatcherDrops ==
    /\ dpc = "drop"
    /\ DropQueued(item)
    /\ dpc' = "get" /\ item' = NoRun
    /\ UNCHANGED <<fifo, cancelRequested, inflight, slots, stopVars, flags,
                   poolVars, futVars, sub, can, dpool, tries, finVars, shutVars,
                   boundVars>>

\* The shutdown lock of pool p is taken by _terminate_broken, which fails the
\* futures of p one after the other: submit and shutdown have to wait.
Locked(p) ==
    /\ CallbacksUnderLock /\ poolState[p] = "broken"
    /\ \E r \in Runs : /\ futPool[r] = p
                      /\ \/ fut[r] \in {"pending", "executing"}
                         \/ ~ finInline[r] /\ fin[r] \in Finalizing

Usable(p) == p # NoPool /\ poolState[p] # "broken"

\* First lock hold of _ensure_pool: a broken pool counts as no pool and is
\* discarded on the dispatcher's own thread (dpool is the local "stale").
EnsurePool ==
    /\ dpc = "ensure"
    /\ \/ shuttingDown /\ dpc' = "refused" /\ UNCHANGED <<pool, dpool>>
       \/ /\ ~ shuttingDown /\ Usable(pool)
          /\ dpool' = pool /\ dpc' = "submit" /\ UNCHANGED pool
       \/ /\ ~ shuttingDown /\ ~ Usable(pool)
          /\ pool' = NoPool /\ dpool' = pool /\ dpc' = "build"
    /\ UNCHANGED <<diskVars, mgrVars, stopVars, flags, poolState, reaping,
                   futVars, sub, can, item, tries, finVars, shutVars, boundVars>>

\* Mutant of BuildPool: shutdown is not looked at again.
BuildPoolUnchecked ==
    /\ dpc = "build" /\ pool = NoPool
    /\ \E p \in Pools :
         /\ poolState[p] = "unborn"
         /\ \A q \in 1 .. p - 1 : poolState[q] # "unborn"
         /\ poolState' = [poolState EXCEPT ![p] = "up"]
         /\ pool' = p /\ dpool' = p
    /\ dpc' = "submit"
    /\ UNCHANGED <<diskVars, mgrVars, stopVars, flags, reaping, futVars, sub,
                   can, item, tries, finVars, shutVars, boundVars>>

\* Second lock hold, once the discard has returned: build a pool, unless that
\* happened meanwhile.
BuildPool ==
    /\ dpc = "build" /\ (dpool # NoPool => ~ Locked(dpool))
    /\ \/ shuttingDown /\ dpc' = "refused" /\ dpool' = NoPool
          /\ UNCHANGED <<pool, poolState>>
       \/ /\ ~ shuttingDown /\ pool # NoPool
          /\ dpool' = pool /\ dpc' = "submit" /\ UNCHANGED <<pool, poolState>>
       \/ /\ ~ shuttingDown /\ pool = NoPool
          /\ \E p \in Pools :
               /\ poolState[p] = "unborn"
               /\ \A q \in 1 .. p - 1 : poolState[q] # "unborn"
               /\ poolState' = [poolState EXCEPT ![p] = "up"]
               /\ pool' = p /\ dpool' = p
          /\ dpc' = "submit"
    /\ UNCHANGED <<diskVars, mgrVars, stopVars, flags, reaping, futVars, sub,
                   can, item, tries, finVars, shutVars, boundVars>>

\* pool.submit: refused by a pool that is shut down, BrokenProcessPool from a
\* broken one (retried once, on a new pool).
SubmitToPool ==
    /\ dpc = "submit" /\ dpool' = NoPool
    /\ \/ /\ poolState[dpool] = "up"
          /\ fut' = [fut EXCEPT ![item] = "pending"]
          /\ futPool' = [futPool EXCEPT ![item] = dpool]
          /\ dpc' = "register"
       \/ poolState[dpool] = "shut" /\ dpc' = "refused" /\ UNCHANGED futVars
       \/ /\ poolState[dpool] = "broken" /\ ~ Locked(dpool)
          /\ dpc' = IF tries = 1 THEN "forget" ELSE "died"
          /\ UNCHANGED futVars
    /\ UNCHANGED <<diskVars, mgrVars, stopVars, flags, poolVars, sub, can, item,
                   tries, finVars, shutVars, boundVars>>

\* _drop_broken_pool: forget the CURRENT pool and let a thread shut it down.
DropBrokenPool ==
    /\ pool' = NoPool
    /\ reaping' = IF pool = NoPool THEN reaping ELSE reaping \cup {pool}

DispatcherForgets ==
    /\ dpc = "forget" /\ dpc' = "ensure" /\ tries' = 2
    /\ DropBrokenPool
    /\ UNCHANGED <<diskVars, mgrVars, stopVars, flags, poolState, futVars, sub,
                   can, item, dpool, finVars, shutVars, boundVars>>

\* The run cannot be handed over: the slot is released, then the run fails.
ReleaseRefused ==
    /\ dpc \in {"refused", "died"}
    /\ slots' = slots + 1
    /\ dpc' = IF dpc = "died" THEN "failDied" ELSE "failRefused"
    /\ tries' = 0
    /\ UNCHANGED <<diskVars, queued, fifo, cancelled, cancelRequested, inflight,
                   stopVars, flags, poolVars, futVars, sub, can, item, dpool,
                   finVars, shutVars, boundVars>>

FailRefused ==
    /\ dpc \in {"failRefused", "failDied"}
    /\ SetStatus(item, "failed", IF dpc = "failDied" THEN "pool died" ELSE "start")
    /\ dpc' = "get" /\ item' = NoRun
    /\ UNCHANGED <<mgrVars, stopVars, flags, poolVars, futVars, sub, can, dpool,
                   tries, finVars, shutVars, boundVars>>

Register ==
    /\ dpc = "register" /\ dpc' = "callback" /\ tries' = 0
    /\ inflight' = inflight \cup {item}
    /\ UNCHANGED <<diskVars, queued, fifo, cancelled, cancelRequested, slots,
                   stopVars, flags, poolVars, futVars, sub, can, item, dpool,
                   finVars, shutVars, boundVars>>

\* Where _finalize starts: only a dead worker makes it drop the pool first.
FirstStep(result) == IF result = "died" THEN "result" ELSE "leave"

\* Mutant of AddCallback: a future that is settled already is not noticed.
AddCallbackTooLate ==
    /\ dpc = "callback"
    /\ fin' = [fin EXCEPT ![item] = "waiting"]
    /\ dpc' = "get" /\ item' = NoRun
    /\ UNCHANGED <<diskVars, mgrVars, stopVars, flags, poolVars, futVars, sub,
                   can, dpool, tries, finCancelled, finAborting, finInline,
                   shutVars, boundVars>>

\* add_done_callback: a future that is settled already is finalized here and
\* now, on the dispatcher's thread.
AddCallback ==
    /\ dpc = "callback"
    /\ IF fut[item] \in Settled
       THEN /\ fin' = [fin EXCEPT ![item] = FirstStep(fut[item])]
            /\ finInline' = [finInline EXCEPT ![item] = TRUE]
            /\ dpc' = "inline" /\ UNCHANGED item
       ELSE /\ fin' = [fin EXCEPT ![item] = "waiting"]
            /\ dpc' = "get" /\ item' = NoRun /\ UNCHANGED finInline
    /\ UNCHANGED <<diskVars, mgrVars, stopVars, flags, poolVars, futVars, sub,
                   can, dpool, tries, finCancelled, finAborting, shutVars,
                   boundVars>>

InlineDone ==
    /\ dpc = "inline" /\ fin[item] = "returned"
    /\ dpc' = "get" /\ item' = NoRun
    /\ finInline' = [finInline EXCEPT ![item] = FALSE]
    /\ UNCHANGED <<diskVars, mgrVars, stopVars, flags, poolVars, futVars, sub,
                   can, dpool, tries, fin, finCancelled, finAborting, shutVars,
                   boundVars>>
-----------------------------------------------------------------------------
(* The process pools. *)

\* The management thread of pool p is not inside a callback.
ThreadFree(p) ==
    \A r \in Runs : futPool[r] = p /\ ~ finInline[r] =>
                      fin[r] \notin Finalizing

Executing(p) == {r \in Runs : futPool[r] = p /\ fut[r] = "executing"}

\* A worker process takes the call.
ChildStarts(r) ==
    /\ fut[r] = "pending" /\ poolState[futPool[r]] = "up"
    /\ Cardinality(Executing(futPool[r])) < MaxWorkers
    /\ fut' = [fut EXCEPT ![r] = "executing"]
    /\ UNCHANGED <<diskVars, mgrVars, stopVars, flags, poolVars, futPool, sub,
                   can, dispVars, finVars, shutVars, boundVars>>

\* The management thread settles a future and runs its callback.
Settle(r, result) ==
    /\ ThreadFree(futPool[r])
    /\ fut' = [fut EXCEPT ![r] = result]
    /\ fin' = IF fin[r] = "waiting" THEN [fin EXCEPT ![r] = FirstStep(result)] ELSE fin
    /\ UNCHANGED <<diskVars, mgrVars, stopVars, flags, poolVars, futPool, sub,
                   can, dispVars, finCancelled, finAborting, finInline,
                   shutVars, boundVars>>

\* _child_run returns: the run is done, has failed, or saw its cancel.flag.
ChildReturns(r) ==
    /\ fut[r] = "executing" /\ poolState[futPool[r]] # "broken"
    /\ \/ \E result \in {"done", "failed"} : Settle(r, result)
       \/ r \in flags /\ Settle(r, "aborted")

\* Every future of a broken pool gets BrokenProcessPool, one after the other.
ChildLost(r) ==
    /\ fut[r] \in {"pending", "executing"} /\ poolState[futPool[r]] = "broken"
    /\ Settle(r, "died")

\* A pool that was shut down with cancel_futures cancels what has not started.
FutureCancelled(r) ==
    /\ fut[r] = "pending" /\ poolState[futPool[r]] = "shut"
    /\ Settle(r, "cancelled")

\* A worker of pool p is killed from outside: the pool is broken for ever.
KillWorker(p) ==
    /\ kills < MaxKills /\ kills' = kills + 1
    /\ poolState[p] \in {"up", "shut"} /\ \E r \in Runs : futPool[r] = p
    /\ poolState' = [poolState EXCEPT ![p] = "broken"]
    /\ UNCHANGED <<diskVars, mgrVars, stopVars, flags, pool, reaping, futVars,
                   sub, can, dispVars, finVars, shutVars, crashes>>

\* pool.shutdown(wait=False, cancel_futures=True)
ShutPool(p) == IF poolState[p] = "up" THEN "shut" ELSE poolState[p]

Reap(p) ==
    /\ p \in reaping /\ ~ Locked(p)
    /\ reaping' = reaping \ {p}
    /\ poolState' = [poolState EXCEPT ![p] = ShutPool(p)]
    /\ UNCHANGED <<diskVars, mgrVars, stopVars, flags, pool, futVars, sub, can,
                   dispVars, finVars, shutVars, boundVars>>
-----------------------------------------------------------------------------
(* _finalize: read the result, leave _inflight, record, release the slot. *)

\* Mutant of FinResult: the callback shuts the broken pool down itself, which
\* takes the lock its own thread holds.
ShutDownInCallback(r) ==
    /\ fin[r] = "result" /\ (pool # NoPool => ~ Locked(pool))
    /\ fin' = [fin EXCEPT ![r] = "leave"]
    /\ pool' = NoPool
    /\ UNCHANGED <<diskVars, mgrVars, stopVars, flags, poolState, reaping,
                   futVars, sub, can, dispVars, finCancelled, finAborting,
                   finInline, shutVars, boundVars>>

FinResult(r) ==
    /\ fin[r] = "result"
    /\ fin' = [fin EXCEPT ![r] = "leave"]
    /\ DropBrokenPool
    /\ UNCHANGED <<diskVars, mgrVars, stopVars, flags, poolState, futVars, sub,
                   can, dispVars, finCancelled, finAborting, finInline,
                   shutVars, boundVars>>

\* Mutant of FinLeave: the slot is released in the lock hold as well.
ReleaseEarly(r) ==
    /\ fin[r] = "leave"
    /\ fin' = [fin EXCEPT ![r] = "record"]
    /\ finCancelled' = [finCancelled EXCEPT ![r] = r \in cancelRequested]
    /\ finAborting' = [finAborting EXCEPT ![r] = abort]
    /\ cancelRequested' = cancelRequested \ {r}
    /\ inflight' = inflight \ {r}
    /\ slots' = slots + 1
    /\ UNCHANGED <<diskVars, queued, fifo, cancelled, stopVars, flags, poolVars,
                   futVars, sub, can, dispVars, finInline, shutVars, boundVars>>

FinLeave(r) ==
    /\ fin[r] = "leave"
    /\ fin' = [fin EXCEPT ![r] = "record"]
    /\ finCancelled' = [finCancelled EXCEPT ![r] = r \in cancelRequested]
    /\ finAborting' = [finAborting EXCEPT ![r] = abort]
    /\ cancelRequested' = cancelRequested \ {r}
    /\ inflight' = inflight \ {r}
    /\ UNCHANGED <<diskVars, queued, fifo, cancelled, slots, stopVars, flags,
                   poolVars, futVars, sub, can, dispVars, finInline, shutVars,
                   boundVars>>

\* The message for a run that did not end as done.
WhyFailed(r) ==
    IF finCancelled[r] THEN "cancel"
    ELSE IF fut[r] \in {"aborted", "cancelled"} \/ finAborting[r] THEN "shutdown"
    ELSE IF fut[r] = "died" THEN "pool died"
    ELSE "run failed"

FinRecord(r) ==
    /\ fin[r] = "record"
    /\ fin' = [fin EXCEPT ![r] = "release"]
    /\ IF fut[r] = "done" THEN SetStatus(r, "done", "none")
       ELSE SetStatus(r, "failed", WhyFailed(r))
    /\ finCancelled' = [finCancelled EXCEPT ![r] = FALSE]
    /\ finAborting' = [finAborting EXCEPT ![r] = FALSE]
    /\ UNCHANGED <<mgrVars, stopVars, flags, poolVars, futVars, sub, can,
                   dispVars, finInline, shutVars, boundVars>>

\* Mutant of FinRelease: the release is not in a finally clause.
ReleaseIfReturned(r) ==
    /\ fin[r] = "release"
    /\ fin' = [fin EXCEPT ![r] = "returned"]
    /\ slots' = IF fut[r] = "died" THEN slots ELSE slots + 1
    /\ UNCHANGED <<diskVars, queued, fifo, cancelled, cancelRequested, inflight,
                   stopVars, flags, poolVars, futVars, sub, can, dispVars,
                   finCancelled, finAborting, finInline, shutVars, boundVars>>

FinRelease(r) ==
    /\ fin[r] = "release"
    /\ fin' = [fin EXCEPT ![r] = "returned"]
    /\ slots' = slots + 1
    /\ UNCHANGED <<diskVars, queued, fifo, cancelled, cancelRequested, inflight,
                   stopVars, flags, poolVars, futVars, sub, can, dispVars,
                   finCancelled, finAborting, finInline, shutVars, boundVars>>
-----------------------------------------------------------------------------
(* shutdown() and _kill_pool. *)

ShutdownBegin ==
    /\ MayShutDown /\ spc = "idle" /\ ~ shuttingDown
    /\ shuttingDown' = TRUE /\ spc' = "abort"
    /\ UNCHANGED <<diskVars, mgrVars, abort, flags, poolVars, futVars, sub, can,
                   dispVars, finVars, drained, stragglers, dying, boundVars>>

ShutdownAbort ==
    /\ spc = "abort" /\ spc' = "drain" /\ abort' = TRUE
    /\ UNCHANGED <<diskVars, mgrVars, shuttingDown, flags, poolVars, futVars,
                   sub, can, dispVars, finVars, drained, stragglers, dying,
                   boundVars>>

\* get_nowait until the queue is empty.
ShutdownDrain ==
    /\ spc = "drain"
    /\ IF fifo = <<>> THEN spc' = "drop" /\ UNCHANGED <<fifo, drained>>
       ELSE /\ fifo' = Tail(fifo) /\ drained' = Append(drained, Head(fifo))
            /\ UNCHANGED spc
    /\ UNCHANGED <<diskVars, queued, cancelled, cancelRequested, inflight,
                   slots, stopVars, flags, poolVars, futVars, sub, can,
                   dispVars, finVars, stragglers, dying, boundVars>>

ShutdownDrop ==
    /\ spc = "drop"
    /\ IF drained = <<>>
       THEN spc' = "flags" /\ UNCHANGED <<diskVars, queued, cancelled, drained>>
       ELSE DropQueued(Head(drained)) /\ drained' = Tail(drained) /\ UNCHANGED spc
    /\ UNCHANGED <<fifo, cancelRequested, inflight, slots, stopVars, flags,
                   poolVars, futVars, sub, can, dispVars, finVars, stragglers,
                   dying, boundVars>>

ShutdownFlags ==
    /\ spc = "flags" /\ spc' = "stop"
    /\ flags' = flags \cup inflight
    /\ UNCHANGED <<diskVars, mgrVars, stopVars, poolVars, futVars, sub, can,
                   dispVars, finVars, drained, stragglers, dying, boundVars>>

ShutdownStop ==
    /\ spc = "stop" /\ spc' = "join"
    /\ fifo' = Append(fifo, Stop)
    /\ UNCHANGED <<diskVars, queued, cancelled, cancelRequested, inflight,
                   slots, stopVars, flags, poolVars, futVars, sub, can,
                   dispVars, finVars, drained, stragglers, dying, boundVars>>

\* Both waits are bounded: they end when their condition holds or time is up.
ShutdownWaits ==
    /\ spc \in {"join", "wait"}
    /\ spc' = IF spc = "join" THEN "wait" ELSE "kill"
    /\ UNCHANGED <<diskVars, mgrVars, stopVars, flags, poolVars, futVars, sub,
                   can, dispVars, finVars, drained, stragglers, dying,
                   boundVars>>

(* _kill_pool.  First, in one lock hold, forget the pool. *)
KillForgets ==
    /\ spc = "kill"
    /\ spc' = IF pool = NoPool THEN "collect" ELSE "shut"
    /\ pool' = NoPool /\ dying' = pool
    /\ UNCHANGED <<diskVars, mgrVars, stopVars, flags, poolState, reaping,
                   futVars, sub, can, dispVars, finVars, drained, stragglers,
                   boundVars>>

\* Then cancel what has not started.
KillShuts ==
    /\ spc = "shut" /\ spc' = "terminate"
    /\ ~ Locked(dying)
    /\ poolState' = [poolState EXCEPT ![dying] = ShutPool(dying)]
    /\ UNCHANGED <<diskVars, mgrVars, stopVars, flags, pool, reaping, futVars,
                   sub, can, dispVars, finVars, drained, stragglers, dying,
                   boundVars>>

\* Then terminate the workers: a pool with an executing one is broken by it.
KillTerminates ==
    /\ spc = "terminate" /\ spc' = "collect"
    /\ poolState' = IF Executing(dying) = {} THEN poolState
                    ELSE [poolState EXCEPT ![dying] = "broken"]
    /\ dying' = NoPool
    /\ UNCHANGED <<diskVars, mgrVars, stopVars, flags, pool, reaping, futVars,
                   sub, can, dispVars, finVars, drained, stragglers, boundVars>>

ShutdownCollect ==
    /\ spc = "collect" /\ spc' = "mark"
    /\ stragglers' = inflight /\ inflight' = {}
    /\ UNCHANGED <<diskVars, queued, fifo, cancelled, cancelRequested, slots,
                   stopVars, flags, poolVars, futVars, sub, can, dispVars,
                   finVars, drained, dying, boundVars>>

ShutdownMark ==
    /\ spc = "mark"
    /\ \/ \E r \in stragglers :
            /\ SetStatus(r, "failed", "shutdown")
            /\ stragglers' = stragglers \ {r} /\ UNCHANGED spc
       \/ /\ stragglers = {} /\ spc' = "returned"
          /\ UNCHANGED <<diskVars, stragglers>>
    /\ UNCHANGED <<mgrVars, stopVars, flags, poolVars, futVars, sub, can,
                   dispVars, finVars, drained, dying, boundVars>>
-----------------------------------------------------------------------------
Client == \E r \in Runs :
    \/ SubmitCheck(r) \/ SubmitPublish(r) \/ SubmitPut(r)
    \/ Delete(r)
    \/ CancelRead(r) \/ CancelRequest(r) \/ CancelFlag(r)

Dispatcher ==
    \/ Get \/ AcquireSlot \/ Admission \/ DispatcherDrops \/ EnsurePool
    \/ BuildPool \/ SubmitToPool \/ DispatcherForgets \/ ReleaseRefused
    \/ FailRefused \/ Register \/ AddCallback \/ InlineDone

Worker(r) == ChildStarts(r) \/ ChildReturns(r) \/ ChildLost(r) \/ FutureCancelled(r)

Finalizer(r) == FinResult(r) \/ FinLeave(r) \/ FinRecord(r) \/ FinRelease(r)

Shutdown ==
    \/ ShutdownBegin \/ ShutdownAbort \/ ShutdownDrain \/ ShutdownDrop
    \/ ShutdownFlags \/ ShutdownStop \/ ShutdownWaits
    \/ KillForgets \/ KillShuts \/ KillTerminates
    \/ ShutdownCollect \/ ShutdownMark

Next ==
    \/ Client \/ Dispatcher \/ Shutdown \/ CrashAndBoot
    \/ \E r \in Runs : Worker(r) \/ Finalizer(r)
    \/ \E p \in Pools : KillWorker(p) \/ Reap(p)

Spec == Init /\ [][Next]_vars

\* Every thread that can take a step does: a started submission is finished,
\* the dispatcher, the callbacks, the reapers and a started shutdown run on,
\* and a run returns.  Nobody has to submit, delete, cancel, kill or crash.
FairSpec ==
    /\ Spec /\ WF_vars(Dispatcher)
    /\ \A r \in Runs : /\ WF_vars(Worker(r)) /\ WF_vars(Finalizer(r))
                       /\ WF_vars(SubmitPublish(r) \/ SubmitPut(r))
    /\ \A p \in Pools : WF_vars(Reap(p))
    /\ WF_vars(Shutdown /\ spc # "idle")
-----------------------------------------------------------------------------
(* Properties. *)

\* Every variable stays in its type.
TypeOK ==
    /\ meta \in [Runs -> {"absent", "bare", "queued", "running", "done", "failed"}]
    /\ error \in [Runs -> {"none", "restart", "shutdown", "start", "pool died",
                           "cancel", "run failed"}]
    /\ queued \in Seq(Runs) /\ fifo \in Seq(Runs \cup {Stop})
    /\ cancelled \subseteq Runs /\ cancelRequested \subseteq Runs
    /\ inflight \subseteq Runs /\ flags \subseteq Runs
    /\ slots \in 0 .. MaxWorkers
    /\ shuttingDown \in BOOLEAN /\ abort \in BOOLEAN
    /\ pool \in Pools \cup {NoPool} /\ reaping \subseteq Pools
    /\ poolState \in [Pools -> {"unborn", "up", "shut", "broken"}]
    /\ futPool \in [Runs -> Pools \cup {NoPool}]
    /\ fut \in [Runs -> {"none", "pending", "executing"} \cup Settled]
    /\ sub \in [Runs -> {"idle", "made", "published", "returned"}]
    /\ can \in [Runs -> {"idle", "read", "asked", "returned"}]
    /\ dpc \in {"get", "slot", "admit", "drop", "ensure", "build", "submit",
                "forget", "refused", "died", "failRefused", "failDied",
                "register", "callback", "inline", "stopped"}
    /\ item \in Runs \cup {NoRun} /\ dpool \in Pools \cup {NoPool}
    /\ tries \in 0 .. 2
    /\ fin \in [Runs -> {"idle", "waiting", "result", "leave", "record",
                         "release", "returned"}]
    /\ finCancelled \in [Runs -> BOOLEAN] /\ finAborting \in [Runs -> BOOLEAN]
    /\ finInline \in [Runs -> BOOLEAN]
    /\ spc \in {"idle", "abort", "drain", "drop", "flags", "stop", "join",
                "wait", "kill", "shut", "terminate", "collect", "mark", "returned"}
    /\ dying \in Pools \cup {NoPool}
    /\ drained \in Seq(Runs \cup {Stop}) /\ stragglers \subseteq Runs
    /\ kills \in 0 .. MaxKills /\ crashes \in 0 .. MaxCrashes

\* Points of the dispatcher at which it owns the slot it acquired.
HoldsSlot == {"admit", "ensure", "build", "submit", "forget", "refused", "died",
              "register", "callback"}

\* Points of _finalize before its finally clause releases the slot.
Unreleased == {"waiting"} \cup Finalizing

\* A worker slot is never leaked and never released twice, on whichever of the
\* six paths a run leaves the dispatcher or its future: free slots, the
\* dispatcher's and those of handed-over runs add up to max_workers.
SlotsConserved ==
    slots + Cardinality({r \in Runs : fin[r] \in Unreleased})
          + (IF dpc \in HoldsSlot THEN 1 ELSE 0) = MaxWorkers

\* "queued" in meta.json and membership in _queued change together, so a client
\* never sees a queued run without a queue_position, nor a position for a run
\* that is not queued; no run is listed twice.
QueuedIffListed ==
    /\ \A r \in Runs : meta[r] = "queued" <=> r \in ToSet(queued)
    /\ Cardinality(ToSet(queued)) = Len(queued)

\* At most max_workers runs are shown as running, although the slot, the
\* status and the future of a run change at different moments.
RunningWithinWorkers ==
    Cardinality({r \in Runs : meta[r] = "running"}) <= MaxWorkers

\* The dispatcher still takes runs off its queue: shutdown has put no sentinel.
DispatcherServes == dpc # "stopped" /\ Stop \notin ToSet(fifo)

\* shutdown has put its sentinel; what is put now comes too late to be read.
SentinelPut == spc \in {"join", "wait", "kill", "shut", "terminate", "collect",
                        "mark", "returned"}

\* Every live run is with a thread that has still to deal with it: a queued one
\* is about to be put, in a queue that the dispatcher serves, in the hand of the
\* dispatcher or of shutdown; a running one is in the dispatcher's hand or has a
\* future whose callback is to come or under way.  The one way to be forgotten
\* is to be put once shutdown has put its sentinel (see NothingLeftQueued):
\* before that, the dispatcher never stops and no sentinel is in its queue.
LiveRunHasOwner ==
    \A r \in Runs :
      /\ meta[r] = "queued" =>
           \/ sub[r] = "published" \/ item = r \/ r \in ToSet(drained)
           \/ r \in ToSet(fifo) /\ (DispatcherServes \/ SentinelPut)
      /\ meta[r] = "running" => \/ item = r
                                \/ fin[r] = "waiting" /\ fut[r] \notin Settled
                                \/ fin[r] \in {"result", "leave", "record"}

\* The pools are all accounted for: one that could take work is the current
\* one, is with a reaper or is about to be shut down by _kill_pool, and once
\* _kill_pool has forgotten the pool no racing dispatcher brings a fresh one
\* into existence.
PoolsAccounted ==
    /\ \A p \in Pools : poolState[p] = "up" =>
         p = pool \/ p \in reaping \/ (p = dying /\ spc = "shut")
    /\ spc \in {"shut", "terminate", "collect", "mark", "returned"}
         => pool = NoPool

\* meta.json only moves forward: a run that has ended or has run is never
\* queued or running (again), and only a queued one disappears.
StatusMovesForward ==
    [][\A r \in Runs :
         /\ meta[r] \in Ended => meta'[r] \in Ended
         /\ meta[r] = "running" => meta'[r] \in {"running"} \cup Ended
         /\ meta'[r] = "absent" => meta[r] \in {"absent", "queued"}]_meta

\* A running run ends, whatever happens to its worker, its pool, the server or
\* the callback that races its registration.
RunningEnds == \A r \in Runs : meta[r] = "running" ~> meta[r] \in Ended

\* A queued run gets its turn, unless the server is told to stop: no deleted
\* run and no failed hand-over takes a slot with it.
QueueMoves ==
    \A r \in Runs : meta[r] = "queued" ~> meta[r] # "queued" \/ shuttingDown

\* A run is refused by its pool ("cannot start the run") only if the server
\* shuts down: a killed worker costs the runs that were on its pool, and "a
\* rebuild loses nothing" else (module docstring, _drop_broken_pool).
RebuildLosesNothing == \A r \in Runs : error[r] = "start" => shuttingDown

\* When shutdown has returned, the dispatcher has exited and no submission is
\* under way, no run is left queued (module docstring: "cancels queued runs
\* (marked failed with a clear error)").
NothingLeftQueued ==
    (/\ spc = "returned" /\ dpc = "stopped"
     /\ \A r \in Runs : sub[r] \in {"idle", "returned"})
      => \A r \in Runs : meta[r] # "queued"
=============================================================================
