-------------------------- MODULE RunManagerProofs --------------------------
(***************************************************************************)
(* What TLAPS proves about the run manager, for every set of runs, every    *)
(* number of workers and every bound on pools, kills and crashes: its       *)
(* typing, the conservation of the worker slots, the agreement of the       *)
(* queued list with the statuses, the owner of every live run, the limit on *)
(* the runs shown as running, the account of the pools, and that a status   *)
(* never moves back.  All follow from one inductive invariant, ManagerInv.  *)
(***************************************************************************)
EXTENDS RunManager, FiniteSetTheorems, SequenceTheorems, TLAPS

\* Points of the dispatcher, after what it does with the run in its hand: a
\* queued run, one that has been admitted, one that a pool has taken.
HoldsQueued == {"slot", "admit", "drop"}
HoldsAdmitted == {"ensure", "build", "submit", "forget", "refused", "died",
                  "failRefused", "failDied"}
HoldsHandedOver == {"register", "callback"}
HoldsNothing == {"get", "stopped"}

\* Places in which a queued (or deleted) run waits for its turn.
Pending(r) ==
    \/ sub[r] = "published" \/ r \in ToSet(fifo) \/ r \in ToSet(drained)
    \/ item = r /\ dpc \in HoldsQueued

\* A run that was admitted and whose status may still be written.
Started(r) ==
    \/ item = r /\ dpc \notin HoldsQueued
    \/ fin[r] # "idle" \/ r \in inflight \/ r \in stragglers
-----------------------------------------------------------------------------
(* The parts of the inductive invariant. *)

DiskTypes ==
    /\ meta \in [Runs -> {"absent", "bare", "queued", "running", "done", "failed"}]
    /\ error \in [Runs -> {"none", "restart", "shutdown", "start", "pool died",
                           "cancel", "run failed"}]

QueueTypes ==
    /\ queued \in Seq(Runs) /\ fifo \in Seq(Runs \cup {Stop})
    /\ drained \in Seq(Runs)

SetTypes ==
    /\ cancelled \subseteq Runs /\ cancelRequested \subseteq Runs
    /\ inflight \subseteq Runs /\ flags \subseteq Runs /\ stragglers \subseteq Runs
    /\ slots \in Nat

PoolTypes ==
    /\ pool \in Pools \cup {NoPool} /\ reaping \subseteq Pools
    /\ poolState \in [Pools -> {"unborn", "up", "shut", "broken"}]
    /\ dpool \in Pools \cup {NoPool} /\ dying \in Pools \cup {NoPool}
    /\ kills \in 0 .. MaxKills /\ crashes \in 0 .. MaxCrashes

RunTypes ==
    /\ futPool \in [Runs -> Pools \cup {NoPool}]
    /\ fut \in [Runs -> {"none", "pending", "executing"} \cup Settled]
    /\ sub \in [Runs -> {"idle", "made", "published", "returned"}]
    /\ can \in [Runs -> {"idle", "read", "asked", "returned"}]
    /\ fin \in [Runs -> {"idle", "waiting", "result", "leave", "record",
                         "release", "returned"}]

ThreadTypes ==
    /\ dpc \in HoldsNothing \cup HoldsQueued \cup HoldsAdmitted
               \cup HoldsHandedOver \cup {"inline"}
    /\ item \in Runs \cup {NoRun} /\ tries \in 0 .. 2
    /\ spc \in {"idle", "abort", "drain", "drop", "flags", "stop", "join",
                "wait", "kill", "shut", "terminate", "collect", "mark", "returned"}

FlagTypes ==
    /\ shuttingDown \in BOOLEAN /\ abort \in BOOLEAN
    /\ finCancelled \in [Runs -> BOOLEAN] /\ finAborting \in [Runs -> BOOLEAN]
    /\ finInline \in [Runs -> BOOLEAN]

\* The dispatcher has a run in its hand exactly between two gets, and a pool
\* when it submits to one; the sentinel is put after the queue was drained,
\* and the dispatcher stops only when it gets it.
Hand ==
    /\ item = NoRun <=> dpc \in HoldsNothing
    /\ dpc = "submit" => dpool # NoPool
    /\ spc # "idle" => shuttingDown
    /\ spc \in {"idle", "abort", "drain", "drop", "flags", "stop"}
         => DispatcherServes

\* No queue holds an entry twice, and a run is in one place only: with its
\* submission, in the queue, with shutdown, with the dispatcher or finalized.
Place(r) ==
    /\ sub[r] # "returned" => /\ r \notin ToSet(fifo) /\ r \notin ToSet(drained)
                              /\ item # r
    /\ r \in ToSet(fifo) => r \notin ToSet(drained) /\ item # r
    /\ r \in ToSet(drained) => item # r
    /\ fin[r] # "idle" \/ fut[r] # "none" =>
         /\ sub[r] = "returned"
         /\ r \notin ToSet(fifo) /\ r \notin ToSet(drained)

OnePlace == \A r \in Runs : Place(r)

Distinct == IsInjective(queued) /\ IsInjective(fifo) /\ IsInjective(drained)

\* How far the future, its callback and the dispatcher are with a run.
Future(r) ==
    /\ fut[r] # "none" => fin[r] # "idle" \/ (item = r /\ dpc \in HoldsHandedOver)
    /\ item = r /\ dpc \in HoldsHandedOver => fut[r] # "none"
    /\ item = r /\ dpc = "inline" => fin[r] \in Finalizing \cup {"returned"}
    /\ item = r /\ dpc # "inline" => fin[r] = "idle"
    /\ fin[r] = "waiting" => fut[r] \in {"pending", "executing"}
    /\ fin[r] \notin {"idle", "waiting"} => fut[r] \in Settled

Futures == \A r \in Runs : Future(r)

\* What meta.json says of a run, after the place the run is in.
Status(r) ==
    /\ meta[r] = "queued" <=> r \in ToSet(queued)
    /\ sub[r] = "idle" => meta[r] = "absent"
    /\ sub[r] = "made" => meta[r] = "bare"
    /\ meta[r] = "queued" => Pending(r)
    /\ Pending(r) => meta[r] = IF r \in cancelled THEN "absent" ELSE "queued"
    /\ r \in cancelled => Pending(r)
    /\ Started(r) => meta[r] \in {"running"} \cup Ended
    /\ meta[r] = "running" =>
         \/ item = r /\ dpc \in HoldsAdmitted \cup HoldsHandedOver
         \/ fin[r] \in {"waiting", "result", "leave", "record"}

Statuses == \A r \in Runs : Status(r)

\* A refused run has given its slot back before its status says so.
SlotFree == dpc \in {"failRefused", "failDied"} => slots > 0

ManagerInv ==
    /\ DiskTypes /\ QueueTypes /\ SetTypes /\ PoolTypes /\ RunTypes
    /\ ThreadTypes /\ FlagTypes
    /\ Hand /\ Distinct /\ OnePlace /\ Futures /\ Statuses
    /\ SlotsConserved /\ SlotFree /\ PoolsAccounted
-----------------------------------------------------------------------------
(* Queues: sequences in which nothing is listed twice. *)

\* An empty queue lists nothing.
LEMMA EmptyQueue ==
    ASSUME NEW S
    PROVE  <<>> \in Seq(S) /\ ToSet(<<>>) = {} /\ IsInjective(<<>>)
BY EmptySeq DEF ToSet, IsInjective

\* What a queue lists, by position.
LEMMA QueueMembers ==
    ASSUME NEW S, NEW s \in Seq(S)
    PROVE  /\ ToSet(s) = {s[i] : i \in 1 .. Len(s)} /\ ToSet(s) \subseteq S
           /\ IsInjective(s) <=> \A i, j \in 1 .. Len(s) : s[i] = s[j] => i = j
           /\ Len(s) \in Nat
BY LenProperties DEF ToSet, IsInjective

\* Putting an entry at the end adds it, and a new one keeps entries distinct.
LEMMA QueueAppend ==
    ASSUME NEW S, NEW s \in Seq(S), NEW e \in S
    PROVE  /\ Append(s, e) \in Seq(S)
           /\ ToSet(Append(s, e)) = ToSet(s) \cup {e}
           /\ IsInjective(s) /\ e \notin ToSet(s) => IsInjective(Append(s, e))
<1> DEFINE t == Append(s, e)
<1>1. /\ t \in Seq(S) /\ Len(t) = Len(s) + 1 /\ Len(s) \in Nat
      /\ \A i \in 1 .. Len(s) : t[i] = s[i]
      /\ t[Len(s) + 1] = e
    BY AppendProperties, LenProperties
<1> HIDE DEF t
<1>2. /\ ToSet(s) = {s[i] : i \in 1 .. Len(s)}
      /\ ToSet(t) = {t[i] : i \in 1 .. Len(t)}
      /\ IsInjective(s) <=> \A i, j \in 1 .. Len(s) : s[i] = s[j] => i = j
      /\ IsInjective(t) <=> \A i, j \in 1 .. Len(t) : t[i] = t[j] => i = j
    BY <1>1, QueueMembers
<1>3. ToSet(t) = ToSet(s) \cup {e}
  <2>1. ASSUME NEW x \in ToSet(t) PROVE x \in ToSet(s) \cup {e}
    <3>1. PICK i \in 1 .. Len(t) : x = t[i] BY <1>2, <2>1
    <3>2. i \in 1 .. Len(s) \/ i = Len(s) + 1 BY <1>1, <3>1
    <3> QED BY <1>1, <1>2, <3>1, <3>2
  <2>2. ASSUME NEW x \in ToSet(s) PROVE x \in ToSet(t)
    <3>1. PICK i \in 1 .. Len(s) : x = s[i] BY <1>2, <2>2
    <3>2. i \in 1 .. Len(t) /\ t[i] = x BY <1>1, <3>1
    <3> QED BY <1>2, <3>2
  <2>3. e \in ToSet(t)
    <3>1. Len(s) + 1 \in 1 .. Len(t) BY <1>1
    <3> QED BY <1>1, <1>2, <3>1
  <2> QED BY <2>1, <2>2, <2>3
<1>4. ASSUME IsInjective(s), e \notin ToSet(s) PROVE IsInjective(t)
  <2> SUFFICES ASSUME NEW i \in 1 .. Len(t), NEW j \in 1 .. Len(t), t[i] = t[j]
               PROVE  i = j
      BY <1>2
  <2>1. \A k \in 1 .. Len(t) : k \in 1 .. Len(s) \/ k = Len(s) + 1 BY <1>1
  <2>2. \A k \in 1 .. Len(s) : s[k] # e BY <1>2, <1>4
  <2> QED BY <1>1, <1>2, <1>4, <2>1, <2>2
<1> QED BY <1>1, <1>3, <1>4 DEF t

\* Taking the head of a queue without doubles takes that entry out of it.
LEMMA QueueTail ==
    ASSUME NEW S, NEW s \in Seq(S), s # <<>>
    PROVE  /\ Head(s) \in S /\ Tail(s) \in Seq(S)
           /\ Head(s) \in ToSet(s)
           /\ IsInjective(s) => /\ ToSet(Tail(s)) = ToSet(s) \ {Head(s)}
                                /\ IsInjective(Tail(s))
<1> DEFINE t == Tail(s)
<1>1. /\ Head(s) \in S /\ t \in Seq(S) /\ Len(t) = Len(s) - 1
      /\ \A i \in 1 .. Len(t) : t[i] = s[i + 1]
      /\ Len(s) \in Nat \ {0} /\ Head(s) = s[1]
    BY HeadTailProperties, EmptySeq
<1> HIDE DEF t
<1>2. /\ ToSet(s) = {s[i] : i \in 1 .. Len(s)}
      /\ ToSet(t) = {t[i] : i \in 1 .. Len(t)}
      /\ IsInjective(s) <=> \A i, j \in 1 .. Len(s) : s[i] = s[j] => i = j
      /\ IsInjective(t) <=> \A i, j \in 1 .. Len(t) : t[i] = t[j] => i = j
  <2>1. /\ ToSet(s) = {s[i] : i \in 1 .. Len(s)}
        /\ IsInjective(s) <=> \A i, j \in 1 .. Len(s) : s[i] = s[j] => i = j
    BY QueueMembers
  <2>2. /\ ToSet(t) = {t[i] : i \in 1 .. Len(t)}
        /\ IsInjective(t) <=> \A i, j \in 1 .. Len(t) : t[i] = t[j] => i = j
    BY <1>1, QueueMembers
  <2> QED BY <2>1, <2>2
<1>3. 1 \in 1 .. Len(s) /\ \A i \in 1 .. Len(t) : i + 1 \in 1 .. Len(s) BY <1>1
<1>4. Head(s) \in ToSet(s) BY <1>1, <1>2, <1>3
<1>5. ASSUME IsInjective(s) PROVE ToSet(t) = ToSet(s) \ {Head(s)} /\ IsInjective(t)
  <2>1. ASSUME NEW x \in ToSet(t) PROVE x \in ToSet(s) \ {Head(s)}
    <3>1. PICK i \in 1 .. Len(t) : x = t[i] BY <1>2, <2>1
    <3>2. x = s[i + 1] /\ i + 1 \in 1 .. Len(s) /\ i + 1 # 1 BY <1>1, <1>3, <3>1
    <3> QED BY <1>1, <1>2, <1>3, <1>5, <3>2
  <2>2. ASSUME NEW x \in ToSet(s) \ {Head(s)} PROVE x \in ToSet(t)
    <3>1. PICK i \in 1 .. Len(s) : x = s[i] BY <1>2, <2>2
    <3>2. i # 1 BY <1>1, <2>2, <3>1
    <3>3. i - 1 \in 1 .. Len(t) /\ t[i - 1] = s[i] BY <1>1, <3>1, <3>2
    <3> QED BY <1>2, <3>1, <3>3
  <2>3. \A i, j \in 1 .. Len(t) : t[i] = t[j] => i = j
    BY <1>1, <1>2, <1>3, <1>5
  <2> QED BY <1>2, <2>1, <2>2, <2>3
<1> QED BY <1>1, <1>4, <1>5 DEF t

\* list.remove on a queue without doubles takes exactly that entry out.
LEMMA QueueRemove ==
    ASSUME NEW S, NEW s \in Seq(S), IsInjective(s), NEW e
    PROVE  /\ RemoveFirst(s, e) \in Seq(S)
           /\ ToSet(RemoveFirst(s, e)) = ToSet(s) \ {e}
           /\ IsInjective(RemoveFirst(s, e))
<1>1. /\ ToSet(s) = {s[i] : i \in 1 .. Len(s)} /\ Len(s) \in Nat
      /\ \A i, j \in 1 .. Len(s) : s[i] = s[j] => i = j
      /\ \A i \in 1 .. Len(s) : s[i] \in S
    BY QueueMembers, ElementOfSeq
<1>2. CASE ~ \E i \in 1 .. Len(s) : s[i] = e
  <2>1. RemoveFirst(s, e) = s /\ e \notin ToSet(s) BY <1>1, <1>2 DEF RemoveFirst
  <2> QED BY <2>1
<1>3. CASE \E i \in 1 .. Len(s) : s[i] = e
  <2>1. PICK k \in 1 .. Len(s) : s[k] = e BY <1>3
  <2>2. {i \in 1 .. Len(s) : s[i] = e} = {k} BY <1>1, <2>1
  <2>3. Min({k}) = k BY <2>1 DEF Min
  <2>4. RemoveFirst(s, e) = RemoveAt(s, k)
    BY <1>3, <2>2, <2>3 DEF RemoveFirst, SelectInSeq
  <2> DEFINE a == SubSeq(s, 1, k - 1)
             b == SubSeq(s, k + 1, Len(s))
             t == RemoveFirst(s, e)
  <2>5. /\ a \in Seq(S) /\ Len(a) = k - 1
        /\ \A i \in 1 .. k - 1 : a[i] = s[i]
    <3>1. \A i \in 1 .. k - 1 : s[i] \in S BY <1>1, <2>1
    <3> QED BY <1>1, <2>1, <3>1, SubSeqProperties
  <2>6. /\ b \in Seq(S) /\ Len(b) = Len(s) - k
        /\ \A i \in 1 .. Len(s) - k : b[i] = s[k + i]
    <3>1. \A i \in k + 1 .. Len(s) : s[i] \in S BY <1>1, <2>1
    <3>2. /\ b \in Seq(S)
          /\ Len(b) = IF k + 1 <= Len(s) THEN Len(s) - (k + 1) + 1 ELSE 0
          /\ \A i \in 1 .. Len(s) - (k + 1) + 1 : b[i] = s[(k + 1) + i - 1]
      BY <1>1, <2>1, <3>1, SubSeqProperties
    <3> HIDE DEF b
    <3>3. Len(s) - (k + 1) + 1 = Len(s) - k BY <1>1, <2>1
    <3>4. \A i \in 1 .. Len(s) - k : (k + 1) + i - 1 = k + i BY <1>1, <2>1
    <3>5. Len(b) = Len(s) - k BY <1>1, <2>1, <3>2
    <3> QED BY <3>2, <3>3, <3>4, <3>5
  <2>7. t = a \o b BY <2>4 DEF RemoveAt
  <2> HIDE DEF a, b, t
  <2>8. /\ t \in Seq(S) /\ Len(t) = Len(s) - 1
        /\ \A i \in 1 .. Len(t) : t[i] = IF i < k THEN s[i] ELSE s[i + 1]
    <3>1. /\ t \in Seq(S) /\ Len(t) = Len(a) + Len(b)
          /\ \A i \in 1 .. Len(a) + Len(b) :
                t[i] = IF i <= Len(a) THEN a[i] ELSE b[i - Len(a)]
      BY <2>5, <2>6, <2>7, ConcatProperties
    <3>2. Len(t) = Len(s) - 1 BY <1>1, <2>1, <2>5, <2>6, <3>1
    <3>3. ASSUME NEW i \in 1 .. Len(t)
          PROVE  t[i] = IF i < k THEN s[i] ELSE s[i + 1]
      <4>1. CASE i < k
        <5>1. i \in 1 .. k - 1 /\ i <= Len(a) BY <1>1, <2>1, <2>5, <3>2, <3>3, <4>1
        <5> QED BY <2>5, <2>6, <3>1, <3>3, <4>1, <5>1
      <4>2. CASE ~ i < k
        <5>1. /\ ~ i <= Len(a) /\ i - Len(a) \in 1 .. Len(s) - k
              /\ k + (i - Len(a)) = i + 1
          BY <1>1, <2>1, <2>5, <3>2, <3>3, <4>2
        <5>2. b[i - Len(a)] = s[i + 1] BY <2>6, <5>1
        <5> QED BY <3>1, <3>3, <4>2, <5>1, <5>2
      <4> QED BY <4>1, <4>2
    <3> QED BY <3>1, <3>2, <3>3
  <2>9. /\ ToSet(t) = {t[i] : i \in 1 .. Len(t)}
        /\ IsInjective(t) <=> \A i, j \in 1 .. Len(t) : t[i] = t[j] => i = j
    BY <2>8, QueueMembers
  <2>10. \A i \in 1 .. Len(t) : /\ i < k => i \in 1 .. Len(s)
                               /\ ~ i < k => i + 1 \in 1 .. Len(s) /\ i + 1 # k
    BY <1>1, <2>1, <2>8
  <2>11. ASSUME NEW x \in ToSet(t) PROVE x \in ToSet(s) \ {e}
    <3>1. PICK i \in 1 .. Len(t) : x = t[i] BY <2>9, <2>11
    <3>2. PICK j \in 1 .. Len(s) : x = s[j] /\ j # k BY <2>1, <2>8, <2>10, <3>1
    <3> QED BY <1>1, <2>1, <3>2
  <2>12. ASSUME NEW x \in ToSet(s) \ {e} PROVE x \in ToSet(t)
    <3>1. PICK i \in 1 .. Len(s) : x = s[i] /\ i # k BY <1>1, <2>1, <2>12
    <3>2. CASE i < k
      <4>1. i \in 1 .. Len(t) /\ t[i] = x BY <1>1, <2>1, <2>8, <3>1, <3>2
      <4> QED BY <2>9, <4>1
    <3>3. CASE i > k
      <4>1. i - 1 \in 1 .. Len(t) /\ ~ (i - 1 < k) /\ (i - 1) + 1 = i
        BY <1>1, <2>1, <2>8, <3>1, <3>3
      <4>2. t[i - 1] = x BY <2>8, <3>1, <4>1
      <4> QED BY <2>9, <4>1, <4>2
    <3> QED BY <1>1, <2>1, <3>1, <3>2, <3>3
  <2>13. IsInjective(t)
    <3> SUFFICES ASSUME NEW i \in 1 .. Len(t), NEW j \in 1 .. Len(t), t[i] = t[j]
                 PROVE  i = j
        BY <2>9
    <3>1. CASE i < k /\ j < k BY <1>1, <2>8, <2>10, <3>1
    <3>2. CASE i < k /\ ~ j < k
      <4>1. i = j + 1 BY <1>1, <2>8, <2>10, <3>2
      <4> QED BY <2>1, <3>2, <4>1
    <3>3. CASE ~ i < k /\ j < k
      <4>1. i + 1 = j BY <1>1, <2>8, <2>10, <3>3
      <4> QED BY <2>1, <3>3, <4>1
    <3>4. CASE ~ i < k /\ ~ j < k
      <4>1. i + 1 = j + 1 BY <1>1, <2>8, <2>10, <3>4
      <4> QED BY <4>1
    <3> QED BY <3>1, <3>2, <3>3, <3>4
  <2> QED BY <2>8, <2>11, <2>12, <2>13 DEF t
<1> QED BY <1>2, <1>3

\* A queue without doubles has as many positions as entries.
LEMMA QueueCount ==
    ASSUME NEW S, NEW s \in Seq(S), IsInjective(s)
    PROVE  Cardinality(ToSet(s)) = Len(s) /\ IsFiniteSet(ToSet(s))
<1> DEFINE T == ToSet(s)
<1>1. T = {s[i] : i \in 1 .. Len(s)} /\ Len(s) \in Nat BY QueueMembers
<1>2. s \in [1 .. Len(s) -> S] BY LenProperties
<1> HIDE DEF T
<1>3. s \in [1 .. Len(s) -> T] BY <1>1, <1>2
<1>4. s \in Injection(1 .. Len(s), T) BY <1>3 DEF Injection
<1>5. s \in Surjection(1 .. Len(s), T) BY <1>1, <1>3 DEF Surjection
<1>6. ExistsBijection(1 .. Len(s), T) BY <1>4, <1>5 DEF ExistsBijection, Bijection
<1>7. Cardinality(T) = Len(s) BY <1>1, <1>6, FS_CountingElements
<1>8. IsFiniteSet(T) BY <1>1, <1>6, FS_NatBijection
<1> QED BY <1>7, <1>8 DEF T
-----------------------------------------------------------------------------
(* The steps of the request handlers: submit, delete_queued, cancel_run. *)

\* No step of a handler of submit, delete_queued or cancel_run breaks the invariant.
LEMMA ClientKeepsInv ==
    ASSUME ManagerInv, Client
    PROVE  ManagerInv'
<1> USE RunsAssumption DEF diskVars, mgrVars, stopVars, poolVars, futVars,
        dispVars, finVars, shutVars, boundVars, DispatcherServes
<1> PICK x \in Runs :
      \/ SubmitCheck(x) \/ SubmitPublish(x) \/ SubmitPut(x)
      \/ Delete(x) \/ CancelRead(x) \/ CancelRequest(x) \/ CancelFlag(x)
  BY DEF Client
<1>1. ASSUME SubmitCheck(x) PROVE ManagerInv'
  <2>DiskTypes. DiskTypes'
    BY <1>1 DEF ManagerInv, SubmitCheck, DiskTypes
  <2>RunTypes. RunTypes'
    BY <1>1 DEF ManagerInv, SubmitCheck, RunTypes, Settled
  <2>OnePlace. OnePlace'
    <3> SUFFICES ASSUME NEW r \in Runs PROVE Place(r)' BY DEF OnePlace
    <3>1. CASE r # x
      BY <1>1, <3>1 DEF ManagerInv, SubmitCheck, OnePlace, Place, RunTypes
    <3>2. CASE r = x
      BY <1>1, <3>2 DEF ManagerInv, SubmitCheck, OnePlace, Place, RunTypes
    <3> QED BY <3>1, <3>2
  <2>Statuses. Statuses'
    <3> SUFFICES ASSUME NEW r \in Runs PROVE Status(r)' BY DEF Statuses
    <3>1. CASE r # x
      BY ZenonT(60), <1>1, <3>1 DEF ManagerInv, SubmitCheck, Statuses, Status, Pending,
         Started, Ended, HoldsQueued, HoldsAdmitted, HoldsHandedOver,
         DiskTypes, RunTypes, OnePlace, Place
    <3>2. CASE r = x
      BY ZenonT(60), <1>1, <3>2 DEF ManagerInv, SubmitCheck, Statuses, Status, Pending,
         Started, Ended, HoldsQueued, HoldsAdmitted, HoldsHandedOver,
         DiskTypes, RunTypes, OnePlace, Place
    <3> QED BY <3>1, <3>2
  <2>types. QueueTypes' /\ SetTypes' /\ PoolTypes' /\ ThreadTypes'
    BY <1>1 DEF ManagerInv, SubmitCheck, QueueTypes, SetTypes, PoolTypes,
       ThreadTypes
  <2>flags. FlagTypes'
    BY <1>1 DEF ManagerInv, SubmitCheck, FlagTypes
  <2>rest. Hand' /\ Distinct' /\ SlotsConserved' /\ SlotFree' /\
            PoolsAccounted'
    BY <1>1 DEF ManagerInv, SubmitCheck, Hand, Distinct, SlotsConserved,
       SlotFree, PoolsAccounted
  <2>runs. Futures'
    BY <1>1 DEF ManagerInv, SubmitCheck, Futures, Future
  <2> QED BY <2>DiskTypes, <2>RunTypes, <2>OnePlace, <2>Statuses, <2>types, <2>flags,
     <2>rest, <2>runs DEF ManagerInv
<1>2. ASSUME SubmitPublish(x) PROVE ManagerInv'
  <2>q. /\ queued' \in Seq(Runs) /\ ToSet(queued') = ToSet(queued) \cup {x}
        /\ x \notin ToSet(queued) /\ IsInjective(queued')
    BY <1>2, QueueAppend
       DEF ManagerInv, QueueTypes, Distinct, Statuses, Status, SubmitPublish
  <2>DiskTypes. DiskTypes'
    BY <1>2, <2>q DEF ManagerInv, SubmitPublish, DiskTypes
  <2>QueueTypes. QueueTypes'
    BY <1>2, <2>q DEF ManagerInv, SubmitPublish, QueueTypes
  <2>RunTypes. RunTypes'
    BY <1>2, <2>q DEF ManagerInv, SubmitPublish, RunTypes, Settled
  <2>Distinct. Distinct'
    BY <1>2, <2>q DEF ManagerInv, SubmitPublish, Distinct
  <2>OnePlace. OnePlace'
    <3> SUFFICES ASSUME NEW r \in Runs PROVE Place(r)' BY DEF OnePlace
    <3>1. CASE r # x
      BY <1>2, <2>q, <3>1 DEF ManagerInv, SubmitPublish, OnePlace, Place,
         RunTypes
    <3>2. CASE r = x
      BY <1>2, <2>q, <3>2 DEF ManagerInv, SubmitPublish, OnePlace, Place,
         RunTypes
    <3> QED BY <3>1, <3>2
  <2>Statuses. Statuses'
    <3> SUFFICES ASSUME NEW r \in Runs PROVE Status(r)' BY DEF Statuses
    <3>1. CASE r # x
      BY <1>2, <2>q, <3>1 DEF ManagerInv, SubmitPublish, Statuses, Status,
         Pending, Started, Ended, HoldsQueued, HoldsAdmitted, HoldsHandedOver,
         DiskTypes, RunTypes
    <3>2. CASE r = x
      BY <1>2, <2>q, <3>2 DEF ManagerInv, SubmitPublish, Statuses, Status,
         Pending, Started, Ended, HoldsQueued, HoldsAdmitted, HoldsHandedOver,
         DiskTypes, RunTypes
    <3> QED BY <3>1, <3>2
  <2>types. SetTypes' /\ PoolTypes' /\ ThreadTypes'
    BY <1>2 DEF ManagerInv, SubmitPublish, SetTypes, PoolTypes, ThreadTypes
  <2>flags. FlagTypes'
    BY <1>2 DEF ManagerInv, SubmitPublish, FlagTypes
  <2>rest. Hand' /\ SlotsConserved' /\ SlotFree' /\ PoolsAccounted'
    BY <1>2 DEF ManagerInv, SubmitPublish, Hand, SlotsConserved, SlotFree,
       PoolsAccounted
  <2>runs. Futures'
    BY <1>2 DEF ManagerInv, SubmitPublish, Futures, Future
  <2> QED BY <2>DiskTypes, <2>QueueTypes, <2>RunTypes, <2>Distinct, <2>OnePlace,
     <2>Statuses, <2>types, <2>flags, <2>rest, <2>runs DEF ManagerInv
<1>3. ASSUME SubmitPut(x) PROVE ManagerInv'
  <2>q. /\ fifo' \in Seq(Runs \cup {Stop}) /\ ToSet(fifo') = ToSet(fifo) \cup {x}
        /\ x \notin ToSet(fifo) /\ IsInjective(fifo')
    BY <1>3, QueueAppend
       DEF ManagerInv, QueueTypes, Distinct, OnePlace, Place, SubmitPut
  <2>QueueTypes. QueueTypes'
    BY <1>3, <2>q DEF ManagerInv, SubmitPut, QueueTypes
  <2>RunTypes. RunTypes'
    BY <1>3, <2>q DEF ManagerInv, SubmitPut, RunTypes, Settled
  <2>Hand. Hand'
    BY <1>3, <2>q DEF ManagerInv, SubmitPut, Hand, HoldsNothing
  <2>Distinct. Distinct'
    BY <1>3, <2>q DEF ManagerInv, SubmitPut, Distinct
  <2>OnePlace. OnePlace'
    <3> SUFFICES ASSUME NEW r \in Runs PROVE Place(r)' BY DEF OnePlace
    <3>1. CASE r # x
      BY <1>3, <2>q, <3>1 DEF ManagerInv, SubmitPut, OnePlace, Place, RunTypes
    <3>2. CASE r = x
      BY <1>3, <2>q, <3>2 DEF ManagerInv, SubmitPut, OnePlace, Place, RunTypes
    <3> QED BY <3>1, <3>2
  <2>Statuses. Statuses'
    <3> SUFFICES ASSUME NEW r \in Runs PROVE Status(r)' BY DEF Statuses
    <3>1. CASE r # x
      BY <1>3, <2>q, <3>1 DEF ManagerInv, SubmitPut, Statuses, Status, Pending,
         Started, Ended, HoldsQueued, HoldsAdmitted, HoldsHandedOver, RunTypes
    <3>2. CASE r = x
      BY <1>3, <2>q, <3>2 DEF ManagerInv, SubmitPut, Statuses, Status, Pending,
         Started, Ended, HoldsQueued, HoldsAdmitted, HoldsHandedOver, RunTypes
    <3> QED BY <3>1, <3>2
  <2>types. DiskTypes' /\ SetTypes' /\ PoolTypes' /\ ThreadTypes'
    BY <1>3 DEF ManagerInv, SubmitPut, DiskTypes, SetTypes, PoolTypes,
       ThreadTypes
  <2>flags. FlagTypes'
    BY <1>3 DEF ManagerInv, SubmitPut, FlagTypes
  <2>rest. SlotsConserved' /\ SlotFree' /\ PoolsAccounted'
    BY <1>3 DEF ManagerInv, SubmitPut, SlotsConserved, SlotFree, PoolsAccounted
  <2>runs. Futures'
    BY <1>3 DEF ManagerInv, SubmitPut, Futures, Future
  <2> QED BY <2>QueueTypes, <2>RunTypes, <2>Hand, <2>Distinct, <2>OnePlace,
     <2>Statuses, <2>types, <2>flags, <2>rest, <2>runs DEF ManagerInv
<1>4. ASSUME Delete(x) PROVE ManagerInv'
  <2>q. /\ queued' \in Seq(Runs) /\ ToSet(queued') = ToSet(queued) \ {x}
        /\ IsInjective(queued')
    BY <1>4, QueueRemove DEF ManagerInv, QueueTypes, Distinct, Delete
  <2>DiskTypes. DiskTypes'
    BY <1>4, <2>q DEF ManagerInv, Delete, DiskTypes
  <2>QueueTypes. QueueTypes'
    BY <1>4, <2>q DEF ManagerInv, Delete, QueueTypes
  <2>SetTypes. SetTypes'
    BY <1>4, <2>q DEF ManagerInv, Delete, SetTypes
  <2>Distinct. Distinct'
    BY <1>4, <2>q DEF ManagerInv, Delete, Distinct
  <2>Statuses. Statuses'
    <3> SUFFICES ASSUME NEW r \in Runs PROVE Status(r)' BY DEF Statuses
    <3>1. CASE r # x
      BY <1>4, <2>q, <3>1 DEF ManagerInv, Delete, Statuses, Status, Pending,
         Started, Ended, HoldsQueued, HoldsAdmitted, HoldsHandedOver, DiskTypes
    <3>2. CASE r = x
      BY <1>4, <2>q, <3>2 DEF ManagerInv, Delete, Statuses, Status, Pending,
         Started, Ended, HoldsQueued, HoldsAdmitted, HoldsHandedOver, DiskTypes
    <3> QED BY <3>1, <3>2
  <2>types. PoolTypes' /\ RunTypes' /\ ThreadTypes'
    BY <1>4 DEF ManagerInv, Delete, PoolTypes, RunTypes, ThreadTypes
  <2>flags. FlagTypes'
    BY <1>4 DEF ManagerInv, Delete, FlagTypes
  <2>rest. Hand' /\ SlotsConserved' /\ SlotFree' /\ PoolsAccounted'
    BY <1>4 DEF ManagerInv, Delete, Hand, SlotsConserved, SlotFree,
       PoolsAccounted
  <2>runs. OnePlace' /\ Futures'
    BY <1>4 DEF ManagerInv, Delete, OnePlace, Futures, Place, Future
  <2> QED BY <2>DiskTypes, <2>QueueTypes, <2>SetTypes, <2>Distinct, <2>Statuses,
     <2>types, <2>flags, <2>rest, <2>runs DEF ManagerInv
<1>5. ASSUME CancelRead(x) PROVE ManagerInv'
  <2>RunTypes. RunTypes'
    BY <1>5 DEF ManagerInv, CancelRead, RunTypes, Settled
  <2>types. DiskTypes' /\ QueueTypes' /\ SetTypes' /\ PoolTypes' /\
            ThreadTypes'
    BY <1>5 DEF ManagerInv, CancelRead, DiskTypes, QueueTypes, SetTypes,
       PoolTypes, ThreadTypes
  <2>flags. FlagTypes'
    BY <1>5 DEF ManagerInv, CancelRead, FlagTypes
  <2>rest. Hand' /\ Distinct' /\ SlotsConserved' /\ SlotFree' /\
            PoolsAccounted'
    BY <1>5 DEF ManagerInv, CancelRead, Hand, Distinct, SlotsConserved,
       SlotFree, PoolsAccounted
  <2>runs. OnePlace' /\ Futures' /\ Statuses'
    BY <1>5 DEF ManagerInv, CancelRead, OnePlace, Futures, Statuses, Place,
       Future, Status, Pending, Started
  <2> QED BY <2>RunTypes, <2>types, <2>flags, <2>rest, <2>runs DEF ManagerInv
<1>6. ASSUME CancelRequest(x) PROVE ManagerInv'
  <2>SetTypes. SetTypes'
    BY <1>6 DEF ManagerInv, CancelRequest, SetTypes
  <2>RunTypes. RunTypes'
    BY <1>6 DEF ManagerInv, CancelRequest, RunTypes, Settled
  <2>types. DiskTypes' /\ QueueTypes' /\ PoolTypes' /\ ThreadTypes'
    BY <1>6 DEF ManagerInv, CancelRequest, DiskTypes, QueueTypes, PoolTypes,
       ThreadTypes
  <2>flags. FlagTypes'
    BY <1>6 DEF ManagerInv, CancelRequest, FlagTypes
  <2>rest. Hand' /\ Distinct' /\ SlotsConserved' /\ SlotFree' /\
            PoolsAccounted'
    BY <1>6 DEF ManagerInv, CancelRequest, Hand, Distinct, SlotsConserved,
       SlotFree, PoolsAccounted
  <2>runs. OnePlace' /\ Futures' /\ Statuses'
    BY <1>6 DEF ManagerInv, CancelRequest, OnePlace, Futures, Statuses, Place,
       Future, Status, Pending, Started
  <2> QED BY <2>SetTypes, <2>RunTypes, <2>types, <2>flags, <2>rest, <2>runs DEF
     ManagerInv
<1>7. ASSUME CancelFlag(x) PROVE ManagerInv'
  <2>SetTypes. SetTypes'
    BY <1>7 DEF ManagerInv, CancelFlag, SetTypes
  <2>RunTypes. RunTypes'
    BY <1>7 DEF ManagerInv, CancelFlag, RunTypes, Settled
  <2>types. DiskTypes' /\ QueueTypes' /\ PoolTypes' /\ ThreadTypes'
    BY <1>7 DEF ManagerInv, CancelFlag, DiskTypes, QueueTypes, PoolTypes,
       ThreadTypes
  <2>flags. FlagTypes'
    BY <1>7 DEF ManagerInv, CancelFlag, FlagTypes
  <2>rest. Hand' /\ Distinct' /\ SlotsConserved' /\ SlotFree' /\
            PoolsAccounted'
    BY <1>7 DEF ManagerInv, CancelFlag, Hand, Distinct, SlotsConserved,
       SlotFree, PoolsAccounted
  <2>runs. OnePlace' /\ Futures' /\ Statuses'
    BY <1>7 DEF ManagerInv, CancelFlag, OnePlace, Futures, Statuses, Place,
       Future, Status, Pending, Started
  <2> QED BY <2>SetTypes, <2>RunTypes, <2>types, <2>flags, <2>rest, <2>runs DEF
     ManagerInv
<1> QED BY <1>1, <1>2, <1>3, <1>4, <1>5, <1>6, <1>7
-----------------------------------------------------------------------------
(* The steps of the dispatcher. *)

\* The runs that hold a slot of their own are finitely many.
LEMMA SlotHolders ==
    ASSUME NEW f
    PROVE  /\ IsFiniteSet({r \in Runs : f[r] \in Unreleased})
           /\ Cardinality({r \in Runs : f[r] \in Unreleased}) \in Nat
<1>1. {r \in Runs : f[r] \in Unreleased} \in SUBSET Runs OBVIOUS
<1> QED BY <1>1, RunsAssumption, FS_Subset, FS_CardinalityType

\* No step of the dispatcher does, whichever way a run leaves its hand.
LEMMA DispatcherKeepsInv ==
    ASSUME ManagerInv, Dispatcher
    PROVE  ManagerInv'
<1> USE RunsAssumption DEF diskVars, mgrVars, stopVars, poolVars, futVars,
        dispVars, finVars, shutVars, boundVars, DispatcherServes
<1>1. ASSUME Get PROVE ManagerInv'
  <2>q. /\ Head(fifo) \in Runs \cup {Stop} /\ Head(fifo) \in ToSet(fifo)
        /\ fifo' \in Seq(Runs \cup {Stop}) /\ IsInjective(fifo')
        /\ ToSet(fifo') = ToSet(fifo) \ {Head(fifo)}
    BY <1>1, QueueTail DEF ManagerInv, QueueTypes, Distinct, Get
  <2>QueueTypes. QueueTypes'
    BY <1>1, <2>q DEF ManagerInv, Get, QueueTypes
  <2>ThreadTypes. ThreadTypes'
    BY <1>1, <2>q DEF ManagerInv, Get, ThreadTypes, HoldsNothing, HoldsQueued,
       HoldsAdmitted, HoldsHandedOver
  <2>Hand. Hand'
    BY <1>1, <2>q DEF ManagerInv, Get, Hand, HoldsNothing
  <2>Distinct. Distinct'
    BY <1>1, <2>q DEF ManagerInv, Get, Distinct
  <2>OnePlace. OnePlace'
    <3> SUFFICES ASSUME NEW r \in Runs PROVE Place(r)' BY DEF OnePlace
    <3>1. CASE r # Head(fifo)
      BY <1>1, <2>q, <3>1 DEF ManagerInv, Get, OnePlace, Place, Statuses,
         Status, Pending, Started, Futures, Future, HoldsNothing, HoldsQueued,
         HoldsAdmitted, HoldsHandedOver
    <3>2. CASE r = Head(fifo)
      BY <1>1, <2>q, <3>2 DEF ManagerInv, Get, OnePlace, Place, Statuses,
         Status, Pending, Started, Futures, Future, HoldsNothing, HoldsQueued,
         HoldsAdmitted, HoldsHandedOver
    <3> QED BY <3>1, <3>2
  <2>Futures. Futures'
    <3> SUFFICES ASSUME NEW r \in Runs PROVE Future(r)' BY DEF Futures
    <3>1. CASE r # Head(fifo)
      BY <1>1, <2>q, <3>1 DEF ManagerInv, Get, Futures, Future,
         HoldsHandedOver, Settled, Finalizing, OnePlace, Place, Statuses,
         Status, Pending, Started, HoldsNothing, HoldsQueued, HoldsAdmitted
    <3>2. CASE r = Head(fifo)
      BY <1>1, <2>q, <3>2 DEF ManagerInv, Get, Futures, Future,
         HoldsHandedOver, Settled, Finalizing, OnePlace, Place, Statuses,
         Status, Pending, Started, HoldsNothing, HoldsQueued, HoldsAdmitted
    <3> QED BY <3>1, <3>2
  <2>Statuses. Statuses'
    <3> SUFFICES ASSUME NEW r \in Runs PROVE Status(r)' BY DEF Statuses
    <3>1. CASE r # Head(fifo)
      BY <1>1, <2>q, <3>1 DEF ManagerInv, Get, Statuses, Status, Pending,
         Started, Ended, HoldsQueued, HoldsAdmitted, HoldsHandedOver, Hand,
         OnePlace, Place, Futures, Future, Finalizing, HoldsNothing
    <3>2. CASE r = Head(fifo)
      BY <1>1, <2>q, <3>2 DEF ManagerInv, Get, Statuses, Status, Pending,
         Started, Ended, HoldsQueued, HoldsAdmitted, HoldsHandedOver, Hand,
         OnePlace, Place, Futures, Future, Finalizing, HoldsNothing
    <3> QED BY <3>1, <3>2
  <2>SlotsConserved. SlotsConserved'
    BY <1>1, <2>q, SlotHolders DEF ManagerInv, Get, SlotsConserved, HoldsSlot,
       SetTypes
  <2>SlotFree. SlotFree'
    BY <1>1, <2>q DEF ManagerInv, Get, SlotFree, SetTypes
  <2>types. DiskTypes' /\ SetTypes' /\ PoolTypes' /\ RunTypes'
    BY <1>1 DEF ManagerInv, Get, DiskTypes, SetTypes, PoolTypes, RunTypes
  <2>flags. FlagTypes'
    BY <1>1 DEF ManagerInv, Get, FlagTypes
  <2>rest. PoolsAccounted'
    BY <1>1 DEF ManagerInv, Get, PoolsAccounted
  <2> QED BY <2>QueueTypes, <2>ThreadTypes, <2>Hand, <2>Distinct, <2>OnePlace,
     <2>Futures, <2>Statuses, <2>SlotsConserved, <2>SlotFree, <2>types,
     <2>flags, <2>rest DEF ManagerInv
<1>2. ASSUME AcquireSlot PROVE ManagerInv'
  <2>i. item \in Runs
    BY <1>2 DEF ManagerInv, Hand, ThreadTypes, HoldsNothing, AcquireSlot
  <2>SetTypes. SetTypes'
    BY <1>2, <2>i DEF ManagerInv, AcquireSlot, SetTypes
  <2>ThreadTypes. ThreadTypes'
    BY <1>2, <2>i DEF ManagerInv, AcquireSlot, ThreadTypes, HoldsNothing,
       HoldsQueued, HoldsAdmitted, HoldsHandedOver
  <2>Hand. Hand'
    BY <1>2, <2>i DEF ManagerInv, AcquireSlot, Hand, HoldsNothing
  <2>Futures. Futures'
    <3> SUFFICES ASSUME NEW r \in Runs PROVE Future(r)' BY DEF Futures
    <3>1. CASE r # item
      BY <1>2, <2>i, <3>1 DEF ManagerInv, AcquireSlot, Futures, Future,
         HoldsHandedOver, Settled, Finalizing, HoldsNothing, HoldsQueued,
         HoldsAdmitted
    <3>2. CASE r = item
      BY <1>2, <2>i, <3>2 DEF ManagerInv, AcquireSlot, Futures, Future,
         HoldsHandedOver, Settled, Finalizing, HoldsNothing, HoldsQueued,
         HoldsAdmitted
    <3> QED BY <3>1, <3>2
  <2>Statuses. Statuses'
    <3> SUFFICES ASSUME NEW r \in Runs PROVE Status(r)' BY DEF Statuses
    <3>1. CASE r # item
      BY <1>2, <2>i, <3>1 DEF ManagerInv, AcquireSlot, Statuses, Status,
         Pending, Started, Ended, HoldsQueued, HoldsAdmitted, HoldsHandedOver,
         Hand, OnePlace, Place, Futures, Future, Finalizing, HoldsNothing
    <3>2. CASE r = item
      BY <1>2, <2>i, <3>2 DEF ManagerInv, AcquireSlot, Statuses, Status,
         Pending, Started, Ended, HoldsQueued, HoldsAdmitted, HoldsHandedOver,
         Hand, OnePlace, Place, Futures, Future, Finalizing, HoldsNothing
    <3> QED BY <3>1, <3>2
  <2>SlotsConserved. SlotsConserved'
    <3> DEFINE n == Cardinality({r \in Runs : fin[r] \in Unreleased})
    <3>1. n \in Nat /\ n' = n BY <1>2, SlotHolders DEF AcquireSlot
    <3>2. slots + n + (IF dpc \in HoldsSlot THEN 1 ELSE 0) = MaxWorkers
      BY DEF ManagerInv, SlotsConserved
    <3> HIDE DEF n
    <3>3. slots' + n' + (IF dpc' \in HoldsSlot THEN 1 ELSE 0) = MaxWorkers
      BY <1>2, <3>1, <3>2 DEF ManagerInv, SetTypes, AcquireSlot, HoldsSlot
    <3> QED BY <3>3 DEF SlotsConserved, n
  <2>SlotFree. SlotFree'
    BY <1>2, <2>i DEF ManagerInv, AcquireSlot, SlotFree, SetTypes
  <2>types. DiskTypes' /\ QueueTypes' /\ PoolTypes' /\ RunTypes'
    BY <1>2 DEF ManagerInv, AcquireSlot, DiskTypes, QueueTypes, PoolTypes,
       RunTypes
  <2>flags. FlagTypes'
    BY <1>2 DEF ManagerInv, AcquireSlot, FlagTypes
  <2>rest. Distinct' /\ PoolsAccounted'
    BY <1>2 DEF ManagerInv, AcquireSlot, Distinct, PoolsAccounted
  <2>runs. OnePlace'
    BY <1>2 DEF ManagerInv, AcquireSlot, OnePlace, Place
  <2> QED BY <2>SetTypes, <2>ThreadTypes, <2>Hand, <2>Futures, <2>Statuses,
     <2>SlotsConserved, <2>SlotFree, <2>types, <2>flags, <2>rest, <2>runs DEF
     ManagerInv
<1>3. ASSUME Admission PROVE ManagerInv'
  <2>i. item \in Runs
    BY <1>3 DEF ManagerInv, Hand, ThreadTypes, HoldsNothing, Admission
  <2>q. /\ RemoveFirst(queued, item) \in Seq(Runs)
        /\ ToSet(RemoveFirst(queued, item)) = ToSet(queued) \ {item}
        /\ IsInjective(RemoveFirst(queued, item))
    BY QueueRemove DEF ManagerInv, QueueTypes, Distinct
  <2>DiskTypes. DiskTypes'
    BY <1>3, <2>i, <2>q DEF ManagerInv, Admission, DiskTypes, SetStatus
  <2>QueueTypes. QueueTypes'
    BY <1>3, <2>i, <2>q DEF ManagerInv, Admission, QueueTypes, SetStatus
  <2>SetTypes. SetTypes'
    BY <1>3, <2>i, <2>q DEF ManagerInv, Admission, SetTypes, SetStatus
  <2>ThreadTypes. ThreadTypes'
    BY <1>3, <2>i, <2>q DEF ManagerInv, Admission, ThreadTypes, HoldsNothing,
       HoldsQueued, HoldsAdmitted, HoldsHandedOver, SetStatus
  <2>Hand. Hand'
    BY <1>3, <2>i, <2>q DEF ManagerInv, Admission, Hand, HoldsNothing,
       SetStatus
  <2>Distinct. Distinct'
    BY <1>3, <2>i, <2>q DEF ManagerInv, Admission, Distinct, SetStatus
  <2>OnePlace. OnePlace'
    <3> SUFFICES ASSUME NEW r \in Runs PROVE Place(r)' BY DEF OnePlace
    <3>1. CASE r # item
      BY <1>3, <2>i, <2>q, <3>1 DEF ManagerInv, Admission, OnePlace, Place,
         SetStatus
    <3>2. CASE r = item
      BY <1>3, <2>i, <2>q, <3>2 DEF ManagerInv, Admission, OnePlace, Place,
         SetStatus
    <3> QED BY <3>1, <3>2
  <2>Futures. Futures'
    <3> SUFFICES ASSUME NEW r \in Runs PROVE Future(r)' BY DEF Futures
    <3>1. CASE r # item
      BY <1>3, <2>i, <2>q, <3>1 DEF ManagerInv, Admission, Futures, Future,
         HoldsHandedOver, Settled, Finalizing, SetStatus, HoldsNothing,
         HoldsQueued, HoldsAdmitted
    <3>2. CASE r = item
      BY <1>3, <2>i, <2>q, <3>2 DEF ManagerInv, Admission, Futures, Future,
         HoldsHandedOver, Settled, Finalizing, SetStatus, HoldsNothing,
         HoldsQueued, HoldsAdmitted
    <3> QED BY <3>1, <3>2
  <2>Statuses. Statuses'
    <3> SUFFICES ASSUME NEW r \in Runs PROVE Status(r)' BY DEF Statuses
    <3>1. CASE item \in cancelled
      <4>1. CASE r # item
        BY <1>3, <2>i, <3>1, <4>1 DEF ManagerInv, Admission, Statuses, Status,
           Pending, Started, HoldsQueued, HoldsAdmitted, HoldsHandedOver
      <4>2. CASE r = item
        BY <1>3, <2>i, <3>1, <4>2 DEF ManagerInv, Admission, Statuses, Status,
           Pending, Started, Ended, OnePlace, Place, HoldsQueued
      <4> QED BY <4>1, <4>2
    <3>2. CASE item \notin cancelled /\ ~ abort
      <4>1. /\ dpc = "admit" /\ dpc' = "ensure" /\ meta[item] = "queued"
            /\ meta' = [meta EXCEPT ![item] = "running"]
            /\ queued' = RemoveFirst(queued, item)
            /\ UNCHANGED <<cancelled, item, sub, fifo, drained, fin, inflight,
                           stragglers>>
        BY <1>3, <2>i, <3>2 DEF ManagerInv, Admission, SetStatus, Statuses,
           Status, Pending, HoldsQueued
      <4>2. CASE r # item
        BY <2>i, <2>q, <4>1, <4>2 DEF ManagerInv, DiskTypes, Statuses, Status,
           Pending, Started, HoldsQueued, HoldsAdmitted, HoldsHandedOver
      <4>3. CASE r = item
        BY <2>i, <2>q, <3>2, <4>1, <4>3 DEF ManagerInv, DiskTypes, Statuses,
           Status, Pending, Started, OnePlace, Place, HoldsQueued,
           HoldsAdmitted
      <4> QED BY <4>2, <4>3
    <3>3. CASE item \notin cancelled /\ abort
      BY <1>3, <2>i, <3>3 DEF ManagerInv, Admission, Statuses, Status,
         Pending, Started, HoldsQueued, HoldsAdmitted, HoldsHandedOver
    <3> QED BY <3>1, <3>2, <3>3
  <2>SlotsConserved. SlotsConserved'
    <3> DEFINE n == Cardinality({r \in Runs : fin[r] \in Unreleased})
    <3>1. n \in Nat /\ n' = n BY <1>3, SlotHolders DEF Admission
    <3>2. slots + n + (IF dpc \in HoldsSlot THEN 1 ELSE 0) = MaxWorkers
      BY DEF ManagerInv, SlotsConserved
    <3> HIDE DEF n
    <3>3. slots' + n' + (IF dpc' \in HoldsSlot THEN 1 ELSE 0) = MaxWorkers
      BY <1>3, <3>1, <3>2 DEF ManagerInv, SetTypes, Admission, HoldsSlot
    <3> QED BY <3>3 DEF SlotsConserved, n
  <2>SlotFree. SlotFree'
    BY <1>3, <2>i, <2>q DEF ManagerInv, Admission, SlotFree, SetTypes,
       SetStatus
  <2>types. PoolTypes' /\ RunTypes'
    BY <1>3 DEF ManagerInv, Admission, PoolTypes, RunTypes
  <2>flags. FlagTypes'
    BY <1>3 DEF ManagerInv, Admission, FlagTypes
  <2>rest. PoolsAccounted'
    BY <1>3 DEF ManagerInv, Admission, PoolsAccounted
  <2> QED BY <2>DiskTypes, <2>QueueTypes, <2>SetTypes, <2>ThreadTypes, <2>Hand,
     <2>Distinct, <2>OnePlace, <2>Futures, <2>Statuses, <2>SlotsConserved,
     <2>SlotFree, <2>types, <2>flags, <2>rest DEF ManagerInv
<1>4. ASSUME DispatcherDrops PROVE ManagerInv'
  <2>i. item \in Runs
    BY <1>4 DEF ManagerInv, Hand, ThreadTypes, HoldsNothing, DispatcherDrops
  <2>q. /\ RemoveFirst(queued, item) \in Seq(Runs)
        /\ ToSet(RemoveFirst(queued, item)) = ToSet(queued) \ {item}
        /\ IsInjective(RemoveFirst(queued, item))
    BY QueueRemove DEF ManagerInv, QueueTypes, Distinct
  <2>DiskTypes. DiskTypes'
    BY <1>4, <2>i, <2>q DEF ManagerInv, DispatcherDrops, DiskTypes, SetStatus,
       DropQueued
  <2>QueueTypes. QueueTypes'
    BY <1>4, <2>i, <2>q DEF ManagerInv, DispatcherDrops, QueueTypes, SetStatus,
       DropQueued
  <2>SetTypes. SetTypes'
    BY <1>4, <2>i, <2>q DEF ManagerInv, DispatcherDrops, SetTypes, SetStatus,
       DropQueued
  <2>ThreadTypes. ThreadTypes'
    BY <1>4, <2>i, <2>q DEF ManagerInv, DispatcherDrops, ThreadTypes,
       HoldsNothing, HoldsQueued, HoldsAdmitted, HoldsHandedOver, SetStatus,
       DropQueued
  <2>Hand. Hand'
    BY <1>4, <2>i, <2>q DEF ManagerInv, DispatcherDrops, Hand, HoldsNothing,
       SetStatus, DropQueued
  <2>Distinct. Distinct'
    BY <1>4, <2>i, <2>q DEF ManagerInv, DispatcherDrops, Distinct, SetStatus,
       DropQueued
  <2>OnePlace. OnePlace'
    <3> SUFFICES ASSUME NEW r \in Runs PROVE Place(r)' BY DEF OnePlace
    <3>1. CASE r # item
      BY <1>4, <2>i, <2>q, <3>1 DEF ManagerInv, DispatcherDrops, OnePlace,
         Place, SetStatus, DropQueued
    <3>2. CASE r = item
      BY <1>4, <2>i, <2>q, <3>2 DEF ManagerInv, DispatcherDrops, OnePlace,
         Place, SetStatus, DropQueued
    <3> QED BY <3>1, <3>2
  <2>Futures. Futures'
    <3> SUFFICES ASSUME NEW r \in Runs PROVE Future(r)' BY DEF Futures
    <3>1. CASE r # item
      BY <1>4, <2>i, <2>q, <3>1 DEF ManagerInv, DispatcherDrops, Futures,
         Future, HoldsHandedOver, Settled, Finalizing, SetStatus, DropQueued,
         HoldsNothing, HoldsQueued, HoldsAdmitted
    <3>2. CASE r = item
      BY <1>4, <2>i, <2>q, <3>2 DEF ManagerInv, DispatcherDrops, Futures,
         Future, HoldsHandedOver, Settled, Finalizing, SetStatus, DropQueued,
         HoldsNothing, HoldsQueued, HoldsAdmitted
    <3> QED BY <3>1, <3>2
  <2>Statuses. Statuses'
    <3> SUFFICES ASSUME NEW r \in Runs PROVE Status(r)' BY DEF Statuses
    <3>1. CASE r # item
      BY ZenonT(60), <1>4, <2>i, <2>q, <3>1 DEF ManagerInv, DispatcherDrops, Statuses,
         Status, Pending, Started, Ended, HoldsQueued, HoldsAdmitted,
         HoldsHandedOver, DiskTypes, SetStatus, DropQueued, Hand, OnePlace,
         Place, Futures, Future, Finalizing, HoldsNothing
    <3>2. CASE r = item
      BY <1>4, <2>i, <2>q, <3>2 DEF ManagerInv, DispatcherDrops, Statuses,
         Status, Pending, Started, Ended, HoldsQueued, HoldsAdmitted,
         HoldsHandedOver, DiskTypes, SetStatus, DropQueued, Hand, OnePlace,
         Place, Futures, Future, Finalizing, HoldsNothing
    <3> QED BY <3>1, <3>2
  <2>SlotsConserved. SlotsConserved'
    BY <1>4, <2>i, <2>q, SlotHolders DEF ManagerInv, DispatcherDrops,
       SlotsConserved, HoldsSlot, SetStatus, DropQueued, SetTypes
  <2>SlotFree. SlotFree'
    BY <1>4, <2>i, <2>q DEF ManagerInv, DispatcherDrops, SlotFree, SetStatus,
       DropQueued, SetTypes
  <2>types. PoolTypes' /\ RunTypes'
    BY <1>4 DEF ManagerInv, DispatcherDrops, PoolTypes, RunTypes
  <2>flags. FlagTypes'
    BY <1>4 DEF ManagerInv, DispatcherDrops, FlagTypes
  <2>rest. PoolsAccounted'
    BY <1>4 DEF ManagerInv, DispatcherDrops, PoolsAccounted
  <2> QED BY <2>DiskTypes, <2>QueueTypes, <2>SetTypes, <2>ThreadTypes, <2>Hand,
     <2>Distinct, <2>OnePlace, <2>Futures, <2>Statuses, <2>SlotsConserved,
     <2>SlotFree, <2>types, <2>flags, <2>rest DEF ManagerInv
<1>5. ASSUME EnsurePool PROVE ManagerInv'
  <2>i. item \in Runs
    BY <1>5 DEF ManagerInv, Hand, ThreadTypes, HoldsNothing, EnsurePool
  <2>PoolTypes. PoolTypes'
    BY <1>5, <2>i DEF ManagerInv, EnsurePool, PoolTypes, Usable
  <2>ThreadTypes. ThreadTypes'
    BY <1>5, <2>i DEF ManagerInv, EnsurePool, ThreadTypes, HoldsNothing,
       HoldsQueued, HoldsAdmitted, HoldsHandedOver, Usable
  <2>Hand. Hand'
    BY <1>5, <2>i DEF ManagerInv, EnsurePool, Hand, HoldsNothing, Usable
  <2>Futures. Futures'
    <3> SUFFICES ASSUME NEW r \in Runs PROVE Future(r)' BY DEF Futures
    <3>1. CASE r # item
      BY <1>5, <2>i, <3>1 DEF ManagerInv, EnsurePool, Futures, Future,
         HoldsHandedOver, Settled, Finalizing, Usable, HoldsNothing,
         HoldsQueued, HoldsAdmitted
    <3>2. CASE r = item
      BY <1>5, <2>i, <3>2 DEF ManagerInv, EnsurePool, Futures, Future,
         HoldsHandedOver, Settled, Finalizing, Usable, HoldsNothing,
         HoldsQueued, HoldsAdmitted
    <3> QED BY <3>1, <3>2
  <2>Statuses. Statuses'
    <3> SUFFICES ASSUME NEW r \in Runs PROVE Status(r)' BY DEF Statuses
    <3>1. CASE r # item
      BY <1>5, <2>i, <3>1 DEF ManagerInv, EnsurePool, Statuses, Status,
         Pending, Started, Ended, HoldsQueued, HoldsAdmitted, HoldsHandedOver,
         Usable, Hand, OnePlace, Place, Futures, Future, Finalizing,
         HoldsNothing
    <3>2. CASE r = item
      BY <1>5, <2>i, <3>2 DEF ManagerInv, EnsurePool, Statuses, Status,
         Pending, Started, Ended, HoldsQueued, HoldsAdmitted, HoldsHandedOver,
         Usable, Hand, OnePlace, Place, Futures, Future, Finalizing,
         HoldsNothing
    <3> QED BY <3>1, <3>2
  <2>SlotsConserved. SlotsConserved'
    BY <1>5, <2>i, SlotHolders DEF ManagerInv, EnsurePool, SlotsConserved,
       HoldsSlot, Usable, SetTypes
  <2>SlotFree. SlotFree'
    BY <1>5, <2>i DEF ManagerInv, EnsurePool, SlotFree, Usable, SetTypes
  <2>PoolsAccounted. PoolsAccounted'
    BY <1>5, <2>i DEF ManagerInv, EnsurePool, PoolsAccounted, PoolTypes,
       Usable, Hand
  <2>types. DiskTypes' /\ QueueTypes' /\ SetTypes' /\ RunTypes'
    BY <1>5 DEF ManagerInv, EnsurePool, DiskTypes, QueueTypes, SetTypes,
       RunTypes
  <2>flags. FlagTypes'
    BY <1>5 DEF ManagerInv, EnsurePool, FlagTypes
  <2>rest. Distinct'
    BY <1>5 DEF ManagerInv, EnsurePool, Distinct
  <2>runs. OnePlace'
    BY <1>5 DEF ManagerInv, EnsurePool, OnePlace, Place
  <2> QED BY <2>PoolTypes, <2>ThreadTypes, <2>Hand, <2>Futures, <2>Statuses,
     <2>SlotsConserved, <2>SlotFree, <2>PoolsAccounted, <2>types, <2>flags,
     <2>rest, <2>runs DEF ManagerInv
<1>6. ASSUME BuildPool PROVE ManagerInv'
  <2>i. item \in Runs
    BY <1>6 DEF ManagerInv, Hand, ThreadTypes, HoldsNothing, BuildPool
  <2>PoolTypes. PoolTypes'
    BY <1>6, <2>i DEF ManagerInv, BuildPool, PoolTypes
  <2>ThreadTypes. ThreadTypes'
    BY <1>6, <2>i DEF ManagerInv, BuildPool, ThreadTypes, HoldsNothing,
       HoldsQueued, HoldsAdmitted, HoldsHandedOver
  <2>Hand. Hand'
    BY <1>6, <2>i, BoundsAssumption DEF ManagerInv, BuildPool, Hand,
       HoldsNothing, Pools, NoPool, PoolTypes
  <2>Futures. Futures'
    <3> SUFFICES ASSUME NEW r \in Runs PROVE Future(r)' BY DEF Futures
    <3>1. CASE r # item
      BY <1>6, <2>i, <3>1 DEF ManagerInv, BuildPool, Futures, Future,
         HoldsHandedOver, Settled, Finalizing, HoldsNothing, HoldsQueued,
         HoldsAdmitted
    <3>2. CASE r = item
      BY <1>6, <2>i, <3>2 DEF ManagerInv, BuildPool, Futures, Future,
         HoldsHandedOver, Settled, Finalizing, HoldsNothing, HoldsQueued,
         HoldsAdmitted
    <3> QED BY <3>1, <3>2
  <2>Statuses. Statuses'
    <3> SUFFICES ASSUME NEW r \in Runs PROVE Status(r)' BY DEF Statuses
    <3>1. CASE r # item
      BY <1>6, <2>i, <3>1 DEF ManagerInv, BuildPool, Statuses, Status, Pending,
         Started, Ended, HoldsQueued, HoldsAdmitted, HoldsHandedOver, Hand,
         OnePlace, Place, Futures, Future, Finalizing, HoldsNothing
    <3>2. CASE r = item
      BY <1>6, <2>i, <3>2 DEF ManagerInv, BuildPool, Statuses, Status, Pending,
         Started, Ended, HoldsQueued, HoldsAdmitted, HoldsHandedOver, Hand,
         OnePlace, Place, Futures, Future, Finalizing, HoldsNothing
    <3> QED BY <3>1, <3>2
  <2>SlotsConserved. SlotsConserved'
    BY <1>6, <2>i, SlotHolders DEF ManagerInv, BuildPool, SlotsConserved,
       HoldsSlot, SetTypes
  <2>SlotFree. SlotFree'
    BY <1>6, <2>i DEF ManagerInv, BuildPool, SlotFree, SetTypes
  <2>PoolsAccounted. PoolsAccounted'
    <3>1. CASE pool' = pool /\ poolState' = poolState
      BY <1>6, <3>1 DEF ManagerInv, BuildPool, PoolsAccounted
    <3>2. CASE ~ (pool' = pool /\ poolState' = poolState)
      <4>1. PICK p \in Pools :
              /\ pool = NoPool /\ ~ shuttingDown
              /\ poolState' = [poolState EXCEPT ![p] = "up"] /\ pool' = p
        BY <1>6, <3>2 DEF BuildPool
      <4>2. spc' = spc /\ reaping' = reaping /\ spc = "idle"
        BY <1>6, <4>1 DEF ManagerInv, BuildPool, Hand
      <4>3. \A q \in Pools : q # p /\ poolState'[q] = "up" => q \in reaping
        BY <4>1, <4>2 DEF ManagerInv, PoolsAccounted, PoolTypes, Pools, NoPool
      <4> QED BY <4>1, <4>2, <4>3 DEF PoolsAccounted
    <3> QED BY <3>1, <3>2
  <2>types. DiskTypes' /\ QueueTypes' /\ SetTypes' /\ RunTypes'
    BY <1>6 DEF ManagerInv, BuildPool, DiskTypes, QueueTypes, SetTypes,
       RunTypes
  <2>flags. FlagTypes'
    BY <1>6 DEF ManagerInv, BuildPool, FlagTypes
  <2>rest. Distinct'
    BY <1>6 DEF ManagerInv, BuildPool, Distinct
  <2>runs. OnePlace'
    BY <1>6 DEF ManagerInv, BuildPool, OnePlace, Place
  <2> QED BY <2>PoolTypes, <2>ThreadTypes, <2>Hand, <2>Futures, <2>Statuses,
     <2>SlotsConserved, <2>SlotFree, <2>PoolsAccounted, <2>types, <2>flags,
     <2>rest, <2>runs DEF ManagerInv
<1>7. ASSUME SubmitToPool PROVE ManagerInv'
  <2>i. item \in Runs
    BY <1>7 DEF ManagerInv, Hand, ThreadTypes, HoldsNothing, SubmitToPool
  <2>RunTypes. RunTypes'
    BY <1>7, <2>i DEF ManagerInv, SubmitToPool, RunTypes, Settled, PoolTypes
  <2>ThreadTypes. ThreadTypes'
    BY <1>7, <2>i DEF ManagerInv, SubmitToPool, ThreadTypes, HoldsNothing,
       HoldsQueued, HoldsAdmitted, HoldsHandedOver
  <2>Hand. Hand'
    BY <1>7, <2>i DEF ManagerInv, SubmitToPool, Hand, HoldsNothing
  <2>OnePlace. OnePlace'
    <3> SUFFICES ASSUME NEW r \in Runs PROVE Place(r)' BY DEF OnePlace
    <3>1. CASE r # item
      BY <1>7, <2>i, <3>1 DEF ManagerInv, SubmitToPool, OnePlace, Place,
         RunTypes, Statuses, Status, Pending, Started, Futures, Future,
         HoldsNothing, HoldsQueued, HoldsAdmitted, HoldsHandedOver
    <3>2. CASE r = item
      BY <1>7, <2>i, <3>2 DEF ManagerInv, SubmitToPool, OnePlace, Place,
         RunTypes, Statuses, Status, Pending, Started, Futures, Future,
         HoldsNothing, HoldsQueued, HoldsAdmitted, HoldsHandedOver
    <3> QED BY <3>1, <3>2
  <2>Futures. Futures'
    <3> SUFFICES ASSUME NEW r \in Runs PROVE Future(r)' BY DEF Futures
    <3>1. CASE r # item
      BY <1>7, <2>i, <3>1 DEF ManagerInv, SubmitToPool, Futures, Future,
         HoldsHandedOver, Settled, Finalizing, RunTypes, OnePlace, Place,
         Statuses, Status, Pending, Started, HoldsNothing, HoldsQueued,
         HoldsAdmitted
    <3>2. CASE r = item
      BY <1>7, <2>i, <3>2 DEF ManagerInv, SubmitToPool, Futures, Future,
         HoldsHandedOver, Settled, Finalizing, RunTypes, OnePlace, Place,
         Statuses, Status, Pending, Started, HoldsNothing, HoldsQueued,
         HoldsAdmitted
    <3> QED BY <3>1, <3>2
  <2>Statuses. Statuses'
    <3> SUFFICES ASSUME NEW r \in Runs PROVE Status(r)' BY DEF Statuses
    <3>1. CASE r # item
      BY <1>7, <2>i, <3>1 DEF ManagerInv, SubmitToPool, Statuses, Status,
         Pending, Started, Ended, HoldsQueued, HoldsAdmitted, HoldsHandedOver,
         Hand, OnePlace, Place, Futures, Future, Finalizing, HoldsNothing
    <3>2. CASE r = item
      BY <1>7, <2>i, <3>2 DEF ManagerInv, SubmitToPool, Statuses, Status,
         Pending, Started, Ended, HoldsQueued, HoldsAdmitted, HoldsHandedOver,
         Hand, OnePlace, Place, Futures, Future, Finalizing, HoldsNothing
    <3> QED BY <3>1, <3>2
  <2>SlotsConserved. SlotsConserved'
    BY <1>7, <2>i, SlotHolders DEF ManagerInv, SubmitToPool, SlotsConserved,
       HoldsSlot, SetTypes
  <2>SlotFree. SlotFree'
    BY <1>7, <2>i DEF ManagerInv, SubmitToPool, SlotFree, SetTypes
  <2>types. DiskTypes' /\ QueueTypes' /\ SetTypes' /\ PoolTypes'
    BY <1>7 DEF ManagerInv, SubmitToPool, DiskTypes, QueueTypes, SetTypes,
       PoolTypes
  <2>flags. FlagTypes'
    BY <1>7 DEF ManagerInv, SubmitToPool, FlagTypes
  <2>rest. Distinct' /\ PoolsAccounted'
    BY <1>7 DEF ManagerInv, SubmitToPool, Distinct, PoolsAccounted
  <2> QED BY <2>RunTypes, <2>ThreadTypes, <2>Hand, <2>OnePlace, <2>Futures,
     <2>Statuses, <2>SlotsConserved, <2>SlotFree, <2>types, <2>flags, <2>rest
     DEF ManagerInv
<1>8. ASSUME DispatcherForgets PROVE ManagerInv'
  <2>i. item \in Runs
    BY <1>8 DEF ManagerInv, Hand, ThreadTypes, HoldsNothing, DispatcherForgets
  <2>PoolTypes. PoolTypes'
    BY <1>8, <2>i DEF ManagerInv, DispatcherForgets, PoolTypes, DropBrokenPool
  <2>ThreadTypes. ThreadTypes'
    BY <1>8, <2>i DEF ManagerInv, DispatcherForgets, ThreadTypes, HoldsNothing,
       HoldsQueued, HoldsAdmitted, HoldsHandedOver, DropBrokenPool
  <2>Hand. Hand'
    BY <1>8, <2>i DEF ManagerInv, DispatcherForgets, Hand, HoldsNothing,
       DropBrokenPool
  <2>Futures. Futures'
    <3> SUFFICES ASSUME NEW r \in Runs PROVE Future(r)' BY DEF Futures
    <3>1. CASE r # item
      BY <1>8, <2>i, <3>1 DEF ManagerInv, DispatcherForgets, Futures, Future,
         HoldsHandedOver, Settled, Finalizing, DropBrokenPool, HoldsNothing,
         HoldsQueued, HoldsAdmitted
    <3>2. CASE r = item
      BY <1>8, <2>i, <3>2 DEF ManagerInv, DispatcherForgets, Futures, Future,
         HoldsHandedOver, Settled, Finalizing, DropBrokenPool, HoldsNothing,
         HoldsQueued, HoldsAdmitted
    <3> QED BY <3>1, <3>2
  <2>Statuses. Statuses'
    <3> SUFFICES ASSUME NEW r \in Runs PROVE Status(r)' BY DEF Statuses
    <3>1. CASE r # item
      BY <1>8, <2>i, <3>1 DEF ManagerInv, DispatcherForgets, Statuses, Status,
         Pending, Started, Ended, HoldsQueued, HoldsAdmitted, HoldsHandedOver,
         DropBrokenPool, Hand, OnePlace, Place, Futures, Future, Finalizing,
         HoldsNothing
    <3>2. CASE r = item
      BY <1>8, <2>i, <3>2 DEF ManagerInv, DispatcherForgets, Statuses, Status,
         Pending, Started, Ended, HoldsQueued, HoldsAdmitted, HoldsHandedOver,
         DropBrokenPool, Hand, OnePlace, Place, Futures, Future, Finalizing,
         HoldsNothing
    <3> QED BY <3>1, <3>2
  <2>SlotsConserved. SlotsConserved'
    BY <1>8, <2>i, SlotHolders DEF ManagerInv, DispatcherForgets,
       SlotsConserved, HoldsSlot, DropBrokenPool, SetTypes
  <2>SlotFree. SlotFree'
    BY <1>8, <2>i DEF ManagerInv, DispatcherForgets, SlotFree, DropBrokenPool,
       SetTypes
  <2>PoolsAccounted. PoolsAccounted'
    BY <1>8, <2>i DEF ManagerInv, DispatcherForgets, PoolsAccounted, PoolTypes,
       DropBrokenPool, Hand
  <2>types. DiskTypes' /\ QueueTypes' /\ SetTypes' /\ RunTypes'
    BY <1>8 DEF ManagerInv, DispatcherForgets, DiskTypes, QueueTypes, SetTypes,
       RunTypes
  <2>flags. FlagTypes'
    BY <1>8 DEF ManagerInv, DispatcherForgets, FlagTypes
  <2>rest. Distinct'
    BY <1>8 DEF ManagerInv, DispatcherForgets, Distinct
  <2>runs. OnePlace'
    BY <1>8 DEF ManagerInv, DispatcherForgets, OnePlace, Place
  <2> QED BY <2>PoolTypes, <2>ThreadTypes, <2>Hand, <2>Futures, <2>Statuses,
     <2>SlotsConserved, <2>SlotFree, <2>PoolsAccounted, <2>types, <2>flags,
     <2>rest, <2>runs DEF ManagerInv
<1>9. ASSUME ReleaseRefused PROVE ManagerInv'
  <2>i. item \in Runs
    BY <1>9 DEF ManagerInv, Hand, ThreadTypes, HoldsNothing, ReleaseRefused
  <2>SetTypes. SetTypes'
    BY <1>9, <2>i DEF ManagerInv, ReleaseRefused, SetTypes
  <2>ThreadTypes. ThreadTypes'
    BY <1>9, <2>i DEF ManagerInv, ReleaseRefused, ThreadTypes, HoldsNothing,
       HoldsQueued, HoldsAdmitted, HoldsHandedOver
  <2>Hand. Hand'
    BY <1>9, <2>i DEF ManagerInv, ReleaseRefused, Hand, HoldsNothing
  <2>Futures. Futures'
    <3> SUFFICES ASSUME NEW r \in Runs PROVE Future(r)' BY DEF Futures
    <3>1. CASE r # item
      BY <1>9, <2>i, <3>1 DEF ManagerInv, ReleaseRefused, Futures, Future,
         HoldsHandedOver, Settled, Finalizing, HoldsNothing, HoldsQueued,
         HoldsAdmitted
    <3>2. CASE r = item
      BY <1>9, <2>i, <3>2 DEF ManagerInv, ReleaseRefused, Futures, Future,
         HoldsHandedOver, Settled, Finalizing, HoldsNothing, HoldsQueued,
         HoldsAdmitted
    <3> QED BY <3>1, <3>2
  <2>Statuses. Statuses'
    <3> SUFFICES ASSUME NEW r \in Runs PROVE Status(r)' BY DEF Statuses
    <3>1. CASE r # item
      BY <1>9, <2>i, <3>1 DEF ManagerInv, ReleaseRefused, Statuses, Status,
         Pending, Started, Ended, HoldsQueued, HoldsAdmitted, HoldsHandedOver,
         Hand, OnePlace, Place, Futures, Future, Finalizing, HoldsNothing
    <3>2. CASE r = item
      BY <1>9, <2>i, <3>2 DEF ManagerInv, ReleaseRefused, Statuses, Status,
         Pending, Started, Ended, HoldsQueued, HoldsAdmitted, HoldsHandedOver,
         Hand, OnePlace, Place, Futures, Future, Finalizing, HoldsNothing
    <3> QED BY <3>1, <3>2
  <2>SlotsConserved. SlotsConserved'
    BY <1>9, <2>i, SlotHolders DEF ManagerInv, ReleaseRefused, SlotsConserved,
       HoldsSlot, SetTypes
  <2>SlotFree. SlotFree'
    BY <1>9, <2>i DEF ManagerInv, ReleaseRefused, SlotFree, SetTypes
  <2>types. DiskTypes' /\ QueueTypes' /\ PoolTypes' /\ RunTypes'
    BY <1>9 DEF ManagerInv, ReleaseRefused, DiskTypes, QueueTypes, PoolTypes,
       RunTypes
  <2>flags. FlagTypes'
    BY <1>9 DEF ManagerInv, ReleaseRefused, FlagTypes
  <2>rest. Distinct' /\ PoolsAccounted'
    BY <1>9 DEF ManagerInv, ReleaseRefused, Distinct, PoolsAccounted
  <2>runs. OnePlace'
    BY <1>9 DEF ManagerInv, ReleaseRefused, OnePlace, Place
  <2> QED BY <2>SetTypes, <2>ThreadTypes, <2>Hand, <2>Futures, <2>Statuses,
     <2>SlotsConserved, <2>SlotFree, <2>types, <2>flags, <2>rest, <2>runs DEF
     ManagerInv
<1>10. ASSUME FailRefused PROVE ManagerInv'
  <2>i. item \in Runs
    BY <1>10 DEF ManagerInv, Hand, ThreadTypes, HoldsNothing, FailRefused
  <2>DiskTypes. DiskTypes'
    BY <1>10, <2>i DEF ManagerInv, FailRefused, DiskTypes, SetStatus
  <2>ThreadTypes. ThreadTypes'
    BY <1>10, <2>i DEF ManagerInv, FailRefused, ThreadTypes, HoldsNothing,
       HoldsQueued, HoldsAdmitted, HoldsHandedOver, SetStatus
  <2>Hand. Hand'
    BY <1>10, <2>i DEF ManagerInv, FailRefused, Hand, HoldsNothing, SetStatus
  <2>OnePlace. OnePlace'
    <3> SUFFICES ASSUME NEW r \in Runs PROVE Place(r)' BY DEF OnePlace
    <3>1. CASE r # item
      BY <1>10, <2>i, <3>1 DEF ManagerInv, FailRefused, OnePlace, Place,
         SetStatus
    <3>2. CASE r = item
      BY <1>10, <2>i, <3>2 DEF ManagerInv, FailRefused, OnePlace, Place,
         SetStatus
    <3> QED BY <3>1, <3>2
  <2>Futures. Futures'
    <3> SUFFICES ASSUME NEW r \in Runs PROVE Future(r)' BY DEF Futures
    <3>1. CASE r # item
      BY <1>10, <2>i, <3>1 DEF ManagerInv, FailRefused, Futures, Future,
         HoldsHandedOver, Settled, Finalizing, SetStatus, HoldsNothing,
         HoldsQueued, HoldsAdmitted
    <3>2. CASE r = item
      BY <1>10, <2>i, <3>2 DEF ManagerInv, FailRefused, Futures, Future,
         HoldsHandedOver, Settled, Finalizing, SetStatus, HoldsNothing,
         HoldsQueued, HoldsAdmitted
    <3> QED BY <3>1, <3>2
  <2>Statuses. Statuses'
    <3> SUFFICES ASSUME NEW r \in Runs PROVE Status(r)' BY DEF Statuses
    <3>1. CASE r # item
      BY ZenonT(60), <1>10, <2>i, <3>1 DEF ManagerInv, FailRefused, Statuses, Status,
         Pending, Started, Ended, HoldsQueued, HoldsAdmitted, HoldsHandedOver,
         DiskTypes, SetStatus, Hand, OnePlace, Place, Futures, Future,
         Finalizing, HoldsNothing
    <3>2. CASE r = item
      BY <1>10, <2>i, <3>2 DEF ManagerInv, FailRefused, Statuses, Status,
         Pending, Started, Ended, HoldsQueued, HoldsAdmitted, HoldsHandedOver,
         DiskTypes, SetStatus, Hand, OnePlace, Place, Futures, Future,
         Finalizing, HoldsNothing
    <3> QED BY <3>1, <3>2
  <2>SlotsConserved. SlotsConserved'
    BY <1>10, <2>i, SlotHolders DEF ManagerInv, FailRefused, SlotsConserved,
       HoldsSlot, SetStatus, SetTypes
  <2>SlotFree. SlotFree'
    BY <1>10, <2>i DEF ManagerInv, FailRefused, SlotFree, SetStatus, SetTypes
  <2>types. QueueTypes' /\ SetTypes' /\ PoolTypes' /\ RunTypes'
    BY <1>10 DEF ManagerInv, FailRefused, QueueTypes, SetTypes, PoolTypes,
       RunTypes
  <2>flags. FlagTypes'
    BY <1>10 DEF ManagerInv, FailRefused, FlagTypes
  <2>rest. Distinct' /\ PoolsAccounted'
    BY <1>10 DEF ManagerInv, FailRefused, Distinct, PoolsAccounted
  <2> QED BY <2>DiskTypes, <2>ThreadTypes, <2>Hand, <2>OnePlace, <2>Futures,
     <2>Statuses, <2>SlotsConserved, <2>SlotFree, <2>types, <2>flags, <2>rest
     DEF ManagerInv
<1>11. ASSUME Register PROVE ManagerInv'
  <2>i. item \in Runs
    BY <1>11 DEF ManagerInv, Hand, ThreadTypes, HoldsNothing, Register
  <2>SetTypes. SetTypes'
    BY <1>11, <2>i DEF ManagerInv, Register, SetTypes
  <2>ThreadTypes. ThreadTypes'
    BY <1>11, <2>i DEF ManagerInv, Register, ThreadTypes, HoldsNothing,
       HoldsQueued, HoldsAdmitted, HoldsHandedOver
  <2>Hand. Hand'
    BY <1>11, <2>i DEF ManagerInv, Register, Hand, HoldsNothing
  <2>Futures. Futures'
    <3> SUFFICES ASSUME NEW r \in Runs PROVE Future(r)' BY DEF Futures
    <3>1. CASE r # item
      BY <1>11, <2>i, <3>1 DEF ManagerInv, Register, Futures, Future,
         HoldsHandedOver, Settled, Finalizing, HoldsNothing, HoldsQueued,
         HoldsAdmitted
    <3>2. CASE r = item
      BY <1>11, <2>i, <3>2 DEF ManagerInv, Register, Futures, Future,
         HoldsHandedOver, Settled, Finalizing, HoldsNothing, HoldsQueued,
         HoldsAdmitted
    <3> QED BY <3>1, <3>2
  <2>Statuses. Statuses'
    <3> SUFFICES ASSUME NEW r \in Runs PROVE Status(r)' BY DEF Statuses
    <3>1. CASE r # item
      BY <1>11, <2>i, <3>1 DEF ManagerInv, Register, Statuses, Status, Pending,
         Started, Ended, HoldsQueued, HoldsAdmitted, HoldsHandedOver, Hand,
         OnePlace, Place, Futures, Future, Finalizing, HoldsNothing
    <3>2. CASE r = item
      BY <1>11, <2>i, <3>2 DEF ManagerInv, Register, Statuses, Status, Pending,
         Started, Ended, HoldsQueued, HoldsAdmitted, HoldsHandedOver, Hand,
         OnePlace, Place, Futures, Future, Finalizing, HoldsNothing
    <3> QED BY <3>1, <3>2
  <2>SlotsConserved. SlotsConserved'
    BY <1>11, <2>i, SlotHolders DEF ManagerInv, Register, SlotsConserved,
       HoldsSlot, SetTypes
  <2>SlotFree. SlotFree'
    BY <1>11, <2>i DEF ManagerInv, Register, SlotFree, SetTypes
  <2>types. DiskTypes' /\ QueueTypes' /\ PoolTypes' /\ RunTypes'
    BY <1>11 DEF ManagerInv, Register, DiskTypes, QueueTypes, PoolTypes,
       RunTypes
  <2>flags. FlagTypes'
    BY <1>11 DEF ManagerInv, Register, FlagTypes
  <2>rest. Distinct' /\ PoolsAccounted'
    BY <1>11 DEF ManagerInv, Register, Distinct, PoolsAccounted
  <2>runs. OnePlace'
    BY <1>11 DEF ManagerInv, Register, OnePlace, Place
  <2> QED BY <2>SetTypes, <2>ThreadTypes, <2>Hand, <2>Futures, <2>Statuses,
     <2>SlotsConserved, <2>SlotFree, <2>types, <2>flags, <2>rest, <2>runs DEF
     ManagerInv
<1>12. ASSUME AddCallback PROVE ManagerInv'
  <2>i. item \in Runs
    BY <1>12 DEF ManagerInv, Hand, ThreadTypes, HoldsNothing, AddCallback
  <2>RunTypes. RunTypes'
    BY <1>12, <2>i DEF ManagerInv, AddCallback, RunTypes, Settled, FirstStep
  <2>ThreadTypes. ThreadTypes'
    BY <1>12, <2>i DEF ManagerInv, AddCallback, ThreadTypes, HoldsNothing,
       HoldsQueued, HoldsAdmitted, HoldsHandedOver, FirstStep
  <2>FlagTypes. FlagTypes'
    BY <1>12, <2>i DEF ManagerInv, AddCallback, FlagTypes, FirstStep
  <2>Hand. Hand'
    BY <1>12, <2>i DEF ManagerInv, AddCallback, Hand, HoldsNothing, FirstStep
  <2>OnePlace. OnePlace'
    <3> SUFFICES ASSUME NEW r \in Runs PROVE Place(r)' BY DEF OnePlace
    <3>1. CASE r # item
      BY <1>12, <2>i, <3>1 DEF ManagerInv, AddCallback, OnePlace, Place,
         RunTypes, FirstStep, Statuses, Status, Pending, Started, Futures,
         Future, HoldsNothing, HoldsQueued, HoldsAdmitted, HoldsHandedOver
    <3>2. CASE r = item
      BY <1>12, <2>i, <3>2 DEF ManagerInv, AddCallback, OnePlace, Place,
         RunTypes, FirstStep, Statuses, Status, Pending, Started, Futures,
         Future, HoldsNothing, HoldsQueued, HoldsAdmitted, HoldsHandedOver
    <3> QED BY <3>1, <3>2
  <2>Futures. Futures'
    <3> SUFFICES ASSUME NEW r \in Runs PROVE Future(r)' BY DEF Futures
    <3>1. CASE r # item
      BY <1>12, <2>i, <3>1 DEF ManagerInv, AddCallback, Futures, Future,
         HoldsHandedOver, Settled, Finalizing, RunTypes, FirstStep, OnePlace,
         Place, Statuses, Status, Pending, Started, HoldsNothing, HoldsQueued,
         HoldsAdmitted
    <3>2. CASE r = item
      BY <1>12, <2>i, <3>2 DEF ManagerInv, AddCallback, Futures, Future,
         HoldsHandedOver, Settled, Finalizing, RunTypes, FirstStep, OnePlace,
         Place, Statuses, Status, Pending, Started, HoldsNothing, HoldsQueued,
         HoldsAdmitted
    <3> QED BY <3>1, <3>2
  <2>Statuses. Statuses'
    <3> SUFFICES ASSUME NEW r \in Runs PROVE Status(r)' BY DEF Statuses
    <3>1. CASE r # item
      BY <1>12, <2>i, <3>1 DEF ManagerInv, AddCallback, Statuses, Status,
         Pending, Started, Ended, HoldsQueued, HoldsAdmitted, HoldsHandedOver,
         RunTypes, FirstStep, Hand, OnePlace, Place, Futures, Future,
         Finalizing, HoldsNothing
    <3>2. CASE r = item
      BY <1>12, <2>i, <3>2 DEF ManagerInv, AddCallback, Statuses, Status,
         Pending, Started, Ended, HoldsQueued, HoldsAdmitted, HoldsHandedOver,
         RunTypes, FirstStep, Hand, OnePlace, Place, Futures, Future,
         Finalizing, HoldsNothing
    <3> QED BY <3>1, <3>2
  <2>SlotsConserved. SlotsConserved'
    <3> DEFINE S == {r \in Runs : fin[r] \in Unreleased}
    <3>1. /\ item \notin S /\ S' = S \cup {item}
      BY <1>12, <2>i DEF ManagerInv, AddCallback, FirstStep, RunTypes, Futures,
         Future, Unreleased, Finalizing
    <3>2. Cardinality(S) \in Nat /\ Cardinality(S') = Cardinality(S) + 1
      BY ZenonT(60), <3>1, SlotHolders, FS_AddElement
    <3>3. slots + Cardinality(S) + (IF dpc \in HoldsSlot THEN 1 ELSE 0) = MaxWorkers
      BY DEF ManagerInv, SlotsConserved
    <3> HIDE DEF S
    <3>4. slots' + Cardinality(S') + (IF dpc' \in HoldsSlot THEN 1 ELSE 0) = MaxWorkers
      BY <1>12, <3>2, <3>3 DEF ManagerInv, SetTypes, AddCallback, HoldsSlot
    <3> QED BY <3>4 DEF SlotsConserved, S
  <2>SlotFree. SlotFree'
    BY <1>12, <2>i DEF ManagerInv, AddCallback, SlotFree, FirstStep, SetTypes
  <2>types. DiskTypes' /\ QueueTypes' /\ SetTypes' /\ PoolTypes'
    BY <1>12 DEF ManagerInv, AddCallback, DiskTypes, QueueTypes, SetTypes,
       PoolTypes
  <2>rest. Distinct' /\ PoolsAccounted'
    BY <1>12 DEF ManagerInv, AddCallback, Distinct, PoolsAccounted
  <2> QED BY <2>RunTypes, <2>ThreadTypes, <2>FlagTypes, <2>Hand, <2>OnePlace,
     <2>Futures, <2>Statuses, <2>SlotsConserved, <2>SlotFree, <2>types, <2>rest
     DEF ManagerInv
<1>13. ASSUME InlineDone PROVE ManagerInv'
  <2>i. item \in Runs
    BY <1>13 DEF ManagerInv, Hand, ThreadTypes, HoldsNothing, InlineDone
  <2>ThreadTypes. ThreadTypes'
    BY <1>13, <2>i DEF ManagerInv, InlineDone, ThreadTypes, HoldsNothing,
       HoldsQueued, HoldsAdmitted, HoldsHandedOver
  <2>FlagTypes. FlagTypes'
    BY <1>13, <2>i DEF ManagerInv, InlineDone, FlagTypes
  <2>Hand. Hand'
    BY <1>13, <2>i DEF ManagerInv, InlineDone, Hand, HoldsNothing
  <2>OnePlace. OnePlace'
    <3> SUFFICES ASSUME NEW r \in Runs PROVE Place(r)' BY DEF OnePlace
    <3>1. CASE r # item
      BY <1>13, <2>i, <3>1 DEF ManagerInv, InlineDone, OnePlace, Place
    <3>2. CASE r = item
      BY <1>13, <2>i, <3>2 DEF ManagerInv, InlineDone, OnePlace, Place
    <3> QED BY <3>1, <3>2
  <2>Futures. Futures'
    <3> SUFFICES ASSUME NEW r \in Runs PROVE Future(r)' BY DEF Futures
    <3>1. CASE r # item
      BY <1>13, <2>i, <3>1 DEF ManagerInv, InlineDone, Futures, Future,
         HoldsHandedOver, Settled, Finalizing, HoldsNothing, HoldsQueued,
         HoldsAdmitted
    <3>2. CASE r = item
      BY <1>13, <2>i, <3>2 DEF ManagerInv, InlineDone, Futures, Future,
         HoldsHandedOver, Settled, Finalizing, HoldsNothing, HoldsQueued,
         HoldsAdmitted
    <3> QED BY <3>1, <3>2
  <2>Statuses. Statuses'
    <3> SUFFICES ASSUME NEW r \in Runs PROVE Status(r)' BY DEF Statuses
    <3>1. CASE r # item
      BY <1>13, <2>i, <3>1 DEF ManagerInv, InlineDone, Statuses, Status,
         Pending, Started, Ended, HoldsQueued, HoldsAdmitted, HoldsHandedOver,
         Hand, OnePlace, Place, Futures, Future, Finalizing, HoldsNothing
    <3>2. CASE r = item
      BY <1>13, <2>i, <3>2 DEF ManagerInv, InlineDone, Statuses, Status,
         Pending, Started, Ended, HoldsQueued, HoldsAdmitted, HoldsHandedOver,
         Hand, OnePlace, Place, Futures, Future, Finalizing, HoldsNothing
    <3> QED BY <3>1, <3>2
  <2>SlotsConserved. SlotsConserved'
    BY <1>13, <2>i, SlotHolders DEF ManagerInv, InlineDone, SlotsConserved,
       HoldsSlot, SetTypes
  <2>SlotFree. SlotFree'
    BY <1>13, <2>i DEF ManagerInv, InlineDone, SlotFree, SetTypes
  <2>types. DiskTypes' /\ QueueTypes' /\ SetTypes' /\ PoolTypes' /\ RunTypes'
    BY <1>13 DEF ManagerInv, InlineDone, DiskTypes, QueueTypes, SetTypes,
       PoolTypes, RunTypes
  <2>rest. Distinct' /\ PoolsAccounted'
    BY <1>13 DEF ManagerInv, InlineDone, Distinct, PoolsAccounted
  <2> QED BY <2>ThreadTypes, <2>FlagTypes, <2>Hand, <2>OnePlace, <2>Futures,
     <2>Statuses, <2>SlotsConserved, <2>SlotFree, <2>types, <2>rest DEF
     ManagerInv
<1> QED BY <1>1, <1>2, <1>3, <1>4, <1>5, <1>6, <1>7, <1>8, <1>9, <1>10, <1>11, <1>12, <1>13 DEF Dispatcher
-----------------------------------------------------------------------------
(* The steps of the process pools and of their futures. *)

\* A future that settles starts the callback, if there is one.
LEMMA SettleKeepsInv ==
    ASSUME ManagerInv, NEW x \in Runs, NEW result \in Settled,
           fut[x] \in {"pending", "executing"}, Settle(x, result)
    PROVE  ManagerInv'
<1> USE RunsAssumption DEF diskVars, mgrVars, stopVars, poolVars, futVars,
        dispVars, finVars, shutVars, boundVars, DispatcherServes
<1>RunTypes. RunTypes'
  BY DEF ManagerInv, Settle, RunTypes, Settled, FirstStep
<1>OnePlace. OnePlace'
  <2> SUFFICES ASSUME NEW r \in Runs PROVE Place(r)' BY DEF OnePlace
  <2>1. CASE r # x
    BY <2>1 DEF ManagerInv, Settle, OnePlace, Place, RunTypes,
       FirstStep, Futures, Future, Settled
  <2>2. CASE r = x
    BY <2>2 DEF ManagerInv, Settle, OnePlace, Place, RunTypes,
       FirstStep, Futures, Future, Settled
  <2> QED BY <2>1, <2>2
<1>Futures. Futures'
  <2> SUFFICES ASSUME NEW r \in Runs PROVE Future(r)' BY DEF Futures
  <2>1. CASE r # x
    BY <2>1 DEF ManagerInv, Settle, Futures, Future, HoldsHandedOver,
       Settled, Finalizing, RunTypes, FirstStep
  <2>2. CASE r = x
    BY <2>2 DEF ManagerInv, Settle, Futures, Future, HoldsHandedOver,
       Settled, Finalizing, RunTypes, FirstStep
  <2> QED BY <2>1, <2>2
<1>Statuses. Statuses'
  <2> SUFFICES ASSUME NEW r \in Runs PROVE Status(r)' BY DEF Statuses
  <2>1. CASE r # x
    BY <2>1 DEF ManagerInv, Settle, Statuses, Status, Pending, Started,
       Ended, HoldsQueued, HoldsAdmitted, HoldsHandedOver, RunTypes,
       FirstStep, Futures, Future, Settled
  <2>2. CASE r = x
    BY <2>2 DEF ManagerInv, Settle, Statuses, Status, Pending, Started,
       Ended, HoldsQueued, HoldsAdmitted, HoldsHandedOver, RunTypes,
       FirstStep, Futures, Future, Settled
  <2> QED BY <2>1, <2>2
<1>SlotsConserved. SlotsConserved'
  <2>1. {r \in Runs : fin'[r] \in Unreleased} = {r \in Runs : fin[r] \in Unreleased}
    BY DEF ManagerInv, Settle, RunTypes, Unreleased, Finalizing, FirstStep
  <2>2. slots' = slots /\ dpc' = dpc BY DEF Settle
  <2> QED BY <2>1, <2>2 DEF ManagerInv, SlotsConserved
<1>types. DiskTypes' /\ QueueTypes' /\ SetTypes' /\ PoolTypes' /\
          ThreadTypes'
  BY DEF ManagerInv, Settle, DiskTypes, QueueTypes, SetTypes, PoolTypes,
     ThreadTypes
<1>flags. FlagTypes'
  BY DEF ManagerInv, Settle, FlagTypes
<1>rest. Hand' /\ Distinct' /\ SlotFree' /\ PoolsAccounted'
  BY DEF ManagerInv, Settle, Hand, Distinct, SlotFree, PoolsAccounted
<1> QED BY <1>RunTypes, <1>OnePlace, <1>Futures, <1>Statuses, <1>SlotsConserved,
   <1>types, <1>flags, <1>rest DEF ManagerInv

\* Nor a worker that starts, returns, fails or is killed, nor a reaper.
LEMMA PoolsKeepInv ==
    ASSUME ManagerInv,
           \/ \E r \in Runs : Worker(r)
           \/ \E p \in Pools : KillWorker(p) \/ Reap(p)
    PROVE  ManagerInv'
<1> USE RunsAssumption DEF diskVars, mgrVars, stopVars, poolVars, futVars,
        dispVars, finVars, shutVars, boundVars, DispatcherServes
<1>1. ASSUME NEW x \in Runs, ChildStarts(x) PROVE ManagerInv'
  <2>RunTypes. RunTypes'
    BY <1>1 DEF ManagerInv, ChildStarts, RunTypes, Settled
  <2>OnePlace. OnePlace'
    <3> SUFFICES ASSUME NEW r \in Runs PROVE Place(r)' BY DEF OnePlace
    <3>1. CASE r # x
      BY <1>1, <3>1 DEF ManagerInv, ChildStarts, OnePlace, Place, RunTypes
    <3>2. CASE r = x
      BY <1>1, <3>2 DEF ManagerInv, ChildStarts, OnePlace, Place, RunTypes
    <3> QED BY <3>1, <3>2
  <2>Futures. Futures'
    <3> SUFFICES ASSUME NEW r \in Runs PROVE Future(r)' BY DEF Futures
    <3>1. CASE r # x
      BY <1>1, <3>1 DEF ManagerInv, ChildStarts, Futures, Future,
         HoldsHandedOver, Settled, Finalizing, RunTypes
    <3>2. CASE r = x
      BY <1>1, <3>2 DEF ManagerInv, ChildStarts, Futures, Future,
         HoldsHandedOver, Settled, Finalizing, RunTypes
    <3> QED BY <3>1, <3>2
  <2>types. DiskTypes' /\ QueueTypes' /\ SetTypes' /\ PoolTypes' /\
            ThreadTypes'
    BY <1>1 DEF ManagerInv, ChildStarts, DiskTypes, QueueTypes, SetTypes,
       PoolTypes, ThreadTypes
  <2>flags. FlagTypes'
    BY <1>1 DEF ManagerInv, ChildStarts, FlagTypes
  <2>rest. Hand' /\ Distinct' /\ SlotsConserved' /\ SlotFree' /\
            PoolsAccounted'
    BY <1>1 DEF ManagerInv, ChildStarts, Hand, Distinct, SlotsConserved,
       SlotFree, PoolsAccounted
  <2>runs. Statuses'
    BY <1>1 DEF ManagerInv, ChildStarts, Statuses, Status, Pending, Started
  <2> QED BY <2>RunTypes, <2>OnePlace, <2>Futures, <2>types, <2>flags, <2>rest, <2>runs
     DEF ManagerInv
<1>2. ASSUME NEW x \in Runs, ChildReturns(x) \/ ChildLost(x) \/ FutureCancelled(x)
      PROVE  ManagerInv'
  <2>1. PICK result \in Settled : Settle(x, result) /\ fut[x] \in {"pending", "executing"}
    BY <1>2 DEF ChildReturns, ChildLost, FutureCancelled, Settled
  <2> QED BY <2>1, SettleKeepsInv
<1>3. ASSUME NEW p \in Pools, KillWorker(p) PROVE ManagerInv'
  <2>PoolTypes. PoolTypes'
    BY <1>3, BoundsAssumption DEF ManagerInv, KillWorker, PoolTypes
  <2>PoolsAccounted. PoolsAccounted'
    BY <1>3 DEF ManagerInv, KillWorker, PoolsAccounted, PoolTypes
  <2>types. DiskTypes' /\ QueueTypes' /\ SetTypes' /\ RunTypes' /\
            ThreadTypes'
    BY <1>3 DEF ManagerInv, KillWorker, DiskTypes, QueueTypes, SetTypes,
       RunTypes, ThreadTypes
  <2>flags. FlagTypes'
    BY <1>3 DEF ManagerInv, KillWorker, FlagTypes
  <2>rest. Hand' /\ Distinct' /\ SlotsConserved' /\ SlotFree'
    BY <1>3 DEF ManagerInv, KillWorker, Hand, Distinct, SlotsConserved,
       SlotFree
  <2>runs. OnePlace' /\ Futures' /\ Statuses'
    BY <1>3 DEF ManagerInv, KillWorker, OnePlace, Futures, Statuses, Place,
       Future, Status, Pending, Started
  <2> QED BY <2>PoolTypes, <2>PoolsAccounted, <2>types, <2>flags, <2>rest, <2>runs DEF
     ManagerInv
<1>4. ASSUME NEW p \in Pools, Reap(p) PROVE ManagerInv'
  <2>PoolTypes. PoolTypes'
    BY <1>4 DEF ManagerInv, Reap, PoolTypes, ShutPool
  <2>PoolsAccounted. PoolsAccounted'
    BY <1>4 DEF ManagerInv, Reap, PoolsAccounted, PoolTypes, ShutPool
  <2>types. DiskTypes' /\ QueueTypes' /\ SetTypes' /\ RunTypes' /\
            ThreadTypes'
    BY <1>4 DEF ManagerInv, Reap, DiskTypes, QueueTypes, SetTypes, RunTypes,
       ThreadTypes
  <2>flags. FlagTypes'
    BY <1>4 DEF ManagerInv, Reap, FlagTypes
  <2>rest. Hand' /\ Distinct' /\ SlotsConserved' /\ SlotFree'
    BY <1>4 DEF ManagerInv, Reap, Hand, Distinct, SlotsConserved, SlotFree
  <2>runs. OnePlace' /\ Futures' /\ Statuses'
    BY <1>4 DEF ManagerInv, Reap, OnePlace, Futures, Statuses, Place, Future,
       Status, Pending, Started
  <2> QED BY <2>PoolTypes, <2>PoolsAccounted, <2>types, <2>flags, <2>rest, <2>runs DEF
     ManagerInv
<1> QED BY <1>1, <1>2, <1>3, <1>4 DEF Worker
-----------------------------------------------------------------------------
(* The steps of _finalize. *)

\* Nor a step of the callback of a future.
LEMMA FinalizerKeepsInv ==
    ASSUME ManagerInv, NEW x \in Runs, Finalizer(x)
    PROVE  ManagerInv'
<1> USE RunsAssumption DEF diskVars, mgrVars, stopVars, poolVars, futVars,
        dispVars, finVars, shutVars, boundVars, DispatcherServes
<1>1. ASSUME FinResult(x) PROVE ManagerInv'
  <2>PoolTypes. PoolTypes'
    BY <1>1 DEF ManagerInv, FinResult, PoolTypes, DropBrokenPool
  <2>RunTypes. RunTypes'
    BY <1>1 DEF ManagerInv, FinResult, RunTypes, Settled, DropBrokenPool
  <2>OnePlace. OnePlace'
    <3> SUFFICES ASSUME NEW r \in Runs PROVE Place(r)' BY DEF OnePlace
    <3>1. CASE r # x
      BY <1>1, <3>1 DEF ManagerInv, FinResult, OnePlace, Place, RunTypes,
         DropBrokenPool, Futures, Future
    <3>2. CASE r = x
      BY <1>1, <3>2 DEF ManagerInv, FinResult, OnePlace, Place, RunTypes,
         DropBrokenPool, Futures, Future
    <3> QED BY <3>1, <3>2
  <2>Futures. Futures'
    <3> SUFFICES ASSUME NEW r \in Runs PROVE Future(r)' BY DEF Futures
    <3>1. CASE r # x
      BY <1>1, <3>1 DEF ManagerInv, FinResult, Futures, Future,
         HoldsHandedOver, Settled, Finalizing, RunTypes, DropBrokenPool
    <3>2. CASE r = x
      BY <1>1, <3>2 DEF ManagerInv, FinResult, Futures, Future,
         HoldsHandedOver, Settled, Finalizing, RunTypes, DropBrokenPool
    <3> QED BY <3>1, <3>2
  <2>Statuses. Statuses'
    <3> SUFFICES ASSUME NEW r \in Runs PROVE Status(r)' BY DEF Statuses
    <3>1. CASE r # x
      BY <1>1, <3>1 DEF ManagerInv, FinResult, Statuses, Status, Pending,
         Started, Ended, HoldsQueued, HoldsAdmitted, HoldsHandedOver, RunTypes,
         DropBrokenPool, Futures, Future
    <3>2. CASE r = x
      BY <1>1, <3>2 DEF ManagerInv, FinResult, Statuses, Status, Pending,
         Started, Ended, HoldsQueued, HoldsAdmitted, HoldsHandedOver, RunTypes,
         DropBrokenPool, Futures, Future
    <3> QED BY <3>1, <3>2
  <2>SlotsConserved. SlotsConserved'
    <3>1. {r \in Runs : fin'[r] \in Unreleased} = {r \in Runs : fin[r] \in Unreleased}
      BY <1>1 DEF ManagerInv, FinResult, RunTypes, Unreleased, Finalizing
    <3>2. slots' = slots /\ dpc' = dpc BY <1>1 DEF FinResult
    <3> QED BY <3>1, <3>2 DEF ManagerInv, SlotsConserved
  <2>PoolsAccounted. PoolsAccounted'
    BY <1>1 DEF ManagerInv, FinResult, PoolsAccounted, PoolTypes,
       DropBrokenPool
  <2>types. DiskTypes' /\ QueueTypes' /\ SetTypes' /\ ThreadTypes'
    BY <1>1 DEF ManagerInv, FinResult, DiskTypes, QueueTypes, SetTypes,
       ThreadTypes
  <2>flags. FlagTypes'
    BY <1>1 DEF ManagerInv, FinResult, FlagTypes
  <2>rest. Hand' /\ Distinct' /\ SlotFree'
    BY <1>1 DEF ManagerInv, FinResult, Hand, Distinct, SlotFree
  <2> QED BY <2>PoolTypes, <2>RunTypes, <2>OnePlace, <2>Futures, <2>Statuses,
     <2>SlotsConserved, <2>PoolsAccounted, <2>types, <2>flags, <2>rest DEF
     ManagerInv
<1>2. ASSUME FinLeave(x) PROVE ManagerInv'
  <2>SetTypes. SetTypes'
    BY <1>2 DEF ManagerInv, FinLeave, SetTypes
  <2>RunTypes. RunTypes'
    BY <1>2 DEF ManagerInv, FinLeave, RunTypes, Settled
  <2>FlagTypes. FlagTypes'
    BY <1>2 DEF ManagerInv, FinLeave, FlagTypes
  <2>OnePlace. OnePlace'
    <3> SUFFICES ASSUME NEW r \in Runs PROVE Place(r)' BY DEF OnePlace
    <3>1. CASE r # x
      BY <1>2, <3>1 DEF ManagerInv, FinLeave, OnePlace, Place, RunTypes,
         Futures, Future
    <3>2. CASE r = x
      BY <1>2, <3>2 DEF ManagerInv, FinLeave, OnePlace, Place, RunTypes,
         Futures, Future
    <3> QED BY <3>1, <3>2
  <2>Futures. Futures'
    <3> SUFFICES ASSUME NEW r \in Runs PROVE Future(r)' BY DEF Futures
    <3>1. CASE r # x
      BY <1>2, <3>1 DEF ManagerInv, FinLeave, Futures, Future, HoldsHandedOver,
         Settled, Finalizing, RunTypes
    <3>2. CASE r = x
      BY <1>2, <3>2 DEF ManagerInv, FinLeave, Futures, Future, HoldsHandedOver,
         Settled, Finalizing, RunTypes
    <3> QED BY <3>1, <3>2
  <2>Statuses. Statuses'
    <3> SUFFICES ASSUME NEW r \in Runs PROVE Status(r)' BY DEF Statuses
    <3>1. CASE r # x
      BY <1>2, <3>1 DEF ManagerInv, FinLeave, Statuses, Status, Pending,
         Started, Ended, HoldsQueued, HoldsAdmitted, HoldsHandedOver, RunTypes,
         Futures, Future
    <3>2. CASE r = x
      BY <1>2, <3>2 DEF ManagerInv, FinLeave, Statuses, Status, Pending,
         Started, Ended, HoldsQueued, HoldsAdmitted, HoldsHandedOver, RunTypes,
         Futures, Future
    <3> QED BY <3>1, <3>2
  <2>SlotsConserved. SlotsConserved'
    <3>1. {r \in Runs : fin'[r] \in Unreleased} = {r \in Runs : fin[r] \in Unreleased}
      BY <1>2 DEF ManagerInv, FinLeave, RunTypes, Unreleased, Finalizing
    <3>2. slots' = slots /\ dpc' = dpc BY <1>2 DEF FinLeave
    <3> QED BY <3>1, <3>2 DEF ManagerInv, SlotsConserved
  <2>types. DiskTypes' /\ QueueTypes' /\ PoolTypes' /\ ThreadTypes'
    BY <1>2 DEF ManagerInv, FinLeave, DiskTypes, QueueTypes, PoolTypes,
       ThreadTypes
  <2>rest. Hand' /\ Distinct' /\ SlotFree' /\ PoolsAccounted'
    BY <1>2 DEF ManagerInv, FinLeave, Hand, Distinct, SlotFree, PoolsAccounted
  <2> QED BY <2>SetTypes, <2>RunTypes, <2>FlagTypes, <2>OnePlace, <2>Futures,
     <2>Statuses, <2>SlotsConserved, <2>types, <2>rest DEF ManagerInv
<1>3. ASSUME FinRecord(x) PROVE ManagerInv'
  <2>DiskTypes. DiskTypes'
    BY <1>3 DEF ManagerInv, FinRecord, DiskTypes, SetStatus, WhyFailed
  <2>RunTypes. RunTypes'
    BY <1>3 DEF ManagerInv, FinRecord, RunTypes, Settled, SetStatus, WhyFailed
  <2>FlagTypes. FlagTypes'
    BY <1>3 DEF ManagerInv, FinRecord, FlagTypes, SetStatus, WhyFailed
  <2>OnePlace. OnePlace'
    <3> SUFFICES ASSUME NEW r \in Runs PROVE Place(r)' BY DEF OnePlace
    <3>1. CASE r # x
      BY <1>3, <3>1 DEF ManagerInv, FinRecord, OnePlace, Place, RunTypes,
         SetStatus, WhyFailed, Futures, Future
    <3>2. CASE r = x
      BY <1>3, <3>2 DEF ManagerInv, FinRecord, OnePlace, Place, RunTypes,
         SetStatus, WhyFailed, Futures, Future
    <3> QED BY <3>1, <3>2
  <2>Futures. Futures'
    <3> SUFFICES ASSUME NEW r \in Runs PROVE Future(r)' BY DEF Futures
    <3>1. CASE r # x
      BY <1>3, <3>1 DEF ManagerInv, FinRecord, Futures, Future,
         HoldsHandedOver, Settled, Finalizing, RunTypes, SetStatus, WhyFailed
    <3>2. CASE r = x
      BY <1>3, <3>2 DEF ManagerInv, FinRecord, Futures, Future,
         HoldsHandedOver, Settled, Finalizing, RunTypes, SetStatus, WhyFailed
    <3> QED BY <3>1, <3>2
  <2>Statuses. Statuses'
    <3> SUFFICES ASSUME NEW r \in Runs PROVE Status(r)' BY DEF Statuses
    <3>1. \E v \in Ended : meta' = [meta EXCEPT ![x] = v]
      BY <1>3 DEF ManagerInv, FinRecord, SetStatus, Statuses, Status, Started, Ended
    <3>2. /\ fin[x] = "record" /\ fin' = [fin EXCEPT ![x] = "release"]
          /\ UNCHANGED <<queued, sub, fifo, drained, item, dpc, cancelled,
                         inflight, stragglers>>
      BY <1>3 DEF FinRecord
    <3>3. CASE r # x
      BY <3>1, <3>2, <3>3 DEF ManagerInv, Statuses, Status, Pending, Started,
         DiskTypes, RunTypes
    <3>4. CASE r = x
      BY <3>1, <3>2, <3>4 DEF ManagerInv, Statuses, Status, Pending, Started,
         Ended, DiskTypes, RunTypes, Futures, Future, OnePlace, Place
    <3> QED BY <3>3, <3>4
  <2>SlotsConserved. SlotsConserved'
    <3>1. {r \in Runs : fin'[r] \in Unreleased} = {r \in Runs : fin[r] \in Unreleased}
      BY <1>3 DEF ManagerInv, FinRecord, RunTypes, Unreleased, Finalizing
    <3>2. slots' = slots /\ dpc' = dpc BY <1>3 DEF FinRecord
    <3> QED BY <3>1, <3>2 DEF ManagerInv, SlotsConserved
  <2>types. QueueTypes' /\ SetTypes' /\ PoolTypes' /\ ThreadTypes'
    BY <1>3 DEF ManagerInv, FinRecord, QueueTypes, SetTypes, PoolTypes,
       ThreadTypes
  <2>rest. Hand' /\ Distinct' /\ SlotFree' /\ PoolsAccounted'
    BY <1>3 DEF ManagerInv, FinRecord, Hand, Distinct, SlotFree, PoolsAccounted
  <2> QED BY <2>DiskTypes, <2>RunTypes, <2>FlagTypes, <2>OnePlace, <2>Futures,
     <2>Statuses, <2>SlotsConserved, <2>types, <2>rest DEF ManagerInv
<1>4. ASSUME FinRelease(x) PROVE ManagerInv'
  <2>SetTypes. SetTypes'
    BY <1>4 DEF ManagerInv, FinRelease, SetTypes
  <2>RunTypes. RunTypes'
    BY <1>4 DEF ManagerInv, FinRelease, RunTypes, Settled
  <2>OnePlace. OnePlace'
    <3> SUFFICES ASSUME NEW r \in Runs PROVE Place(r)' BY DEF OnePlace
    <3>1. CASE r # x
      BY <1>4, <3>1 DEF ManagerInv, FinRelease, OnePlace, Place, RunTypes,
         Futures, Future
    <3>2. CASE r = x
      BY <1>4, <3>2 DEF ManagerInv, FinRelease, OnePlace, Place, RunTypes,
         Futures, Future
    <3> QED BY <3>1, <3>2
  <2>Futures. Futures'
    <3> SUFFICES ASSUME NEW r \in Runs PROVE Future(r)' BY DEF Futures
    <3>1. CASE r # x
      BY <1>4, <3>1 DEF ManagerInv, FinRelease, Futures, Future,
         HoldsHandedOver, Settled, Finalizing, RunTypes
    <3>2. CASE r = x
      BY <1>4, <3>2 DEF ManagerInv, FinRelease, Futures, Future,
         HoldsHandedOver, Settled, Finalizing, RunTypes
    <3> QED BY <3>1, <3>2
  <2>Statuses. Statuses'
    <3> SUFFICES ASSUME NEW r \in Runs PROVE Status(r)' BY DEF Statuses
    <3>1. CASE r # x
      BY <1>4, <3>1 DEF ManagerInv, FinRelease, Statuses, Status, Pending,
         Started, Ended, HoldsQueued, HoldsAdmitted, HoldsHandedOver, RunTypes,
         Futures, Future
    <3>2. CASE r = x
      BY <1>4, <3>2 DEF ManagerInv, FinRelease, Statuses, Status, Pending,
         Started, Ended, HoldsQueued, HoldsAdmitted, HoldsHandedOver, RunTypes,
         Futures, Future
    <3> QED BY <3>1, <3>2
  <2>SlotsConserved. SlotsConserved'
    <3> DEFINE S == {r \in Runs : fin[r] \in Unreleased}
    <3>1. x \in S /\ S' = S \ {x}
      BY <1>4 DEF ManagerInv, FinRelease, RunTypes, Unreleased, Finalizing
    <3>a. IsFiniteSet(S) /\ Cardinality(S) \in Nat BY SlotHolders
    <3>b. Cardinality(S \ {x}) = Cardinality(S) - 1
      BY <3>1, <3>a, FS_RemoveElement
    <3>2. Cardinality(S) \in Nat /\ Cardinality(S') = Cardinality(S) - 1
      BY <3>1, <3>a, <3>b
    <3>3. slots + Cardinality(S) + (IF dpc \in HoldsSlot THEN 1 ELSE 0) = MaxWorkers
      BY DEF ManagerInv, SlotsConserved
    <3> HIDE DEF S
    <3>4. slots' + Cardinality(S') + (IF dpc' \in HoldsSlot THEN 1 ELSE 0) = MaxWorkers
      BY <1>4, <3>2, <3>3 DEF ManagerInv, SetTypes, FinRelease
    <3> QED BY <3>4 DEF SlotsConserved, S
  <2>SlotFree. SlotFree'
    BY <1>4 DEF ManagerInv, FinRelease, SlotFree, SetTypes
  <2>types. DiskTypes' /\ QueueTypes' /\ PoolTypes' /\ ThreadTypes'
    BY <1>4 DEF ManagerInv, FinRelease, DiskTypes, QueueTypes, PoolTypes,
       ThreadTypes
  <2>flags. FlagTypes'
    BY <1>4 DEF ManagerInv, FinRelease, FlagTypes
  <2>rest. Hand' /\ Distinct' /\ PoolsAccounted'
    BY <1>4 DEF ManagerInv, FinRelease, Hand, Distinct, PoolsAccounted
  <2> QED BY <2>SetTypes, <2>RunTypes, <2>OnePlace, <2>Futures, <2>Statuses,
     <2>SlotsConserved, <2>SlotFree, <2>types, <2>flags, <2>rest DEF ManagerInv
<1> QED BY <1>1, <1>2, <1>3, <1>4 DEF Finalizer
-----------------------------------------------------------------------------
(* The steps of shutdown(). *)

\* Nor a step of shutdown.
LEMMA ShutdownKeepsInv ==
    ASSUME ManagerInv, Shutdown
    PROVE  ManagerInv'
<1> USE RunsAssumption DEF diskVars, mgrVars, stopVars, poolVars, futVars,
        dispVars, finVars, shutVars, boundVars, DispatcherServes
<1>1. ASSUME ShutdownBegin PROVE ManagerInv'
  <2>ThreadTypes. ThreadTypes'
    BY <1>1 DEF ManagerInv, ShutdownBegin, ThreadTypes, HoldsNothing,
       HoldsQueued, HoldsAdmitted, HoldsHandedOver
  <2>FlagTypes. FlagTypes'
    BY <1>1 DEF ManagerInv, ShutdownBegin, FlagTypes
  <2>Hand. Hand'
    BY <1>1 DEF ManagerInv, ShutdownBegin, Hand, HoldsNothing
  <2>PoolsAccounted. PoolsAccounted'
    BY <1>1 DEF ManagerInv, ShutdownBegin, PoolsAccounted
  <2>types. DiskTypes' /\ QueueTypes' /\ SetTypes' /\ PoolTypes' /\ RunTypes'
    BY <1>1 DEF ManagerInv, ShutdownBegin, DiskTypes, QueueTypes, SetTypes,
       PoolTypes, RunTypes
  <2>rest. Distinct' /\ SlotsConserved' /\ SlotFree'
    BY <1>1 DEF ManagerInv, ShutdownBegin, Distinct, SlotsConserved, SlotFree
  <2>runs. OnePlace' /\ Futures' /\ Statuses'
    BY <1>1 DEF ManagerInv, ShutdownBegin, OnePlace, Futures, Statuses, Place,
       Future, Status, Pending, Started
  <2> QED BY <2>ThreadTypes, <2>FlagTypes, <2>Hand, <2>PoolsAccounted, <2>types,
     <2>rest, <2>runs DEF ManagerInv
<1>2. ASSUME ShutdownAbort PROVE ManagerInv'
  <2>ThreadTypes. ThreadTypes'
    BY <1>2 DEF ManagerInv, ShutdownAbort, ThreadTypes, HoldsNothing,
       HoldsQueued, HoldsAdmitted, HoldsHandedOver
  <2>FlagTypes. FlagTypes'
    BY <1>2 DEF ManagerInv, ShutdownAbort, FlagTypes
  <2>Hand. Hand'
    BY <1>2 DEF ManagerInv, ShutdownAbort, Hand, HoldsNothing
  <2>PoolsAccounted. PoolsAccounted'
    BY <1>2 DEF ManagerInv, ShutdownAbort, PoolsAccounted
  <2>types. DiskTypes' /\ QueueTypes' /\ SetTypes' /\ PoolTypes' /\ RunTypes'
    BY <1>2 DEF ManagerInv, ShutdownAbort, DiskTypes, QueueTypes, SetTypes,
       PoolTypes, RunTypes
  <2>rest. Distinct' /\ SlotsConserved' /\ SlotFree'
    BY <1>2 DEF ManagerInv, ShutdownAbort, Distinct, SlotsConserved, SlotFree
  <2>runs. OnePlace' /\ Futures' /\ Statuses'
    BY <1>2 DEF ManagerInv, ShutdownAbort, OnePlace, Futures, Statuses, Place,
       Future, Status, Pending, Started
  <2> QED BY <2>ThreadTypes, <2>FlagTypes, <2>Hand, <2>PoolsAccounted, <2>types,
     <2>rest, <2>runs DEF ManagerInv
<1>3. ASSUME ShutdownDrain, fifo = <<>> PROVE ManagerInv'
  <2>ThreadTypes. ThreadTypes'
    BY <1>3 DEF ManagerInv, ShutdownDrain, ThreadTypes, HoldsNothing,
       HoldsQueued, HoldsAdmitted, HoldsHandedOver
  <2>Hand. Hand'
    BY <1>3 DEF ManagerInv, ShutdownDrain, Hand, HoldsNothing
  <2>PoolsAccounted. PoolsAccounted'
    BY <1>3 DEF ManagerInv, ShutdownDrain, PoolsAccounted
  <2>types. DiskTypes' /\ QueueTypes' /\ SetTypes' /\ PoolTypes' /\ RunTypes'
    BY <1>3 DEF ManagerInv, ShutdownDrain, DiskTypes, QueueTypes, SetTypes,
       PoolTypes, RunTypes
  <2>flags. FlagTypes'
    BY <1>3 DEF ManagerInv, ShutdownDrain, FlagTypes
  <2>rest. Distinct' /\ SlotsConserved' /\ SlotFree'
    BY <1>3 DEF ManagerInv, ShutdownDrain, Distinct, SlotsConserved, SlotFree
  <2>runs. OnePlace' /\ Futures' /\ Statuses'
    BY <1>3 DEF ManagerInv, ShutdownDrain, OnePlace, Futures, Statuses, Place,
       Future, Status, Pending, Started
  <2> QED BY <2>ThreadTypes, <2>Hand, <2>PoolsAccounted, <2>types, <2>flags, <2>rest,
     <2>runs DEF ManagerInv
<1>4. ASSUME ShutdownDrain, fifo # <<>> PROVE ManagerInv'
  <2>a. /\ fifo' = Tail(fifo) /\ drained' = Append(drained, Head(fifo))
        /\ spc = "drain"
    BY <1>4 DEF ShutdownDrain
  <2>q. /\ Head(fifo) \in Runs /\ Head(fifo) \in ToSet(fifo)
        /\ fifo' \in Seq(Runs \cup {Stop}) /\ IsInjective(fifo')
        /\ ToSet(fifo') = ToSet(fifo) \ {Head(fifo)}
    BY <1>4, <2>a, QueueTail DEF ManagerInv, QueueTypes, Distinct, Hand
  <2>d. /\ drained' \in Seq(Runs) /\ IsInjective(drained')
        /\ ToSet(drained') = ToSet(drained) \cup {Head(fifo)}
    BY <2>a, <2>q, QueueAppend
       DEF ManagerInv, QueueTypes, Distinct, OnePlace, Place
  <2>QueueTypes. QueueTypes'
    BY <1>4, <2>q, <2>d DEF ManagerInv, ShutdownDrain, QueueTypes
  <2>Hand. Hand'
    BY <1>4, <2>q, <2>d DEF ManagerInv, ShutdownDrain, Hand, HoldsNothing
  <2>Distinct. Distinct'
    BY <1>4, <2>q, <2>d DEF ManagerInv, ShutdownDrain, Distinct
  <2>OnePlace. OnePlace'
    <3> SUFFICES ASSUME NEW r \in Runs PROVE Place(r)' BY DEF OnePlace
    <3>1. CASE r # Head(fifo)
      BY <1>4, <2>q, <2>d, <3>1 DEF ManagerInv, ShutdownDrain, OnePlace, Place,
         Statuses, Status, Pending
    <3>2. CASE r = Head(fifo)
      BY <1>4, <2>q, <2>d, <3>2 DEF ManagerInv, ShutdownDrain, OnePlace, Place,
         Statuses, Status, Pending
    <3> QED BY <3>1, <3>2
  <2>Statuses. Statuses'
    <3> SUFFICES ASSUME NEW r \in Runs PROVE Status(r)' BY DEF Statuses
    <3>1. CASE r # Head(fifo)
      BY <1>4, <2>q, <2>d, <3>1 DEF ManagerInv, ShutdownDrain, Statuses,
         Status, Pending, Started, Ended, HoldsQueued, HoldsAdmitted,
         HoldsHandedOver, OnePlace, Place
    <3>2. CASE r = Head(fifo)
      BY <1>4, <2>q, <2>d, <3>2 DEF ManagerInv, ShutdownDrain, Statuses,
         Status, Pending, Started, Ended, HoldsQueued, HoldsAdmitted,
         HoldsHandedOver, OnePlace, Place
    <3> QED BY <3>1, <3>2
  <2>types. DiskTypes' /\ SetTypes' /\ PoolTypes' /\ RunTypes' /\ ThreadTypes'
    BY <1>4 DEF ManagerInv, ShutdownDrain, DiskTypes, SetTypes, PoolTypes,
       RunTypes, ThreadTypes
  <2>flags. FlagTypes'
    BY <1>4 DEF ManagerInv, ShutdownDrain, FlagTypes
  <2>rest. SlotsConserved' /\ SlotFree' /\ PoolsAccounted'
    BY <1>4 DEF ManagerInv, ShutdownDrain, SlotsConserved, SlotFree,
       PoolsAccounted
  <2>runs. Futures'
    BY <1>4 DEF ManagerInv, ShutdownDrain, Futures, Future
  <2> QED BY <2>QueueTypes, <2>Hand, <2>Distinct, <2>OnePlace, <2>Statuses, <2>types,
     <2>flags, <2>rest, <2>runs DEF ManagerInv
<1>5. ASSUME ShutdownDrop, drained = <<>> PROVE ManagerInv'
  <2>ThreadTypes. ThreadTypes'
    BY <1>5 DEF ManagerInv, ShutdownDrop, ThreadTypes, HoldsNothing,
       HoldsQueued, HoldsAdmitted, HoldsHandedOver
  <2>Hand. Hand'
    BY <1>5 DEF ManagerInv, ShutdownDrop, Hand, HoldsNothing
  <2>PoolsAccounted. PoolsAccounted'
    BY <1>5 DEF ManagerInv, ShutdownDrop, PoolsAccounted
  <2>types. DiskTypes' /\ QueueTypes' /\ SetTypes' /\ PoolTypes' /\ RunTypes'
    BY <1>5 DEF ManagerInv, ShutdownDrop, DiskTypes, QueueTypes, SetTypes,
       PoolTypes, RunTypes
  <2>flags. FlagTypes'
    BY <1>5 DEF ManagerInv, ShutdownDrop, FlagTypes
  <2>rest. Distinct' /\ SlotsConserved' /\ SlotFree'
    BY <1>5 DEF ManagerInv, ShutdownDrop, Distinct, SlotsConserved, SlotFree
  <2>runs. OnePlace' /\ Futures' /\ Statuses'
    BY <1>5 DEF ManagerInv, ShutdownDrop, OnePlace, Futures, Statuses, Place,
       Future, Status, Pending, Started
  <2> QED BY <2>ThreadTypes, <2>Hand, <2>PoolsAccounted, <2>types, <2>flags, <2>rest,
     <2>runs DEF ManagerInv
<1>6. ASSUME ShutdownDrop, drained # <<>> PROVE ManagerInv'
  <2>a. drained' = Tail(drained) /\ DropQueued(Head(drained))
    BY <1>6 DEF ShutdownDrop
  <2>d. /\ Head(drained) \in Runs /\ Head(drained) \in ToSet(drained)
        /\ drained' \in Seq(Runs) /\ IsInjective(drained')
        /\ ToSet(drained') = ToSet(drained) \ {Head(drained)}
    BY <1>6, <2>a, QueueTail DEF ManagerInv, QueueTypes, Distinct
  <2>q. /\ queued' \in Seq(Runs) /\ IsInjective(queued')
        /\ ToSet(queued') = ToSet(queued) \ {Head(drained)}
    BY <2>a, QueueRemove DEF ManagerInv, QueueTypes, Distinct, DropQueued
  <2>DiskTypes. DiskTypes'
    BY <1>6, <2>d, <2>q DEF ManagerInv, ShutdownDrop, DiskTypes, DropQueued,
       SetStatus
  <2>QueueTypes. QueueTypes'
    BY <1>6, <2>d, <2>q DEF ManagerInv, ShutdownDrop, QueueTypes, DropQueued,
       SetStatus
  <2>SetTypes. SetTypes'
    BY <1>6, <2>d, <2>q DEF ManagerInv, ShutdownDrop, SetTypes, DropQueued,
       SetStatus
  <2>Distinct. Distinct'
    BY <1>6, <2>d, <2>q DEF ManagerInv, ShutdownDrop, Distinct, DropQueued,
       SetStatus
  <2>OnePlace. OnePlace'
    <3> SUFFICES ASSUME NEW r \in Runs PROVE Place(r)' BY DEF OnePlace
    <3>1. CASE r # Head(drained)
      BY <1>6, <2>d, <2>q, <3>1 DEF ManagerInv, ShutdownDrop, OnePlace, Place,
         DropQueued, SetStatus
    <3>2. CASE r = Head(drained)
      BY <1>6, <2>d, <2>q, <3>2 DEF ManagerInv, ShutdownDrop, OnePlace, Place,
         DropQueued, SetStatus
    <3> QED BY <3>1, <3>2
  <2>Statuses. Statuses'
    <3> PICK x \in Runs : x = Head(drained) BY <2>d
    <3> SUFFICES ASSUME NEW r \in Runs PROVE Status(r)' BY DEF Statuses
    <3>1. /\ cancelled' = cancelled \ {x}
          /\ ToSet(queued') = ToSet(queued) \ {x}
          /\ UNCHANGED <<sub, fifo, item, dpc, fin, inflight, stragglers>>
      BY <1>6, <2>q DEF ShutdownDrop, DropQueued
    <3>2. Pending(x) /\ meta[x] = IF x \in cancelled THEN "absent" ELSE "queued"
      BY <2>d DEF ManagerInv, Statuses, Status, Pending
    <3>3. meta' = IF x \in cancelled THEN meta ELSE [meta EXCEPT ![x] = "failed"]
      BY <1>6, <3>2 DEF ShutdownDrop, DropQueued, SetStatus
    <3>4. CASE r # x
      <4>1. meta'[r] = meta[r] BY <3>3, <3>4 DEF ManagerInv, DiskTypes
      <4>2. r \in ToSet(drained') <=> r \in ToSet(drained) BY <2>d, <3>4
      <4>3. Pending(r)' <=> Pending(r) BY <3>1, <4>2 DEF Pending
      <4>4. Started(r)' <=> Started(r) BY <3>1 DEF Started
      <4> QED BY <3>1, <3>4, <4>1, <4>3, <4>4 DEF ManagerInv, Statuses, Status
    <3>5. CASE r = x
      <4>1. ~ Pending(x)'
        BY <2>d, <3>1, <3>5 DEF ManagerInv, OnePlace, Place, Pending
      <4>2. meta'[x] = IF x \in cancelled THEN "absent" ELSE "failed"
        BY <3>2, <3>3, <3>5 DEF ManagerInv, DiskTypes
      <4>3. sub[x] # "idle" /\ sub[x] # "made" /\ ~ Started(x)
        BY <2>d, <3>2, <3>5 DEF ManagerInv, OnePlace, Place, Statuses, Status,
           Ended
      <4> QED BY <3>1, <3>5, <4>1, <4>2, <4>3
              DEF Status, Started, Ended
    <3> QED BY <3>4, <3>5
  <2>types. PoolTypes' /\ RunTypes' /\ ThreadTypes'
    BY <1>6 DEF ManagerInv, ShutdownDrop, PoolTypes, RunTypes, ThreadTypes
  <2>flags. FlagTypes'
    BY <1>6 DEF ManagerInv, ShutdownDrop, FlagTypes
  <2>rest. Hand' /\ SlotsConserved' /\ SlotFree' /\ PoolsAccounted'
    BY <1>6 DEF ManagerInv, ShutdownDrop, Hand, SlotsConserved, SlotFree,
       PoolsAccounted
  <2>runs. Futures'
    BY <1>6 DEF ManagerInv, ShutdownDrop, Futures, Future
  <2> QED BY <2>DiskTypes, <2>QueueTypes, <2>SetTypes, <2>Distinct, <2>OnePlace,
     <2>Statuses, <2>types, <2>flags, <2>rest, <2>runs DEF ManagerInv
<1>7. ASSUME ShutdownFlags PROVE ManagerInv'
  <2>SetTypes. SetTypes'
    BY <1>7 DEF ManagerInv, ShutdownFlags, SetTypes
  <2>ThreadTypes. ThreadTypes'
    BY <1>7 DEF ManagerInv, ShutdownFlags, ThreadTypes, HoldsNothing,
       HoldsQueued, HoldsAdmitted, HoldsHandedOver
  <2>Hand. Hand'
    BY <1>7 DEF ManagerInv, ShutdownFlags, Hand, HoldsNothing
  <2>PoolsAccounted. PoolsAccounted'
    BY <1>7 DEF ManagerInv, ShutdownFlags, PoolsAccounted
  <2>types. DiskTypes' /\ QueueTypes' /\ PoolTypes' /\ RunTypes'
    BY <1>7 DEF ManagerInv, ShutdownFlags, DiskTypes, QueueTypes, PoolTypes,
       RunTypes
  <2>flags. FlagTypes'
    BY <1>7 DEF ManagerInv, ShutdownFlags, FlagTypes
  <2>rest. Distinct' /\ SlotsConserved' /\ SlotFree'
    BY <1>7 DEF ManagerInv, ShutdownFlags, Distinct, SlotsConserved, SlotFree
  <2>runs. OnePlace' /\ Futures' /\ Statuses'
    BY <1>7 DEF ManagerInv, ShutdownFlags, OnePlace, Futures, Statuses, Place,
       Future, Status, Pending, Started
  <2> QED BY <2>SetTypes, <2>ThreadTypes, <2>Hand, <2>PoolsAccounted, <2>types,
     <2>flags, <2>rest, <2>runs DEF ManagerInv
<1>8. ASSUME ShutdownStop PROVE ManagerInv'
  <2>q. /\ fifo' \in Seq(Runs \cup {Stop}) /\ ToSet(fifo') = ToSet(fifo) \cup {Stop}
        /\ IsInjective(fifo')
    BY <1>8, QueueAppend DEF ManagerInv, QueueTypes, Distinct, Hand, ShutdownStop
  <2>QueueTypes. QueueTypes'
    BY <1>8, <2>q DEF ManagerInv, ShutdownStop, QueueTypes
  <2>ThreadTypes. ThreadTypes'
    BY <1>8, <2>q DEF ManagerInv, ShutdownStop, ThreadTypes, HoldsNothing,
       HoldsQueued, HoldsAdmitted, HoldsHandedOver
  <2>Hand. Hand'
    BY <1>8, <2>q DEF ManagerInv, ShutdownStop, Hand, HoldsNothing
  <2>Distinct. Distinct'
    BY <1>8, <2>q DEF ManagerInv, ShutdownStop, Distinct
  <2>OnePlace. OnePlace'
    <3> SUFFICES ASSUME NEW r \in Runs PROVE Place(r)' BY DEF OnePlace
    <3> QED
      BY <1>8, <2>q DEF ManagerInv, ShutdownStop, OnePlace, Place
  <2>Statuses. Statuses'
    <3> SUFFICES ASSUME NEW r \in Runs PROVE Status(r)' BY DEF Statuses
    <3> QED
      BY <1>8, <2>q DEF ManagerInv, ShutdownStop, Statuses, Status, Pending,
         Started, Ended, HoldsQueued, HoldsAdmitted, HoldsHandedOver
  <2>PoolsAccounted. PoolsAccounted'
    BY <1>8, <2>q DEF ManagerInv, ShutdownStop, PoolsAccounted
  <2>types. DiskTypes' /\ SetTypes' /\ PoolTypes' /\ RunTypes'
    BY <1>8 DEF ManagerInv, ShutdownStop, DiskTypes, SetTypes, PoolTypes,
       RunTypes
  <2>flags. FlagTypes'
    BY <1>8 DEF ManagerInv, ShutdownStop, FlagTypes
  <2>rest. SlotsConserved' /\ SlotFree'
    BY <1>8 DEF ManagerInv, ShutdownStop, SlotsConserved, SlotFree
  <2>runs. Futures'
    BY <1>8 DEF ManagerInv, ShutdownStop, Futures, Future
  <2> QED BY <2>QueueTypes, <2>ThreadTypes, <2>Hand, <2>Distinct, <2>OnePlace,
     <2>Statuses, <2>PoolsAccounted, <2>types, <2>flags, <2>rest, <2>runs DEF
     ManagerInv
<1>9. ASSUME ShutdownWaits PROVE ManagerInv'
  <2>ThreadTypes. ThreadTypes'
    BY <1>9 DEF ManagerInv, ShutdownWaits, ThreadTypes, HoldsNothing,
       HoldsQueued, HoldsAdmitted, HoldsHandedOver
  <2>Hand. Hand'
    BY <1>9 DEF ManagerInv, ShutdownWaits, Hand, HoldsNothing
  <2>PoolsAccounted. PoolsAccounted'
    BY <1>9 DEF ManagerInv, ShutdownWaits, PoolsAccounted
  <2>types. DiskTypes' /\ QueueTypes' /\ SetTypes' /\ PoolTypes' /\ RunTypes'
    BY <1>9 DEF ManagerInv, ShutdownWaits, DiskTypes, QueueTypes, SetTypes,
       PoolTypes, RunTypes
  <2>flags. FlagTypes'
    BY <1>9 DEF ManagerInv, ShutdownWaits, FlagTypes
  <2>rest. Distinct' /\ SlotsConserved' /\ SlotFree'
    BY <1>9 DEF ManagerInv, ShutdownWaits, Distinct, SlotsConserved, SlotFree
  <2>runs. OnePlace' /\ Futures' /\ Statuses'
    BY <1>9 DEF ManagerInv, ShutdownWaits, OnePlace, Futures, Statuses, Place,
       Future, Status, Pending, Started
  <2> QED BY <2>ThreadTypes, <2>Hand, <2>PoolsAccounted, <2>types, <2>flags, <2>rest,
     <2>runs DEF ManagerInv
<1>10. ASSUME KillForgets PROVE ManagerInv'
  <2>PoolTypes. PoolTypes'
    BY <1>10 DEF ManagerInv, KillForgets, PoolTypes
  <2>ThreadTypes. ThreadTypes'
    BY <1>10 DEF ManagerInv, KillForgets, ThreadTypes, HoldsNothing, HoldsQueued,
       HoldsAdmitted, HoldsHandedOver
  <2>Hand. Hand'
    BY <1>10 DEF ManagerInv, KillForgets, Hand, HoldsNothing
  <2>PoolsAccounted. PoolsAccounted'
    BY <1>10 DEF ManagerInv, KillForgets, PoolsAccounted, PoolTypes
  <2>types. DiskTypes' /\ QueueTypes' /\ SetTypes' /\ RunTypes'
    BY <1>10 DEF ManagerInv, KillForgets, DiskTypes, QueueTypes, SetTypes,
       RunTypes
  <2>flags. FlagTypes'
    BY <1>10 DEF ManagerInv, KillForgets, FlagTypes
  <2>rest. Distinct' /\ SlotsConserved' /\ SlotFree'
    BY <1>10 DEF ManagerInv, KillForgets, Distinct, SlotsConserved, SlotFree
  <2>runs. OnePlace' /\ Futures' /\ Statuses'
    BY <1>10 DEF ManagerInv, KillForgets, OnePlace, Futures, Statuses, Place,
       Future, Status, Pending, Started
  <2> QED BY <2>PoolTypes, <2>ThreadTypes, <2>Hand, <2>PoolsAccounted, <2>types,
     <2>flags, <2>rest, <2>runs DEF ManagerInv
<1>11. ASSUME KillShuts PROVE ManagerInv'
  <2>PoolTypes. PoolTypes'
    BY <1>11 DEF ManagerInv, KillShuts, PoolTypes, ShutPool
  <2>ThreadTypes. ThreadTypes'
    BY <1>11 DEF ManagerInv, KillShuts, ThreadTypes, HoldsNothing, HoldsQueued,
       HoldsAdmitted, HoldsHandedOver
  <2>Hand. Hand'
    BY <1>11 DEF ManagerInv, KillShuts, Hand, HoldsNothing
  <2>PoolsAccounted. PoolsAccounted'
    BY <1>11 DEF ManagerInv, KillShuts, PoolsAccounted, PoolTypes, ShutPool
  <2>types. DiskTypes' /\ QueueTypes' /\ SetTypes' /\ RunTypes'
    BY <1>11 DEF ManagerInv, KillShuts, DiskTypes, QueueTypes, SetTypes,
       RunTypes
  <2>flags. FlagTypes'
    BY <1>11 DEF ManagerInv, KillShuts, FlagTypes
  <2>rest. Distinct' /\ SlotsConserved' /\ SlotFree'
    BY <1>11 DEF ManagerInv, KillShuts, Distinct, SlotsConserved, SlotFree
  <2>runs. OnePlace' /\ Futures' /\ Statuses'
    BY <1>11 DEF ManagerInv, KillShuts, OnePlace, Futures, Statuses, Place,
       Future, Status, Pending, Started
  <2> QED BY <2>PoolTypes, <2>ThreadTypes, <2>Hand, <2>PoolsAccounted, <2>types,
     <2>flags, <2>rest, <2>runs DEF ManagerInv
<1>12. ASSUME KillTerminates PROVE ManagerInv'
  <2>PoolTypes. PoolTypes'
    BY <1>12 DEF ManagerInv, KillTerminates, PoolTypes
  <2>ThreadTypes. ThreadTypes'
    BY <1>12 DEF ManagerInv, KillTerminates, ThreadTypes, HoldsNothing, HoldsQueued,
       HoldsAdmitted, HoldsHandedOver
  <2>Hand. Hand'
    BY <1>12 DEF ManagerInv, KillTerminates, Hand, HoldsNothing
  <2>PoolsAccounted. PoolsAccounted'
    BY <1>12 DEF ManagerInv, KillTerminates, PoolsAccounted, PoolTypes
  <2>types. DiskTypes' /\ QueueTypes' /\ SetTypes' /\ RunTypes'
    BY <1>12 DEF ManagerInv, KillTerminates, DiskTypes, QueueTypes, SetTypes,
       RunTypes
  <2>flags. FlagTypes'
    BY <1>12 DEF ManagerInv, KillTerminates, FlagTypes
  <2>rest. Distinct' /\ SlotsConserved' /\ SlotFree'
    BY <1>12 DEF ManagerInv, KillTerminates, Distinct, SlotsConserved, SlotFree
  <2>runs. OnePlace' /\ Futures' /\ Statuses'
    BY <1>12 DEF ManagerInv, KillTerminates, OnePlace, Futures, Statuses, Place,
       Future, Status, Pending, Started
  <2> QED BY <2>PoolTypes, <2>ThreadTypes, <2>Hand, <2>PoolsAccounted, <2>types,
     <2>flags, <2>rest, <2>runs DEF ManagerInv
<1>13. ASSUME ShutdownCollect PROVE ManagerInv'
  <2>SetTypes. SetTypes'
    BY <1>13 DEF ManagerInv, ShutdownCollect, SetTypes
  <2>ThreadTypes. ThreadTypes'
    BY <1>13 DEF ManagerInv, ShutdownCollect, ThreadTypes, HoldsNothing,
       HoldsQueued, HoldsAdmitted, HoldsHandedOver
  <2>Hand. Hand'
    BY <1>13 DEF ManagerInv, ShutdownCollect, Hand, HoldsNothing
  <2>Statuses. Statuses'
    <3> SUFFICES ASSUME NEW r \in Runs PROVE Status(r)' BY DEF Statuses
    <3> QED
      BY <1>13 DEF ManagerInv, ShutdownCollect, Statuses, Status, Pending,
         Started, Ended, HoldsQueued, HoldsAdmitted, HoldsHandedOver
  <2>PoolsAccounted. PoolsAccounted'
    BY <1>13 DEF ManagerInv, ShutdownCollect, PoolsAccounted
  <2>types. DiskTypes' /\ QueueTypes' /\ PoolTypes' /\ RunTypes'
    BY <1>13 DEF ManagerInv, ShutdownCollect, DiskTypes, QueueTypes, PoolTypes,
       RunTypes
  <2>flags. FlagTypes'
    BY <1>13 DEF ManagerInv, ShutdownCollect, FlagTypes
  <2>rest. Distinct' /\ SlotsConserved' /\ SlotFree'
    BY <1>13 DEF ManagerInv, ShutdownCollect, Distinct, SlotsConserved,
       SlotFree
  <2>runs. OnePlace' /\ Futures'
    BY <1>13 DEF ManagerInv, ShutdownCollect, OnePlace, Futures, Place, Future
  <2> QED BY <2>SetTypes, <2>ThreadTypes, <2>Hand, <2>Statuses, <2>PoolsAccounted,
     <2>types, <2>flags, <2>rest, <2>runs DEF ManagerInv
<1>14. ASSUME ShutdownMark PROVE ManagerInv'
  <2>DiskTypes. DiskTypes'
    BY <1>14 DEF ManagerInv, ShutdownMark, DiskTypes, SetStatus, SetTypes
  <2>SetTypes. SetTypes'
    BY <1>14 DEF ManagerInv, ShutdownMark, SetTypes, SetStatus
  <2>ThreadTypes. ThreadTypes'
    BY <1>14 DEF ManagerInv, ShutdownMark, ThreadTypes, HoldsNothing,
       HoldsQueued, HoldsAdmitted, HoldsHandedOver, SetStatus
  <2>Hand. Hand'
    BY <1>14 DEF ManagerInv, ShutdownMark, Hand, HoldsNothing, SetStatus
  <2>Statuses. Statuses'
    <3> SUFFICES ASSUME NEW r \in Runs PROVE Status(r)' BY DEF Statuses
    <3>1. UNCHANGED <<queued, cancelled, sub, fifo, drained, item, dpc, fin, inflight>>
      BY <1>14 DEF ShutdownMark
    <3>2. CASE stragglers = {}
      BY <1>14, <3>1, <3>2 DEF ManagerInv, ShutdownMark, Statuses, Status,
         Pending, Started
    <3>3. CASE stragglers # {}
      <4>1. PICK x \in stragglers : /\ SetStatus(x, "failed", "shutdown")
                                    /\ stragglers' = stragglers \ {x}
        BY <1>14, <3>3 DEF ShutdownMark
      <4>2. x \in Runs /\ meta[x] \in {"running"} \cup Ended
        BY <4>1 DEF ManagerInv, SetTypes, Statuses, Status, Started
      <4>3. meta' = [meta EXCEPT ![x] = "failed"]
        BY <4>1, <4>2 DEF SetStatus, Ended
      <4>4. CASE r # x
        BY <3>1, <4>1, <4>2, <4>3, <4>4 DEF ManagerInv, DiskTypes, Statuses,
           Status, Pending, Started
      <4>5. CASE r = x
        BY <3>1, <4>1, <4>2, <4>3, <4>5 DEF ManagerInv, DiskTypes, Statuses,
           Status, Pending, Started, Ended
      <4> QED BY <4>4, <4>5
    <3> QED BY <3>2, <3>3
  <2>PoolsAccounted. PoolsAccounted'
    BY <1>14 DEF ManagerInv, ShutdownMark, PoolsAccounted, SetStatus
  <2>types. QueueTypes' /\ PoolTypes' /\ RunTypes'
    BY <1>14 DEF ManagerInv, ShutdownMark, QueueTypes, PoolTypes, RunTypes
  <2>flags. FlagTypes'
    BY <1>14 DEF ManagerInv, ShutdownMark, FlagTypes
  <2>rest. Distinct' /\ SlotsConserved' /\ SlotFree'
    BY <1>14 DEF ManagerInv, ShutdownMark, Distinct, SlotsConserved, SlotFree
  <2>runs. OnePlace' /\ Futures'
    BY <1>14 DEF ManagerInv, ShutdownMark, OnePlace, Futures, Place, Future
  <2> QED BY <2>DiskTypes, <2>SetTypes, <2>ThreadTypes, <2>Hand, <2>Statuses,
     <2>PoolsAccounted, <2>types, <2>flags, <2>rest, <2>runs DEF ManagerInv
<1> QED BY <1>1, <1>2, <1>3, <1>4, <1>5, <1>6, <1>7, <1>8, <1>9, <1>10, <1>11,
           <1>12, <1>13, <1>14 DEF Shutdown
-----------------------------------------------------------------------------
(* The inductive invariant, and what it implies. *)

\* The server starts with everything in place and every slot free.
LEMMA InitEstablishesInv == Init => ManagerInv
<1> SUFFICES ASSUME Init PROVE ManagerInv OBVIOUS
<1> USE RunsAssumption DEF Init
<1>1. DiskTypes /\ SetTypes /\ RunTypes
  BY BoundsAssumption DEF DiskTypes, SetTypes, RunTypes
<1>2. QueueTypes /\ Distinct
  BY EmptyQueue DEF QueueTypes, Distinct
<1>3. PoolTypes BY BoundsAssumption DEF PoolTypes
<1>4. ThreadTypes BY DEF ThreadTypes, HoldsNothing
<1>5. FlagTypes BY DEF FlagTypes
<1>6. ToSet(queued) = {} /\ ToSet(fifo) = {} /\ ToSet(drained) = {}
  BY EmptyQueue
<1>7. Hand BY <1>6 DEF Hand, HoldsNothing, DispatcherServes
<1>8. OnePlace /\ Futures
  BY <1>6 DEF OnePlace, Place, Futures, Future, HoldsHandedOver
<1>9. Statuses BY <1>6 DEF Statuses, Status, Pending, Started
<1>10. SlotsConserved
  <2>1. {r \in Runs : fin[r] \in Unreleased} = {} BY DEF Unreleased, Finalizing
  <2>2. dpc \notin HoldsSlot BY DEF HoldsSlot
  <2>3. Cardinality({r \in Runs : fin[r] \in Unreleased}) = 0
    BY <2>1, FS_EmptySet
  <2>4. MaxWorkers \in Nat BY BoundsAssumption
  <2> QED BY <2>2, <2>3, <2>4 DEF SlotsConserved
<1>11. SlotFree /\ PoolsAccounted BY DEF SlotFree, PoolsAccounted
<1> QED BY <1>1, <1>2, <1>3, <1>4, <1>5, <1>7, <1>8, <1>9, <1>10, <1>11 DEF ManagerInv

\* After a crash the next server finds ended or forgotten runs only.
LEMMA CrashKeepsInv ==
    ASSUME ManagerInv, CrashAndBoot
    PROVE  ManagerInv'
<1> USE RunsAssumption DEF CrashAndBoot, FreshMemory, RepairStaleMeta
<1>1. DiskTypes' BY DEF ManagerInv, DiskTypes
<1>2. SetTypes' BY BoundsAssumption DEF ManagerInv, SetTypes
<1>3. RunTypes' BY DEF ManagerInv, RunTypes
<1>4. QueueTypes' /\ Distinct' BY EmptyQueue DEF QueueTypes, Distinct
<1>5. PoolTypes' BY BoundsAssumption DEF ManagerInv, PoolTypes
<1>6. ThreadTypes' BY DEF ThreadTypes, HoldsNothing
<1>7. FlagTypes' BY DEF FlagTypes
<1>8. ToSet(queued') = {} /\ ToSet(fifo') = {} /\ ToSet(drained') = {}
  BY EmptyQueue
<1>9. Hand' BY <1>8 DEF Hand, HoldsNothing, DispatcherServes
<1>10. OnePlace' /\ Futures'
  BY <1>8 DEF OnePlace, Place, Futures, Future, HoldsHandedOver
<1>11. Statuses'
  <2> SUFFICES ASSUME NEW r \in Runs PROVE Status(r)' BY DEF Statuses
  <2>1. meta'[r] # "queued" /\ meta'[r] # "running"
    BY DEF ManagerInv, DiskTypes, Live
  <2>2. sub'[r] = "idle" => meta'[r] = "absent"
    BY DEF ManagerInv, Statuses, Status, Live
  <2>3. sub'[r] # "made" /\ ~ Pending(r)' /\ ~ Started(r)'
    BY <1>8 DEF Pending, Started
  <2> QED BY <1>8, <2>1, <2>2, <2>3 DEF Status
<1>12. SlotsConserved'
  <2>1. {r \in Runs : fin'[r] \in Unreleased} = {} BY DEF Unreleased, Finalizing
  <2>2. dpc' \notin HoldsSlot BY DEF HoldsSlot
  <2>3. Cardinality({r \in Runs : fin'[r] \in Unreleased}) = 0
    BY <2>1, FS_EmptySet
  <2>4. MaxWorkers \in Nat BY BoundsAssumption
  <2> QED BY <2>2, <2>3, <2>4 DEF SlotsConserved
<1>13. SlotFree' /\ PoolsAccounted' BY DEF SlotFree, PoolsAccounted
<1> QED BY <1>1, <1>2, <1>3, <1>4, <1>5, <1>6, <1>7, <1>9, <1>10, <1>11,
           <1>12, <1>13 DEF ManagerInv

\* Every step keeps the invariant.
LEMMA NextKeepsInv == ManagerInv /\ [Next]_vars => ManagerInv'
<1> SUFFICES ASSUME ManagerInv, [Next]_vars PROVE ManagerInv' OBVIOUS
<1>1. CASE Client BY <1>1, ClientKeepsInv
<1>2. CASE Dispatcher BY <1>2, DispatcherKeepsInv
<1>3. CASE Shutdown BY <1>3, ShutdownKeepsInv
<1>4. CASE CrashAndBoot BY <1>4, CrashKeepsInv
<1>5. CASE \E r \in Runs : Worker(r) BY <1>5, PoolsKeepInv
<1>6. CASE \E r \in Runs : Finalizer(r) BY <1>6, FinalizerKeepsInv
<1>7. CASE \E p \in Pools : KillWorker(p) \/ Reap(p) BY <1>7, PoolsKeepInv
<1>8. CASE UNCHANGED vars
  <2> USE <1>8 DEF vars, diskVars, mgrVars, stopVars, poolVars, futVars,
          dispVars, finVars, shutVars, boundVars, DispatcherServes
  <2>1. DiskTypes' /\ QueueTypes' /\ SetTypes' /\ PoolTypes' /\ RunTypes' /\ ThreadTypes'
    BY DEF ManagerInv, DiskTypes, QueueTypes, SetTypes, PoolTypes, RunTypes,
       ThreadTypes
  <2>2. FlagTypes' BY DEF ManagerInv, FlagTypes
  <2>3. Hand' /\ Distinct' /\ OnePlace' /\ Futures'
    BY DEF ManagerInv, Hand, Distinct, OnePlace, Place, Futures, Future
  <2>4. Statuses' BY DEF ManagerInv, Statuses, Status, Pending, Started
  <2>5. SlotsConserved' /\ SlotFree' /\ PoolsAccounted'
    BY DEF ManagerInv, SlotsConserved, SlotFree, PoolsAccounted
  <2> QED BY <2>1, <2>2, <2>3, <2>4, <2>5 DEF ManagerInv
<1> QED BY <1>1, <1>2, <1>3, <1>4, <1>5, <1>6, <1>7, <1>8 DEF Next

\* ManagerInv holds in every state the server can reach.
THEOREM ManagerInvHolds == Spec => []ManagerInv
BY InitEstablishesInv, NextKeepsInv, PTL DEF Spec
-----------------------------------------------------------------------------
(* The properties of the runs, for every value of the constants. *)

\* The slots held by the runs and by the dispatcher are natural numbers that
\* leave at most max_workers to be free.
LEMMA SlotBound ==
    ASSUME ManagerInv
    PROVE  slots \in 0 .. MaxWorkers
<1> DEFINE n == Cardinality({r \in Runs : fin[r] \in Unreleased})
           d == IF dpc \in HoldsSlot THEN 1 ELSE 0
<1>1. n \in Nat BY SlotHolders
<1>2. d \in Nat OBVIOUS
<1>3. slots \in Nat /\ slots + n + d = MaxWorkers
  BY DEF ManagerInv, SetTypes, SlotsConserved
<1> HIDE DEF n, d
<1> QED BY <1>1, <1>2, <1>3, BoundsAssumption

\* Every variable of the run manager stays in its type: in particular the
\* semaphore never counts above max_workers (runs.py:1995-2122).
THEOREM RunManagerTypes == Spec => []TypeOK
<1>1. ManagerInv => TypeOK
  <2> SUFFICES ASSUME ManagerInv PROVE TypeOK OBVIOUS
  <2>1. /\ meta \in [Runs -> {"absent", "bare", "queued", "running", "done", "failed"}]
        /\ error \in [Runs -> {"none", "restart", "shutdown", "start", "pool died",
                               "cancel", "run failed"}]
    BY DEF ManagerInv, DiskTypes
  <2>2. /\ queued \in Seq(Runs) /\ fifo \in Seq(Runs \cup {Stop})
        /\ drained \in Seq(Runs \cup {Stop})
    <3>1. queued \in Seq(Runs) /\ fifo \in Seq(Runs \cup {Stop}) /\ drained \in Seq(Runs)
      BY DEF ManagerInv, QueueTypes
    <3>2. Runs \subseteq Runs \cup {Stop} OBVIOUS
    <3> QED BY <3>1, <3>2, SeqMonotonic
  <2>3. slots \in 0 .. MaxWorkers BY SlotBound
  <2> QED BY <2>1, <2>2, <2>3 DEF TypeOK, ManagerInv, SetTypes, PoolTypes,
             RunTypes, ThreadTypes, FlagTypes, HoldsNothing, HoldsQueued,
             HoldsAdmitted, HoldsHandedOver
<1> QED BY <1>1, ManagerInvHolds, PTL

\* A worker slot is never leaked and never released twice, whichever way a
\* run leaves the dispatcher or its future (runs.py:1995-2045, 2110-2122).
THEOREM SlotsAreConserved == Spec => []SlotsConserved
<1>1. ManagerInv => SlotsConserved BY DEF ManagerInv
<1> QED BY <1>1, ManagerInvHolds, PTL

\* meta.json says queued exactly of the runs in _queued, and _queued lists
\* none of them twice (runs.py:1295-1312, 1645-1658, 2010-2018, 2056-2067).
THEOREM QueueAgreesWithMeta == Spec => []QueuedIffListed
<1>1. ManagerInv => QueuedIffListed
  <2> SUFFICES ASSUME ManagerInv PROVE QueuedIffListed OBVIOUS
  <2>1. \A r \in Runs : meta[r] = "queued" <=> r \in ToSet(queued)
    BY DEF ManagerInv, Statuses, Status
  <2>2. Cardinality(ToSet(queued)) = Len(queued)
    BY QueueCount DEF ManagerInv, QueueTypes, Distinct
  <2> QED BY <2>1, <2>2 DEF QueuedIffListed
<1> QED BY <1>1, ManagerInvHolds, PTL

\* Every live run is with a thread that has still to deal with it: a queued one
\* with its submission, with shutdown or with a dispatcher that has not got its
\* sentinel, a running one with the dispatcher or a callback to come; only a run
\* that is put behind the sentinel of shutdown may have nobody (runs.py:1288-1313,
\* 1999-2169).
THEOREM LiveRunsHaveOwners == Spec => []LiveRunHasOwner
<1>1. ManagerInv => LiveRunHasOwner
  <2> SUFFICES ASSUME ManagerInv, NEW r \in Runs
               PROVE  /\ meta[r] = "queued" =>
                           \/ sub[r] = "published" \/ item = r \/ r \in ToSet(drained)
                           \/ r \in ToSet(fifo) /\ (DispatcherServes \/ SentinelPut)
                      /\ meta[r] = "running" =>
                           \/ item = r
                           \/ fin[r] = "waiting" /\ fut[r] \notin Settled
                           \/ fin[r] \in {"result", "leave", "record"}
      BY DEF LiveRunHasOwner
  <2>1. meta[r] = "queued" => Pending(r) BY DEF ManagerInv, Statuses, Status
  <2>2. fin[r] = "waiting" => fut[r] \notin Settled
    BY DEF ManagerInv, Futures, Future, Settled
  <2>3. meta[r] = "running" => item = r \/ fin[r] \in {"waiting", "result", "leave", "record"}
    BY DEF ManagerInv, Statuses, Status
  <2>4. DispatcherServes \/ SentinelPut
    BY DEF ManagerInv, Hand, ThreadTypes, SentinelPut
  <2> QED BY <2>1, <2>2, <2>3, <2>4 DEF Pending
<1> QED BY <1>1, ManagerInvHolds, PTL

\* A pool that could take work is the current one or on its way to the reaper,
\* and none is left or built once _kill_pool has run (runs.py:1960-1994).
THEOREM PoolsAreAccounted == Spec => []PoolsAccounted
<1>1. ManagerInv => PoolsAccounted BY DEF ManagerInv
<1> QED BY <1>1, ManagerInvHolds, PTL

\* No more than max_workers runs are shown as running: each of them holds a
\* slot, or is the refused one whose slot has just been given back.
THEOREM RunningRunsHoldSlots == Spec => []RunningWithinWorkers
<1>1. ManagerInv => RunningWithinWorkers
  <2> SUFFICES ASSUME ManagerInv PROVE RunningWithinWorkers OBVIOUS
  <2> DEFINE S == {r \in Runs : fin[r] \in Unreleased}
             R == {r \in Runs : meta[r] = "running"}
             inHand == dpc \in HoldsAdmitted \cup HoldsHandedOver
  <2>1. IsFiniteSet(S) /\ Cardinality(S) \in Nat BY SlotHolders
  <2>2. /\ slots \in Nat /\ MaxWorkers \in Nat
        /\ slots + Cardinality(S) + (IF dpc \in HoldsSlot THEN 1 ELSE 0) = MaxWorkers
    BY BoundsAssumption DEF ManagerInv, SetTypes, SlotsConserved
  <2>3. IsFiniteSet(S \cup {item}) /\ Cardinality(S \cup {item}) <= Cardinality(S) + 1
        /\ Cardinality(S \cup {item}) \in Nat
    BY <2>1, FS_AddElement, FS_CardinalityType
  <2>4. CASE inHand
    <3>1. R \subseteq S \cup {item}
      BY DEF ManagerInv, Statuses, Status, Unreleased, Finalizing
    <3>2. Cardinality(R) <= Cardinality(S \cup {item}) /\ Cardinality(R) \in Nat
      BY <2>3, <3>1, FS_Subset, FS_CardinalityType
    <3>3. dpc \in HoldsSlot \/ slots > 0
      BY <2>4 DEF ManagerInv, SlotFree, HoldsSlot, HoldsAdmitted, HoldsHandedOver
    <3> HIDE DEF S, R
    <3>4. Cardinality(R) <= MaxWorkers BY <2>1, <2>2, <2>3, <3>2, <3>3
    <3> QED BY <3>4 DEF RunningWithinWorkers, R
  <2>5. CASE ~ inHand
    <3>1. R \subseteq S
      BY <2>5 DEF ManagerInv, Statuses, Status, Unreleased, Finalizing
    <3>2. Cardinality(R) <= Cardinality(S) /\ Cardinality(R) \in Nat
      BY <2>1, <3>1, FS_Subset, FS_CardinalityType
    <3> HIDE DEF S, R
    <3>3. Cardinality(R) <= MaxWorkers BY <2>1, <2>2, <3>2
    <3> QED BY <3>3 DEF RunningWithinWorkers, R
  <2> QED BY <2>4, <2>5
<1> QED BY <1>1, ManagerInvHolds, PTL

\* What a step may do to the status of a run.
MovesForward(r) ==
    /\ meta[r] \in Ended => meta'[r] \in Ended
    /\ meta[r] = "running" => meta'[r] \in {"running"} \cup Ended
    /\ meta'[r] = "absent" => meta[r] \in {"absent", "queued"}

\* Writing an ended status to a queued or started run moves it forward.
LEMMA SetStatusMovesForward ==
    ASSUME DiskTypes, NEW x \in Runs, NEW s, NEW why, SetStatus(x, s, why),
           \/ s = "running" /\ meta[x] = "queued"
           \/ s \in Ended /\ meta[x] \in {"queued", "running"} \cup Ended,
           NEW r \in Runs
    PROVE  MovesForward(r)
<1>1. meta' = [meta EXCEPT ![x] = s] BY DEF SetStatus, Ended
<1>2. CASE r = x BY <1>1, <1>2 DEF DiskTypes, MovesForward, Ended
<1>3. CASE r # x BY <1>1, <1>3 DEF DiskTypes, MovesForward
<1> QED BY <1>2, <1>3

\* A step changes the status of a run only along the moves a status may make.
LEMMA StepMovesForward ==
    ASSUME ManagerInv, [Next]_vars, NEW r \in Runs
    PROVE  MovesForward(r)
<1> USE RunsAssumption
<1>1. CASE meta' = meta BY <1>1 DEF MovesForward, Ended
<1>2. ASSUME NEW x \in Runs, SubmitCheck(x) PROVE MovesForward(r)
  <2>1. sub[x] = "idle" /\ meta[x] = "absent"
    BY <1>2 DEF ManagerInv, SubmitCheck, Statuses, Status
  <2> QED BY <1>1, <1>2, <2>1
          DEF ManagerInv, DiskTypes, SubmitCheck, MovesForward, Ended
<1>3. ASSUME NEW x \in Runs, SubmitPublish(x) PROVE MovesForward(r)
  <2>1. meta[x] = "bare"
    BY <1>3 DEF ManagerInv, SubmitPublish, Statuses, Status
  <2> QED BY <1>3, <2>1
          DEF ManagerInv, DiskTypes, SubmitPublish, MovesForward, Ended
<1>4. ASSUME NEW x \in Runs, Delete(x) PROVE MovesForward(r)
  BY <1>4 DEF ManagerInv, DiskTypes, Delete, MovesForward, Ended
<1>5. CASE Admission
  <2>1. item \in Runs
    BY <1>5 DEF ManagerInv, Hand, ThreadTypes, HoldsNothing, Admission
  <2>2. CASE meta' # meta
    <3>1. item \notin cancelled /\ SetStatus(item, "running", "none") /\ dpc = "admit"
      BY <1>5, <2>2 DEF Admission, diskVars
    <3>2. meta[item] = "queued"
      BY <2>1, <3>1 DEF ManagerInv, Statuses, Status, Pending, HoldsQueued
    <3> QED BY <2>1, <3>1, <3>2, SetStatusMovesForward DEF ManagerInv
  <2> QED BY <1>1, <2>2
<1>6. ASSUME NEW x \in Runs, Pending(x), DropQueued(x) PROVE MovesForward(r)
  <2>1. CASE x \in cancelled BY <1>1, <1>6, <2>1 DEF DropQueued, diskVars
  <2>2. CASE x \notin cancelled
    <3>1. meta[x] = "queued" BY <1>6, <2>2 DEF ManagerInv, Statuses, Status
    <3>2. SetStatus(x, "failed", "shutdown") BY <1>6, <2>2 DEF DropQueued
    <3> QED BY <3>1, <3>2, SetStatusMovesForward DEF ManagerInv, Ended
  <2> QED BY <2>1, <2>2
<1>7. CASE DispatcherDrops
  <2>1. item \in Runs /\ dpc = "drop"
    BY <1>7 DEF ManagerInv, Hand, ThreadTypes, HoldsNothing, DispatcherDrops
  <2> QED BY <1>6, <1>7, <2>1 DEF DispatcherDrops, Pending, HoldsQueued
<1>8. CASE FailRefused
  <2>1. item \in Runs /\ dpc \in {"failRefused", "failDied"}
    BY <1>8 DEF ManagerInv, Hand, ThreadTypes, HoldsNothing, FailRefused
  <2>2. meta[item] \in {"running"} \cup Ended
    BY <2>1 DEF ManagerInv, Statuses, Status, Started, HoldsQueued
  <2>3. PICK why : SetStatus(item, "failed", why) BY <1>8 DEF FailRefused
  <2> QED BY <2>1, <2>2, <2>3, SetStatusMovesForward DEF ManagerInv, Ended
<1>9. CASE ShutdownDrop
  <2>1. CASE drained = <<>> BY <1>1, <1>9, <2>1 DEF ShutdownDrop, diskVars
  <2>2. CASE drained # <<>>
    <3>1. Head(drained) \in Runs /\ Pending(Head(drained))
      BY <2>2, QueueTail DEF ManagerInv, QueueTypes, Pending
    <3> QED BY <1>6, <1>9, <2>2, <3>1 DEF ShutdownDrop
  <2> QED BY <2>1, <2>2
<1>10. CASE ShutdownMark
  <2>1. CASE meta' # meta
    <3>1. PICK x \in stragglers : SetStatus(x, "failed", "shutdown")
      BY <1>10, <2>1 DEF ShutdownMark, diskVars
    <3>2. x \in Runs /\ meta[x] \in {"running"} \cup Ended
      BY DEF ManagerInv, SetTypes, Statuses, Status, Started
    <3> QED BY <3>1, <3>2, SetStatusMovesForward DEF ManagerInv, Ended
  <2> QED BY <1>1, <2>1
<1>11. ASSUME NEW x \in Runs, FinRecord(x) PROVE MovesForward(r)
  <2>1. meta[x] \in {"running"} \cup Ended
    BY <1>11 DEF ManagerInv, Statuses, Status, Started, FinRecord
  <2>2. PICK s \in Ended, why \in {"none", WhyFailed(x)} : SetStatus(x, s, why)
    BY <1>11 DEF FinRecord, Ended
  <2> QED BY <2>1, <2>2, SetStatusMovesForward DEF ManagerInv
<1>12. CASE CrashAndBoot
  BY <1>12 DEF ManagerInv, DiskTypes, CrashAndBoot, RepairStaleMeta,
     MovesForward, Live, Ended
<1>13. CASE Client
  BY <1>1, <1>2, <1>3, <1>4, <1>13 DEF Client, SubmitPut, CancelRead,
     CancelRequest, CancelFlag, diskVars
<1>14. CASE Dispatcher
  BY <1>1, <1>5, <1>7, <1>8, <1>14 DEF Dispatcher, Get, AcquireSlot, EnsurePool,
     BuildPool, SubmitToPool, DispatcherForgets, ReleaseRefused, Register,
     AddCallback, InlineDone, diskVars
<1>15. CASE Shutdown
  BY <1>1, <1>9, <1>10, <1>15 DEF Shutdown, ShutdownBegin, ShutdownAbort,
     ShutdownDrain, ShutdownFlags, ShutdownStop, ShutdownWaits, KillForgets,
     KillShuts, KillTerminates, ShutdownCollect, diskVars
<1>16. ASSUME NEW x \in Runs, Worker(x) \/ Finalizer(x) PROVE MovesForward(r)
  BY <1>1, <1>11, <1>16 DEF Worker, ChildStarts, ChildReturns, ChildLost,
     FutureCancelled, Settle, Finalizer, FinResult, FinLeave, FinRelease, diskVars
<1>17. ASSUME NEW p \in Pools, KillWorker(p) \/ Reap(p) PROVE MovesForward(r)
  BY <1>1, <1>17 DEF KillWorker, Reap, diskVars
<1>18. CASE UNCHANGED vars BY <1>1, <1>18 DEF vars, diskVars
<1> QED BY <1>12, <1>13, <1>14, <1>15, <1>16, <1>17, <1>18 DEF Next

\* The status of a run only moves forward, across every interleaving, a
\* shutdown and a crash of the server (runs.py:1190-1240, 1288-2169).
THEOREM StatusNeverMovesBack == Spec => StatusMovesForward
<1>1. ManagerInv /\ [Next]_vars =>
        [\A r \in Runs :
           /\ meta[r] \in Ended => meta'[r] \in Ended
           /\ meta[r] = "running" => meta'[r] \in {"running"} \cup Ended
           /\ meta'[r] = "absent" => meta[r] \in {"absent", "queued"}]_meta
  BY StepMovesForward DEF MovesForward
<1> QED BY <1>1, ManagerInvHolds, PTL DEF Spec, StatusMovesForward
=============================================================================
