------------------------- MODULE WorkspaceLockProofs -------------------------
(***************************************************************************)
(* What the workspace lock guarantees when the attempts to take it do not   *)
(* overlap, for any number of server processes, crashes and restarts.       *)
(***************************************************************************)
EXTENDS WorkspaceLock, TLAPS

\* Between two attempts, the file at the path is the owner's; a server that
\* has read a pid has read the owner's, one that is about to unlink the path has
\* no owner to fear, and finds nothing there when it retries.
Serialized ==
    /\ \A s, t \in Servers : pc[s] \in Taking /\ pc[t] \in Taking => s = t
    /\ \A s \in Servers : pc[s] \in Owning \cup {"write"} => file = s
    /\ \A s, t \in Servers : pc[s] = "probe" /\ pc[t] \in Owning => pid[s] = t
    /\ \A s, t \in Servers : pc[s] = "unlink" => pc[t] \notin Owning
    /\ \A s \in Servers : pc[s] \in {"read", "probe", "unlink"} => attempt[s] = 1
    /\ \A s \in Servers : pc[s] = "create" /\ attempt[s] = 2 => file = NoFile

\* Boot repair leaves no live run of another server behind, but those that are
\* published after their server has released the lock.
RepairProgress ==
    /\ \A s, r \in Servers :
         pc[s] = "repair" /\ meta[r] = "live" =>
           r \in todo[s] \/ r \in stale[s] \/ run[r] = "late"
    /\ \A s, r \in Servers :
         pc[s] = "serving" /\ meta[r] = "live" => r = s \/ run[r] = "late"

LockInv ==
    /\ TypeOK
    /\ \A s \in Servers : pc[s] = "off" => attempt[s] = 1
    /\ \A s \in Servers : pc[s] \in Owning => written[s]
    /\ \A s \in Servers : written[s] => pc[s] \in Owning \cup {"released", "dead"}
    /\ \A s \in Servers :
         run[s] # "none" => pc[s] \in {"serving", "stopping", "released", "dead"}
    /\ \A s \in Servers : pc[s] = "probe" => pid[s] \in Servers /\ written[pid[s]]
    /\ ~ overlapped => Serialized /\ RepairProgress

LEMMA InitLock == Init => LockInv
  <1> SUFFICES ASSUME Init PROVE LockInv
    OBVIOUS
  <1>1. TypeOK
    <2>1. /\ written \in [Servers -> BOOLEAN] /\ overlapped \in BOOLEAN
          /\ todo \in [Servers -> SUBSET Servers]
          /\ stale \in [Servers -> SUBSET Servers]
      BY DEF Init
    <2>2. /\ attempt \in [Servers -> 1 .. 2]
          /\ file \in Servers \cup {NoFile, Leftover}
      BY DEF Init
    <2>3. /\ pc \in [Servers -> {"off", "refused", "released", "dead"}
                                 \cup Taking \cup Owning]
          /\ run \in [Servers -> {"none", "checked", "queued", "running",
                                  "ended", "late"}]
          /\ meta \in [Servers -> {"none", "live", "ended", "repaired"}]
      BY DEF Init
    <2>4. pid \in [Servers -> Servers \cup {NoFile}]
      BY DEF Init
    <2>. QED
      BY <2>1, <2>2, <2>3, <2>4 DEF TypeOK
  <1>2. \A s \in Servers : pc[s] = "off" /\ attempt[s] = 1 /\ run[s] = "none"
    BY DEF Init
  <1>3. Serialized /\ RepairProgress
    BY <1>2 DEF Serialized, RepairProgress, Taking, Owning
  <1>4. \A s \in Servers : ~ written[s]
    BY DEF Init
  <1>. QED
    BY <1>1, <1>2, <1>3, <1>4 DEF LockInv, Owning

LEMMA StepLock ==
    ASSUME LockInv, Next
    PROVE  LockInv'
  <1> USE DEF LockInv, TypeOK, Taking, Owning
  <1>1. PICK s \in Servers :
           \/ Boot(s) \/ Create(s) \/ Read(s) \/ Probe(s) \/ Unlink(s) \/ Write(s)
           \/ \E r \in Servers : RepairRead(s, r) \/ RepairWrite(s, r)
           \/ Serve(s) \/ SubmitCheck(s) \/ SubmitPublish(s) \/ Admit(s) \/ EndRun(s)
           \/ Shutdown(s) \/ Release(s) \/ Crash(s)
    BY DEF Next
  <1>2. CASE Boot(s)
    <2>1. TypeOK' /\ attempt'[s] = 1
      BY <1>2 DEF Boot
    <2>2. \A t \in Servers : t # s => pc'[t] = pc[t]
      BY <1>2 DEF Boot
    <2>3. pc'[s] = "create" /\ ~ written[s]
      BY <1>2 DEF Boot
    <2>4. ~ overlapped' => ~ overlapped /\ \A t \in Servers : pc[t] \notin Taking
      BY <1>2 DEF Boot
    <2>5. UNCHANGED <<attempt, file, written, pid, run, meta, todo, stale>>
      BY <1>2 DEF Boot
    <2>6. ~ overlapped' => Serialized'
      BY <2>1, <2>2, <2>3, <2>4, <2>5 DEF Serialized
    <2>7. ~ overlapped' => RepairProgress'
      BY <2>2, <2>3, <2>4, <2>5 DEF RepairProgress
    <2>8. run[s] = "none"
      BY <1>2 DEF Boot
    <2>. QED
      BY <2>1, <2>2, <2>3, <2>5, <2>6, <2>7, <2>8
  <1>3. CASE Create(s)
    BY <1>3, ServersAssumption DEF Create, Serialized, RepairProgress,
       ServersAssumption
  <1>4. CASE Read(s)
    <2>1. CASE file \in Servers /\ written[file]
      <3>1. pid' = [pid EXCEPT ![s] = file] /\ pc' = [pc EXCEPT ![s] = "probe"]
        <4>1. pid' = [pid EXCEPT ![s] = file]
          BY <1>4, <2>1 DEF Read
        <4>2. pid'[s] # NoFile
          BY <2>1, <4>1, ServersAssumption DEF ServersAssumption
        <4>. QED
          BY <1>4, <4>1, <4>2 DEF Read
      <3>. QED
        BY <1>4, <2>1, <3>1 DEF Read, Serialized, RepairProgress
    <2>2. CASE ~ (file \in Servers /\ written[file])
      <3>1. pid' = [pid EXCEPT ![s] = NoFile] /\ pc' = [pc EXCEPT ![s] = "unlink"]
        BY <1>4, <2>2 DEF Read
      <3>. QED
        BY <1>4, <2>2, <3>1 DEF Read, Serialized, RepairProgress
    <2>. QED
      BY <2>1, <2>2
  <1>14. CASE Probe(s)
    <2>1. CASE PidAlive(pid[s])
      <3>1. pc' = [pc EXCEPT ![s] = "refused"]
        BY <1>14, <2>1 DEF Probe
      <3>. QED
        BY <1>14, <3>1 DEF Probe, Serialized, RepairProgress
    <2>2. CASE ~ PidAlive(pid[s])
      <3>1. pc' = [pc EXCEPT ![s] = "unlink"]
        BY <1>14, <2>2, Zenon DEF Probe
      <3>2. ~ overlapped => \A t \in Servers : pc[t] \notin Owning
        BY <1>14, <2>2 DEF Probe, PidAlive, Alive, Serialized
      <3>. QED
        BY <1>14, <3>1, <3>2 DEF Probe, Serialized, RepairProgress
    <2>. QED
      BY <2>1, <2>2
  <1>5. CASE Unlink(s)
    BY <1>5, ServersAssumption
       DEF Unlink, Serialized, RepairProgress, ServersAssumption
  <1>6. CASE Write(s)
    BY <1>6 DEF Write, Serialized, RepairProgress
  <1>7. ASSUME NEW r \in Servers, RepairRead(s, r) PROVE LockInv'
    BY <1>7 DEF RepairRead, Serialized, RepairProgress
  <1>15. ASSUME NEW r \in Servers, RepairWrite(s, r) PROVE LockInv'
    BY <1>15 DEF RepairWrite, Serialized, RepairProgress
  <1>8. CASE Serve(s)
    BY <1>8 DEF Serve, Serialized, RepairProgress
  <1>9. CASE SubmitCheck(s)
    BY <1>9 DEF SubmitCheck, Serialized, RepairProgress
  <1>16. CASE SubmitPublish(s)
    <2>1. pc[s] \in {"serving", "stopping", "released"}
      BY <1>16 DEF SubmitPublish, Alive
    <2>2. ~ overlapped => RepairProgress'
      <3>1. CASE pc[s] = "released"
        BY <1>16, <3>1 DEF SubmitPublish, RepairProgress
      <3>2. CASE pc[s] # "released"
        <4>1. ~ overlapped => \A t \in Servers : pc[t] \in Owning => t = s
          BY <2>1, <3>2, ServersAssumption DEF Serialized
        <4>. QED
          BY <1>16, <2>1, <4>1 DEF SubmitPublish, RepairProgress
      <3>. QED
        BY <3>1, <3>2
    <2>. QED
      BY <1>16, <2>1, <2>2 DEF SubmitPublish, Serialized
  <1>17. CASE Admit(s)
    <2>1. ~ overlapped => \A t \in Servers : pc[t] \in Owning => t = s
      BY <1>17, ServersAssumption DEF Admit, Serialized
    <2>. QED
      BY <1>17, <2>1 DEF Admit, Serialized, RepairProgress
  <1>10. CASE EndRun(s)
    BY <1>10 DEF EndRun, Serialized, RepairProgress
  <1>11. CASE Shutdown(s)
    BY <1>11 DEF Shutdown, Serialized, RepairProgress
  <1>12. CASE Release(s)
    BY <1>12, ServersAssumption
       DEF Release, Serialized, RepairProgress, ServersAssumption
  <1>13. CASE Crash(s)
    BY <1>13 DEF Crash, Alive, Serialized, RepairProgress
  <1>. QED
    BY <1>1, <1>2, <1>3, <1>4, <1>5, <1>6, <1>7, <1>8, <1>9, <1>10, <1>11,
       <1>12, <1>13, <1>14, <1>15, <1>16, <1>17

LEMMA LockInvariant == Spec => []LockInv
  <1>1. LockInv /\ [Next]_vars => LockInv'
    <2>1. LockInv /\ UNCHANGED vars => LockInv'
      BY DEF vars, LockInv, TypeOK, Serialized, RepairProgress, Taking, Owning
    <2>. QED
      BY <2>1, StepLock
  <1>. QED
    BY <1>1, InitLock, PTL DEF Spec

\* The records of the lock have their types for any number of processes, and
\* none takes more than the two attempts of _acquire_workspace_lock.
THEOREM LockTypes == Spec => []TypeOK
  <1>1. LockInv => TypeOK
    BY DEF LockInv
  <1>. QED
    BY <1>1, LockInvariant, PTL

\* For any number of server processes, at most one owns the workspace as long
\* as no two attempts to take the lock overlap, whatever crashes and reclaims
\* came before.
THEOREM OneServer == Spec => []OneServerUnlessOverlapped
  <1>1. LockInv => OneServerUnlessOverlapped
    BY DEF LockInv, Serialized, OneServerUnlessOverlapped
  <1>. QED
    BY <1>1, LockInvariant, PTL

\* Under the same condition no run that a server had published before it let the
\* lock go survives the boot of the next one, whether the server crashed or shut
\* down, and with whatever submissions and callbacks of it still under way: what
\* is live belongs to the server that serves, or was published after the release.
THEOREM BootRepairs == Spec => []LiveRunsAreServed
  <1>1. LockInv => LiveRunsAreServed
    BY DEF LockInv, RepairProgress, LiveRunsAreServed
  <1>. QED
    BY <1>1, LockInvariant, PTL

Refusal ==
    \A s \in Servers :
      pc[s] # "refused" /\ pc'[s] = "refused" /\ ~ overlapped =>
        \/ \E t \in Servers : pid[s] = t /\ pc[t] \in Owning \cup {"released"}
        \/ pid[s] \in Recycled

\* For any number of processes and any reuse of pids: a server that
\* takes the lock alone is refused only on the pid of a process that owns the
\* workspace or has just released it, or on a dead pid that has been given to
\* another process.
THEOREM RefusedByOwner == Spec => NoFalseRefusal
  <1>1. LockInv /\ [Next]_vars => [Refusal]_vars
    <2> SUFFICES ASSUME LockInv, Next, NEW s \in Servers,
                        pc[s] # "refused", pc'[s] = "refused", ~ overlapped
                 PROVE  \/ \E t \in Servers : /\ pid[s] = t
                                               /\ pc[t] \in Owning \cup {"released"}
                        \/ pid[s] \in Recycled
      BY DEF Refusal
    <2>1. Probe(s) \/ Unlink(s)
      BY DEF LockInv, TypeOK, Next, Boot, Create, Read, Probe, Unlink, Write,
             RepairRead, RepairWrite, Serve, SubmitCheck, SubmitPublish, Admit,
             EndRun, Shutdown, Release, Crash
    <2>2. CASE Probe(s)
      <3>1. PidAlive(pid[s])
        <4> SUFFICES ASSUME ~ PidAlive(pid[s]) PROVE FALSE
          OBVIOUS
        <4>1. pc' = [pc EXCEPT ![s] = "unlink"]
          BY <2>2, Zenon DEF Probe
        <4>2. pc'[s] = "unlink"
          BY <4>1 DEF LockInv, TypeOK
        <4>. QED
          BY <4>2
      <3>2. pid[s] \in Servers /\ pc[pid[s]] \in Owning \cup {"released", "dead"}
        BY <2>2 DEF LockInv, Probe
      <3>. QED
        BY <3>1, <3>2 DEF PidAlive, Alive, Taking, Owning
    <2>3. CASE Unlink(s)
      BY <2>3 DEF LockInv, TypeOK, Serialized, Unlink
    <2>. QED
      BY <2>1, <2>2, <2>3
  <1>2. [Refusal]_vars <=>
          [\A s \in Servers :
             pc[s] # "refused" /\ pc'[s] = "refused" /\ ~ overlapped =>
               \/ \E t \in Servers : pid[s] = t /\ pc[t] \in Owning \cup {"released"}
               \/ pid[s] \in Recycled]_vars
    BY DEF Refusal
  <1>. QED
    BY <1>1, <1>2, LockInvariant, PTL DEF Spec, NoFalseRefusal
=============================================================================
