---------------------------- MODULE WorkspaceLock ----------------------------
(***************************************************************************)
(* One server per workspace (serve/runs.py): several server processes boot, *)
(* take workspace/.serve.lock, repair the metas a dead server left, serve,  *)
(* shut down or are killed, in any interleaving.                            *)
(*                                                                          *)
(* A process has a pid of its own and boots once.  The lock file is named   *)
(* after the process that created it; unlinking it only frees the path, so  *)
(* a process that still holds a descriptor writes its pid to a file nobody  *)
(* can read.  One action is one system call.  A server has one run; a       *)
(* handler thread that submits it goes on as long as its process lives,     *)
(* through shutdown and beyond the release of the lock.                     *)
(***************************************************************************)
EXTENDS FiniteSets, Integers

CONSTANTS
    Servers,    \* server processes, named by their pids
    Recycled    \* pids that the liveness probe finds although their server is
                \* dead: reused by the system, or any pid without POSIX

NoFile == "no_file"
Leftover == "leftover"     \* a lock of an earlier crash: dead pid or unparseable

ASSUME ServersAssumption ==
    Recycled \subseteq Servers /\ NoFile \notin Servers /\ Leftover \notin Servers

VARIABLES
    pc,          \* where the process is
    attempt,     \* the loop counter of _acquire_workspace_lock
    file,        \* what is at the path .serve.lock
    written,     \* written[s]: the file that s created holds its pid
    run,         \* run[s]: what s knows of the run that a client submits to it
    meta,        \* meta[s]: the same run in its meta.json, live (queued or
                 \* running), ended or repaired
    pid,         \* what s has read from the lock, NoFile for nothing
    todo,        \* metas that the boot repair of s has not visited
    stale,       \* the meta that it has read as live and not yet rewritten
    overlapped   \* history: two processes were taking the lock at once

vars == <<pc, attempt, file, written, pid, run, meta, todo, stale, overlapped>>

Taking == {"create", "read", "probe", "unlink", "write"}
Owning == {"repair", "serving", "stopping"}
Alive(s) == pc[s] \in Taking \cup Owning \cup {"released"}

Init ==
    /\ pc = [s \in Servers |-> "off"] /\ attempt = [s \in Servers |-> 1]
    /\ file \in {NoFile, Leftover}
    /\ written = [s \in Servers |-> FALSE]
    /\ pid = [s \in Servers |-> NoFile]
    /\ run = [s \in Servers |-> "none"] /\ meta = [s \in Servers |-> "none"]
    /\ todo = [s \in Servers |-> {}] /\ stale = [s \in Servers |-> {}]
    /\ overlapped = FALSE

Boot(s) ==
    /\ pc[s] = "off"
    /\ pc' = [pc EXCEPT ![s] = "create"]
    /\ overlapped' = (overlapped \/ \E t \in Servers : pc[t] \in Taking)
    /\ UNCHANGED <<attempt, file, written, pid, run, meta, todo, stale>>

\* os.open with O_CREAT | O_EXCL: the file is there before its content.
Create(s) ==
    /\ pc[s] = "create"
    /\ IF file = NoFile
       THEN file' = s /\ pc' = [pc EXCEPT ![s] = "write"]
       ELSE pc' = [pc EXCEPT ![s] = "read"] /\ UNCHANGED file
    /\ UNCHANGED <<attempt, written, pid, run, meta, todo, stale, overlapped>>

\* _read_lock_pid: a lock that is gone, or has no pid yet, reads as None.
Read(s) ==
    /\ pc[s] = "read"
    /\ pid' = [pid EXCEPT ![s] = IF file \in Servers /\ written[file] THEN file
                                ELSE NoFile]
    /\ pc' = [pc EXCEPT ![s] = IF pid'[s] = NoFile THEN "unlink" ELSE "probe"]
    /\ UNCHANGED <<attempt, file, written, run, meta, todo, stale, overlapped>>

\* Mutant of PidAlive: whatever is there is taken for stale.
NeverAlive(p) == FALSE

\* _pid_alive
PidAlive(p) == Alive(p) \/ p \in Recycled

Probe(s) ==
    /\ pc[s] = "probe"
    /\ pc' = [pc EXCEPT ![s] = IF PidAlive(pid[s]) THEN "refused" ELSE "unlink"]
    /\ UNCHANGED <<attempt, file, written, pid, run, meta, todo, stale, overlapped>>

\* Mutants of Unlink: the retry is missing; the retry is not bounded.
UnlinkAndGiveUp(s) ==
    /\ pc[s] = "unlink"
    /\ file' = NoFile
    /\ pc' = [pc EXCEPT ![s] = "refused"]
    /\ UNCHANGED <<attempt, written, pid, run, meta, todo, stale, overlapped>>
UnlinkForever(s) ==
    /\ pc[s] = "unlink"
    /\ file' = NoFile
    /\ attempt' = [attempt EXCEPT ![s] = @ + 1]
    /\ pc' = [pc EXCEPT ![s] = "create"]
    /\ UNCHANGED <<written, pid, run, meta, todo, stale, overlapped>>

\* The stale lock is removed, whatever is at the path by now; the second time
\* the server gives up.
Unlink(s) ==
    /\ pc[s] = "unlink"
    /\ file' = NoFile
    /\ IF attempt[s] = 1
       THEN /\ attempt' = [attempt EXCEPT ![s] = 2]
            /\ pc' = [pc EXCEPT ![s] = "create"]
       ELSE /\ pc' = [pc EXCEPT ![s] = "refused"]
            /\ UNCHANGED attempt
    /\ UNCHANGED <<written, pid, run, meta, todo, stale, overlapped>>

\* The pid reaches the file when it is closed; then the boot repair begins.
Write(s) ==
    /\ pc[s] = "write"
    /\ written' = [written EXCEPT ![s] = TRUE]
    /\ pc' = [pc EXCEPT ![s] = "repair"]
    /\ todo' = [todo EXCEPT ![s] = Servers]
    /\ UNCHANGED <<attempt, file, pid, run, meta, stale, overlapped>>

\* _repair_stale_meta visits the metas of the workspace one by one: it reads
RepairRead(s, r) ==
    /\ pc[s] = "repair" /\ r \in todo[s] /\ stale[s] = {}
    /\ todo' = [todo EXCEPT ![s] = @ \ {r}]
    /\ stale' = [stale EXCEPT ![s] = IF meta[r] = "live" THEN {r} ELSE {}]
    /\ UNCHANGED <<pc, attempt, file, written, pid, run, meta, overlapped>>

\* and rewrites one that is queued or running.
RepairWrite(s, r) ==
    /\ pc[s] = "repair" /\ r \in stale[s]
    /\ stale' = [stale EXCEPT ![s] = @ \ {r}]
    /\ meta' = [meta EXCEPT ![r] = "repaired"]
    /\ UNCHANGED <<pc, attempt, file, written, pid, run, todo, overlapped>>

\* Mutant of Serve: the server opens while its boot repair goes on.
ServeBeforeRepaired(s) ==
    /\ pc[s] = "repair"
    /\ pc' = [pc EXCEPT ![s] = "serving"]
    /\ UNCHANGED <<attempt, file, written, pid, run, meta, todo, stale, overlapped>>

Serve(s) ==
    /\ pc[s] = "repair" /\ todo[s] = {} /\ stale[s] = {}
    /\ pc' = [pc EXCEPT ![s] = "serving"]
    /\ UNCHANGED <<attempt, file, written, pid, run, meta, todo, stale, overlapped>>

\* submit() looks at _shutdown in one hold of the server's lock
SubmitCheck(s) ==
    /\ pc[s] = "serving" /\ run[s] = "none"
    /\ run' = [run EXCEPT ![s] = "checked"]
    /\ UNCHANGED <<pc, attempt, file, written, pid, meta, todo, stale, overlapped>>

\* and writes "queued" in another, without looking again.
SubmitPublish(s) ==
    /\ Alive(s) /\ run[s] = "checked"
    /\ run' = [run EXCEPT ![s] = IF pc[s] = "released" THEN "late" ELSE "queued"]
    /\ meta' = [meta EXCEPT ![s] = "live"]
    /\ UNCHANGED <<pc, attempt, file, written, pid, todo, stale, overlapped>>

\* The dispatcher writes "running", whatever is there, unless _abort is set
\* (as shutdown does soon after it began).
Admit(s) ==
    /\ pc[s] \in {"serving", "stopping"} /\ run[s] = "queued"
    /\ run' = [run EXCEPT ![s] = "running"]
    /\ meta' = [meta EXCEPT ![s] = "live"]
    /\ UNCHANGED <<pc, attempt, file, written, pid, todo, stale, overlapped>>

\* The run ends, is dropped or is deleted; the waits of shutdown are bounded,
\* so a dispatcher or a callback may come to that after the release.
EndRun(s) ==
    /\ Alive(s) /\ run[s] \in {"queued", "running"}
    /\ run' = [run EXCEPT ![s] = "ended"]
    /\ meta' = [meta EXCEPT ![s] = "ended"]
    /\ UNCHANGED <<pc, attempt, file, written, pid, todo, stale, overlapped>>

\* shutdown() begins: no submission passes the check any more. It fails the
\* runs it finds (EndRun)
Shutdown(s) ==
    /\ pc[s] = "serving"
    /\ pc' = [pc EXCEPT ![s] = "stopping"]
    /\ UNCHANGED <<attempt, file, written, pid, run, meta, todo, stale, overlapped>>

\* and last unlinks the path; the process is still there.
Release(s) ==
    /\ pc[s] = "stopping"
    /\ file' = NoFile
    /\ pc' = [pc EXCEPT ![s] = "released"]
    /\ UNCHANGED <<attempt, written, pid, run, meta, todo, stale, overlapped>>

\* The process is killed, or exits after its shutdown; its threads go with it.
Crash(s) ==
    /\ Alive(s)
    /\ pc' = [pc EXCEPT ![s] = "dead"]
    /\ UNCHANGED <<attempt, file, written, pid, run, meta, todo, stale, overlapped>>

Next ==
    \E s \in Servers :
      \/ Boot(s) \/ Create(s) \/ Read(s) \/ Probe(s) \/ Unlink(s) \/ Write(s)
      \/ \E r \in Servers : RepairRead(s, r) \/ RepairWrite(s, r)
      \/ Serve(s) \/ SubmitCheck(s) \/ SubmitPublish(s) \/ Admit(s) \/ EndRun(s)
      \/ Shutdown(s) \/ Release(s) \/ Crash(s)

Spec == Init /\ [][Next]_vars
-----------------------------------------------------------------------------
(* Properties. *)

\* The type invariant.
TypeOK ==
    /\ pc \in [Servers -> {"off", "refused", "released", "dead"}
                        \cup Taking \cup Owning]
    /\ attempt \in [Servers -> 1 .. 2]
    /\ file \in Servers \cup {NoFile, Leftover}
    /\ written \in [Servers -> BOOLEAN]
    /\ pid \in [Servers -> Servers \cup {NoFile}]
    /\ run \in [Servers -> {"none", "checked", "queued", "running", "ended", "late"}]
    /\ meta \in [Servers -> {"none", "live", "ended", "repaired"}]
    /\ todo \in [Servers -> SUBSET Servers]
    /\ stale \in [Servers -> SUBSET Servers]
    /\ overlapped \in BOOLEAN

\* "ONE SERVER PER WORKSPACE": as long as no two processes were taking the lock
\* at the same time, at most one owns the workspace, through any crashes,
\* reclaims, restarts and shutdowns.
OneServerUnlessOverlapped ==
    ~ overlapped =>
      \A s, t \in Servers : pc[s] \in Owning /\ pc[t] \in Owning => s = t

\* Boot repair ends what the servers before have left: a run that is live in
\* the workspace of a serving server is its own, or one of a server that had
\* shut down before the submission was published (then nobody executes the run
\* and nobody repairs it before the next boot). A crash or a shutdown at any
\* other moment, an earlier submission or a late callback leaves nothing live.
LiveRunsAreServed ==
    ~ overlapped =>
      \A s, r \in Servers : pc[s] = "serving" /\ meta[r] = "live" =>
                             r = s \/ run[r] = "late"

\* "A lock left behind by a crashed process is reclaimed automatically": a
\* server that takes the lock alone is refused only on the pid of a process that
\* owns the workspace or has only just released it, or on a pid that has been
\* given to another process.
NoFalseRefusal ==
    [][ \A s \in Servers :
          pc[s] # "refused" /\ pc'[s] = "refused" /\ ~ overlapped =>
            \/ \E t \in Servers : pid[s] = t /\ pc[t] \in Owning \cup {"released"}
            \/ pid[s] \in Recycled ]_vars

\* "Repairing another live server's queued/running meta is exactly the
\* corruption the lock exists to prevent" (RunManager.__init__).
RepairSparesTheLiving ==
    [][ \A r \in Servers : pc[r] = "serving" => ~ (meta[r] # "repaired"
                                                   /\ meta'[r] = "repaired") ]_vars
=============================================================================
