------------------------------ MODULE JobLife ------------------------------
(***************************************************************************)
(* What the engine promises about the life of a job, whatever the scheduler *)
(* and the fleet do: the states of class JobStatus (model.py), the moves    *)
(* between them, and that durable work only grows, at most up to the job's  *)
(* length, and only when the job leaves its chips.  Several jobs may move   *)
(* in one step (a node failure requeues every resident).                    *)
(***************************************************************************)
EXTENDS Integers

CONSTANTS Jobs, Length    \* Length[j]: the work job j consists of

VARIABLES life, work

vars == <<life, work>>

States == {"new", "queued", "running", "leaving", "completed", "over"}

Init == life = [j \in Jobs |-> "new"] /\ work = [j \in Jobs |-> 0]

\* Admission queues a new job or refuses it for good.
Submit(j) == life[j] = "new" /\ life'[j] \in {"queued", "over"}

Start(j) == life[j] = "queued" /\ life'[j] = "running"

\* A requeueing preemption gives notice; the chips stay held.
Notice(j) == life[j] = "running" /\ life'[j] = "leaving"

Stay(j) == life'[j] = life[j]

\* Leaving the chips, for the queue or for good, keeps some of the work.
Leave(j) ==
    /\ life[j] \in {"running", "leaving"}
    /\ life'[j] \in {"queued", "over"}
    /\ work[j] <= work'[j] /\ work'[j] <= Length[j]

\* Only a running job completes, and it has then done all of its work.
Complete(j) ==
    life[j] = "running" /\ life'[j] = "completed" /\ work'[j] = Length[j]

\* A queued job expires.
Expire(j) == life[j] = "queued" /\ life'[j] = "over"

Step(j) ==
    \/ Leave(j) \/ Complete(j)
    \/ /\ Submit(j) \/ Start(j) \/ Notice(j) \/ Expire(j) \/ Stay(j)
       /\ work'[j] = work[j]

Next ==
    /\ life' \in [Jobs -> States] /\ work' \in [Jobs -> Nat]
    /\ \A j \in Jobs : Step(j)

Spec == Init /\ [][Next]_vars
=============================================================================
