------------------------------ MODULE MCEngine ------------------------------
(* Small instances of Engine. *)
EXTENDS Engine, TLC

CONSTANTS j1, j2, j3, j4, j5, n1, n2, u1, u2

Plain == [submit |-> 0, valid |-> TRUE, chips |-> 1, tier |-> 1,
          tenant |-> u1, preemptible |-> TRUE, spot |-> FALSE,
          minRuntime |-> 0, total |-> 3, interval |-> 0, save |-> 0,
          overhead |-> 0, final |-> "COMPLETED", validUntil |-> None, lifetime |-> None]

\* Failures and drains: a checkpointing gang over both nodes, which a demoted
\* sub-node job shares the fleet with.
FailJob == (j1 :> [Plain EXCEPT !.chips = 4, !.total = 5, !.interval = 3,
                                !.overhead = 1, !.save = 1])
        @@ (j2 :> [Plain EXCEPT !.total = 2, !.tier = 2, !.submit = 1,
                                !.tenant = u2, !.lifetime = 5])
FailArrivals == <<j1, j2>>
FailForced == {Ev(4, "FORCED_DRAIN", n1), Ev(5, "FORCED_FAILURE", n1)}
FailCap == (u1 :> None) @@ (u2 :> 0)

\* Admission, expiry, preemption: three jobs compete for one node.
QueueJob == (j1 :> [Plain EXCEPT !.chips = 2, !.total = 2, !.interval = 1,
                                 !.minRuntime = 1, !.lifetime = 5,
                                 !.save = 1])
         @@ (j2 :> [Plain EXCEPT !.chips = 2, !.tier = 2, !.submit = 1, !.total = 2,
                                 !.validUntil = 4, !.tenant = u2])
         @@ (j3 :> [Plain EXCEPT !.spot = TRUE, !.save = 2, !.total = 1])
         @@ (j4 :> [Plain EXCEPT !.submit = 2, !.valid = FALSE])
         @@ (j5 :> [Plain EXCEPT !.submit = 3, !.chips = 2, !.tenant = u2,
                                 !.final = "NODE_FAIL"])
QueueArrivals == <<j1, j2, j4, j5>>
QueueCap == (u1 :> 3) @@ (u2 :> 3)

=============================================================================
