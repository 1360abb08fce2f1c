---------------------------- MODULE MCLiveSpool ----------------------------
(* A job on two domains beside a job on one of them.                       *)
EXTENDS LiveSpool

MCShare == [j \in {1, 2} |-> IF j = 1 THEN {1, 2} ELSE {1}]
=============================================================================
