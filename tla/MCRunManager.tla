---------------------------- MODULE MCRunManager ----------------------------
(* Instances of the run manager for TLC. *)
EXTENDS RunManager

CONSTANTS r1, r2, r3

NoRuns == {}
OneRun == {r1}
TwoRuns == {r1, r2}
ThreeRuns == {r1, r2, r3}
=============================================================================
