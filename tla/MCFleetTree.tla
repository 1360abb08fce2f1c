---------------------------- MODULE MCFleetTree ----------------------------
(* A cluster with two racks of two leaves of different sizes.              *)
EXTENDS FleetSearch

CONSTANTS t1, t2

TenantSymmetry == Permutations(Tenant)

\* 1 is the cluster, 2 and 3 are racks, the others leaves; 0 is no domain.
MCParent == [d \in 1 .. 7 |-> CASE d = 1 -> 0 [] d \in 2 .. 3 -> 1
                              [] d \in 4 .. 5 -> 2 [] OTHER -> 3]
MCLevel == [d \in 1 .. 7 |-> CASE d = 1 -> "cluster" [] d \in 2 .. 3 -> "rack"
                             [] OTHER -> "node"]
MCChips == [l \in 4 .. 7 |-> CASE l = 6 -> 3 [] l = 7 -> 1 [] OTHER -> 2]
MCType == [l \in 4 .. 7 |-> 1]

Whole(S) == [nodes |-> S, chips |-> 0, whole |-> TRUE]
Part(l, n) == [nodes |-> {l}, chips |-> n, whole |-> FALSE]
MCGangs == {Whole({4}), Whole({5, 6}), Part(4, 1), Part(6, 1), Part(6, 2)}

Plain(chips, within) ==
  [chips |-> chips, type |-> 0, within |-> within, perSegment |-> 0,
   segmentLevel |-> "rack"]
Segmented(chips, per) ==
  [Plain(chips, "any") EXCEPT !.perSegment = per]
MCSpecs == {Plain(n, "any") : n \in {1, 2, 4, 5, 6}}
             \cup {Plain(n, "rack") : n \in {2, 3}}
             \cup {Segmented(4, 1), Segmented(4, 2)}
=============================================================================
