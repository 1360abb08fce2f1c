---------------------------- MODULE MCScheduling ----------------------------
(* A cluster with a rack of two leaves and a rack of one, two chips each.  *)
EXTENDS Scheduling

\* 1 is the cluster, 2 and 3 are racks, the others leaves; 0 is no domain.
MCParent == [d \in 1 .. 6 |-> CASE d = 1 -> 0 [] d \in 2 .. 3 -> 1
                              [] d \in 4 .. 5 -> 2 [] OTHER -> 3]
MCLevel == [d \in 1 .. 6 |-> CASE d = 1 -> "cluster" [] d \in 2 .. 3 -> "rack"
                             [] OTHER -> "node"]
MCChips == [l \in 4 .. 6 |-> 2]
MCType == [l \in 4 .. 6 |-> 1]

Profile(chips, within, est, work) ==
  [spec |-> [chips |-> chips, type |-> 1, within |-> within, perSegment |-> 0,
             segmentLevel |-> "rack"],
   required |-> FALSE, relaxAfter |-> 2, tier |-> 1, preemptible |-> TRUE,
   guarded |-> FALSE, est |-> est, work |-> work, segments |-> 0]

Exact == [policy |-> "easy_backfill", mode |-> "first_fit", fungible |-> TRUE,
          timed |-> TRUE, round |-> 1, cap |-> 0, evict |-> "requeue", slow |-> 1,
          profiles |-> {Profile(2, "any", 1, 1), Profile(2, "any", 2, 2),
                        Profile(2, "any", 4, 4), Profile(4, "any", 1, 1)}]

\* Estimates that are exact, too long or missing; a rack of 4 chips to wait
\* for, for two ticks; a gang over all nodes; placements over two racks at
\* half speed.
Honest == [Exact EXCEPT !.fungible = FALSE, !.round = 2, !.slow = 2,
          !.profiles = {Profile(2, "any", 3, 1), Profile(2, "any", 0, 2),
                        Profile(4, "any", 3, 3), Profile(4, "rack", 2, 1),
                        Profile(6, "any", 1, 1)}]

\* Three bands; the highest comes in two segments, a node each.
Low(chips) == Profile(chips, "any", 0, 1)
Guarded == [Low(2) EXCEPT !.guarded = TRUE]
Mid == [Profile(4, "rack", 0, 1) EXCEPT !.tier = 2, !.required = TRUE]
High == [Profile(4, "any", 0, 1) EXCEPT !.tier = 3, !.preemptible = FALSE,
           !.spec.perSegment = 1, !.segments = 2]

Tiered(profiles) ==
  [Exact EXCEPT !.policy = "tiered_priority", !.fungible = FALSE, !.timed = FALSE,
                !.cap = 4, !.profiles = profiles]

MCScenarios ==
  {Exact, Honest, Tiered({Guarded, Mid, High}),
   [Tiered({Low(2), Mid}) EXCEPT !.cap = 1],
   [Tiered({Low(1), Mid, High}) EXCEPT !.evict = "cancel", !.mode = "best_fit"]}

(* A rack of one node and a rack of six, one chip each.                    *)
SpanParent == [d \in 1 .. 10 |-> CASE d = 1 -> 0 [] d \in 2 .. 3 -> 1
                                 [] d = 4 -> 2 [] OTHER -> 3]
SpanLevel == [d \in 1 .. 10 |-> CASE d = 1 -> "cluster" [] d \in 2 .. 3 -> "rack"
                                [] OTHER -> "node"]
SpanChips == [l \in 4 .. 10 |-> 1]
SpanType == [l \in 4 .. 10 |-> 1]

\* Exact estimates; three gangs want a rack, one takes nodes of both.
InRack(chips, work) ==
  [Profile(chips, "rack", work, work) EXCEPT !.required = TRUE]
SpanScenarios ==
  {[Exact EXCEPT !.fungible = FALSE,
      !.profiles = {InRack(2, 2), InRack(2, 4), InRack(4, 1),
                    Profile(2, "any", 2, 2), Profile(1, "any", 3, 3)}]}
=============================================================================
