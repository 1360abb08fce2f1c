---------------------------- MODULE FleetSearch ----------------------------
(***************************************************************************)
(* The placement searches of fleet/tree.py over the state of FleetTree:    *)
(* first fit, the packed modes (best_fit, consolidate, spread), segmented  *)
(* gangs, and search_after_release, which plans an eviction by making it   *)
(* and taking it back.  The searches change nothing, so they are operators *)
(* of the state; the properties compare what they answer with what apply   *)
(* accepts and with each other.                                            *)
(***************************************************************************)
EXTENDS FleetTree, SequencesExt

CONSTANTS
  Level,    \* level of each domain
  AnyLevel, \* no constraint: the cluster roots are searched
  AnyType,  \* no chip type pinned
  Roots,    \* the cluster roots
  Specs     \* gang specs to search for

Modes == {"first_fit", "best_fit", "consolidate", "spread"}

(***************************************************************************)
(* A spec is [chips, type, within, perSegment, segmentLevel]; perSegment   *)
(* is 0 for a gang without segments.                                       *)
(*                                                                         *)
(* The ids of domains are paths (build.py), so a parent comes before its   *)
(* children in their order; levels descend and have different names        *)
(* (config.py refuses a duplicate), and every leaf belongs to one cluster. *)
(* Chip types are numbered in the order of their names.                    *)
(***************************************************************************)
SearchAssumption ==
  /\ Domain \subseteq Nat
  /\ NoDomain \notin Domain
  /\ \A d \in Domain : Parent[d] # NoDomain => Parent[d] \in Domain /\ Parent[d] < d
  /\ \A d \in Domain : \A e \in Above[d] : Level[e] = Level[d] => e = d
  /\ Roots \subseteq Domain
  /\ \A l \in Leaf : Cardinality(Above[l] \cap Roots) = 1
  /\ \A l \in Leaf : ChipType[l] \in Int
  /\ \A spec \in Specs : spec.chips \in Nat \ {0} /\ spec.perSegment \in Nat

ASSUME SearchAssumption

\* A placement is the leaves taken, the chips taken of each when it shares a
\* leaf, its anchor, and how many segments each domain hosts.
Placement(leaves, chips, whole, anchor, segments) ==
  [leaves |-> leaves, chips |-> chips, whole |-> whole, anchor |-> anchor,
   segments |-> segments]

NoFit == Placement({}, 0, FALSE, NoDomain, << >>)

ToGang(p) == [nodes |-> p.leaves, chips |-> p.chips, whole |-> p.whole]

\* Elements of S by ascending key, ties by ascending id: <<key, id>> is
\* sorted, and the i-th has i - 1 before it.
Before(p, q) == p[1] < q[1] \/ (p[1] = q[1] /\ p[2] < q[2])
Sorted(P) ==
  [i \in 1 .. Cardinality(P) |->
     CHOOSE p \in P : Cardinality({q \in P : Before(q, p)}) = i - 1]

By(S, key) ==
  LET sorted == Sorted({<<key[x], x>> : x \in S})
  IN  [i \in DOMAIN sorted |-> sorted[i][2]]

Minus(S, key) == [x \in S |-> 0 - key[x]]
Ascending(S) == By(S, [x \in S |-> 0])

\* The answer for the first candidate that has a fit.
FirstFit(order, answer) ==
  LET hits == {i \in DOMAIN order : answer[order[i]] # NoFit}
  IN  IF hits = {} THEN NoFit ELSE answer[order[Min(hits)]]

---------------------------------------------------------------------------
(* Reservation holds (_leaf_eligible and its counts).                      *)

EligibleFor(t, l, who) == t.held[l] \in {Nobody, who}

\* _ineligible_free_nodes
HeldFreeNodes(t, d, ct, n, who) ==
  Cardinality({l \in LeavesUnder[d] :
    /\ ~ EligibleFor(t, l, who)
    /\ ChipType[l] = ct /\ LeafChips[l] = n
    /\ IsHealthy(t, l) /\ Ownerless(t, l)})

\* reserved_free_chips
HeldFreeChips(t, d, who) ==
  Total({l \in LeavesUnder[d] : ~ EligibleFor(t, l, who) /\ IsHealthy(t, l)}, t.free)

---------------------------------------------------------------------------
(* One domain, one chip type: _scan_leaves and _scan_leaves_packed.        *)

LargestFirst(S) == By(S, Minus(S, LeafChips))

\* The greedy exact cover: a leaf is taken when it does not overshoot.
Greedy(order, chips) ==
  FoldLeft(LAMBDA acc, l : IF acc.sum + LeafChips[l] <= chips
                           THEN [set |-> acc.set \cup {l},
                                 sum |-> acc.sum + LeafChips[l]]
                           ELSE acc,
           [set |-> {}, sum |-> 0], order)

Place(order, x) == CHOOSE i \in DOMAIN order : order[i] = x

\* _packed_whole_order: the candidates grouped by parent, one group after the
\* other, or a leaf of each group in turn.
PackedOrder(S, chips, mode) ==
  LET group == [l \in S |-> IF Parent[l] = NoDomain THEN l ELSE Parent[l]]
      groups == {group[l] : l \in S}
      member == [g \in groups |-> LargestFirst({l \in S : group[l] = g})]
      room == [g \in groups |-> Total({l \in S : group[l] = g}, LeafChips)]
      fits == {g \in groups : room[g] >= chips}
      short == groups \ fits
      order == CASE mode = "spread" -> By(groups, Minus(groups, room))
                 [] mode = "consolidate" ->
                      By(fits, room) \o By(short, Minus(short, room))
                 [] OTHER -> By(fits, room) \o By(short, room)
      turn == [l \in S |->
        LET i == Place(order, group[l])
            k == Place(member[group[l]], l)
        IN  IF mode = "spread" THEN k * Cardinality(S) + i
            ELSE i * Cardinality(S) + k]
  IN  By(S, turn)

Mixed(S) == Cardinality({LeafChips[l] : l \in S}) > 1

\* Mutant: the packed modes do not retry in the order of first fit.
OneOrder(S, chips, mode) ==
  IF mode = "first_fit" THEN <<LargestFirst(S)>>
  ELSE <<PackedOrder(S, chips, mode)>>

\* The orders to try the cover in; leaves of mixed sizes get a second one.
Orders(S, chips, mode) ==
  IF mode = "first_fit" THEN <<LargestFirst(S)>>
  ELSE IF Mixed(S) THEN <<PackedOrder(S, chips, mode), LargestFirst(S)>>
  ELSE <<PackedOrder(S, chips, mode)>>

Cover(order, chips, d) ==
  LET g == Greedy(order, chips)
  IN  IF g.sum = chips THEN Placement(g.set, 0, TRUE, d, << >>) ELSE NoFit

FirstCover(orders, chips, d) ==
  FirstFit(orders, [order \in ToSet(orders) |-> Cover(order, chips, d)])

ScanLeaves(t, d, ct, chips, who, mode) ==
  LET usable == {l \in LeavesUnder[d] :
                   ChipType[l] = ct /\ IsHealthy(t, l) /\ EligibleFor(t, l, who)}
      sub == {l \in usable : chips < LeafChips[l] /\ t.free[l] >= chips}
      whole == {l \in usable : chips >= LeafChips[l] /\ t.free[l] = LeafChips[l]}
      preferred == CASE mode = "first_fit" -> Ascending(sub)
                     [] mode = "spread" -> By(sub, Minus(sub, t.free))
                     [] OTHER -> By(sub, t.free)
  IN  IF sub # {} THEN Placement({Head(preferred)}, chips, FALSE, d, << >>)
      ELSE FirstCover(Orders(whole, chips, mode), chips, d)

\* _search_domain, _search_domain_packed
TypesUnder(d) == {ChipType[l] : l \in LeavesUnder[d]}
WantedTypes(spec, d) ==
  IF spec.type = AnyType THEN TypesUnder(d) ELSE {spec.type} \cap Types

SearchDomain(t, d, spec, who, mode) ==
  FirstFit(Ascending(WantedTypes(spec, d)),
    [ct \in WantedTypes(spec, d) |->
       IF t.freeByType[d][ct] < spec.chips THEN NoFit
       ELSE ScanLeaves(t, d, ct, spec.chips, who, mode)])

---------------------------------------------------------------------------
(* Segmented gangs.                                                        *)

\* Mutant: nodes held for another tenant count as free.
FreeForAnyone(t, d, ct, n, who) == t.freeNodes[d][ct][n]

FreeFor(t, d, ct, n, who) ==
  t.freeNodes[d][ct][n] - HeldFreeNodes(t, d, ct, n, who)

\* _pack_segments: how many segments each segment domain gets.
PackSegments(t, d, ct, n, spec, who, count) ==
  LET under == {s \in Domain : Level[s] = spec.segmentLevel /\ d \in Above[s]}
      room == [s \in under |-> FreeFor(t, s, ct, n, who)]
      hosts == {s \in under : room[s] >= spec.perSegment}
      Give(acc, s) ==
        LET k == Min({count - acc.got, room[s] \div spec.perSegment})
        IN  [got |-> acc.got + k, given |-> [acc.given EXCEPT ![s] = k]]
  IN  FoldLeft(Give, [got |-> 0, given |-> [s \in hosts |-> 0]],
               By(hosts, Minus(hosts, room)))

\* lca
CommonAbove(S) ==
  LET common == {d \in Domain : \A s \in S : d \in Above[s]}
  IN  CHOOSE d \in common : \A e \in common : e \in Above[d]

\* _realize_segments: concrete leaves in the domains that host a segment.
RealizeSegments(t, given, ct, n, spec, who) ==
  LET hosts == {s \in DOMAIN given : given[s] > 0}
      free(s) == {l \in LeavesUnder[s] :
                    /\ ChipType[l] = ct /\ LeafChips[l] = n
                    /\ IsHealthy(t, l) /\ Ownerless(t, l)
                    /\ EligibleFor(t, l, who)}
      took(s) == {Ascending(free(s))[i] :
                    i \in 1 .. Min({given[s] * spec.perSegment, Cardinality(free(s))})}
  IN  Placement(UNION {took(s) : s \in hosts}, 0, TRUE, CommonAbove(hosts),
                [s \in hosts |-> given[s]])

RealizeAll(t, packed, ct, n, spec, who, count) ==
  IF packed.got < count THEN NoFit
  ELSE RealizeSegments(t, packed.given, ct, n, spec, who)

\* The gang on leaves of one type and size.
SearchSegments(t, d, ct, n, spec, who) ==
  LET segChips == spec.perSegment * n
      count == spec.chips \div segChips
  IN  IF \/ t.freeNodes[d][ct][n] <= 0
         \/ spec.chips % segChips # 0
         \/ FreeFor(t, d, ct, n, who) < count * spec.perSegment
      THEN NoFit
      ELSE RealizeAll(t, PackSegments(t, d, ct, n, spec, who, count),
                      ct, n, spec, who, count)

\* _search_segmented_domain
SearchSegmentedDomain(t, d, spec, who) ==
  FirstFit(Ascending(WantedTypes(spec, d)),
    [ct \in WantedTypes(spec, d) |->
       FirstFit(Ascending(Sizes),
         [n \in Sizes |-> SearchSegments(t, d, ct, n, spec, who)])])

---------------------------------------------------------------------------
(* search and search_after_release.                                        *)

\* The domains to search: the roots without a constraint.
DomainsFor(spec) ==
  {d \in Domain : IF spec.within = AnyLevel THEN d \in Roots ELSE Level[d] = spec.within}

Search(t, spec, who, mode) ==
  LET domains == DomainsFor(spec)
      order == CASE mode = "first_fit" \/ spec.perSegment > 0 -> Ascending(domains)
                 [] mode = "spread" -> By(domains, Minus(domains, t.free))
                 [] OTHER -> By(domains, t.free)
  IN  FirstFit(order,
        [d \in domains |->
           IF spec.perSegment > 0 THEN SearchSegmentedDomain(t, d, spec, who)
           ELSE SearchDomain(t, d, spec, who, mode)])

\* Victims are released one after the other, in the order given; one without
\* an allocation is skipped.
AfterRelease(t, victims) ==
  FoldLeft(LAMBDA acc, j :
             IF acc.tree.alloc[j] = << >> THEN acc
             ELSE [tree |-> Released(acc.tree, j),
                   saved |-> Append(acc.saved, [job |-> j, alloc |-> acc.tree.alloc[j]])],
           [tree |-> t, saved |-> << >>], victims)

\* The finally clause: the saved allocations are put back in that order.
Restored(t, saved) ==
  FoldLeft(LAMBDA u, s : Reapplied(u, s.job, s.alloc), t, saved)

\* The tree that the dry run leaves behind, and what it finds.
TreeAfter(t, victims) ==
  LET freed == AfterRelease(t, victims) IN Restored(freed.tree, freed.saved)

SearchAfterRelease(t, spec, victims, who, mode) ==
  Search(AfterRelease(t, victims).tree, spec, who, mode)

---------------------------------------------------------------------------
(* Fragmentation queries.                                                  *)

LargestPlaceable(t, level) ==
  Max({t.free[d] : d \in {e \in Domain : Level[e] = level}} \cup {0})

\* stranded_whole_nodes, stranded_whole_node_chips
PartlyFree(t) == {l \in Leaf : IsHealthy(t, l) /\ t.free[l] \in 1 .. LeafChips[l] - 1}
StrandedWholeNodeChips(t) == Total(PartlyFree(t), t.free)

---------------------------------------------------------------------------
(* Properties.                                                             *)

\* Victims to plan with, in any order.
Victims == UNION {SetToSeqs(S) : S \in SUBSET Job}

\* What a placement p of spec promises: apply accepts it, it has the chips
\* asked for, of one type, under its anchor, on no leaf held for another
\* tenant, each segment is whole in its domain, and the capacity figures
\* that schedulers and metrics read allowed for it.
Sound(t, spec, who, p) ==
  LET gang == ToGang(p)
      amount == [l \in Leaf |-> Amount(gang, l)]
  IN  /\ Fits(t, <<gang>>)
      /\ Total(p.leaves, amount) = spec.chips
      /\ p.leaves \subseteq LeavesUnder[p.anchor]
      /\ \A l \in p.leaves : EligibleFor(t, l, who)
      /\ \E ct \in WantedTypes(spec, p.anchor) :
           \A l \in p.leaves : ChipType[l] = ct
      /\ \E d \in Above[p.anchor] :
           /\ IF spec.within = AnyLevel THEN d \in Roots ELSE Level[d] = spec.within
           /\ spec.chips <= LargestPlaceable(t, Level[d])
      /\ \A s \in DOMAIN p.segments :
           Cardinality(p.leaves \cap LeavesUnder[s]) = p.segments[s] * spec.perSegment
      /\ Total(DOMAIN p.segments, p.segments) * spec.perSegment
           = IF spec.perSegment = 0 THEN 0 ELSE Cardinality(p.leaves)
      /\ spec.chips <= t.free[p.anchor] - HeldFreeChips(t, p.anchor, who)
      /\ p.whole /\ p.anchor \in Roots =>
           spec.chips <= Total(Roots, t.free) - StrandedWholeNodeChips(t)

\* Every placement a search returns is one the tree will take, in every
\* reachable state and for every mode, tenant and spec.
SearchSound ==
  \A spec \in Specs, who \in Tenant, mode \in Modes :
    LET p == Search(tree, spec, who, mode)
    IN  p # NoFit => Sound(tree, spec, who, p)

Chain(sizes) == \A m, n \in sizes : m % n = 0 \/ n % m = 0

\* The leaves that a spec could be given, by the leaves and not the counters.
CanShare(t, d, ct, chips, who) ==
  \E l \in LeavesUnder[d] : /\ ChipType[l] = ct /\ EligibleFor(t, l, who)
                            /\ chips < LeafChips[l] /\ chips <= Available(t)[l]
CanTake(t, d, ct, chips, who) ==
  {l \in LeavesUnder[d] : /\ ChipType[l] = ct /\ EligibleFor(t, l, who)
                          /\ chips >= LeafChips[l] /\ FreeNode(t)[l] = 1}

\* The claims of the search docstrings: where leaf sizes form a divisor
\* chain a search finds a fit whenever there is one; elsewhere a packed mode
\* finds one whenever first fit does; a segmented gang is found whenever the
\* segment domains have room for all of its segments.
SearchComplete ==
  \A spec \in Specs, who \in Tenant :
    LET plain == spec.perSegment = 0
        Found(mode) == Search(tree, spec, who, mode) # NoFit
        Fillable(d, ct) ==
          LET free == CanTake(tree, d, ct, spec.chips, who)
          IN  /\ Chain({LeafChips[l] : l \in free})
              /\ \E S \in SUBSET free : Total(S, LeafChips) = spec.chips
        RoomFor(d, ct, n) ==
          LET segments == [s \in {e \in Domain : Level[e] = spec.segmentLevel
                                                /\ d \in Above[e]} |->
                Cardinality({l \in LeavesUnder[s] :
                  /\ ChipType[l] = ct /\ LeafChips[l] = n
                  /\ FreeNode(tree)[l] = 1 /\ EligibleFor(tree, l, who)})
                    \div spec.perSegment]
          IN  spec.chips <= Total(DOMAIN segments, segments) * spec.perSegment * n
        Possible ==
          \E d \in DomainsFor(spec) : \E ct \in WantedTypes(spec, d) :
            IF plain THEN \/ CanShare(tree, d, ct, spec.chips, who)
                          \/ Fillable(d, ct)
            ELSE \E n \in Sizes : spec.chips % (spec.perSegment * n) = 0
                                  /\ RoomFor(d, ct, n)
    IN  \A mode \in Modes : Possible \/ Found("first_fit") => Found(mode)

\* A dry run leaves the tree as it was, whichever allocations it tried to
\* release and in whichever order, also where a victim shares its leaf with
\* another or sits on leaves that are draining or failed; and what it found
\* is what a release of the victims would make room for.
DryRunLeavesNoTrace ==
  \A victims \in Victims :
    LET freed == AfterRelease(tree, victims).tree
    IN  /\ TreeAfter(tree, victims) = tree
        /\ \A spec \in Specs, who \in Tenant :
             LET p == SearchAfterRelease(tree, spec, victims, who, "best_fit")
             IN  p # NoFit => Sound(freed, spec, who, p)
=============================================================================
