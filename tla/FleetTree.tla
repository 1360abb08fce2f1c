----------------------------- MODULE FleetTree -----------------------------
(***************************************************************************)
(* The fleet tree of fleetsim (fleet/tree.py): the health of the leaves,   *)
(* who owns their chips, which leaves a reservation holds, and the         *)
(* capacity counters that every domain keeps beside them.                  *)
(*                                                                         *)
(* The counters are redundant: each operation adds or subtracts what it    *)
(* changed on every domain above the leaves it touched.  The state is one  *)
(* record, because search_after_release runs operations, looks at the      *)
(* result and undoes them: an operation is an operator from state to       *)
(* state, and an action applies it to the variable.                        *)
(***************************************************************************)
EXTENDS Integers, FiniteSets, Sequences

CONSTANTS
  Domain,     \* domains; their order as numbers is the order of their ids
  Parent,     \* [Domain -> Domain \cup {NoDomain}]
  NoDomain,
  LeafChips,  \* chips of each leaf
  ChipType,   \* chip type of each leaf
  Job,        \* ids of allocations (job ids)
  Tenant,     \* who a reservation may hold leaves for
  Nobody,     \* holder of a leaf without a reservation
  Gangs,      \* gangs that may be asked for
  Faulty,     \* bound: leaves whose health may change
  Holdable    \* bound: leaves that may be reserved

VARIABLE tree

\* The leaves are the domains without children.
Leaf == Domain \ {Parent[d] : d \in Domain}

\* A domain and its ancestors, as the parent links give them.
Above[d \in Domain] ==
  {d} \cup IF Parent[d] = NoDomain THEN {} ELSE Above[Parent[d]]

LeavesUnder == [d \in Domain |-> {l \in Leaf : d \in Above[l]}]

Health == {"HEALTHY", "DRAINING", "FAILED", "MAINTENANCE"}
Types == {ChipType[l] : l \in Leaf}
Sizes == {LeafChips[l] : l \in Leaf}

(***************************************************************************)
(* A gang is [nodes, chips, whole]: whole leaves, or chips of one leaf.    *)
(* An allocation is the sequence of its gangs; <<>> is none.               *)
(***************************************************************************)
Gang == [nodes : SUBSET Leaf, chips : Nat, whole : BOOLEAN]

TreeAssumption ==
  /\ IsFiniteSet(Domain)
  /\ IsFiniteSet(Job)
  /\ Nobody \notin Tenant
  /\ Faulty \subseteq Leaf /\ Holdable \subseteq Leaf
  /\ LeafChips \in [Leaf -> Nat \ {0}]
  /\ DOMAIN ChipType = Leaf
  /\ \A l \in Leaf : LeavesUnder[l] = {l}
  /\ Gangs \subseteq Gang
  /\ \A g \in Gangs : /\ g.nodes # {}
                      /\ ~ g.whole => Cardinality(g.nodes) = 1 /\ g.chips > 0

ASSUME TreeAssumption

\* The sum of f over S, as a number of pairs.
Total(S, f) == Cardinality(UNION {{x} \X (1 .. f[x]) : x \in S})

---------------------------------------------------------------------------
(* The counters: _add_free, _add_healthy, _add_free_nodes.  Each takes the *)
(* chips (or leaves) gained and lost, per leaf, to every domain above.     *)

Nothing == [l \in Leaf |-> 0]
Only(S, f) == [l \in Leaf |-> IF l \in S THEN f[l] ELSE 0]

Adjusted(count, S, gain, loss) ==
  count + Total(S, gain) - Total(S, loss)

AddFree(t, gain, loss) ==
  [t EXCEPT
     !.free = [d \in Domain |-> Adjusted(t.free[d], LeavesUnder[d], gain, loss)],
     !.freeByType = [d \in Domain |-> [ct \in Types |->
        Adjusted(t.freeByType[d][ct],
                 {l \in LeavesUnder[d] : ChipType[l] = ct}, gain, loss)]]]

AddHealthy(t, gain, loss) ==
  [t EXCEPT !.healthy = [d \in Domain |->
     Adjusted(t.healthy[d], LeavesUnder[d], gain, loss)]]

AddFreeNodes(t, gain, loss) ==
  [t EXCEPT !.freeNodes = [d \in Domain |-> [ct \in Types |-> [n \in Sizes |->
     Adjusted(t.freeNodes[d][ct][n],
              {l \in LeavesUnder[d] : ChipType[l] = ct /\ LeafChips[l] = n},
              gain, loss)]]]]

\* One node on each leaf of S.
NodesOf(S) == [l \in Leaf |-> IF l \in S THEN 1 ELSE 0]

---------------------------------------------------------------------------
(* Demand, use and the two halves of an allocation's life.                 *)

Amount(g, l) == IF l \notin g.nodes THEN 0
                ELSE IF g.whole THEN LeafChips[l] ELSE g.chips

\* _demand: the chips an allocation takes of each leaf, its gangs merged.
Demand(a) ==
  [l \in Leaf |-> Total(DOMAIN a, [i \in DOMAIN a |-> Amount(a[i], l)])]

WantsWhole(a, l) == \E i \in DOMAIN a : a[i].whole /\ l \in a[i].nodes

Asked(a) == {l \in Leaf : Demand(a)[l] > 0}

Used(t, l) == Total(Job, t.owner[l])
Ownerless(t, l) == \A j \in Job : t.owner[l][j] = 0
IsHealthy(t, l) == t.health[l] = "HEALTHY"

\* Mutant: the free chips of a leaf are not looked at.
FitsHealthy(t, a) ==
  \A l \in Asked(a) :
    /\ IsHealthy(t, l)
    /\ WantsWhole(a, l) => Ownerless(t, l)

\* The validation of apply, before it changes anything.
Fits(t, a) ==
  \A l \in Asked(a) :
    /\ IsHealthy(t, l)
    /\ WantsWhole(a, l) => Ownerless(t, l)
    /\ Demand(a)[l] <= t.free[l]

Accepts(t, j, a) == t.alloc[j] = << >> /\ a # << >> /\ Fits(t, a)

\* Records the owner; counters change on the leaves of S only.
Occupied(t, j, a, S) ==
  LET loss == Only(S, Demand(a))
      opened == {l \in S : Ownerless(t, l)}
      u == [t EXCEPT
              !.owner = [l \in Leaf |-> IF l \in Asked(a)
                           THEN [t.owner[l] EXCEPT ![j] = Demand(a)[l]]
                           ELSE t.owner[l]],
              !.alloc = [t.alloc EXCEPT ![j] = a]]
  IN  AddFree(AddFreeNodes(u, Nothing, NodesOf(opened)), Nothing, loss)

Applied(t, j, a) == Occupied(t, j, a, Asked(a))

\* Mutant: re-applies as apply does, whatever the health of the leaf.
ReappliedEverywhere(t, j, a) == Applied(t, j, a)

\* _reapply: no validation; leaves that are not healthy count for nothing.
Reapplied(t, j, a) == Occupied(t, j, a, {l \in Asked(a) : IsHealthy(t, l)})

\* Mutant: a leaf with other owners left counts as a free node again.
ReleasedAsFree(t, j) ==
  LET touched == Asked(t.alloc[j])
      u == [t EXCEPT
              !.owner = [l \in Leaf |-> IF l \in touched
                           THEN [t.owner[l] EXCEPT ![j] = 0]
                           ELSE t.owner[l]],
              !.alloc = [t.alloc EXCEPT ![j] = << >>]]
      back == {l \in touched : IsHealthy(t, l)}
      gain == [l \in Leaf |-> IF l \in back THEN t.owner[l][j] ELSE 0]
  IN  AddFreeNodes(AddFree(u, gain, Nothing), NodesOf(back), Nothing)

\* release: chips return to the counters of healthy leaves only.
Released(t, j) ==
  LET touched == Asked(t.alloc[j])
      u == [t EXCEPT
              !.owner = [l \in Leaf |-> IF l \in touched
                           THEN [t.owner[l] EXCEPT ![j] = 0]
                           ELSE t.owner[l]],
              !.alloc = [t.alloc EXCEPT ![j] = << >>]]
      back == {l \in touched : IsHealthy(t, l)}
      gain == [l \in Leaf |-> IF l \in back THEN t.owner[l][j] ELSE 0]
      emptied == {l \in back : Ownerless(u, l)}
  IN  AddFreeNodes(AddFree(u, gain, Nothing), NodesOf(emptied), Nothing)

---------------------------------------------------------------------------
(* The health of a leaf.                                                   *)

SetHealth(t, l, h) == [t EXCEPT !.health = [t.health EXCEPT ![l] = h]]
EmptyAmong(t, l) == {m \in {l} : Ownerless(t, m)}

\* _make_unhealthy: what leaves the counters when a healthy leaf goes.
MadeUnhealthy(t, l) ==
  AddFreeNodes(
    AddHealthy(AddFree(t, Nothing, Only({l}, t.free)),
               Nothing, Only({l}, LeafChips)),
    Nothing, NodesOf(EmptyAmong(t, l)))

Repaired(t, l) ==
  LET u == SetHealth(t, l, "HEALTHY")
      left == [m \in Leaf |-> LeafChips[m] - Used(t, m)]
  IN  AddFreeNodes(
        AddFree(AddHealthy(u, Only({l}, LeafChips), Nothing),
                Only({l}, left), Nothing),
        NodesOf(EmptyAmong(t, l)), Nothing)

\* Mutant: a draining leaf leaves the counters a second time.
FailedTwice(t, l) == SetHealth(MadeUnhealthy(t, l), l, "FAILED")

Failed(t, l) ==
  SetHealth(IF IsHealthy(t, l) THEN MadeUnhealthy(t, l) ELSE t, l, "FAILED")

Drained(t, l) == SetHealth(MadeUnhealthy(t, l), l, "DRAINING")

---------------------------------------------------------------------------
(* What the counters stand for (check_invariants).                         *)

\* Free chips of a leaf: none unless it is healthy.
Available(t) ==
  [l \in Leaf |-> IF IsHealthy(t, l) THEN LeafChips[l] - Used(t, l) ELSE 0]
InService(t) == [l \in Leaf |-> IF IsHealthy(t, l) THEN LeafChips[l] ELSE 0]
FreeNode(t) ==
  [l \in Leaf |-> IF IsHealthy(t, l) /\ Ownerless(t, l) THEN 1 ELSE 0]

CountersMatch(t) ==
  \A d \in Domain :
    /\ t.free[d] = Total(LeavesUnder[d], Available(t))
    /\ t.healthy[d] = Total(LeavesUnder[d], InService(t))
    /\ \A ct \in Types :
         LET S == {l \in LeavesUnder[d] : ChipType[l] = ct} IN
         /\ t.freeByType[d][ct] = Total(S, Available(t))
         /\ \A n \in Sizes :
              t.freeNodes[d][ct][n] =
                Total({l \in LeavesUnder[d] : ChipType[l] = ct /\ LeafChips[l] = n},
                    FreeNode(t))

OwnersMatch(t) ==
  /\ \A l \in Leaf :
       /\ Used(t, l) <= LeafChips[l]
       /\ t.health[l] = "MAINTENANCE" => Ownerless(t, l)
       /\ \A j \in Job : t.owner[l][j] = Demand(t.alloc[j])[l]
  /\ \A j, k \in Job : \A l \in Leaf :
       WantsWhole(t.alloc[j], l) /\ t.owner[l][k] > 0 => j = k

---------------------------------------------------------------------------
(* The state and its actions.                                              *)

FreshTree ==
  LET chips == Only(Leaf, LeafChips)
      t0 == [health |-> [l \in Leaf |-> "HEALTHY"],
             owner |-> [l \in Leaf |-> [j \in Job |-> 0]],
             alloc |-> [j \in Job |-> << >>],
             held |-> [l \in Leaf |-> Nobody],
             free |-> [d \in Domain |-> 0],
             healthy |-> [d \in Domain |-> 0],
             freeByType |-> [d \in Domain |-> [ct \in Types |-> 0]],
             freeNodes |-> [d \in Domain |->
                              [ct \in Types |-> [n \in Sizes |-> 0]]]]
  IN  AddFreeNodes(AddHealthy(AddFree(t0, chips, Nothing), chips, Nothing),
                   NodesOf(Leaf), Nothing)

Init == tree = FreshTree

Apply(j, a) == Accepts(tree, j, a) /\ tree' = Applied(tree, j, a)

Release(j) == tree.alloc[j] # << >> /\ tree' = Released(tree, j)

FailNode(l) ==
  /\ tree.health[l] \in {"HEALTHY", "DRAINING"}
  /\ tree' = Failed(tree, l)

RepairNode(l) == ~ IsHealthy(tree, l) /\ tree' = Repaired(tree, l)

DrainNode(l) == IsHealthy(tree, l) /\ tree' = Drained(tree, l)

ToMaintenance(l) ==
  /\ tree.health[l] = "DRAINING"
  /\ Ownerless(tree, l)
  /\ tree' = SetHealth(tree, l, "MAINTENANCE")

\* Leaf by leaf; a leaf that is held already raises, and those before it
\* stay held.
ReserveLeaves(S, who) ==
  LET got == {l \in S : \A m \in S : m <= l => tree.held[m] = Nobody}
  IN  tree' = [tree EXCEPT !.held =
                 [l \in Leaf |-> IF l \in got THEN who ELSE tree.held[l]]]

ReleaseReservation(S) ==
  tree' = [tree EXCEPT !.held =
             [l \in Leaf |-> IF l \in S THEN Nobody ELSE tree.held[l]]]

Next ==
  \/ \E j \in Job, g \in Gangs : Apply(j, <<g>>)
  \/ \E j \in Job, g, h \in Gangs : Apply(j, <<g, h>>)
  \/ \E j \in Job : Release(j)
  \/ \E l \in Faulty : \/ FailNode(l)
                       \/ RepairNode(l)
                       \/ DrainNode(l)
                       \/ ToMaintenance(l)
  \/ \E S \in SUBSET Holdable, who \in Tenant : ReserveLeaves(S, who)
  \/ \E S \in SUBSET Holdable : ReleaseReservation(S)

Spec == Init /\ [][Next]_tree

---------------------------------------------------------------------------
(* Properties.                                                             *)

State ==
  [health : [Leaf -> Health],
   owner : [Leaf -> [Job -> Nat]],
   alloc : [Job -> Seq(Gang)],
   held : [Leaf -> Tenant \cup {Nobody}],
   free : [Domain -> Nat],
   healthy : [Domain -> Nat],
   freeByType : [Domain -> [Types -> Nat]],
   freeNodes : [Domain -> [Types -> [Sizes -> Nat]]]]

\* The fields of the tree have their types (no counter is negative), and only gangs that were asked
\* for are recorded.
TypeOK ==
  /\ tree \in State
  /\ \A j \in Job : \A i \in DOMAIN tree.alloc[j] : tree.alloc[j][i] \in Gangs

\* Whatever the order of operations, every counter of every domain is what
\* its leaves say, as check_invariants recomputes them.
CountersExact == CountersMatch(tree)

\* No leaf is oversubscribed, no one shares a whole-node leaf, owners and
\* allocations say the same, and a leaf in maintenance is empty.
OwnershipSound == OwnersMatch(tree)
=============================================================================
