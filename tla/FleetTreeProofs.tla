-------------------------- MODULE FleetTreeProofs --------------------------
(***************************************************************************)
(* The counters and owners of the fleet tree, for every tree, every set of *)
(* jobs and every gang.                                                    *)
(*                                                                         *)
(* First the sums (as cardinalities of sets of pairs), then the three      *)
(* families of counters under a change of the leaves, then one lemma per   *)
(* operation.                                                              *)
(***************************************************************************)
EXTENDS FleetTree, FiniteSetTheorems, TLAPS

---------------------------------------------------------------------------
(* Sums.                                                                   *)

Pairs(S, f) == UNION {{x} \X (1 .. f[x]) : x \in S}
Amounts(S, f) == \A x \in S : f[x] \in Nat

LEMMA SumIsCardinality ==
  ASSUME NEW S, NEW f
  PROVE  Total(S, f) = Cardinality(Pairs(S, f))
  BY DEF Total, Pairs

LEMMA InPairs ==
  ASSUME NEW S, NEW f, NEW p
  PROVE  p \in Pairs(S, f) <=>
           \E x \in S : \E i \in 1 .. f[x] : p = <<x, i>>
  BY DEF Pairs

LEMMA PairsFinite ==
  ASSUME NEW S, NEW f, IsFiniteSet(S), Amounts(S, f)
  PROVE  IsFiniteSet(Pairs(S, f)) /\ Total(S, f) \in Nat
  <1> DEFINE Row(x) == {x} \X (1 .. f[x])
             Rows == {Row(x) : x \in S}
             g == [x \in S |-> Row(x)]
  <1>1. \A x \in S : IsFiniteSet(Row(x))
    <2> SUFFICES ASSUME NEW x \in S PROVE IsFiniteSet(Row(x))
      OBVIOUS
    <2>1. f[x] \in Int
      BY DEF Amounts
    <2>2. IsFiniteSet(1 .. f[x])
      BY <2>1, FS_Interval
    <2>3. IsFiniteSet({x})
      BY FS_Singleton
    <2>. QED
      BY <2>2, <2>3, FS_Product
  <1>2. g \in Surjection(S, Rows)
    BY DEF Surjection
  <1>3. IsFiniteSet(Rows)
    BY <1>2, FS_Surjection
  <1>4. \A R \in Rows : IsFiniteSet(R)
    BY <1>1
  <1>5. IsFiniteSet(UNION Rows)
    BY <1>3, <1>4, FS_UNION
  <1>6. Pairs(S, f) = UNION Rows
    BY DEF Pairs
  <1>. QED
    BY <1>5, <1>6, FS_CardinalityType, SumIsCardinality

LEMMA SumType ==
  ASSUME NEW S, NEW f, IsFiniteSet(S), Amounts(S, f)
  PROVE  Total(S, f) \in Nat
  BY PairsFinite

LEMMA SumSame ==
  ASSUME NEW S, NEW f, NEW g, \A x \in S : f[x] = g[x]
  PROVE  Total(S, f) = Total(S, g)
  <1>1. {{x} \X (1 .. f[x]) : x \in S} = {{x} \X (1 .. g[x]) : x \in S}
    OBVIOUS
  <1>. QED
    BY <1>1 DEF Total

LEMMA SumAdd ==
  ASSUME NEW S, NEW f, NEW g, NEW h, IsFiniteSet(S),
         Amounts(S, g), Amounts(S, h), \A x \in S : f[x] = g[x] + h[x]
  PROVE  Total(S, f) = Total(S, g) + Total(S, h)
  <1> DEFINE Lo == Pairs(S, g)
             Hi == {p \in Pairs(S, f) : p \notin Lo}
             shift == [p \in Pairs(S, h) |-> <<p[1], p[2] + g[p[1]]>>]
  <1>0. Amounts(S, f)
    BY DEF Amounts
  <1>1. IsFiniteSet(Pairs(S, f)) /\ IsFiniteSet(Lo) /\ IsFiniteSet(Pairs(S, h))
    BY <1>0, PairsFinite
  <1>2. \A x \in S : f[x] \in Nat /\ g[x] \in Nat /\ h[x] \in Nat /\ f[x] = g[x] + h[x]
    BY <1>0 DEF Amounts
  <1>3. Lo \subseteq Pairs(S, f)
    <2> SUFFICES ASSUME NEW p \in Lo PROVE p \in Pairs(S, f)
      OBVIOUS
    <2>1. PICK x \in S : \E i \in 1 .. g[x] : p = <<x, i>>
      BY InPairs
    <2>2. PICK i \in 1 .. g[x] : p = <<x, i>>
      BY <2>1
    <2>3. i \in 1 .. f[x]
      BY <1>2
    <2>. QED
      BY <2>2, <2>3, InPairs
  <1>4. \A x \in S : \A i \in Nat : <<x, i>> \in Hi <=> i \in g[x] + 1 .. f[x]
    <2> SUFFICES ASSUME NEW x \in S, NEW i \in Nat
                 PROVE  <<x, i>> \in Hi <=> i \in g[x] + 1 .. f[x]
      OBVIOUS
    <2>1. <<x, i>> \in Lo <=> i \in 1 .. g[x]
      BY InPairs
    <2>2. <<x, i>> \in Pairs(S, f) <=> i \in 1 .. f[x]
      BY InPairs
    <2>. QED
      BY <2>1, <2>2, <1>2
  <1>5. \A p \in Pairs(S, h) : \E x \in S : \E i \in 1 .. h[x] :
           p = <<x, i>> /\ shift[p] = <<x, i + g[x]>>
    BY InPairs
  <1>6. shift \in Bijection(Pairs(S, h), Hi)
    <2>1. \A p \in Pairs(S, h) : shift[p] \in Hi
      <3> SUFFICES ASSUME NEW p \in Pairs(S, h) PROVE shift[p] \in Hi
        OBVIOUS
      <3>1. PICK x \in S : \E i \in 1 .. h[x] :
               p = <<x, i>> /\ shift[p] = <<x, i + g[x]>>
        BY <1>5
      <3>2. PICK i \in 1 .. h[x] : shift[p] = <<x, i + g[x]>>
        BY <3>1
      <3>3. i + g[x] \in g[x] + 1 .. f[x] /\ i + g[x] \in Nat
        BY <1>2
      <3>. QED
        BY <3>2, <3>3, <1>4
    <2>2. \A p, q \in Pairs(S, h) : shift[p] = shift[q] => p = q
      <3> SUFFICES ASSUME NEW p \in Pairs(S, h), NEW q \in Pairs(S, h),
                          shift[p] = shift[q]
                   PROVE  p = q
        OBVIOUS
      <3>a. PICK x \in S : \E i \in 1 .. h[x] :
               p = <<x, i>> /\ shift[p] = <<x, i + g[x]>>
        BY <1>5
      <3>b. PICK y \in S : \E i \in 1 .. h[y] :
               q = <<y, i>> /\ shift[q] = <<y, i + g[y]>>
        BY <1>5
      <3>1. PICK i \in 1 .. h[x] : p = <<x, i>> /\ shift[p] = <<x, i + g[x]>>
        BY <3>a
      <3>2. PICK k \in 1 .. h[y] : q = <<y, k>> /\ shift[q] = <<y, k + g[y]>>
        BY <3>b
      <3>3. x = y /\ i + g[x] = k + g[x]
        BY <3>1, <3>2
      <3>4. i = k
        BY <3>3, <1>2
      <3>. QED
        BY <3>1, <3>2, <3>3, <3>4
    <2>3. \A r \in Hi : \E p \in Pairs(S, h) : shift[p] = r
      <3> SUFFICES ASSUME NEW r \in Hi PROVE \E p \in Pairs(S, h) : shift[p] = r
        OBVIOUS
      <3>1. PICK x \in S : \E i \in 1 .. f[x] : r = <<x, i>>
        BY InPairs
      <3>2. PICK i \in 1 .. f[x] : r = <<x, i>>
        BY <3>1
      <3>3. i \in g[x] + 1 .. f[x]
        BY <3>2, <1>4
      <3>4. i - g[x] \in 1 .. h[x] /\ (i - g[x]) + g[x] = i
        BY <3>3, <1>2
      <3>5. <<x, i - g[x]>> \in Pairs(S, h)
        BY <3>4, InPairs
      <3>6. shift[<<x, i - g[x]>>] = <<x, i>>
        BY <3>4, <3>5
      <3>. QED
        BY <3>2, <3>5, <3>6
    <2>4. shift \in [Pairs(S, h) -> Hi]
      BY <2>1
    <2>. QED
      BY <2>2, <2>3, <2>4 DEF Bijection, Injection, IsInjective, Surjection
  <1>7. Cardinality(Hi) = Cardinality(Pairs(S, h))
    BY <1>1, <1>6, FS_Bijection DEF ExistsBijection
  <1>8. Hi = Pairs(S, f) \ Lo
    OBVIOUS
  <1>9. Cardinality(Hi) = Cardinality(Pairs(S, f)) - Cardinality(Pairs(S, f) \cap Lo)
    BY <1>1, <1>8, FS_Difference
  <1>10. Pairs(S, f) \cap Lo = Lo
    BY <1>3
  <1>11. Cardinality(Pairs(S, f)) \in Nat /\ Cardinality(Lo) \in Nat
    BY <1>1, FS_CardinalityType
  <1>12. /\ Total(S, f) = Cardinality(Pairs(S, f)) /\ Total(S, g) = Cardinality(Lo)
         /\ Total(S, h) = Cardinality(Pairs(S, h))
    BY SumIsCardinality
  <1>13. Cardinality(Pairs(S, h)) = Cardinality(Pairs(S, f)) - Cardinality(Lo)
    BY <1>7, <1>9, <1>10
  <1> HIDE DEF Lo, Hi, shift
  <1>. QED
    BY <1>11, <1>12, <1>13

LEMMA SumNone ==
  ASSUME NEW S, NEW f, \A x \in S : f[x] = 0
  PROVE  Total(S, f) = 0
  <1>1. \A p : p \notin Pairs(S, f)
    BY InPairs
  <1>2. Pairs(S, f) = {}
    BY <1>1
  <1>. QED
    BY <1>2, FS_EmptySet, SumIsCardinality

\* Only one element counts.
LEMMA SumOne ==
  ASSUME NEW S, NEW f, NEW x \in S, f[x] \in Nat,
         \A y \in S : y # x => f[y] = 0
  PROVE  Total(S, f) = f[x]
  <1>1. Pairs(S, f) = {x} \X (1 .. f[x])
    <2>1. \A p : p \in Pairs(S, f) <=> \E i \in 1 .. f[x] : p = <<x, i>>
      BY InPairs
    <2>. QED
      BY <2>1
  <1>2. /\ IsFiniteSet(1 .. f[x]) /\ Cardinality(1 .. f[x]) = f[x]
    BY FS_Interval
  <1>3. IsFiniteSet({x}) /\ Cardinality({x}) = 1
    BY FS_Singleton
  <1>4. Cardinality({x} \X (1 .. f[x])) = 1 * f[x]
    BY ZenonT(60), <1>2, <1>3, FS_Product
  <1>5. Total(S, f) = 1 * f[x]
    BY <1>1, <1>4, SumIsCardinality
  <1>. QED
    BY <1>5

LEMMA SumGe ==
  ASSUME NEW S, NEW f, NEW x \in S, IsFiniteSet(S), Amounts(S, f)
  PROVE  f[x] <= Total(S, f)
  <1> DEFINE one == [y \in S |-> IF y = x THEN f[x] ELSE 0]
             rest == [y \in S |-> IF y = x THEN 0 ELSE f[y]]
  <1>1. Amounts(S, one) /\ Amounts(S, rest)
    BY DEF Amounts
  <1>2. \A y \in S : f[y] = one[y] + rest[y]
    BY DEF Amounts
  <1>3. Total(S, f) = Total(S, one) + Total(S, rest)
    BY <1>1, <1>2, SumAdd
  <1>4. Total(S, one) = f[x] /\ f[x] \in Nat
    <2>1. one[x] = f[x] /\ f[x] \in Nat
      BY DEF Amounts
    <2>. QED
      BY <2>1, SumOne
  <1>5. Total(S, rest) \in Nat
    BY <1>1, SumType
  <1>. QED
    BY <1>3, <1>4, <1>5

\* What is lost and what is gained account for the difference of two sums.
LEMMA SumMoved ==
  ASSUME NEW S, IsFiniteSet(S), NEW before, NEW after, NEW gain, NEW loss,
         Amounts(S, before), Amounts(S, after), Amounts(S, gain), Amounts(S, loss),
         \A x \in S : after[x] + loss[x] = before[x] + gain[x]
  PROVE  Total(S, after) = Total(S, before) + Total(S, gain) - Total(S, loss)
  <1> DEFINE both == [x \in S |-> before[x] + gain[x]]
  <1>1. Total(S, both) = Total(S, before) + Total(S, gain)
    BY SumAdd
  <1>2. Total(S, both) = Total(S, after) + Total(S, loss)
    BY SumAdd
  <1>3. /\ Total(S, before) \in Nat /\ Total(S, after) \in Nat
        /\ Total(S, gain) \in Nat /\ Total(S, loss) \in Nat
    BY SumType
  <1>. QED
    BY <1>1, <1>2, <1>3

---------------------------------------------------------------------------
(* The invariant: the fields have their shape (with integer counters; that *)
(* they are not negative follows from what they stand for), the counters   *)
(* and the owners match.                                                   *)

Shape ==
  [health : [Leaf -> Health],
   owner : [Leaf -> [Job -> Nat]],
   alloc : [Job -> Seq(Gangs)],
   held : [Leaf -> Tenant \cup {Nobody}],
   free : [Domain -> Int],
   healthy : [Domain -> Int],
   freeByType : [Domain -> [Types -> Int]],
   freeNodes : [Domain -> [Types -> [Sizes -> Int]]]]

OfType(d, ct) == {l \in LeavesUnder[d] : ChipType[l] = ct}
OfKey(d, ct, n) == {l \in LeavesUnder[d] : ChipType[l] = ct /\ LeafChips[l] = n}

FreeIs(t, f) ==
  \A d \in Domain :
    /\ t.free[d] = Total(LeavesUnder[d], f)
    /\ \A ct \in Types : t.freeByType[d][ct] = Total(OfType(d, ct), f)
HealthyIs(t, f) == \A d \in Domain : t.healthy[d] = Total(LeavesUnder[d], f)
NodesIs(t, f) ==
  \A d \in Domain : \A ct \in Types : \A n \in Sizes :
    t.freeNodes[d][ct][n] = Total(OfKey(d, ct, n), f)

\* Every field but the counters is the same.
SameLeaves(u, t) ==
  u.health = t.health /\ u.owner = t.owner /\ u.alloc = t.alloc /\ u.held = t.held

FleetInv(t) == t \in Shape /\ CountersMatch(t) /\ OwnersMatch(t)

LEMMA LeafFacts ==
  /\ IsFiniteSet(Leaf)
  /\ \A d \in Domain : LeavesUnder[d] \subseteq Leaf /\ IsFiniteSet(LeavesUnder[d])
  /\ \A d \in Domain, ct \in Types :
       OfType(d, ct) \subseteq Leaf /\ IsFiniteSet(OfType(d, ct))
  /\ \A d \in Domain, ct \in Types, n \in Sizes :
       OfKey(d, ct, n) \subseteq Leaf /\ IsFiniteSet(OfKey(d, ct, n))
  /\ \A l \in Leaf : LeafChips[l] \in Nat /\ LeafChips[l] > 0
  /\ \A l \in Leaf : l \in Domain /\ LeavesUnder[l] = {l}
  <1>1. IsFiniteSet(Leaf) /\ Leaf \subseteq Domain
    BY TreeAssumption, FS_Difference DEF TreeAssumption, Leaf
  <1>2. \A S \in SUBSET Leaf : IsFiniteSet(S)
    BY <1>1, FS_Subset
  <1>3. \A d \in Domain : LeavesUnder[d] \in SUBSET Leaf
    BY DEF LeavesUnder
  <1>4. \A d \in Domain, ct \in Types : OfType(d, ct) \in SUBSET Leaf
    BY <1>3 DEF OfType
  <1>5. \A d \in Domain, ct \in Types, n \in Sizes : OfKey(d, ct, n) \in SUBSET Leaf
    BY <1>3 DEF OfKey
  <1>6. /\ \A l \in Leaf : LeafChips[l] \in Nat /\ LeafChips[l] > 0
        /\ \A l \in Leaf : l \in Domain /\ LeavesUnder[l] = {l}
    BY <1>1, TreeAssumption DEF TreeAssumption
  <1>. QED
    BY <1>1, <1>2, <1>3, <1>4, <1>5, <1>6

LEMMA CountersSplit ==
  ASSUME NEW t
  PROVE  CountersMatch(t) <=> /\ FreeIs(t, Available(t))
                              /\ HealthyIs(t, InService(t))
                              /\ NodesIs(t, FreeNode(t))
  BY DEF CountersMatch, FreeIs, HealthyIs, NodesIs, OfType, OfKey

\* A sum over any of the leaf sets that a counter covers.
LEMMA LeafSum ==
  ASSUME NEW S \in SUBSET Leaf, NEW f, Amounts(Leaf, f)
  PROVE  Amounts(S, f) /\ IsFiniteSet(S) /\ Total(S, f) \in Nat
  <1>1. Amounts(S, f)
    BY DEF Amounts
  <1>2. IsFiniteSet(S)
    BY LeafFacts, FS_Subset
  <1>. QED
    BY <1>1, <1>2, SumType

Moved(before, after, gain, loss) ==
  /\ Amounts(Leaf, before) /\ Amounts(Leaf, after)
  /\ Amounts(Leaf, gain) /\ Amounts(Leaf, loss)
  /\ \A l \in Leaf : after[l] + loss[l] = before[l] + gain[l]

LEMMA LeafSumMoved ==
  ASSUME NEW before, NEW after, NEW gain, NEW loss,
         Moved(before, after, gain, loss), NEW S \in SUBSET Leaf
  PROVE  /\ Adjusted(Total(S, before), S, gain, loss) = Total(S, after)
         /\ Total(S, gain) \in Nat /\ Total(S, loss) \in Nat
  <1>1. /\ Amounts(S, before) /\ Amounts(S, after)
        /\ Amounts(S, gain) /\ Amounts(S, loss) /\ IsFiniteSet(S)
    BY LeafSum DEF Moved
  <1>2. \A x \in S : after[x] + loss[x] = before[x] + gain[x]
    BY DEF Moved
  <1>3. Total(S, after) = Total(S, before) + Total(S, gain) - Total(S, loss)
    BY <1>1, <1>2, SumMoved
  <1>4. Adjusted(Total(S, before), S, gain, loss)
          = Total(S, before) + Total(S, gain) - Total(S, loss)
    BY DEF Adjusted
  <1>5. Total(S, gain) \in Nat /\ Total(S, loss) \in Nat
    BY <1>1, SumType
  <1>. QED
    BY <1>3, <1>4, <1>5

LEMMA FreeMoved ==
  ASSUME NEW t \in Shape, NEW before, NEW after, NEW gain, NEW loss,
         FreeIs(t, before), Moved(before, after, gain, loss)
  PROVE  LET u == AddFree(t, gain, loss) IN
         /\ u \in Shape /\ SameLeaves(u, t)
         /\ u.healthy = t.healthy /\ u.freeNodes = t.freeNodes
         /\ FreeIs(u, after)
  <1> DEFINE u == AddFree(t, gain, loss)
             fr == [d \in Domain |-> Adjusted(t.free[d], LeavesUnder[d], gain, loss)]
             ft == [d \in Domain |-> [ct \in Types |->
                      Adjusted(t.freeByType[d][ct], OfType(d, ct), gain, loss)]]
  <1>1. u = [t EXCEPT !.free = fr, !.freeByType = ft]
    BY DEF AddFree, OfType
  <1>2. \A d \in Domain : /\ fr[d] = Total(LeavesUnder[d], after)
                          /\ Total(LeavesUnder[d], after) \in Nat
    BY LeafSumMoved, LeafFacts, LeafSum DEF FreeIs, Moved
  <1>3. \A d \in Domain, ct \in Types :
           /\ ft[d][ct] = Total(OfType(d, ct), after)
           /\ Total(OfType(d, ct), after) \in Nat
    <2> SUFFICES ASSUME NEW d \in Domain, NEW ct \in Types
                 PROVE  /\ ft[d][ct] = Total(OfType(d, ct), after)
                        /\ Total(OfType(d, ct), after) \in Nat
      OBVIOUS
    <2>1. OfType(d, ct) \in SUBSET Leaf
      BY LeafFacts
    <2>2. Adjusted(Total(OfType(d, ct), before), OfType(d, ct), gain, loss)
            = Total(OfType(d, ct), after)
      BY <2>1, LeafSumMoved
    <2>3. Total(OfType(d, ct), after) \in Nat
      BY <2>1, LeafSum DEF Moved
    <2>4. t.freeByType[d][ct] = Total(OfType(d, ct), before)
      BY DEF FreeIs
    <2>. QED
      BY <2>2, <2>3, <2>4
  <1>4. fr \in [Domain -> Int] /\ ft \in [Domain -> [Types -> Int]]
    BY <1>2, <1>3
  <1>5. u.free = fr /\ u.freeByType = ft
    BY <1>1 DEF Shape
  <1>6. u \in Shape
    BY <1>1, <1>4 DEF Shape
  <1>7. SameLeaves(u, t) /\ u.healthy = t.healthy /\ u.freeNodes = t.freeNodes
    BY <1>1 DEF Shape, SameLeaves
  <1>8. FreeIs(u, after)
    BY <1>2, <1>3, <1>5 DEF FreeIs
  <1>. QED
    BY <1>6, <1>7, <1>8

LEMMA HealthyMoved ==
  ASSUME NEW t \in Shape, NEW before, NEW after, NEW gain, NEW loss,
         HealthyIs(t, before), Moved(before, after, gain, loss)
  PROVE  LET u == AddHealthy(t, gain, loss) IN
         /\ u \in Shape /\ SameLeaves(u, t)
         /\ u.free = t.free /\ u.freeByType = t.freeByType
         /\ u.freeNodes = t.freeNodes
         /\ HealthyIs(u, after)
  <1> DEFINE u == AddHealthy(t, gain, loss)
             hl == [d \in Domain |-> Adjusted(t.healthy[d], LeavesUnder[d], gain, loss)]
  <1>1. u = [t EXCEPT !.healthy = hl]
    BY DEF AddHealthy
  <1>2. \A d \in Domain : /\ hl[d] = Total(LeavesUnder[d], after)
                          /\ Total(LeavesUnder[d], after) \in Nat
    BY SMTT(60), LeafSumMoved, LeafFacts, LeafSum DEF HealthyIs, Moved
  <1>3. hl \in [Domain -> Int]
    BY <1>2
  <1>4. u.healthy = hl /\ u \in Shape
    BY <1>1, <1>3 DEF Shape
  <1>5. /\ SameLeaves(u, t) /\ u.free = t.free /\ u.freeByType = t.freeByType
        /\ u.freeNodes = t.freeNodes
    BY <1>1 DEF Shape, SameLeaves
  <1>. QED
    BY <1>2, <1>4, <1>5 DEF HealthyIs

LEMMA NodesMoved ==
  ASSUME NEW t \in Shape, NEW before, NEW after, NEW gain, NEW loss,
         NodesIs(t, before), Moved(before, after, gain, loss)
  PROVE  LET u == AddFreeNodes(t, gain, loss) IN
         /\ u \in Shape /\ SameLeaves(u, t)
         /\ u.free = t.free /\ u.freeByType = t.freeByType
         /\ u.healthy = t.healthy
         /\ NodesIs(u, after)
  <1> DEFINE u == AddFreeNodes(t, gain, loss)
             fn == [d \in Domain |-> [ct \in Types |-> [n \in Sizes |->
                      Adjusted(t.freeNodes[d][ct][n], OfKey(d, ct, n), gain, loss)]]]
  <1>1. u = [t EXCEPT !.freeNodes = fn]
    BY DEF AddFreeNodes, OfKey
  <1>2. \A d \in Domain, ct \in Types, n \in Sizes :
           /\ fn[d][ct][n] = Total(OfKey(d, ct, n), after)
           /\ Total(OfKey(d, ct, n), after) \in Nat
    <2> SUFFICES ASSUME NEW d \in Domain, NEW ct \in Types, NEW n \in Sizes
                 PROVE  /\ fn[d][ct][n] = Total(OfKey(d, ct, n), after)
                        /\ Total(OfKey(d, ct, n), after) \in Nat
      OBVIOUS
    <2>1. OfKey(d, ct, n) \in SUBSET Leaf
      BY LeafFacts
    <2>2. Adjusted(Total(OfKey(d, ct, n), before), OfKey(d, ct, n), gain, loss)
            = Total(OfKey(d, ct, n), after)
      BY <2>1, LeafSumMoved
    <2>3. Total(OfKey(d, ct, n), after) \in Nat
      BY <2>1, LeafSum DEF Moved
    <2>4. t.freeNodes[d][ct][n] = Total(OfKey(d, ct, n), before)
      BY DEF NodesIs
    <2>. QED
      BY <2>2, <2>3, <2>4
  <1>3. fn \in [Domain -> [Types -> [Sizes -> Int]]]
    BY <1>2
  <1>4. u.freeNodes = fn /\ u \in Shape
    BY <1>1, <1>3 DEF Shape
  <1>5. /\ SameLeaves(u, t) /\ u.free = t.free /\ u.freeByType = t.freeByType
        /\ u.healthy = t.healthy
    BY <1>1 DEF Shape, SameLeaves
  <1>. QED
    BY <1>2, <1>4, <1>5 DEF NodesIs

---------------------------------------------------------------------------
(* Demand and use.                                                         *)

LEMMA DemandFacts ==
  ASSUME NEW a \in Seq(Gangs)
  PROVE  /\ \A l \in Leaf : Demand(a)[l] \in Nat
         /\ \A l \in Leaf : WantsWhole(a, l) => Demand(a)[l] >= LeafChips[l]
         /\ \A l \in Leaf : l \notin Asked(a) => Demand(a)[l] = 0
         /\ \A l \in Leaf : WantsWhole(a, l) => l \in Asked(a)
         /\ Asked(a) \subseteq Leaf
  <1> DEFINE part(l) == [i \in DOMAIN a |-> Amount(a[i], l)]
  <1>1. IsFiniteSet(DOMAIN a) /\ \A i \in DOMAIN a : a[i] \in Gangs
    <2>1. DOMAIN a = 1 .. Len(a) /\ Len(a) \in Nat
      OBVIOUS
    <2>. QED
      BY <2>1, FS_Interval
  <1>2. \A g \in Gangs : g.nodes \subseteq Leaf /\ g.chips \in Nat
    BY TreeAssumption DEF TreeAssumption, Gang
  <1>3. \A l \in Leaf : Amounts(DOMAIN a, part(l))
    BY <1>1, <1>2, LeafFacts DEF Amounts, Amount
  <1>4. \A l \in Leaf : Demand(a)[l] = Total(DOMAIN a, part(l))
    BY DEF Demand
  <1>5. \A l \in Leaf : Demand(a)[l] \in Nat
    BY <1>1, <1>3, <1>4, SumType
  <1>6. ASSUME NEW l \in Leaf, WantsWhole(a, l)
        PROVE  Demand(a)[l] >= LeafChips[l]
    <2>1. PICK i \in DOMAIN a : a[i].whole /\ l \in a[i].nodes
      BY <1>6 DEF WantsWhole
    <2>2. part(l)[i] = LeafChips[l]
      BY <2>1 DEF Amount
    <2>3. part(l)[i] <= Total(DOMAIN a, part(l))
      BY <1>1, <1>3, SumGe
    <2>. QED
      BY <2>2, <2>3, <1>4, <1>5, LeafFacts
  <1>7. \A l \in Leaf : l \notin Asked(a) => Demand(a)[l] = 0
    BY <1>5 DEF Asked
  <1>8. \A l \in Leaf : WantsWhole(a, l) => l \in Asked(a)
    BY <1>5, <1>6, LeafFacts DEF Asked
  <1>. QED
    BY <1>5, <1>6, <1>7, <1>8 DEF Asked

LEMMA NoDemand ==
  /\ << >> \in Seq(Gangs)
  /\ \A l \in Leaf : Demand(<< >>)[l] = 0 /\ ~ WantsWhole(<< >>, l)
  <1>1. DOMAIN << >> = {}
    OBVIOUS
  <1>2. \A l \in Leaf : Demand(<< >>)[l] = 0
    BY <1>1, SumNone DEF Demand
  <1>. QED
    BY <1>1, <1>2 DEF WantsWhole

LEMMA RowChanged ==
  ASSUME NEW row \in [Job -> Nat], NEW j \in Job, NEW n \in Nat
  PROVE  Total(Job, [row EXCEPT ![j] = n]) + row[j] = Total(Job, row) + n
  <1> DEFINE rest == [k \in Job |-> IF k = j THEN 0 ELSE row[k]]
             one(m) == [k \in Job |-> IF k = j THEN m ELSE 0]
             new == [row EXCEPT ![j] = n]
  <1>1. IsFiniteSet(Job)
    BY TreeAssumption DEF TreeAssumption
  <1>2. Amounts(Job, rest) /\ \A m \in Nat : Amounts(Job, one(m))
    BY DEF Amounts
  <1>3. \A m \in Nat : Total(Job, one(m)) = m
    <2> SUFFICES ASSUME NEW m \in Nat PROVE Total(Job, one(m)) = m
      OBVIOUS
    <2>1. one(m)[j] = m /\ \A k \in Job : k # j => one(m)[k] = 0
      OBVIOUS
    <2> HIDE DEF one
    <2>. QED
      BY <2>1, SumOne
  <1>4. Total(Job, row) = Total(Job, rest) + Total(Job, one(row[j]))
    <2>1. \A k \in Job : row[k] = rest[k] + one(row[j])[k]
      OBVIOUS
    <2>2. Amounts(Job, one(row[j]))
      BY <1>2
    <2> HIDE DEF rest, one
    <2>. QED
      BY <1>1, <1>2, <2>1, <2>2, SumAdd
  <1>5. Total(Job, new) = Total(Job, rest) + Total(Job, one(n))
    <2>1. \A k \in Job : new[k] = rest[k] + one(n)[k]
      OBVIOUS
    <2>2. Amounts(Job, one(n))
      BY <1>2
    <2> HIDE DEF rest, one, new
    <2>. QED
      BY <1>1, <1>2, <2>1, <2>2, SumAdd
  <1>6. Total(Job, rest) \in Nat /\ row[j] \in Nat
    BY <1>1, <1>2, SumType
  <1>7. Total(Job, one(n)) = n /\ Total(Job, one(row[j])) = row[j]
    BY <1>3, <1>6
  <1> HIDE DEF rest, one, new
  <1>8. Total(Job, new) + row[j] = Total(Job, row) + n
    BY <1>4, <1>5, <1>6, <1>7
  <1>. QED
    BY <1>8 DEF new

LEMMA UsedFacts ==
  ASSUME NEW t \in Shape, NEW l \in Leaf
  PROVE  /\ Used(t, l) \in Nat
         /\ \A j \in Job : t.owner[l][j] \in Nat /\ t.owner[l][j] <= Used(t, l)
         /\ Ownerless(t, l) <=> Used(t, l) = 0
  <1>1. t.owner[l] \in [Job -> Nat]
    BY DEF Shape
  <1>2. IsFiniteSet(Job) /\ Amounts(Job, t.owner[l])
    BY <1>1, TreeAssumption DEF Amounts, TreeAssumption
  <1>3. Used(t, l) \in Nat
    BY <1>2, SumType DEF Used
  <1>4. \A j \in Job : t.owner[l][j] \in Nat /\ t.owner[l][j] <= Used(t, l)
    BY <1>1, <1>2, SumGe DEF Used
  <1>5. Ownerless(t, l) => Used(t, l) = 0
    BY SumNone DEF Ownerless, Used
  <1>. QED
    BY <1>3, <1>4, <1>5 DEF Ownerless

LEMMA CountsTyped ==
  ASSUME NEW t \in Shape, OwnersMatch(t)
  PROVE  /\ Amounts(Leaf, Available(t)) /\ Amounts(Leaf, InService(t))
         /\ Amounts(Leaf, FreeNode(t))
  <1>1. \A l \in Leaf : Used(t, l) \in Nat /\ Used(t, l) <= LeafChips[l]
    BY UsedFacts DEF OwnersMatch
  <1>. QED
    BY <1>1, LeafFacts DEF Amounts, Available, InService, FreeNode

LEMMA LeafFree ==
  ASSUME NEW t, FleetInv(t), NEW l \in Leaf
  PROVE  t.free[l] = Available(t)[l]
  <1>1. t.free[l] = Total({l}, Available(t))
    BY LeafFacts DEF FleetInv, CountersMatch
  <1>2. Available(t)[l] \in Nat
    BY CountsTyped DEF FleetInv, Amounts
  <1>. QED
    BY <1>1, <1>2, SumOne

\* What the leaves say is all that the counts and the owners depend on.
LEMMA SameLeavesSame ==
  ASSUME NEW t, NEW u, SameLeaves(u, t)
  PROVE  /\ Available(u) = Available(t) /\ InService(u) = InService(t)
         /\ FreeNode(u) = FreeNode(t)
         /\ OwnersMatch(u) <=> OwnersMatch(t)
         /\ \A l : Used(u, l) = Used(t, l) /\ (Ownerless(u, l) <=> Ownerless(t, l))
                  /\ (IsHealthy(u, l) <=> IsHealthy(t, l))
  BY DEF SameLeaves, Available, InService, FreeNode, OwnersMatch, Used, Ownerless,
         IsHealthy

LEMMA Assembled ==
  ASSUME NEW v, NEW u \in Shape, SameLeaves(u, v), OwnersMatch(v),
         FreeIs(u, Available(v)), HealthyIs(u, InService(v)), NodesIs(u, FreeNode(v))
  PROVE  FleetInv(u)
  BY SameLeavesSame, CountersSplit DEF FleetInv

---------------------------------------------------------------------------
(* The operations.  Each first changes owners or health (v), then lets the *)
(* counters follow.                                                        *)

\* The allocation a of j can be recorded: the chips are there, whatever the
\* health of the leaves.
Recordable(t, j, a) ==
  /\ t.alloc[j] = << >>
  /\ \A l \in Asked(a) : /\ Used(t, l) + Demand(a)[l] <= LeafChips[l]
                         /\ t.health[l] # "MAINTENANCE"
                         /\ WantsWhole(a, l) => Ownerless(t, l)

\* The leaves of u are those of t, with a recorded for j.
Recorded(u, t, j, a) ==
  /\ u.health = t.health /\ u.held = t.held
  /\ \A l \in Leaf : u.owner[l] = [t.owner[l] EXCEPT ![j] = Demand(a)[l]]
  /\ u.alloc = [t.alloc EXCEPT ![j] = a]

InUse(t, a) == {l \in Asked(a) : IsHealthy(t, l)}

\* An allocation is recorded: by apply after its validation, by _reapply on
\* whatever health the leaves have.
LEMMA OccupiedKeeps ==
  ASSUME NEW t, FleetInv(t), NEW j \in Job, NEW a \in Seq(Gangs), Recordable(t, j, a)
  PROVE  LET u == Occupied(t, j, a, InUse(t, a)) IN
         FleetInv(u) /\ Recorded(u, t, j, a)
  <1> DEFINE S == {l \in Asked(a) : IsHealthy(t, l)}
  <1>0. /\ t.alloc[j] = << >>
        /\ \A l \in Asked(a) : /\ Used(t, l) + Demand(a)[l] <= LeafChips[l]
                               /\ t.health[l] # "MAINTENANCE"
                               /\ WantsWhole(a, l) => Ownerless(t, l)
    BY DEF Recordable
  <1> USE <1>0
  <1> DEFINE row(l) == IF l \in Asked(a) THEN [t.owner[l] EXCEPT ![j] = Demand(a)[l]]
                       ELSE t.owner[l]
             v == [t EXCEPT !.owner = [l \in Leaf |-> row(l)],
                            !.alloc = [t.alloc EXCEPT ![j] = a]]
             loss == Only(S, Demand(a))
             opened == {l \in S : Ownerless(t, l)}
             w == AddFreeNodes(v, Nothing, NodesOf(opened))
             u == AddFree(w, Nothing, loss)
  <1>1. t \in Shape /\ OwnersMatch(t)
    BY DEF FleetInv
  <1>2. \A l \in Leaf : Demand(a)[l] \in Nat /\ (l \notin Asked(a) => Demand(a)[l] = 0)
                      /\ (l \in Asked(a) => Demand(a)[l] > 0)
    BY DemandFacts DEF Asked
  <1>3. \A l \in Leaf : t.owner[l] \in [Job -> Nat] /\ t.owner[l][j] = 0
    BY ZenonT(60), <1>1, NoDemand DEF Shape, OwnersMatch
  <1>4. \A l \in Leaf : row(l) = [t.owner[l] EXCEPT ![j] = Demand(a)[l]]
    BY <1>2, <1>3
  <1>5. v \in Shape
    <2>1. [l \in Leaf |-> row(l)] \in [Leaf -> [Job -> Nat]]
      BY <1>2, <1>3
    <2>2. [t.alloc EXCEPT ![j] = a] \in [Job -> Seq(Gangs)]
      BY <1>1 DEF Shape
    <2> HIDE DEF row
    <2>. QED
      BY <1>1, <2>1, <2>2 DEF Shape
  <1>6. /\ v.health = t.health /\ v.held = t.held /\ v.free = t.free
        /\ v.freeByType = t.freeByType /\ v.healthy = t.healthy
        /\ v.freeNodes = t.freeNodes
        /\ \A l \in Leaf : v.owner[l] = [t.owner[l] EXCEPT ![j] = Demand(a)[l]]
        /\ v.alloc = [t.alloc EXCEPT ![j] = a]
    <2> HIDE DEF row
    <2>1. /\ v.health = t.health /\ v.held = t.held /\ v.free = t.free
          /\ v.freeByType = t.freeByType /\ v.healthy = t.healthy
          /\ v.freeNodes = t.freeNodes
          /\ v.owner = [l \in Leaf |-> row(l)]
          /\ v.alloc = [t.alloc EXCEPT ![j] = a]
      BY <1>1 DEF Shape
    <2> HIDE DEF v
    <2>2. \A l \in Leaf : v.owner[l] = [t.owner[l] EXCEPT ![j] = Demand(a)[l]]
      BY <1>4, <2>1
    <2>. QED
      BY <2>1, <2>2
  <1>7. \A l \in Leaf : Used(v, l) = Used(t, l) + Demand(a)[l] /\ Used(t, l) \in Nat
    <2> SUFFICES ASSUME NEW l \in Leaf
                 PROVE  Used(v, l) = Used(t, l) + Demand(a)[l] /\ Used(t, l) \in Nat
      OBVIOUS
    <2>0. t.owner[l] \in [Job -> Nat] /\ t.owner[l][j] = 0 /\ Demand(a)[l] \in Nat
      BY <1>2, <1>3
    <2>1. Total(Job, [t.owner[l] EXCEPT ![j] = Demand(a)[l]]) + t.owner[l][j]
            = Total(Job, t.owner[l]) + Demand(a)[l]
      <3> DEFINE r == t.owner[l]
                 n == Demand(a)[l]
      <3>1. r \in [Job -> Nat] /\ n \in Nat
        BY <2>0
      <3> HIDE DEF r, n
      <3>2. Total(Job, [r EXCEPT ![j] = n]) + r[j] = Total(Job, r) + n
        BY <3>1, RowChanged
      <3>. QED
        BY <3>2 DEF r, n
    <2>2. Used(t, l) \in Nat /\ Used(v, l) \in Nat
      BY <1>1, <1>5, UsedFacts
    <2> HIDE DEF v
    <2>. QED
      BY <2>1, <2>2, <1>2, <1>3, <1>6 DEF Used
  <1>8. \A l \in Leaf : Used(v, l) <= LeafChips[l]
    <2> SUFFICES ASSUME NEW l \in Leaf PROVE Used(v, l) <= LeafChips[l]
      OBVIOUS
    <2> HIDE DEF v
    <2>1. CASE l \in Asked(a)
      BY <2>1, <1>7
    <2>2. CASE l \notin Asked(a)
      <3>1. Used(v, l) = Used(t, l) + 0 /\ Used(t, l) \in Nat
        BY <2>2, <1>2, <1>7
      <3>2. Used(t, l) <= LeafChips[l]
        BY <1>1 DEF OwnersMatch
      <3>. QED
        BY <3>1, <3>2
    <2>. QED
      BY <2>1, <2>2
  <1>9. OwnersMatch(v)
    <2> HIDE DEF v
    <2>1. \A l \in Leaf : v.health[l] = "MAINTENANCE" => Ownerless(v, l)
      BY <1>1, <1>2, <1>6, <1>3 DEF OwnersMatch, Ownerless
    <2>2. \A l \in Leaf, k \in Job : v.owner[l][k] = Demand(v.alloc[k])[l]
      <3> SUFFICES ASSUME NEW l \in Leaf, NEW k \in Job
                   PROVE  v.owner[l][k] = Demand(v.alloc[k])[l]
        OBVIOUS
      <3>1. t.owner[l] \in [Job -> Nat] /\ t.alloc \in [Job -> Seq(Gangs)]
        BY <1>1, <1>3 DEF Shape
      <3>2. t.owner[l][k] = Demand(t.alloc[k])[l]
        BY <1>1 DEF OwnersMatch
      <3>3. CASE k = j
        BY ZenonT(60), <3>1, <3>3, <1>6
      <3>4. CASE k # j
        <4>1. v.owner[l][k] = t.owner[l][k] /\ v.alloc[k] = t.alloc[k]
          BY <3>1, <3>4, <1>6
        <4>. QED
          BY <4>1, <3>2
      <3>. QED
        BY <3>3, <3>4
    <2>3. ASSUME NEW i \in Job, NEW k \in Job, NEW l \in Leaf,
                 WantsWhole(v.alloc[i], l), v.owner[l][k] > 0, i # k
          PROVE  FALSE
      <3>0. /\ (i = j => v.alloc[i] = a) /\ (i # j => v.alloc[i] = t.alloc[i])
            /\ (k # j => v.owner[l][k] = t.owner[l][k])
            /\ (k = j => v.owner[l][k] = Demand(a)[l])
        BY <1>1, <1>3, <1>6 DEF Shape
      <3>1. CASE i = j
        <4>1. WantsWhole(a, l) /\ k # j /\ t.owner[l][k] > 0
          BY <2>3, <3>0, <3>1
        <4>2. Ownerless(t, l)
          BY <4>1, DemandFacts
        <4>. QED
          BY <4>1, <4>2 DEF Ownerless
      <3>2. CASE i # j /\ k # j
        BY <2>3, <3>0, <3>2, <1>1 DEF OwnersMatch
      <3>3. CASE i # j /\ k = j
        <4>1. l \in Asked(a) /\ Demand(a)[l] > 0 /\ Demand(a)[l] \in Nat
          BY <2>3, <3>0, <3>3, <1>2
        <4>2. t.alloc[i] \in Seq(Gangs) /\ WantsWhole(t.alloc[i], l)
          BY <1>1, <2>3, <3>0, <3>3 DEF Shape
        <4>3. t.owner[l][i] >= LeafChips[l]
          BY <4>2, <1>1, DemandFacts DEF OwnersMatch
        <4>4. t.owner[l][i] \in Nat /\ t.owner[l][i] <= Used(t, l) /\ Used(t, l) \in Nat
          BY <1>1, UsedFacts
        <4>5. Used(t, l) + Demand(a)[l] <= LeafChips[l]
          BY <4>1
        <4>6. LeafChips[l] \in Nat
          BY LeafFacts
        <4> DEFINE o == t.owner[l][i]
                   d == Demand(a)[l]
                   c == LeafChips[l]
                   m == Used(t, l)
        <4>7. /\ o \in Nat /\ d \in Nat /\ c \in Nat /\ m \in Nat
              /\ d > 0 /\ o >= c /\ o <= m /\ m + d <= c
          BY <4>1, <4>3, <4>4, <4>5, <4>6
        <4> HIDE DEF o, d, c, m
        <4>. QED
          BY <4>7
      <3>. QED
        BY <3>1, <3>2, <3>3
    <2>. QED
      BY <1>8, <2>1, <2>2, <2>3 DEF OwnersMatch
  <1>10. Moved(Available(t), Available(v), Nothing, loss)
    <2>1. Amounts(Leaf, Available(t)) /\ Amounts(Leaf, Available(v))
      BY <1>1, <1>5, <1>9, CountsTyped
    <2>2. Amounts(Leaf, Nothing) /\ Amounts(Leaf, loss)
      BY <1>2 DEF Amounts, Nothing, Only
    <2>3. \A l \in Leaf : Available(v)[l] + loss[l] = Available(t)[l] + Nothing[l]
      <3> HIDE DEF v
      <3>. QED
        BY <1>2, <1>6, <1>7, LeafFacts DEF Available, Only, Nothing, IsHealthy
    <2>. QED
      BY <2>1, <2>2, <2>3 DEF Moved
  <1>11. Moved(FreeNode(t), FreeNode(v), Nothing, NodesOf(opened))
    <2>1. Amounts(Leaf, FreeNode(t)) /\ Amounts(Leaf, FreeNode(v))
      BY <1>1, <1>5, <1>9, CountsTyped
    <2>2. Amounts(Leaf, Nothing) /\ Amounts(Leaf, NodesOf(opened))
      BY DEF Amounts, Nothing, NodesOf
    <2>3. ASSUME NEW l \in Leaf
          PROVE  FreeNode(v)[l] + NodesOf(opened)[l] = FreeNode(t)[l] + Nothing[l]
      <3>1. Ownerless(v, l) <=> Ownerless(t, l) /\ l \notin Asked(a)
        <4>1. Ownerless(v, l) <=> Used(v, l) = 0
          BY <1>5, UsedFacts
        <4>2. Ownerless(t, l) <=> Used(t, l) = 0
          BY <1>1, UsedFacts
        <4>3. CASE l \in Asked(a)
          <5>1. Used(v, l) = Used(t, l) + Demand(a)[l]
                /\ Used(t, l) \in Nat /\ Demand(a)[l] \in Nat /\ Demand(a)[l] > 0
            BY <4>3, <1>2, <1>7
          <5> HIDE DEF v
          <5>2. Used(v, l) # 0
            BY <5>1
          <5>. QED
            BY <4>1, <4>3, <5>2
        <4>4. CASE l \notin Asked(a)
          <5>1. Used(v, l) = Used(t, l) + 0 /\ Used(t, l) \in Nat
            BY <4>4, <1>2, <1>7
          <5> HIDE DEF v
          <5>2. Used(v, l) = Used(t, l)
            BY <5>1
          <5>. QED
            BY <4>1, <4>2, <4>4, <5>2
        <4>. QED
          BY <4>3, <4>4
      <3>2. IsHealthy(v, l) <=> IsHealthy(t, l)
        BY <1>6 DEF IsHealthy
      <3> HIDE DEF v
      <3>. QED
        BY <3>1, <3>2 DEF FreeNode, NodesOf, Nothing
    <2>. QED
      BY <2>1, <2>2, <2>3 DEF Moved
  <1> HIDE DEF v, loss, opened
  <1>12. FreeIs(v, Available(t)) /\ HealthyIs(v, InService(t)) /\ NodesIs(v, FreeNode(t))
    BY <1>6, CountersSplit DEF FleetInv, FreeIs, HealthyIs, NodesIs
  <1>13. InService(v) = InService(t)
    BY <1>6 DEF InService, IsHealthy
  <1>14. /\ w \in Shape /\ SameLeaves(w, v) /\ w.free = v.free
         /\ w.freeByType = v.freeByType /\ w.healthy = v.healthy
         /\ NodesIs(w, FreeNode(v))
    BY <1>5, <1>11, <1>12, NodesMoved
  <1> HIDE DEF w
  <1>15. FreeIs(w, Available(t))
    BY <1>12, <1>14 DEF FreeIs
  <1>16. /\ u \in Shape /\ SameLeaves(u, w) /\ u.healthy = w.healthy
         /\ u.freeNodes = w.freeNodes /\ FreeIs(u, Available(v))
    BY <1>10, <1>14, <1>15, FreeMoved
  <1> HIDE DEF u
  <1>17. SameLeaves(u, v) /\ HealthyIs(u, InService(v)) /\ NodesIs(u, FreeNode(v))
    BY <1>12, <1>13, <1>14, <1>16 DEF SameLeaves, HealthyIs, NodesIs
  <1>18. FleetInv(u)
    BY <1>9, <1>16, <1>17, Assembled
  <1>19. /\ u.health = t.health /\ u.held = t.held
         /\ \A l \in Leaf : u.owner[l] = [t.owner[l] EXCEPT ![j] = Demand(a)[l]]
         /\ u.alloc = [t.alloc EXCEPT ![j] = a]
    BY <1>6, <1>17 DEF SameLeaves
  <1>20. u = Occupied(t, j, a, InUse(t, a))
    BY DEF Occupied, InUse, u, w, v, loss, opened
  <1>. QED
    BY <1>18, <1>19, <1>20 DEF Recorded

LEMMA AppliedKeeps ==
  ASSUME NEW t, FleetInv(t), NEW j \in Job, NEW a \in Seq(Gangs), Accepts(t, j, a)
  PROVE  FleetInv(Applied(t, j, a))
  <1>1. /\ t.alloc[j] = << >>
        /\ \A l \in Asked(a) : /\ IsHealthy(t, l)
                               /\ WantsWhole(a, l) => Ownerless(t, l)
                               /\ Demand(a)[l] <= t.free[l]
    BY DEF Accepts, Fits
  <1>2. ASSUME NEW l \in Asked(a)
        PROVE  /\ Used(t, l) + Demand(a)[l] <= LeafChips[l]
               /\ t.health[l] # "MAINTENANCE"
    <2>1. l \in Leaf
      BY DEF Asked
    <2>2. t.free[l] = LeafChips[l] - Used(t, l)
      BY <1>1, <2>1, LeafFree DEF Available
    <2>3. Used(t, l) \in Nat /\ Demand(a)[l] \in Nat /\ LeafChips[l] \in Nat
      BY <2>1, UsedFacts, DemandFacts, LeafFacts DEF FleetInv
    <2>4. Demand(a)[l] <= LeafChips[l] - Used(t, l)
      BY <1>1, <2>2
    <2>5. Used(t, l) + Demand(a)[l] <= LeafChips[l]
      BY <2>3, <2>4
    <2>. QED
      BY <1>1, <2>5 DEF IsHealthy
  <1>3. Asked(a) = {l \in Asked(a) : IsHealthy(t, l)}
    BY <1>1
  <1>4. FleetInv(Occupied(t, j, a, Asked(a)))
    <2>1. Recordable(t, j, a)
      BY <1>1, <1>2 DEF Recordable
    <2>2. InUse(t, a) = Asked(a)
      BY <1>3 DEF InUse
    <2>. QED
      BY <2>1, <2>2, OccupiedKeeps
  <1>. QED
    BY <1>4 DEF Applied

LEMMA ReleasedKeeps ==
  ASSUME NEW t, FleetInv(t), NEW j \in Job
  PROVE  LET u == Released(t, j) IN
         /\ FleetInv(u) /\ u.health = t.health /\ u.held = t.held
         /\ \A l \in Leaf : u.owner[l] = [t.owner[l] EXCEPT ![j] = 0]
         /\ u.alloc = [t.alloc EXCEPT ![j] = << >>]
  <1> DEFINE touched == Asked(t.alloc[j])
             row(l) == IF l \in touched THEN [t.owner[l] EXCEPT ![j] = 0]
                       ELSE t.owner[l]
             v == [t EXCEPT !.owner = [l \in Leaf |-> row(l)],
                            !.alloc = [t.alloc EXCEPT ![j] = << >>]]
             back == {l \in touched : IsHealthy(t, l)}
             gain == [l \in Leaf |-> IF l \in back THEN t.owner[l][j] ELSE 0]
             emptied == {l \in back : Ownerless(v, l)}
             w == AddFree(v, gain, Nothing)
             u == AddFreeNodes(w, NodesOf(emptied), Nothing)
  <1>1. t \in Shape /\ OwnersMatch(t)
    BY DEF FleetInv
  <1>2. t.alloc[j] \in Seq(Gangs) /\ t.alloc \in [Job -> Seq(Gangs)]
    BY <1>1 DEF Shape
  <1>3. \A l \in Leaf : /\ t.owner[l] \in [Job -> Nat] /\ t.owner[l][j] \in Nat
                        /\ l \notin touched => t.owner[l][j] = 0
                        /\ l \in touched => t.owner[l][j] > 0
    <2> SUFFICES ASSUME NEW l \in Leaf
                 PROVE  /\ t.owner[l] \in [Job -> Nat] /\ t.owner[l][j] \in Nat
                        /\ l \notin touched => t.owner[l][j] = 0
                        /\ l \in touched => t.owner[l][j] > 0
      OBVIOUS
    <2>1. t.owner[l] \in [Job -> Nat]
      BY <1>1 DEF Shape
    <2>2. t.owner[l][j] = Demand(t.alloc[j])[l]
      BY <1>1 DEF OwnersMatch
    <2>3. l \in touched <=> t.owner[l][j] > 0
      BY <2>2 DEF Asked
    <2>. QED
      BY <2>1, <2>3
  <1>4. \A l \in Leaf : row(l) = [t.owner[l] EXCEPT ![j] = 0]
    BY <1>3
  <1>5. v \in Shape
    <2>1. [l \in Leaf |-> row(l)] \in [Leaf -> [Job -> Nat]]
      BY <1>3
    <2>2. [t.alloc EXCEPT ![j] = << >>] \in [Job -> Seq(Gangs)]
      BY <1>2, NoDemand
    <2> HIDE DEF row
    <2>. QED
      BY <1>1, <2>1, <2>2 DEF Shape
  <1>6. /\ v.health = t.health /\ v.held = t.held /\ v.free = t.free
        /\ v.freeByType = t.freeByType /\ v.healthy = t.healthy
        /\ v.freeNodes = t.freeNodes
        /\ \A l \in Leaf : v.owner[l] = [t.owner[l] EXCEPT ![j] = 0]
        /\ v.alloc = [t.alloc EXCEPT ![j] = << >>]
    <2> HIDE DEF row
    <2>1. /\ v.health = t.health /\ v.held = t.held /\ v.free = t.free
          /\ v.freeByType = t.freeByType /\ v.healthy = t.healthy
          /\ v.freeNodes = t.freeNodes
          /\ v.owner = [l \in Leaf |-> row(l)]
          /\ v.alloc = [t.alloc EXCEPT ![j] = << >>]
      BY <1>1 DEF Shape
    <2> HIDE DEF v
    <2>2. \A l \in Leaf : v.owner[l] = [t.owner[l] EXCEPT ![j] = 0]
      BY <1>4, <2>1
    <2>. QED
      BY <2>1, <2>2
  <1>7. \A l \in Leaf : /\ Used(v, l) + t.owner[l][j] = Used(t, l)
                        /\ Used(t, l) \in Nat /\ Used(v, l) \in Nat
    <2> SUFFICES ASSUME NEW l \in Leaf
                 PROVE  /\ Used(v, l) + t.owner[l][j] = Used(t, l)
                        /\ Used(t, l) \in Nat /\ Used(v, l) \in Nat
      OBVIOUS
    <2>1. Total(Job, [t.owner[l] EXCEPT ![j] = 0]) + t.owner[l][j]
            = Total(Job, t.owner[l]) + 0
      <3> DEFINE r == t.owner[l]
      <3>1. r \in [Job -> Nat]
        BY <1>3
      <3> HIDE DEF r
      <3>2. Total(Job, [r EXCEPT ![j] = 0]) + r[j] = Total(Job, r) + 0
        BY <3>1, RowChanged
      <3>. QED
        BY <3>2 DEF r
    <2>2. Used(t, l) \in Nat /\ Used(v, l) \in Nat
      BY <1>1, <1>5, UsedFacts
    <2>3. Used(v, l) = Total(Job, [t.owner[l] EXCEPT ![j] = 0])
      BY <1>6 DEF Used
    <2>4. Used(t, l) = Total(Job, t.owner[l])
      BY DEF Used
    <2> HIDE DEF v
    <2>. QED
      BY <2>1, <2>2, <2>3, <2>4
  <1> HIDE DEF row
  <1>8. \A l \in Leaf : Used(v, l) <= LeafChips[l]
    <2> SUFFICES ASSUME NEW l \in Leaf PROVE Used(v, l) <= LeafChips[l]
      OBVIOUS
    <2>1. Used(t, l) <= LeafChips[l]
      BY <1>1 DEF OwnersMatch
    <2>2. t.owner[l][j] \in Nat /\ LeafChips[l] \in Nat
      BY <1>3, LeafFacts
    <2> HIDE DEF v
    <2>. QED
      BY <2>1, <2>2, <1>7
  <1>9. OwnersMatch(v)
    <2> HIDE DEF v
    <2>1. \A l \in Leaf, k \in Job :
             /\ k = j => v.owner[l][k] = 0 /\ v.alloc[k] = << >>
             /\ k # j => v.owner[l][k] = t.owner[l][k] /\ v.alloc[k] = t.alloc[k]
      BY <1>2, <1>3, <1>6
    <2>2. \A l \in Leaf : v.health[l] = "MAINTENANCE" => Ownerless(v, l)
      BY <1>1, <1>6, <2>1 DEF OwnersMatch, Ownerless
    <2>3. \A l \in Leaf, k \in Job : v.owner[l][k] = Demand(v.alloc[k])[l]
      BY <1>1, <2>1, NoDemand DEF OwnersMatch
    <2>4. \A i, k \in Job : \A l \in Leaf :
             WantsWhole(v.alloc[i], l) /\ v.owner[l][k] > 0 => i = k
      BY <1>1, <2>1, NoDemand DEF OwnersMatch
    <2>. QED
      BY <1>8, <2>2, <2>3, <2>4 DEF OwnersMatch
  <1>10. Moved(Available(t), Available(v), gain, Nothing)
    <2>1. Amounts(Leaf, Available(t)) /\ Amounts(Leaf, Available(v))
      BY <1>1, <1>5, <1>9, CountsTyped
    <2>2. Amounts(Leaf, Nothing) /\ Amounts(Leaf, gain)
      BY <1>3 DEF Amounts, Nothing
    <2>3. ASSUME NEW l \in Leaf
          PROVE  Available(v)[l] + Nothing[l] = Available(t)[l] + gain[l]
      <3>1. LeafChips[l] \in Nat /\ t.owner[l][j] \in Nat
        BY <1>3, LeafFacts
      <3>2. IsHealthy(v, l) <=> IsHealthy(t, l)
        BY <1>6 DEF IsHealthy
      <3>3. gain[l] = IF IsHealthy(t, l) THEN t.owner[l][j] ELSE 0
        BY <1>3
      <3> HIDE DEF v, gain
      <3>. QED
        BY <1>7, <3>1, <3>2, <3>3 DEF Available, Nothing
    <2>. QED
      BY <2>1, <2>2, <2>3 DEF Moved
  <1>11. Moved(FreeNode(t), FreeNode(v), NodesOf(emptied), Nothing)
    <2>1. Amounts(Leaf, FreeNode(t)) /\ Amounts(Leaf, FreeNode(v))
      BY <1>1, <1>5, <1>9, CountsTyped
    <2>2. Amounts(Leaf, Nothing) /\ Amounts(Leaf, NodesOf(emptied))
      BY DEF Amounts, Nothing, NodesOf
    <2>3. ASSUME NEW l \in Leaf
          PROVE  FreeNode(v)[l] + Nothing[l] = FreeNode(t)[l] + NodesOf(emptied)[l]
      <3>1. IsHealthy(v, l) <=> IsHealthy(t, l)
        BY <1>6 DEF IsHealthy
      <3>2. l \in touched => ~ Ownerless(t, l)
        <4> SUFFICES ASSUME l \in touched PROVE ~ Ownerless(t, l)
          OBVIOUS
        <4>1. t.owner[l][j] # 0
          BY <1>3
        <4>. QED
          BY <4>1 DEF Ownerless
      <3>3. l \notin touched => (Ownerless(v, l) <=> Ownerless(t, l))
        <4> SUFFICES ASSUME l \notin touched
                     PROVE  Ownerless(v, l) <=> Ownerless(t, l)
          OBVIOUS
        <4>1. t.owner[l][j] = 0
          BY <1>3
        <4>2. Used(v, l) = Used(t, l)
          <5> HIDE DEF v
          <5>. QED
            BY <4>1, <1>7
        <4>3. Ownerless(v, l) <=> Used(v, l) = 0
          BY <1>5, UsedFacts
        <4>4. Ownerless(t, l) <=> Used(t, l) = 0
          BY <1>1, UsedFacts
        <4>. QED
          BY <4>2, <4>3, <4>4
      <3>4. l \in emptied <=> l \in touched /\ IsHealthy(t, l) /\ Ownerless(v, l)
        OBVIOUS
      <3> HIDE DEF v, touched, emptied
      <3>. QED
        BY <3>1, <3>2, <3>3, <3>4 DEF FreeNode, NodesOf, Nothing
    <2>. QED
      BY <2>1, <2>2, <2>3 DEF Moved
  <1> HIDE DEF v, gain, emptied
  <1>12. FreeIs(v, Available(t)) /\ HealthyIs(v, InService(t)) /\ NodesIs(v, FreeNode(t))
    BY <1>6, CountersSplit DEF FleetInv, FreeIs, HealthyIs, NodesIs
  <1>13. InService(v) = InService(t)
    BY <1>6 DEF InService, IsHealthy
  <1>14. /\ w \in Shape /\ SameLeaves(w, v) /\ w.healthy = v.healthy
         /\ w.freeNodes = v.freeNodes /\ FreeIs(w, Available(v))
    BY <1>5, <1>10, <1>12, FreeMoved
  <1> HIDE DEF w
  <1>15. NodesIs(w, FreeNode(t)) /\ HealthyIs(w, InService(t))
    BY <1>12, <1>14 DEF NodesIs, HealthyIs
  <1>16. /\ u \in Shape /\ SameLeaves(u, w) /\ u.free = w.free
         /\ u.freeByType = w.freeByType /\ u.healthy = w.healthy
         /\ NodesIs(u, FreeNode(v))
    BY <1>11, <1>14, <1>15, NodesMoved
  <1> HIDE DEF u
  <1>17. SameLeaves(u, v) /\ HealthyIs(u, InService(v)) /\ FreeIs(u, Available(v))
    BY <1>13, <1>14, <1>15, <1>16 DEF SameLeaves, HealthyIs, FreeIs
  <1>18. FleetInv(u)
    BY <1>9, <1>16, <1>17, Assembled
  <1>19. /\ u.health = t.health /\ u.held = t.held
         /\ \A l \in Leaf : u.owner[l] = [t.owner[l] EXCEPT ![j] = 0]
         /\ u.alloc = [t.alloc EXCEPT ![j] = << >>]
    BY <1>6, <1>17 DEF SameLeaves
  <1>20. u = Released(t, j)
    BY DEF Released, u, w, v, gain, emptied, row
  <1>. QED
    BY <1>18, <1>19, <1>20

\* The health of one leaf is set; the counters are left as they are.
LEMMA HealthSet ==
  ASSUME NEW t \in Shape, NEW l \in Leaf, NEW h \in Health
  PROVE  LET v == SetHealth(t, l, h) IN
         /\ v \in Shape
         /\ v.owner = t.owner /\ v.alloc = t.alloc /\ v.held = t.held
         /\ v.health = [t.health EXCEPT ![l] = h]
         /\ v.free = t.free /\ v.freeByType = t.freeByType
         /\ v.healthy = t.healthy /\ v.freeNodes = t.freeNodes
         /\ \A m : Used(v, m) = Used(t, m) /\ (Ownerless(v, m) <=> Ownerless(t, m))
         /\ OwnersMatch(t) /\ (h = "MAINTENANCE" => Ownerless(t, l)) => OwnersMatch(v)
  <1> DEFINE v == SetHealth(t, l, h)
  <1>1. [t.health EXCEPT ![l] = h] \in [Leaf -> Health]
    BY DEF Shape
  <1>2. /\ v \in Shape
        /\ v.owner = t.owner /\ v.alloc = t.alloc /\ v.held = t.held
        /\ v.health = [t.health EXCEPT ![l] = h]
        /\ v.free = t.free /\ v.freeByType = t.freeByType
        /\ v.healthy = t.healthy /\ v.freeNodes = t.freeNodes
    BY <1>1 DEF Shape, SetHealth
  <1> HIDE DEF v
  <1>3. \A m : Used(v, m) = Used(t, m) /\ (Ownerless(v, m) <=> Ownerless(t, m))
    BY <1>2 DEF Used, Ownerless
  <1>4. ASSUME OwnersMatch(t), h = "MAINTENANCE" => Ownerless(t, l)
        PROVE  OwnersMatch(v)
    <2>1. \A m \in Leaf : v.health[m] = IF m = l THEN h ELSE t.health[m]
      BY <1>2 DEF Shape
    <2>2. \A m \in Leaf : v.health[m] = "MAINTENANCE" => Ownerless(v, m)
      BY <1>3, <1>4, <2>1 DEF OwnersMatch
    <2>. QED
      BY <1>2, <1>3, <1>4, <2>2 DEF OwnersMatch
  <1>. QED
    BY <1>2, <1>3, <1>4 DEF v

\* drain_node and fail_node: a healthy leaf leaves the counters.
LEMMA UnhealthyKeeps ==
  ASSUME NEW t, FleetInv(t), NEW l \in Leaf, IsHealthy(t, l),
         NEW h \in {"FAILED", "DRAINING"}
  PROVE  FleetInv(SetHealth(MadeUnhealthy(t, l), l, h))
  <1> DEFINE v == SetHealth(t, l, h)
             fl == Only({l}, t.free)
             hl == Only({l}, LeafChips)
             nl == NodesOf(EmptyAmong(t, l))
             a == AddFree(t, Nothing, fl)
             b == AddHealthy(a, Nothing, hl)
             c == AddFreeNodes(b, Nothing, nl)
             u == SetHealth(c, l, h)
  <1>1. t \in Shape /\ OwnersMatch(t) /\ h \in Health /\ h # "MAINTENANCE"
        /\ h # "HEALTHY"
    BY DEF FleetInv, Health
  <1>2. /\ v \in Shape /\ OwnersMatch(v)
        /\ v.owner = t.owner /\ v.alloc = t.alloc /\ v.held = t.held
        /\ v.health = [t.health EXCEPT ![l] = h]
        /\ \A m : Used(v, m) = Used(t, m) /\ (Ownerless(v, m) <=> Ownerless(t, m))
    BY <1>1, HealthSet
  <1>3. \A m \in Leaf : IsHealthy(v, m) <=> m # l /\ IsHealthy(t, m)
    BY <1>1, <1>2 DEF IsHealthy, Shape
  <1> HIDE DEF v
  <1>4. /\ Amounts(Leaf, Available(t)) /\ Amounts(Leaf, InService(t))
        /\ Amounts(Leaf, FreeNode(t)) /\ Amounts(Leaf, Available(v))
        /\ Amounts(Leaf, InService(v)) /\ Amounts(Leaf, FreeNode(v))
    BY <1>1, <1>2, CountsTyped
  <1>5. t.free[l] = Available(t)[l]
    BY LeafFree
  <1>6. Amounts(Leaf, Nothing) /\ \A m \in Leaf : Nothing[m] = 0
    BY DEF Amounts, Nothing
  <1>7. Moved(Available(t), Available(v), Nothing, fl)
    <2>1. \A m \in Leaf : fl[m] = IF m = l THEN Available(t)[l] ELSE 0
      BY <1>5 DEF Only
    <2>2. \A m \in Leaf : Available(v)[m] = IF m = l THEN 0 ELSE Available(t)[m]
      BY <1>2, <1>3 DEF Available
    <2>3. Amounts(Leaf, fl)
      BY <1>4, <2>1 DEF Amounts
    <2>4. \A m \in Leaf : Available(v)[m] + fl[m] = Available(t)[m] + Nothing[m]
      <3> HIDE DEF fl
      <3>. QED
        BY <1>4, <1>6, <2>1, <2>2 DEF Amounts
    <2>. QED
      BY <1>4, <1>6, <2>3, <2>4 DEF Moved
  <1>8. Moved(InService(t), InService(v), Nothing, hl)
    <2>1. \A m \in Leaf : hl[m] = IF m = l THEN LeafChips[l] ELSE 0
      BY DEF Only
    <2>2. \A m \in Leaf : InService(v)[m] = IF m = l THEN 0 ELSE InService(t)[m]
      BY <1>3 DEF InService
    <2>3. InService(t)[l] = LeafChips[l] /\ LeafChips[l] \in Nat
      BY LeafFacts DEF InService
    <2>4. Amounts(Leaf, hl)
      BY <2>1, <2>3 DEF Amounts
    <2>5. \A m \in Leaf : InService(v)[m] + hl[m] = InService(t)[m] + Nothing[m]
      <3> HIDE DEF hl
      <3>. QED
        BY <1>4, <1>6, <2>1, <2>2, <2>3 DEF Amounts
    <2>. QED
      BY <1>4, <1>6, <2>4, <2>5 DEF Moved
  <1>9. Moved(FreeNode(t), FreeNode(v), Nothing, nl)
    <2>1. \A m \in Leaf : nl[m] = IF m = l THEN FreeNode(t)[l] ELSE 0
      BY DEF NodesOf, EmptyAmong, FreeNode
    <2>2. \A m \in Leaf : FreeNode(v)[m] = IF m = l THEN 0 ELSE FreeNode(t)[m]
      BY <1>2, <1>3 DEF FreeNode
    <2>3. Amounts(Leaf, nl)
      BY <1>4, <2>1 DEF Amounts
    <2>4. \A m \in Leaf : FreeNode(v)[m] + nl[m] = FreeNode(t)[m] + Nothing[m]
      <3> HIDE DEF nl
      <3>. QED
        BY <1>4, <1>6, <2>1, <2>2 DEF Amounts
    <2>. QED
      BY <1>4, <1>6, <2>3, <2>4 DEF Moved
  <1> HIDE DEF fl, hl, nl
  <1>10. FreeIs(t, Available(t)) /\ HealthyIs(t, InService(t)) /\ NodesIs(t, FreeNode(t))
    BY CountersSplit DEF FleetInv
  <1>11. /\ a \in Shape /\ SameLeaves(a, t) /\ a.healthy = t.healthy
         /\ a.freeNodes = t.freeNodes /\ FreeIs(a, Available(v))
    BY <1>1, <1>7, <1>10, FreeMoved
  <1> HIDE DEF a
  <1>12. HealthyIs(a, InService(t)) /\ NodesIs(a, FreeNode(t))
    BY <1>10, <1>11 DEF HealthyIs, NodesIs
  <1>13. /\ b \in Shape /\ SameLeaves(b, a) /\ b.free = a.free
         /\ b.freeByType = a.freeByType /\ b.freeNodes = a.freeNodes
         /\ HealthyIs(b, InService(v))
    BY <1>8, <1>11, <1>12, HealthyMoved
  <1> HIDE DEF b
  <1>14. FreeIs(b, Available(v)) /\ NodesIs(b, FreeNode(t))
    BY <1>11, <1>12, <1>13 DEF FreeIs, NodesIs
  <1>15. /\ c \in Shape /\ SameLeaves(c, b) /\ c.free = b.free
         /\ c.freeByType = b.freeByType /\ c.healthy = b.healthy
         /\ NodesIs(c, FreeNode(v))
    BY <1>9, <1>13, <1>14, NodesMoved
  <1> HIDE DEF c
  <1>16. FreeIs(c, Available(v)) /\ HealthyIs(c, InService(v)) /\ SameLeaves(c, t)
    BY <1>11, <1>13, <1>14, <1>15 DEF FreeIs, HealthyIs, SameLeaves
  <1>17. /\ u \in Shape /\ u.owner = c.owner /\ u.alloc = c.alloc /\ u.held = c.held
         /\ u.health = [c.health EXCEPT ![l] = h]
         /\ u.free = c.free /\ u.freeByType = c.freeByType
         /\ u.healthy = c.healthy /\ u.freeNodes = c.freeNodes
    BY <1>1, <1>15, HealthSet
  <1> HIDE DEF u
  <1>18. SameLeaves(u, v)
    BY <1>2, <1>16, <1>17 DEF SameLeaves
  <1>19. FreeIs(u, Available(v)) /\ HealthyIs(u, InService(v)) /\ NodesIs(u, FreeNode(v))
    BY <1>15, <1>16, <1>17 DEF FreeIs, HealthyIs, NodesIs
  <1>20. FleetInv(u)
    BY <1>2, <1>17, <1>18, <1>19, Assembled
  <1>. QED
    BY <1>20 DEF MadeUnhealthy, u, c, b, a, fl, hl, nl

\* repair_node: what the owners left of the leaf returns to the counters.
LEMMA RepairedKeeps ==
  ASSUME NEW t, FleetInv(t), NEW l \in Leaf, ~ IsHealthy(t, l)
  PROVE  FleetInv(Repaired(t, l))
  <1> DEFINE v == SetHealth(t, l, "HEALTHY")
             left == [m \in Leaf |-> LeafChips[m] - Used(t, m)]
             fl == Only({l}, left)
             hl == Only({l}, LeafChips)
             nl == NodesOf(EmptyAmong(t, l))
             a == AddHealthy(v, hl, Nothing)
             b == AddFree(a, fl, Nothing)
             c == AddFreeNodes(b, nl, Nothing)
  <1>1. t \in Shape /\ OwnersMatch(t) /\ "HEALTHY" \in Health
    BY DEF FleetInv, Health
  <1>2. /\ v \in Shape /\ OwnersMatch(v)
        /\ v.owner = t.owner /\ v.alloc = t.alloc /\ v.held = t.held
        /\ v.health = [t.health EXCEPT ![l] = "HEALTHY"]
        /\ v.free = t.free /\ v.freeByType = t.freeByType
        /\ v.healthy = t.healthy /\ v.freeNodes = t.freeNodes
        /\ \A m : Used(v, m) = Used(t, m) /\ (Ownerless(v, m) <=> Ownerless(t, m))
    BY <1>1, HealthSet
  <1>3. \A m \in Leaf : IsHealthy(v, m) <=> m = l \/ IsHealthy(t, m)
    BY <1>1, <1>2 DEF IsHealthy, Shape
  <1> HIDE DEF v
  <1>4. /\ Amounts(Leaf, Available(t)) /\ Amounts(Leaf, InService(t))
        /\ Amounts(Leaf, FreeNode(t)) /\ Amounts(Leaf, Available(v))
        /\ Amounts(Leaf, InService(v)) /\ Amounts(Leaf, FreeNode(v))
    BY <1>1, <1>2, CountsTyped
  <1>5. /\ Available(t)[l] = 0 /\ InService(t)[l] = 0 /\ FreeNode(t)[l] = 0
    BY DEF Available, InService, FreeNode
  <1>6. Amounts(Leaf, Nothing) /\ \A m \in Leaf : Nothing[m] = 0
    BY DEF Amounts, Nothing
  <1>7. Moved(Available(t), Available(v), fl, Nothing)
    <2>1. \A m \in Leaf : fl[m] = IF m = l THEN Available(v)[l] ELSE 0
      BY <1>2, <1>3 DEF Only, Available
    <2>2. \A m \in Leaf : m # l => Available(v)[m] = Available(t)[m]
      BY <1>2, <1>3 DEF Available
    <2>3. Amounts(Leaf, fl)
      BY <1>4, <2>1 DEF Amounts
    <2>4. \A m \in Leaf : Available(v)[m] + Nothing[m] = Available(t)[m] + fl[m]
      <3> HIDE DEF fl
      <3>. QED
        BY <1>4, <1>5, <1>6, <2>1, <2>2 DEF Amounts
    <2>. QED
      BY <1>4, <1>6, <2>3, <2>4 DEF Moved
  <1>8. Moved(InService(t), InService(v), hl, Nothing)
    <2>1. \A m \in Leaf : hl[m] = IF m = l THEN InService(v)[l] ELSE 0
      BY <1>3 DEF Only, InService
    <2>2. \A m \in Leaf : m # l => InService(v)[m] = InService(t)[m]
      BY <1>3 DEF InService
    <2>3. Amounts(Leaf, hl)
      BY <1>4, <2>1 DEF Amounts
    <2>4. \A m \in Leaf : InService(v)[m] + Nothing[m] = InService(t)[m] + hl[m]
      <3> HIDE DEF hl
      <3>. QED
        BY <1>4, <1>5, <1>6, <2>1, <2>2 DEF Amounts
    <2>. QED
      BY <1>4, <1>6, <2>3, <2>4 DEF Moved
  <1>9. Moved(FreeNode(t), FreeNode(v), nl, Nothing)
    <2>1. \A m \in Leaf : nl[m] = IF m = l THEN FreeNode(v)[l] ELSE 0
      BY <1>2, <1>3 DEF NodesOf, EmptyAmong, FreeNode
    <2>2. \A m \in Leaf : m # l => FreeNode(v)[m] = FreeNode(t)[m]
      BY <1>2, <1>3 DEF FreeNode
    <2>3. Amounts(Leaf, nl)
      BY <1>4, <2>1 DEF Amounts
    <2>4. \A m \in Leaf : FreeNode(v)[m] + Nothing[m] = FreeNode(t)[m] + nl[m]
      <3> HIDE DEF nl
      <3>. QED
        BY <1>4, <1>5, <1>6, <2>1, <2>2 DEF Amounts
    <2>. QED
      BY <1>4, <1>6, <2>3, <2>4 DEF Moved
  <1> HIDE DEF left, fl, hl, nl
  <1>10. FreeIs(v, Available(t)) /\ HealthyIs(v, InService(t)) /\ NodesIs(v, FreeNode(t))
    BY <1>2, CountersSplit DEF FleetInv, FreeIs, HealthyIs, NodesIs
  <1>11. /\ a \in Shape /\ SameLeaves(a, v) /\ a.free = v.free
         /\ a.freeByType = v.freeByType /\ a.freeNodes = v.freeNodes
         /\ HealthyIs(a, InService(v))
    BY <1>2, <1>8, <1>10, HealthyMoved
  <1> HIDE DEF a
  <1>12. FreeIs(a, Available(t)) /\ NodesIs(a, FreeNode(t))
    BY <1>10, <1>11 DEF FreeIs, NodesIs
  <1>13. /\ b \in Shape /\ SameLeaves(b, a) /\ b.healthy = a.healthy
         /\ b.freeNodes = a.freeNodes /\ FreeIs(b, Available(v))
    BY <1>7, <1>11, <1>12, FreeMoved
  <1> HIDE DEF b
  <1>14. HealthyIs(b, InService(v)) /\ NodesIs(b, FreeNode(t))
    BY <1>11, <1>12, <1>13 DEF HealthyIs, NodesIs
  <1>15. /\ c \in Shape /\ SameLeaves(c, b) /\ c.free = b.free
         /\ c.freeByType = b.freeByType /\ c.healthy = b.healthy
         /\ NodesIs(c, FreeNode(v))
    BY <1>9, <1>13, <1>14, NodesMoved
  <1> HIDE DEF c
  <1>16. FreeIs(c, Available(v)) /\ HealthyIs(c, InService(v)) /\ SameLeaves(c, v)
    BY <1>11, <1>13, <1>14, <1>15 DEF FreeIs, HealthyIs, SameLeaves
  <1>17. FleetInv(c)
    BY <1>2, <1>15, <1>16, Assembled
  <1>. QED
    BY <1>17 DEF Repaired, c, b, a, v, left, fl, hl, nl

\* Between two states out of service only the health changes.
LEMMA OutOfServiceKeeps ==
  ASSUME NEW t, FleetInv(t), NEW l \in Leaf, ~ IsHealthy(t, l),
         NEW h \in {"FAILED", "MAINTENANCE"}, h = "MAINTENANCE" => Ownerless(t, l)
  PROVE  FleetInv(SetHealth(t, l, h))
  <1> DEFINE v == SetHealth(t, l, h)
  <1>1. t \in Shape /\ OwnersMatch(t) /\ h \in Health /\ h # "HEALTHY"
    BY DEF FleetInv, Health
  <1>2. /\ v \in Shape /\ OwnersMatch(v)
        /\ v.health = [t.health EXCEPT ![l] = h]
        /\ v.free = t.free /\ v.freeByType = t.freeByType
        /\ v.healthy = t.healthy /\ v.freeNodes = t.freeNodes
        /\ \A m : Used(v, m) = Used(t, m) /\ (Ownerless(v, m) <=> Ownerless(t, m))
    BY <1>1, HealthSet
  <1>3. \A m \in Leaf : IsHealthy(v, m) <=> IsHealthy(t, m)
    BY <1>1, <1>2 DEF IsHealthy, Shape
  <1> HIDE DEF v
  <1>4. /\ Available(v) = Available(t) /\ InService(v) = InService(t)
        /\ FreeNode(v) = FreeNode(t)
    BY <1>2, <1>3 DEF Available, InService, FreeNode
  <1>5. FreeIs(v, Available(v)) /\ HealthyIs(v, InService(v)) /\ NodesIs(v, FreeNode(v))
    BY <1>2, <1>4, CountersSplit DEF FleetInv, FreeIs, HealthyIs, NodesIs
  <1>6. SameLeaves(v, v)
    BY DEF SameLeaves
  <1>7. FleetInv(v)
    BY <1>2, <1>5, <1>6, Assembled
  <1>. QED
    BY <1>7 DEF v

LEMMA HeldKeeps ==
  ASSUME NEW t, FleetInv(t), NEW who \in [Leaf -> Tenant \cup {Nobody}]
  PROVE  FleetInv([t EXCEPT !.held = who])
  <1> DEFINE v == [t EXCEPT !.held = who]
  <1>1. t \in Shape /\ OwnersMatch(t) /\ CountersMatch(t)
    BY DEF FleetInv
  <1>2. /\ v \in Shape
        /\ v.health = t.health /\ v.owner = t.owner /\ v.alloc = t.alloc
        /\ v.free = t.free /\ v.freeByType = t.freeByType
        /\ v.healthy = t.healthy /\ v.freeNodes = t.freeNodes
    BY <1>1 DEF Shape
  <1> HIDE DEF v
  <1>3. OwnersMatch(v)
    BY <1>1, <1>2 DEF OwnersMatch, Used, Ownerless
  <1>4. /\ Available(v) = Available(t) /\ InService(v) = InService(t)
        /\ FreeNode(v) = FreeNode(t)
    BY <1>2 DEF Available, InService, FreeNode, IsHealthy, Used, Ownerless
  <1>5. FreeIs(v, Available(v)) /\ HealthyIs(v, InService(v)) /\ NodesIs(v, FreeNode(v))
    BY <1>2, <1>4, CountersSplit DEF FleetInv, FreeIs, HealthyIs, NodesIs
  <1>6. SameLeaves(v, v)
    BY DEF SameLeaves
  <1>7. FleetInv(v)
    BY <1>2, <1>3, <1>5, <1>6, Assembled
  <1>. QED
    BY <1>7 DEF v

LEMMA FreshHolds == FleetInv(FreshTree)
  <1> DEFINE chips == Only(Leaf, LeafChips)
             ones == NodesOf(Leaf)
             v == [health |-> [l \in Leaf |-> "HEALTHY"],
                   owner |-> [l \in Leaf |-> [j \in Job |-> 0]],
                   alloc |-> [j \in Job |-> << >>],
                   held |-> [l \in Leaf |-> Nobody],
                   free |-> [d \in Domain |-> 0],
                   healthy |-> [d \in Domain |-> 0],
                   freeByType |-> [d \in Domain |-> [ct \in Types |-> 0]],
                   freeNodes |-> [d \in Domain |->
                                    [ct \in Types |-> [n \in Sizes |-> 0]]]]
             a == AddFree(v, chips, Nothing)
             b == AddHealthy(a, chips, Nothing)
             c == AddFreeNodes(b, ones, Nothing)
  <1>1. v \in Shape
    BY NoDemand DEF Shape, Health
  <1>2. /\ \A l \in Leaf : v.health[l] = "HEALTHY" /\ \A j \in Job : v.owner[l][j] = 0
        /\ \A j \in Job : v.alloc[j] = << >>
        /\ \A d \in Domain :
             /\ v.free[d] = 0 /\ v.healthy[d] = 0
             /\ \A ct \in Types : /\ v.freeByType[d][ct] = 0
                                  /\ \A n \in Sizes : v.freeNodes[d][ct][n] = 0
    OBVIOUS
  <1> HIDE DEF v
  <1>3. \A l \in Leaf : IsHealthy(v, l) /\ Ownerless(v, l)
    BY <1>2 DEF IsHealthy, Ownerless
  <1>4. \A l \in Leaf : Used(v, l) = 0
    BY <1>1, <1>3, UsedFacts
  <1>5. OwnersMatch(v)
    BY <1>2, <1>3, <1>4, NoDemand, LeafFacts DEF OwnersMatch
  <1>6. Amounts(Leaf, Nothing) /\ \A l \in Leaf : Nothing[l] = 0
    BY DEF Amounts, Nothing
  <1>7. Moved(Nothing, Available(v), chips, Nothing)
    <2>1. \A l \in Leaf : chips[l] = LeafChips[l] /\ LeafChips[l] \in Nat
      BY LeafFacts DEF Only
    <2>2. \A l \in Leaf : Available(v)[l] = LeafChips[l]
      BY <1>3, <1>4, <2>1 DEF Available
    <2>. QED
      BY <1>6, <2>1, <2>2 DEF Moved, Amounts
  <1>8. Moved(Nothing, InService(v), chips, Nothing)
    <2>1. \A l \in Leaf : chips[l] = LeafChips[l] /\ LeafChips[l] \in Nat
      BY LeafFacts DEF Only
    <2>2. \A l \in Leaf : InService(v)[l] = LeafChips[l]
      BY <1>3 DEF InService
    <2>. QED
      BY <1>6, <2>1, <2>2 DEF Moved, Amounts
  <1>9. Moved(Nothing, FreeNode(v), ones, Nothing)
    <2>1. \A l \in Leaf : ones[l] = 1 /\ FreeNode(v)[l] = 1
      BY <1>3 DEF NodesOf, FreeNode
    <2>. QED
      BY <1>6, <2>1 DEF Moved, Amounts
  <1>10. FreeIs(v, Nothing) /\ HealthyIs(v, Nothing) /\ NodesIs(v, Nothing)
    <2>1. \A S \in SUBSET Leaf : Total(S, Nothing) = 0
      BY <1>6, SumNone
    <2>. QED
      BY <1>2, <2>1, LeafFacts DEF FreeIs, HealthyIs, NodesIs
  <1> HIDE DEF chips, ones
  <1>11. /\ a \in Shape /\ SameLeaves(a, v) /\ a.healthy = v.healthy
         /\ a.freeNodes = v.freeNodes /\ FreeIs(a, Available(v))
    BY <1>1, <1>7, <1>10, FreeMoved
  <1> HIDE DEF a
  <1>12. HealthyIs(a, Nothing) /\ NodesIs(a, Nothing)
    BY <1>10, <1>11 DEF HealthyIs, NodesIs
  <1>13. /\ b \in Shape /\ SameLeaves(b, a) /\ b.free = a.free
         /\ b.freeByType = a.freeByType /\ b.freeNodes = a.freeNodes
         /\ HealthyIs(b, InService(v))
    BY <1>8, <1>11, <1>12, HealthyMoved
  <1> HIDE DEF b
  <1>14. FreeIs(b, Available(v)) /\ NodesIs(b, Nothing)
    BY <1>11, <1>12, <1>13 DEF FreeIs, NodesIs
  <1>15. /\ c \in Shape /\ SameLeaves(c, b) /\ c.free = b.free
         /\ c.freeByType = b.freeByType /\ c.healthy = b.healthy
         /\ NodesIs(c, FreeNode(v))
    BY <1>9, <1>13, <1>14, NodesMoved
  <1> HIDE DEF c
  <1>16. FreeIs(c, Available(v)) /\ HealthyIs(c, InService(v)) /\ SameLeaves(c, v)
    BY <1>11, <1>13, <1>14, <1>15 DEF FreeIs, HealthyIs, SameLeaves
  <1>17. FleetInv(c)
    BY <1>5, <1>15, <1>16, Assembled
  <1>. QED
    BY <1>17 DEF FreshTree, c, b, a, v, chips, ones

---------------------------------------------------------------------------
(* The specification.                                                      *)

IInv == FleetInv(tree)

LEMMA FleetInvHolds == Spec => []IInv
  <1>1. Init => IInv
    BY FreshHolds DEF Init, IInv
  <1>2. FleetInv(tree) /\ [Next]_tree => FleetInv(tree')
    <2> SUFFICES ASSUME FleetInv(tree), [Next]_tree PROVE FleetInv(tree')
      OBVIOUS
    <2>1. ASSUME NEW j \in Job, NEW a \in Seq(Gangs), Apply(j, a)
          PROVE  FleetInv(tree')
      BY <2>1, AppliedKeeps DEF Apply
    <2>2. ASSUME NEW j \in Job, NEW g \in Gangs, Apply(j, <<g>>)
          PROVE  FleetInv(tree')
      <3>1. <<g>> \in Seq(Gangs)
        OBVIOUS
      <3>. QED
        BY <2>1, <2>2, <3>1
    <2>3. ASSUME NEW j \in Job, NEW g \in Gangs, NEW h \in Gangs, Apply(j, <<g, h>>)
          PROVE  FleetInv(tree')
      <3>1. <<g, h>> \in Seq(Gangs)
        OBVIOUS
      <3>. QED
        BY <2>1, <2>3, <3>1
    <2>4. ASSUME NEW j \in Job, Release(j) PROVE FleetInv(tree')
      BY <2>4, ReleasedKeeps DEF Release
    <2>5. ASSUME NEW l \in Faulty PROVE l \in Leaf
      BY TreeAssumption DEF TreeAssumption
    <2>6. ASSUME NEW l \in Faulty, FailNode(l) PROVE FleetInv(tree')
      <3>1. CASE IsHealthy(tree, l)
        BY <2>5, <2>6, <3>1, UnhealthyKeeps DEF FailNode, Failed
      <3>2. CASE ~ IsHealthy(tree, l)
        BY <2>5, <2>6, <3>2, OutOfServiceKeeps DEF FailNode, Failed
      <3>. QED
        BY <3>1, <3>2
    <2>7. ASSUME NEW l \in Faulty, RepairNode(l) PROVE FleetInv(tree')
      BY <2>5, <2>7, RepairedKeeps DEF RepairNode
    <2>8. ASSUME NEW l \in Faulty, DrainNode(l) PROVE FleetInv(tree')
      BY <2>5, <2>8, UnhealthyKeeps DEF DrainNode, Drained
    <2>9. ASSUME NEW l \in Faulty, ToMaintenance(l) PROVE FleetInv(tree')
      BY <2>5, <2>9, OutOfServiceKeeps DEF ToMaintenance, IsHealthy
    <2>10. ASSUME NEW S \in SUBSET Holdable, NEW who \in Tenant, ReserveLeaves(S, who)
           PROVE  FleetInv(tree')
      <3> DEFINE got == {l \in S : \A m \in S : m <= l => tree.held[m] = Nobody}
                 now == [l \in Leaf |-> IF l \in got THEN who ELSE tree.held[l]]
      <3>1. now \in [Leaf -> Tenant \cup {Nobody}]
        BY DEF FleetInv, Shape
      <3>2. tree' = [tree EXCEPT !.held = now]
        BY <2>10 DEF ReserveLeaves
      <3> HIDE DEF now
      <3>. QED
        BY <3>1, <3>2, HeldKeeps
    <2>11. ASSUME NEW S \in SUBSET Holdable, ReleaseReservation(S)
           PROVE  FleetInv(tree')
      <3> DEFINE now == [l \in Leaf |-> IF l \in S THEN Nobody ELSE tree.held[l]]
      <3>1. now \in [Leaf -> Tenant \cup {Nobody}]
        BY DEF FleetInv, Shape
      <3>2. tree' = [tree EXCEPT !.held = now]
        BY <2>11 DEF ReleaseReservation
      <3> HIDE DEF now
      <3>. QED
        BY <3>1, <3>2, HeldKeeps
    <2>12. CASE UNCHANGED tree
      BY <2>12
    <2>. QED
      BY <2>2, <2>3, <2>4, <2>6, <2>7, <2>8, <2>9, <2>10, <2>11, <2>12 DEF Next
  <1>3. IInv /\ [Next]_tree => IInv'
    BY <1>2 DEF IInv
  <1>. QED
    BY <1>1, <1>3, PTL DEF Spec

\* The counters of every domain are what its leaves say, after any sequence of
\* apply, release, fail, drain, repair and reservations: check_invariants never
\* finds a drifted counter.
THEOREM CountersCorrect == Spec => []CountersExact
  <1>1. IInv => CountersExact
    BY DEF IInv, FleetInv, CountersExact
  <1>. QED
    BY <1>1, FleetInvHolds, PTL

\* No leaf is ever oversubscribed, whole-node leaves are not shared, the owner
\* maps and the allocation table agree, and a leaf in maintenance is empty.
THEOREM OwnersCorrect == Spec => []OwnershipSound
  <1>1. IInv => OwnershipSound
    BY DEF IInv, FleetInv, OwnershipSound
  <1>. QED
    BY <1>1, FleetInvHolds, PTL

\* The fields have their types: above all, no counter is ever negative.
THEOREM TypeCorrect == Spec => []TypeOK
  <1>1. IInv => TypeOK
    <2> SUFFICES ASSUME FleetInv(tree) PROVE TypeOK
      BY DEF IInv
    <2>1. tree \in Shape /\ OwnersMatch(tree) /\ CountersMatch(tree)
      BY DEF FleetInv
    <2>2. /\ Amounts(Leaf, Available(tree)) /\ Amounts(Leaf, InService(tree))
          /\ Amounts(Leaf, FreeNode(tree))
      BY <2>1, CountsTyped
    <2>3. /\ FreeIs(tree, Available(tree)) /\ HealthyIs(tree, InService(tree))
          /\ NodesIs(tree, FreeNode(tree))
      BY <2>1, CountersSplit
    <2>4. \A d \in Domain : tree.free[d] \in Nat /\ tree.healthy[d] \in Nat
      BY <2>2, <2>3, LeafSum, LeafFacts DEF FreeIs, HealthyIs
    <2>5. \A d \in Domain : \A ct \in Types : tree.freeByType[d][ct] \in Nat
      <3> SUFFICES ASSUME NEW d \in Domain, NEW ct \in Types
                   PROVE  tree.freeByType[d][ct] \in Nat
        OBVIOUS
      <3>1. OfType(d, ct) \in SUBSET Leaf
        BY LeafFacts
      <3>2. Total(OfType(d, ct), Available(tree)) \in Nat
        BY <3>1, <2>2, LeafSum
      <3>. QED
        BY <3>2, <2>3 DEF FreeIs
    <2>6. \A d \in Domain : \A ct \in Types : \A n \in Sizes :
             tree.freeNodes[d][ct][n] \in Nat
      <3> SUFFICES ASSUME NEW d \in Domain, NEW ct \in Types, NEW n \in Sizes
                   PROVE  tree.freeNodes[d][ct][n] \in Nat
        OBVIOUS
      <3>1. OfKey(d, ct, n) \in SUBSET Leaf
        BY LeafFacts
      <3>2. Total(OfKey(d, ct, n), FreeNode(tree)) \in Nat
        BY <3>1, <2>2, LeafSum
      <3>. QED
        BY <3>2, <2>3 DEF NodesIs
    <2>7. \A j \in Job : tree.alloc[j] \in Seq(Gangs)
      BY <2>1 DEF Shape
    <2>8. \A j \in Job : tree.alloc[j] \in Seq(Gang)
                         /\ \A i \in DOMAIN tree.alloc[j] : tree.alloc[j][i] \in Gangs
      <3> SUFFICES ASSUME NEW j \in Job
                   PROVE  tree.alloc[j] \in Seq(Gang)
                          /\ \A i \in DOMAIN tree.alloc[j] : tree.alloc[j][i] \in Gangs
        OBVIOUS
      <3>1. Gangs \subseteq Gang
        BY TreeAssumption DEF TreeAssumption
      <3>. QED
        BY <2>7, <3>1
    <2>9. /\ tree.free \in [Domain -> Nat] /\ tree.healthy \in [Domain -> Nat]
          /\ tree.freeByType \in [Domain -> [Types -> Nat]]
      BY <2>1, <2>4, <2>5 DEF Shape
    <2>10. tree.freeNodes \in [Domain -> [Types -> [Sizes -> Nat]]]
      BY <2>1, <2>6 DEF Shape
    <2>11. tree.alloc \in [Job -> Seq(Gang)]
      BY <2>1, <2>8 DEF Shape
    <2>12. tree \in State
      BY <2>1, <2>9, <2>10, <2>11 DEF Shape, State
    <2>. QED
      BY <2>8, <2>12 DEF TypeOK
  <1>. QED
    BY <1>1, FleetInvHolds, PTL

\* Two exact trees whose leaves agree are the same tree.
LEMMA LeavesDetermine ==
  ASSUME NEW t, NEW u, FleetInv(t), FleetInv(u), SameLeaves(u, t)
  PROVE  u = t
  <1>1. t \in Shape /\ u \in Shape
    BY DEF FleetInv
  <1>2. /\ FreeIs(t, Available(t)) /\ HealthyIs(t, InService(t)) /\ NodesIs(t, FreeNode(t))
        /\ FreeIs(u, Available(t)) /\ HealthyIs(u, InService(t)) /\ NodesIs(u, FreeNode(t))
    BY CountersSplit, SameLeavesSame DEF FleetInv
  <1>3. u.free = t.free /\ u.healthy = t.healthy
    <2>1. \A d \in Domain : u.free[d] = t.free[d] /\ u.healthy[d] = t.healthy[d]
      BY <1>2 DEF FreeIs, HealthyIs
    <2>2. /\ u.free \in [Domain -> Int] /\ t.free \in [Domain -> Int]
          /\ u.healthy \in [Domain -> Int] /\ t.healthy \in [Domain -> Int]
      BY <1>1 DEF Shape
    <2>. QED
      BY <2>1, <2>2
  <1>4. u.freeByType = t.freeByType
    <2>1. u.freeByType \in [Domain -> [Types -> Int]]
          /\ t.freeByType \in [Domain -> [Types -> Int]]
      BY <1>1 DEF Shape
    <2>2. \A d \in Domain : \A ct \in Types : u.freeByType[d][ct] = t.freeByType[d][ct]
      BY <1>2 DEF FreeIs
    <2>3. \A d \in Domain : u.freeByType[d] = t.freeByType[d]
      BY <2>1, <2>2
    <2>. QED
      BY <2>1, <2>3
  <1>5. u.freeNodes = t.freeNodes
    <2>1. u.freeNodes \in [Domain -> [Types -> [Sizes -> Int]]]
          /\ t.freeNodes \in [Domain -> [Types -> [Sizes -> Int]]]
      BY <1>1 DEF Shape
    <2>2. \A d \in Domain : \A ct \in Types : \A n \in Sizes :
             u.freeNodes[d][ct][n] = t.freeNodes[d][ct][n]
      BY <1>2 DEF NodesIs
    <2>3. \A d \in Domain : \A ct \in Types : u.freeNodes[d][ct] = t.freeNodes[d][ct]
      BY <2>1, <2>2
    <2>4. \A d \in Domain : u.freeNodes[d] = t.freeNodes[d]
      BY <2>1, <2>3
    <2>. QED
      BY <2>1, <2>4
  <1>6. /\ u.health = t.health /\ u.owner = t.owner
        /\ u.alloc = t.alloc /\ u.held = t.held
    BY DEF SameLeaves
  <1>7. ASSUME NEW x \in Shape
        PROVE  x = [health |-> x.health, owner |-> x.owner, alloc |-> x.alloc,
                    held |-> x.held, free |-> x.free, healthy |-> x.healthy,
                    freeByType |-> x.freeByType, freeNodes |-> x.freeNodes]
    BY DEF Shape
  <1>8. /\ t = [health |-> t.health, owner |-> t.owner, alloc |-> t.alloc,
               held |-> t.held, free |-> t.free, healthy |-> t.healthy,
               freeByType |-> t.freeByType, freeNodes |-> t.freeNodes]
        /\ u = [health |-> u.health, owner |-> u.owner, alloc |-> u.alloc,
               held |-> u.held, free |-> u.free, healthy |-> u.healthy,
               freeByType |-> u.freeByType, freeNodes |-> u.freeNodes]
    BY <1>1, <1>7
  <1>. QED
    BY <1>3, <1>4, <1>5, <1>6, <1>8

\* A release that is only tried (search_after_release, one victim) leaves no
\* trace: _reapply after release is the tree as it was, whatever the health of
\* the leaves the victim stands on.
THEOREM TentativeReleaseUndone ==
  ASSUME NEW t, FleetInv(t), NEW j \in Job
  PROVE  Reapplied(Released(t, j), j, t.alloc[j]) = t
  <1> DEFINE a == t.alloc[j]
             r == Released(t, j)
             S == {l \in Asked(a) : IsHealthy(r, l)}
             u == Occupied(r, j, a, S)
  <1>1. t \in Shape /\ OwnersMatch(t) /\ a \in Seq(Gangs)
    BY DEF FleetInv, Shape
  <1>2. /\ FleetInv(r) /\ r.health = t.health /\ r.held = t.held
        /\ \A l \in Leaf : r.owner[l] = [t.owner[l] EXCEPT ![j] = 0]
        /\ r.alloc = [t.alloc EXCEPT ![j] = << >>]
    BY ReleasedKeeps
  <1>3. r \in Shape /\ r.alloc[j] = << >>
    BY <1>1, <1>2 DEF FleetInv, Shape
  <1> HIDE DEF r
  <1>4. \A l \in Leaf : /\ t.owner[l] \in [Job -> Nat]
                        /\ t.owner[l][j] = Demand(a)[l]
    BY <1>1 DEF Shape, OwnersMatch
  <1>5. ASSUME NEW l \in Asked(a)
        PROVE  /\ Used(r, l) + Demand(a)[l] <= LeafChips[l]
               /\ r.health[l] # "MAINTENANCE"
               /\ WantsWhole(a, l) => Ownerless(r, l)
    <2>1. l \in Leaf /\ Demand(a)[l] > 0
      BY DEF Asked
    <2>2. Used(r, l) + Demand(a)[l] = Used(t, l)
      <3>1. t.owner[l] \in [Job -> Nat] /\ t.owner[l][j] = Demand(a)[l]
        BY <1>4, <2>1
      <3>2. r.owner[l] = [t.owner[l] EXCEPT ![j] = 0]
        BY <1>2, <2>1
      <3> DEFINE w == t.owner[l]
      <3>3. w \in [Job -> Nat]
        BY <3>1
      <3> HIDE DEF w
      <3>4. Total(Job, [w EXCEPT ![j] = 0]) + w[j] = Total(Job, w) + 0
        BY <3>3, RowChanged
      <3>5. Used(r, l) = Total(Job, [w EXCEPT ![j] = 0]) /\ Used(t, l) = Total(Job, w)
            /\ w[j] = Demand(a)[l]
        BY <3>1, <3>2 DEF Used, w
      <3>6. Used(t, l) \in Nat
        BY <1>1, <2>1, UsedFacts
      <3>. QED
        BY <3>4, <3>5, <3>6
    <2>3. Used(t, l) <= LeafChips[l]
      BY <1>1, <2>1 DEF OwnersMatch
    <2>4. ~ Ownerless(t, l)
      BY <1>4, <2>1 DEF Ownerless
    <2>5. r.health[l] # "MAINTENANCE"
      BY <1>1, <1>2, <2>1, <2>4 DEF OwnersMatch
    <2>6. ASSUME WantsWhole(a, l), NEW k \in Job PROVE r.owner[l][k] = 0
      <3>1. CASE k = j
        BY <1>2, <1>4, <2>1, <3>1
      <3>2. CASE k # j
        <4>1. r.owner[l][k] = t.owner[l][k] /\ t.owner[l][k] \in Nat
          BY <1>2, <1>4, <2>1, <3>2
        <4>2. ~ (t.owner[l][k] > 0)
          BY <1>1, <2>1, <2>6, <3>2 DEF OwnersMatch
        <4>. QED
          BY <4>1, <4>2
      <3>. QED
        BY <3>1, <3>2
    <2>. QED
      BY <2>2, <2>3, <2>5, <2>6 DEF Ownerless
  <1>6. /\ FleetInv(u) /\ u.health = r.health /\ u.held = r.held
        /\ \A l \in Leaf : u.owner[l] = [r.owner[l] EXCEPT ![j] = Demand(a)[l]]
        /\ u.alloc = [r.alloc EXCEPT ![j] = a]
    <2>1. Recordable(r, j, a)
      BY <1>3, <1>5 DEF Recordable
    <2> DEFINE b == a
    <2>2. b \in Seq(Gangs) /\ Recordable(r, j, b) /\ FleetInv(r)
      BY <1>1, <1>2, <2>1
    <2> HIDE DEF b
    <2>3. LET x == Occupied(r, j, b, InUse(r, b)) IN
          FleetInv(x) /\ Recorded(x, r, j, b)
      BY <2>2, OccupiedKeeps
    <2>. QED
      BY <2>3 DEF b, InUse, Recorded
  <1> HIDE DEF u
  <1>7. u \in Shape
    BY <1>6 DEF FleetInv
  <1>8. u.owner = t.owner
    <2>1. \A l \in Leaf : u.owner[l] = t.owner[l]
      <3> SUFFICES ASSUME NEW l \in Leaf PROVE u.owner[l] = t.owner[l]
        OBVIOUS
      <3> DEFINE w == t.owner[l]
                 n == Demand(a)[l]
      <3>1. w \in [Job -> Nat] /\ w[j] = n
        BY <1>4
      <3>2. u.owner[l] = [[w EXCEPT ![j] = 0] EXCEPT ![j] = n]
        BY <1>2, <1>6
      <3> HIDE DEF w, n
      <3>3. [[w EXCEPT ![j] = 0] EXCEPT ![j] = n] = w
        BY <3>1
      <3>4. u.owner[l] = w
        BY <3>2, <3>3
      <3>. QED
        BY <3>4 DEF w
    <2>2. u.owner \in [Leaf -> [Job -> Nat]] /\ t.owner \in [Leaf -> [Job -> Nat]]
      BY <1>1, <1>7 DEF Shape
    <2> DEFINE p == u.owner
               q == t.owner
               Row == [Job -> Nat]
    <2>3. p \in [Leaf -> Row] /\ q \in [Leaf -> Row] /\ \A l \in Leaf : p[l] = q[l]
      BY <2>1, <2>2
    <2> HIDE DEF p, q, Row
    <2>4. p = q
      BY <2>3
    <2>. QED
      BY <2>4 DEF p, q
  <1>9. u.alloc = t.alloc
    <2>1. t.alloc \in [Job -> Seq(Gangs)]
      BY <1>1 DEF Shape
    <2> DEFINE w == t.alloc
    <2>2. w \in [Job -> Seq(Gangs)] /\ w[j] = a
      BY <2>1
    <2>3. u.alloc = [[w EXCEPT ![j] = << >>] EXCEPT ![j] = a]
      BY <1>2, <1>6
    <2> HIDE DEF w, a
    <2>4. [[w EXCEPT ![j] = << >>] EXCEPT ![j] = a] = w
      BY <2>2
    <2>5. u.alloc = w
      BY <2>3, <2>4
    <2>. QED
      BY <2>5 DEF w
  <1>10. u = t
    BY <1>2, <1>6, <1>8, <1>9, LeavesDetermine DEF SameLeaves
  <1>. QED
    BY <1>10 DEF u, r, S, a, Reapplied
=============================================================================
