------------------------- MODULE FleetSearchProofs -------------------------
(***************************************************************************)
(* Proofs about the placement searches: what a search answers is what the  *)
(* tree accepts, a search misses no fit it promises to find, and the dry   *)
(* run of an eviction leaves the tree as it was.                           *)
(*                                                                         *)
(* Induction is over a number or a finite set, by the least counterexample *)
(* (LeastNumber, UpwardInduction, FiniteInduction).  A fold is reasoned    *)
(* about through its course: the values it takes after each element        *)
(* (TableRows; GreedyCourse, PackCourseExists, FreedCourseExists and       *)
(* BackCourseExists give the course of each fold of FleetSearch).          *)
(***************************************************************************)
EXTENDS FleetSearch, FleetTreeProofs, WellFoundedInduction

---------------------------------------------------------------------------
(* Induction: a set of numbers has a least member, so what holds of 0 and  *)
(* of n + 1 with n holds of every number.                                  *)

Less == {p \in Nat \X Nat : p[1] < p[2]}

LEMMA LeastNumber ==
  ASSUME NEW T, T \subseteq Nat, T # {}
  PROVE  \E x \in T : \A y \in T : x <= y
  <1>1. IsWellFoundedOn(Less, Nat)
    BY NatLessThanWellFounded DEF OpToRel, Less
  <1>2. \E x \in T : \A y \in T : ~ (<<y, x>> \in Less)
    BY <1>1, WFMin
  <1>3. \A x, y \in T : <<y, x>> \notin Less => x <= y
    BY DEF Less
  <1>. QED
    BY <1>2, <1>3

LEMMA MinIsLeast ==
  ASSUME NEW T, T \subseteq Nat, T # {}
  PROVE  Min(T) \in T /\ \A y \in T : Min(T) <= y
  BY LeastNumber DEF Min

LEMMA UpwardInduction ==
  ASSUME NEW n \in Nat, NEW P, 0 \in P,
         \A i \in 0 .. n - 1 : i \in P => i + 1 \in P
  PROVE  \A i \in 0 .. n : i \in P
  <1> DEFINE bad == {i \in 0 .. n : i \notin P}
  <1> SUFFICES ASSUME bad # {} PROVE FALSE
    OBVIOUS
  <1>1. PICK m \in bad : \A i \in bad : m <= i
    <2>1. bad \subseteq Nat
      OBVIOUS
    <2>. QED
      BY <2>1, LeastNumber
  <1>2. m # 0
    OBVIOUS
  <1>3. m - 1 \in 0 .. n - 1 /\ m - 1 \notin bad
    BY <1>1, <1>2
  <1>4. m \in 0 .. n /\ (m - 1) + 1 = m
    BY <1>1
  <1>5. m - 1 \in P
    BY <1>3, <1>4
  <1>. QED
    BY <1>1, <1>3, <1>4, <1>5

LEMMA MaxIsGreatest ==
  ASSUME NEW n \in Nat, NEW T \in SUBSET (1 .. n), T # {}
  PROVE  Max(T) \in T /\ \A y \in T : y <= Max(T)
  <1> DEFINE gaps == {n - x : x \in T}
  <1>1. PICK g \in gaps : \A h \in gaps : g <= h
    <2>1. \A x \in T : n - x \in Nat
      OBVIOUS
    <2>2. gaps \subseteq Nat /\ gaps # {}
      BY <2>1
    <2>. QED
      BY <2>2, LeastNumber
  <1>2. PICK x \in T : g = n - x
    OBVIOUS
  <1>3. \A y \in T : n - x <= n - y
    BY <1>1, <1>2
  <1>4. \A y \in T : x >= y
    <2> SUFFICES ASSUME NEW y \in T PROVE x >= y
      OBVIOUS
    <2>1. x \in Int /\ y \in Int /\ n - x <= n - y
      BY <1>3
    <2>. QED
      BY <2>1
  <1>5. Max(T) \in T /\ \A y \in T : Max(T) >= y
    BY <1>4 DEF Max
  <1>. QED
    BY <1>5

\* A family of subsets of S that has the empty set, and with a set each
\* larger one by an element, has S.
LEMMA FiniteInduction ==
  ASSUME NEW S, IsFiniteSet(S), NEW F, {} \in F,
         \A T \in SUBSET S : \A x \in S \ T : T \in F => T \cup {x} \in F
  PROVE  S \in F
  <1> DEFINE left == {Cardinality(S \ T) : T \in {U \in SUBSET S : U \in F}}
  <1>1. \A T \in SUBSET S : IsFiniteSet(S \ T) /\ Cardinality(S \ T) \in Nat
    BY FS_Difference, FS_CardinalityType
  <1>2. left \subseteq Nat /\ left # {}
    BY <1>1
  <1>3. PICK m \in left : \A k \in left : m <= k
    BY <1>2, LeastNumber
  <1>4. PICK T \in SUBSET S : T \in F /\ m = Cardinality(S \ T)
    OBVIOUS
  <1>5. CASE S \ T = {}
    BY <1>4, <1>5
  <1>6. CASE S \ T # {}
    <2>1. PICK x \in S \ T : TRUE
      BY <1>6
    <2>2. T \cup {x} \in F /\ T \cup {x} \in SUBSET S
      BY <1>4, <2>1
    <2>3. S \ (T \cup {x}) = (S \ T) \ {x}
      OBVIOUS
    <2>4. Cardinality((S \ T) \ {x}) = Cardinality(S \ T) - 1
      BY <1>1, <2>1, FS_RemoveElement
    <2>5. Cardinality(S \ (T \cup {x})) \in left
      BY <2>2
    <2>6. m <= Cardinality(S \ (T \cup {x}))
      BY <1>3, <2>5
    <2>7. m \in Nat
      BY <1>1, <1>4
    <2>8. Cardinality(S \ (T \cup {x})) = m - 1
      BY <1>4, <2>3, <2>4
    <2> HIDE DEF left
    <2>. QED
      BY <2>6, <2>7, <2>8
  <1>. QED
    BY <1>5, <1>6

---------------------------------------------------------------------------
(* Folds.                                                                  *)

\* The table that FoldLeft fills: the fold of the elements at a set of
\* indices, from the greatest index down.
Table(n, base, G, h) ==
  \A s \in SUBSET (1 .. n) :
    h[s] = IF s = {} THEN base ELSE G[<<h[s \ {Max(s)}], Max(s)>>]

LEMMA TableExists ==
  ASSUME NEW n \in Nat, NEW A, NEW base \in A, NEW G \in [A \X (1 .. n) -> A]
  PROVE  \E h \in [SUBSET (1 .. n) -> A] : Table(n, base, G, h)
  <1> DEFINE P == {m \in 0 .. n : \E h \in [SUBSET (1 .. m) -> A] : Table(m, base, G, h)}
  <1>1. 0 \in P
    <2>1. [s \in SUBSET (1 .. 0) |-> base] \in [SUBSET (1 .. 0) -> A]
      OBVIOUS
    <2>2. Table(0, base, G, [s \in SUBSET (1 .. 0) |-> base])
      <3>1. \A s \in SUBSET (1 .. 0) : s = {}
        OBVIOUS
      <3>. QED
        BY <3>1 DEF Table
    <2>. QED
      BY <2>1, <2>2
  <1>2. \A m \in 0 .. n - 1 : m \in P => m + 1 \in P
    <2> SUFFICES ASSUME NEW m \in 0 .. n - 1, m \in P PROVE m + 1 \in P
      OBVIOUS
    <2>1. PICK h \in [SUBSET (1 .. m) -> A] : Table(m, base, G, h)
      OBVIOUS
    <2> DEFINE k == [s \in SUBSET (1 .. m + 1) |->
                       IF m + 1 \in s THEN G[<<h[s \ {m + 1}], m + 1>>] ELSE h[s]]
    <2>2. ASSUME NEW s \in SUBSET (1 .. m + 1)
          PROVE  /\ k[s] \in A
                 /\ k[s] = IF s = {} THEN base ELSE G[<<k[s \ {Max(s)}], Max(s)>>]
      <3>1. CASE m + 1 \in s
        <4>1. s \ {m + 1} \in SUBSET (1 .. m)
          OBVIOUS
        <4>2. Max(s) = m + 1
          <5>1. m + 1 \in Nat /\ s # {}
            BY <3>1
          <5>2. Max(s) \in s /\ \A y \in s : y <= Max(s)
            BY <5>1, MaxIsGreatest
          <5>3. Max(s) \in 1 .. m + 1
            BY <5>2
          <5>. QED
            BY <3>1, <5>2, <5>3
        <4>3. k[s \ {m + 1}] = h[s \ {m + 1}] /\ h[s \ {m + 1}] \in A
          BY <4>1
        <4>4. k[s] = G[<<h[s \ {m + 1}], m + 1>>]
          BY <3>1
        <4>. QED
          BY <3>1, <4>2, <4>3, <4>4
      <3>2. CASE m + 1 \notin s
        <4>1. s \in SUBSET (1 .. m)
          BY <3>2
        <4>2. k[s] = h[s] /\ h[s] \in A
          BY <3>2, <4>1
        <4>3. h[s] = IF s = {} THEN base ELSE G[<<h[s \ {Max(s)}], Max(s)>>]
          BY <2>1, <4>1 DEF Table
        <4>4. k[s \ {Max(s)}] = h[s \ {Max(s)}]
          <5>1. s \ {Max(s)} \in SUBSET (1 .. m)
            BY <4>1
          <5>. QED
            BY <5>1
        <4>. QED
          BY <4>2, <4>3, <4>4
      <3>. QED
        BY <3>1, <3>2
    <2>3. k \in [SUBSET (1 .. m + 1) -> A]
      BY <2>2
    <2>4. Table(m + 1, base, G, k)
      BY <2>2 DEF Table
    <2>5. m + 1 \in 0 .. n
      OBVIOUS
    <2> HIDE DEF k
    <2>. QED
      BY <2>3, <2>4, <2>5
  <1>3. n \in P
    <2> HIDE DEF P
    <2>1. \A i \in 0 .. n : i \in P
      BY <1>1, <1>2, UpwardInduction
    <2>. QED
      BY <2>1
  <1>. QED
    BY <1>3

\* A table that follows G where its values are in A.
Follows(h, n, A, base, G) ==
  /\ n \in Nat /\ base \in A /\ G \in [A \X (1 .. n) -> A]
  /\ h[{}] = base
  /\ \A s \in SUBSET (1 .. n) : s # {} /\ h[s \ {Max(s)}] \in A =>
       h[s] = G[<<h[s \ {Max(s)}], Max(s)>>]

\* f is the course of the fold.
Rows(f, n, base, G) == f[0] = base /\ \A i \in 1 .. n : f[i] = G[<<f[i - 1], i>>]

\* The rows of such a table for the first i indices are the course.
LEMMA TableRows ==
  ASSUME NEW n, NEW A, NEW base, NEW G, NEW h, Follows(h, n, A, base, G)
  PROVE  \E f \in [0 .. n -> A] : Rows(f, n, base, G) /\ f[n] = h[1 .. n]
  <1> DEFINE f == [i \in 0 .. n |-> h[1 .. i]]
  <1>0. /\ n \in Nat /\ base \in A /\ G \in [A \X (1 .. n) -> A]
        /\ h[{}] = base
        /\ \A s \in SUBSET (1 .. n) : s # {} /\ h[s \ {Max(s)}] \in A =>
             h[s] = G[<<h[s \ {Max(s)}], Max(s)>>]
    BY DEF Follows
  <1>1. f[0] = base
    <2>1. 1 .. 0 = {} /\ 0 \in 0 .. n
      BY <1>0
    <2>. QED
      BY <1>0, <2>1
  <1>2. ASSUME NEW i \in 1 .. n, f[i - 1] \in A PROVE f[i] = G[<<f[i - 1], i>>]
    <2>1. 1 .. i \in SUBSET (1 .. n) /\ i \in 1 .. i
      BY <1>0
    <2>2. Max(1 .. i) = i
      <3>1. Max(1 .. i) \in 1 .. i /\ \A y \in 1 .. i : y <= Max(1 .. i)
        BY <1>0, <2>1, MaxIsGreatest
      <3>. QED
        BY <1>0, <3>1
    <2>3. (1 .. i) \ {i} = 1 .. i - 1
      BY <1>0
    <2>4. i \in 0 .. n /\ i - 1 \in 0 .. n
      BY <1>0
    <2>5. f[i] = h[1 .. i] /\ f[i - 1] = h[1 .. i - 1]
      BY <2>4
    <2> HIDE DEF f
    <2>6. h[1 .. i] = G[<<h[1 .. i - 1], i>>]
      BY <1>0, <1>2, <2>1, <2>2, <2>3, <2>5
    <2>. QED
      BY <2>5, <2>6
  <1>3. \A i \in 0 .. n : f[i] \in A
    <2> DEFINE P == {i \in 0 .. n : f[i] \in A}
    <2>1. 0 \in P
      BY <1>0, <1>1
    <2>2. \A i \in 0 .. n - 1 : i \in P => i + 1 \in P
      <3> SUFFICES ASSUME NEW i \in 0 .. n - 1, i \in P PROVE i + 1 \in P
        BY <1>0
      <3>0. i + 1 \in 1 .. n /\ i + 1 \in 0 .. n /\ (i + 1) - 1 = i /\ f[i] \in A
        BY <1>0
      <3> HIDE DEF f
      <3>1. f[i + 1] = G[<<f[i], i + 1>>]
        BY <1>0, <1>2, <3>0
      <3>. QED
        BY <1>0, <3>0, <3>1
    <2> HIDE DEF P
    <2>3. \A i \in 0 .. n : i \in P
      BY <1>0, <2>1, <2>2, UpwardInduction
    <2>. QED
      BY <2>3 DEF P
  <1>4. f[n] = h[1 .. n] /\ f \in [0 .. n -> A]
    BY <1>0, <1>3
  <1>5. \A i \in 1 .. n : f[i] = G[<<f[i - 1], i>>]
    <2>1. \A i \in 1 .. n : i - 1 \in 0 .. n
      BY <1>0
    <2> HIDE DEF f
    <2>. QED
      BY <1>2, <1>3, <2>1
  <1> HIDE DEF f
  <1>. QED
    BY <1>1, <1>4, <1>5 DEF Rows

\* The same, with a name for what there is.
HasRows(h, n, A, base, G) ==
  \E f \in [0 .. n -> A] : Rows(f, n, base, G) /\ f[n] = h[1 .. n]

LEMMA TableRuns ==
  ASSUME NEW n, NEW A, NEW base, NEW G, NEW h, Follows(h, n, A, base, G)
  PROVE  HasRows(h, n, A, base, G)
  BY TableRows DEF HasRows

---------------------------------------------------------------------------
(* Sums.                                                                   *)

LEMMA SumUnion ==
  ASSUME NEW S, NEW T, NEW f, IsFiniteSet(S), IsFiniteSet(T), S \cap T = {},
         Amounts(S, f), Amounts(T, f)
  PROVE  Total(S \cup T, f) = Total(S, f) + Total(T, f)
  <1>1. Pairs(S \cup T, f) = Pairs(S, f) \cup Pairs(T, f)
    BY DEF Pairs
  <1>2. Pairs(S, f) \cap Pairs(T, f) = {}
    <2> SUFFICES ASSUME NEW p \in Pairs(S, f), p \in Pairs(T, f) PROVE FALSE
      OBVIOUS
    <2>1. PICK x \in S : \E i \in 1 .. f[x] : p = <<x, i>>
      BY InPairs
    <2>2. PICK y \in T : \E i \in 1 .. f[y] : p = <<y, i>>
      BY InPairs
    <2>. QED
      BY <2>1, <2>2
  <1>3. IsFiniteSet(Pairs(S, f)) /\ IsFiniteSet(Pairs(T, f))
    BY PairsFinite
  <1>4. Cardinality(Pairs(S, f) \cup Pairs(T, f))
          = Cardinality(Pairs(S, f)) + Cardinality(Pairs(T, f)) - Cardinality({})
    BY <1>2, <1>3, FS_Union
  <1>5. Cardinality({}) = 0
    BY FS_EmptySet
  <1>6. /\ Total(S \cup T, f) = Cardinality(Pairs(S, f) \cup Pairs(T, f))
        /\ Total(S, f) = Cardinality(Pairs(S, f)) /\ Total(T, f) = Cardinality(Pairs(T, f))
    BY <1>1, SumIsCardinality
  <1>7. Total(S, f) \in Nat /\ Total(T, f) \in Nat
    BY SumType
  <1>. QED
    BY <1>4, <1>5, <1>6, <1>7

LEMMA SumLess ==
  ASSUME NEW S, NEW T \in SUBSET S, NEW f, NEW g, IsFiniteSet(S),
         Amounts(S, f), Amounts(T, g), \A x \in T : g[x] <= f[x]
  PROVE  Total(T, g) <= Total(S, f)
  <1>1. Pairs(T, g) \subseteq Pairs(S, f)
    <2> SUFFICES ASSUME NEW p \in Pairs(T, g) PROVE p \in Pairs(S, f)
      OBVIOUS
    <2>1. PICK x \in T : \E i \in 1 .. g[x] : p = <<x, i>>
      BY InPairs
    <2>2. PICK i \in 1 .. g[x] : p = <<x, i>>
      BY <2>1
    <2>3. i \in 1 .. f[x]
      BY DEF Amounts
    <2>. QED
      BY <2>2, <2>3, InPairs
  <1>2. IsFiniteSet(Pairs(S, f))
    BY PairsFinite
  <1>3. Cardinality(Pairs(T, g)) <= Cardinality(Pairs(S, f))
    BY <1>1, <1>2, FS_Subset
  <1>. QED
    BY <1>3, SumIsCardinality

LEMMA SumAdjoin ==
  ASSUME NEW S, NEW x, x \notin S, NEW f, IsFiniteSet(S), Amounts(S, f), f[x] \in Nat
  PROVE  Total(S \cup {x}, f) = Total(S, f) + f[x]
  <1>1. Amounts({x}, f) /\ IsFiniteSet({x}) /\ S \cap {x} = {}
    BY FS_Singleton DEF Amounts
  <1>2. Total({x}, f) = f[x]
    BY SumOne
  <1>. QED
    BY <1>1, <1>2, SumUnion

LEMMA SumEmpty ==
  ASSUME NEW f
  PROVE  Total({}, f) = 0
  BY SumNone

\* Every element counts n.
LEMMA SumEven ==
  ASSUME NEW S, NEW f, NEW n \in Nat, IsFiniteSet(S), \A x \in S : f[x] = n
  PROVE  Total(S, f) = n * Cardinality(S)
  <1>1. Pairs(S, f) = S \X (1 .. n)
    <2>1. \A p : p \in Pairs(S, f) <=> \E x \in S : \E i \in 1 .. n : p = <<x, i>>
      BY InPairs
    <2>. QED
      BY <2>1
  <1>2. IsFiniteSet(1 .. n) /\ Cardinality(1 .. n) = n
    BY FS_Interval
  <1>3. Cardinality(S \X (1 .. n)) = Cardinality(S) * Cardinality(1 .. n)
    BY ZenonT(60), <1>2, FS_Product
  <1>4. Cardinality(S) \in Nat
    BY FS_CardinalityType
  <1>5. Total(S, f) = Cardinality(S \X (1 .. n))
    BY <1>1, SumIsCardinality
  <1>6. Cardinality(S) * n = n * Cardinality(S)
    BY <1>4
  <1>. QED
    BY <1>2, <1>3, <1>5, <1>6

\* Multiples of m add up to a multiple of m.
LEMMA SumMultiple ==
  ASSUME NEW S, NEW f, NEW m \in Nat, IsFiniteSet(S), Amounts(S, f),
         \A x \in S : \E q \in Nat : f[x] = m * q
  PROVE  \E q \in Nat : Total(S, f) = m * q
  <1> DEFINE F == {T \in SUBSET S : \E q \in Nat : Total(T, f) = m * q}
  <1>1. {} \in F
    <2>1. Total({}, f) = m * 0
      BY SumEmpty
    <2>. QED
      BY <2>1
  <1>2. ASSUME NEW T \in SUBSET S, NEW x \in S \ T, T \in F
        PROVE  T \cup {x} \in F
    <2>1. PICK q \in Nat : Total(T, f) = m * q
      BY <1>2
    <2>2. PICK r \in Nat : f[x] = m * r
      OBVIOUS
    <2>3. IsFiniteSet(T) /\ Amounts(T, f) /\ f[x] \in Nat
      BY FS_Subset DEF Amounts
    <2>a. Total(T \cup {x}, f) = Total(T, f) + f[x]
      BY <2>3, SumAdjoin
    <2>4. Total(T \cup {x}, f) = m * q + m * r
      BY <2>1, <2>2, <2>a
    <2>5. m * q + m * r = m * (q + r) /\ q + r \in Nat
      OBVIOUS
    <2>. QED
      BY <2>4, <2>5
  <1> HIDE DEF F
  <1>3. S \in F
    BY <1>1, <1>2, FiniteInduction
  <1>. QED
    BY <1>3 DEF F

\* Disjoint parts, with the sum g[r] of each.
Parts(R, part, f, g) ==
  /\ IsFiniteSet(R)
  /\ \A r \in R : IsFiniteSet(part[r]) /\ Amounts(part[r], f) /\ g[r] = Total(part[r], f)
  /\ \A r, s \in R : r # s => part[r] \cap part[s] = {}

\* The sum over a union of disjoint parts is the sum of the parts.
LEMMA SumOfParts ==
  ASSUME NEW R, NEW part, NEW f, NEW g, Parts(R, part, f, g)
  PROVE  /\ Total(R, g) = Total(UNION {part[r] : r \in R}, f)
         /\ IsFiniteSet(UNION {part[r] : r \in R})
         /\ Amounts(UNION {part[r] : r \in R}, f)
  <1>0. /\ IsFiniteSet(R)
        /\ \A r \in R : IsFiniteSet(part[r]) /\ Amounts(part[r], f) /\ g[r] = Total(part[r], f)
        /\ \A r, s \in R : r # s => part[r] \cap part[s] = {}
    BY DEF Parts
  <1> DEFINE U(Q) == UNION {part[r] : r \in Q}
             F == {Q \in SUBSET R : Total(Q, g) = Total(U(Q), f) /\ IsFiniteSet(U(Q))}
  <1>1. {} \in F
    <2>1. U({}) = {}
      OBVIOUS
    <2>2. Total({}, g) = 0 /\ Total({}, f) = 0 /\ IsFiniteSet({})
      BY SumEmpty, FS_EmptySet
    <2>. QED
      BY <2>1, <2>2
  <1>2. ASSUME NEW Q \in SUBSET R, NEW r \in R \ Q, Q \in F
        PROVE  Q \cup {r} \in F
    <2>1. U(Q \cup {r}) = U(Q) \cup part[r]
      OBVIOUS
    <2>2. U(Q) \cap part[r] = {}
      BY <1>0
    <2>3. IsFiniteSet(U(Q)) /\ IsFiniteSet(part[r]) /\ IsFiniteSet(Q)
      BY <1>0, <1>2, FS_Subset
    <2>4. Amounts(U(Q), f) /\ Amounts(part[r], f)
      BY <1>0 DEF Amounts
    <2>5. \A q \in R : g[q] \in Nat
      BY <1>0, SumType
    <2>6. Amounts(Q, g) /\ g[r] \in Nat
      BY <2>5 DEF Amounts
    <2>7. Total(Q \cup {r}, g) = Total(Q, g) + g[r]
      BY <2>3, <2>6, SumAdjoin
    <2> HIDE DEF U
    <2>8. Total(U(Q) \cup part[r], f) = Total(U(Q), f) + Total(part[r], f)
      BY <2>2, <2>3, <2>4, SumUnion
    <2>9. IsFiniteSet(U(Q) \cup part[r])
      BY <2>3, FS_Union
    <2>. QED
      BY <1>0, <1>2, <2>1, <2>7, <2>8, <2>9
  <1>3. R \in F
    <2> HIDE DEF F
    <2>. QED
      BY <1>0, <1>1, <1>2, FiniteInduction
  <1>4. Amounts(U(R), f)
    BY <1>0 DEF Amounts
  <1>. QED
    BY <1>3, <1>4

---------------------------------------------------------------------------
(* Sorting, and the first answer.                                          *)

\* s has every element of S once.
Lists(s, S) ==
  /\ s \in [1 .. Cardinality(S) -> S]
  /\ \A x \in S : \E i \in 1 .. Cardinality(S) : s[i] = x
  /\ \A i, k \in 1 .. Cardinality(S) : i < k => s[i] # s[k]

LEMMA SortedLists ==
  ASSUME NEW P \in SUBSET (Int \X Int), IsFiniteSet(P)
  PROVE  /\ Lists(Sorted(P), P)
         /\ \A i, k \in 1 .. Cardinality(P) :
              i < k => Before(Sorted(P)[i], Sorted(P)[k])
  <1> DEFINE n == Cardinality(P)
             Prior(p) == {q \in P : Before(q, p)}
             rank == [p \in P |-> Cardinality(Prior(p))]
             s == Sorted(P)
  <1>1. n \in Nat
    BY FS_CardinalityType
  <1>2. /\ \A p \in P : ~ Before(p, p)
        /\ \A p, q \in P : p # q => Before(p, q) \/ Before(q, p)
        /\ \A p, q, r \in P : Before(p, q) /\ Before(q, r) => Before(p, r)
    <2>1. \A p \in P : p = <<p[1], p[2]>> /\ p[1] \in Int /\ p[2] \in Int
      OBVIOUS
    <2>. QED
      BY <2>1 DEF Before
  <1>3. /\ DOMAIN s = 1 .. n
        /\ s = [i \in 1 .. n |-> s[i]]
        /\ \A i \in 1 .. n : s[i] = CHOOSE p \in P : rank[p] = i - 1
    <2> DEFINE pick(i) == CHOOSE p \in P : Cardinality({q \in P : Before(q, p)}) = i - 1
    <2>1. s = [i \in 1 .. n |-> pick(i)]
      BY Zenon DEF Sorted
    <2>2. \A p \in P : rank[p] = Cardinality({q \in P : Before(q, p)})
      OBVIOUS
    <2> HIDE DEF n, rank, s
    <2>3. \A i : pick(i) = CHOOSE p \in P : rank[p] = i - 1
      BY <2>2
    <2> HIDE DEF pick
    <2>. QED
      BY <2>1, <2>3
  <1>4. \A p, q \in P : q \in Prior(p) <=> Before(q, p)
    OBVIOUS
  <1>5. \A p : Prior(p) \in SUBSET P
    OBVIOUS
  <1>6. \A p \in P : rank[p] = Cardinality(Prior(p))
    OBVIOUS
  <1> HIDE DEF n, Prior, s
  <1>7. DOMAIN rank = P
    OBVIOUS
  <1>8. rank = [p \in P |-> rank[p]]
    OBVIOUS
  <1> HIDE DEF rank
  <1>9. ASSUME NEW p \in P PROVE IsFiniteSet(Prior(p)) /\ rank[p] \in 0 .. n - 1
    <2>1. Prior(p) \in SUBSET (P \ {p})
      BY <1>2, <1>4, <1>5
    <2>2. IsFiniteSet(P \ {p}) /\ Cardinality(P \ {p}) = n - 1
      BY FS_RemoveElement DEF n
    <2>3. IsFiniteSet(Prior(p)) /\ Cardinality(Prior(p)) <= Cardinality(P \ {p})
      BY <2>1, <2>2, FS_Subset
    <2>4. Cardinality(Prior(p)) \in Nat
      BY <2>3, FS_CardinalityType
    <2>. QED
      BY <1>1, <1>6, <2>2, <2>3, <2>4
  <1>10. \A p \in P : rank[p] \in 0 .. n - 1 /\ rank[p] \in Int
    BY <1>9
  <1>11. ASSUME NEW p \in P, NEW q \in P, Before(p, q) PROVE rank[p] < rank[q]
    <2>1. Prior(p) \in SUBSET Prior(q) /\ Prior(p) # Prior(q)
      BY <1>2, <1>4, <1>5, <1>11
    <2>2. IsFiniteSet(Prior(q))
      BY <1>9
    <2>3. /\ Cardinality(Prior(p)) <= Cardinality(Prior(q))
          /\ Cardinality(Prior(q)) = Cardinality(Prior(p)) => Prior(q) = Prior(p)
      BY <2>1, <2>2, FS_Subset
    <2>4. rank[p] <= rank[q] /\ rank[p] # rank[q]
      BY <1>6, <2>1, <2>3
    <2>. QED
      BY <1>10, <2>4
  <1>12. ASSUME NEW p \in P, NEW q \in P, rank[p] = rank[q] PROVE p = q
    <2>1. ~ (rank[p] < rank[q]) /\ ~ (rank[q] < rank[p])
      BY <1>10, <1>12
    <2>. QED
      BY <1>2, <1>11, <2>1
  <1>13. rank \in Injection(P, 0 .. n - 1)
    <2>1. rank \in [P -> 0 .. n - 1]
      BY <1>8, <1>10
    <2>. QED
      BY <1>12, <2>1 DEF Injection, IsInjective
  <1>14. rank \in Surjection(P, 0 .. n - 1)
    <2>1. n - 1 \in Int /\ (n - 1) - 0 + 1 = n
      BY <1>1
    <2>2. IsFiniteSet(0 .. n - 1) /\ Cardinality(0 .. n - 1) = n
      <3>1. CASE n = 0
        <4>1. 0 .. n - 1 = {}
          BY <3>1
        <4>. QED
          BY <3>1, <4>1, FS_EmptySet
      <3>2. CASE n # 0
        <4>1. 0 <= n - 1
          BY <1>1, <3>2
        <4>2. IsFiniteSet(0 .. n - 1) /\ Cardinality(0 .. n - 1) = (n - 1) - 0 + 1
          BY <2>1, <4>1, FS_Interval
        <4>. QED
          BY <2>1, <4>2
      <3>. QED
        BY <3>1, <3>2
    <2>. QED
      BY <1>13, <2>2, FS_Injection DEF n
  <1>15. ASSUME NEW i \in 1 .. n PROVE s[i] \in P /\ rank[s[i]] = i - 1
    <2>1. i - 1 \in 0 .. n - 1
      BY <1>1
    <2>2. \E p \in P : rank[p] = i - 1
      BY <1>14, <2>1 DEF Surjection
    <2>. QED
      BY <1>3, <2>2
  <1>16. s \in [1 .. n -> P]
    <2>1. s = [i \in 1 .. n |-> s[i]]
      BY <1>3
    <2>. QED
      BY <1>15, <2>1
  <1>17. ASSUME NEW p \in P PROVE \E i \in 1 .. n : s[i] = p
    <2>1. rank[p] + 1 \in 1 .. n /\ (rank[p] + 1) - 1 = rank[p]
      BY <1>1, <1>10
    <2>2. s[rank[p] + 1] \in P /\ rank[s[rank[p] + 1]] = rank[p]
      BY <1>15, <2>1
    <2>3. s[rank[p] + 1] = p
      BY <1>12, <2>2
    <2>. QED
      BY <2>1, <2>3
  <1>18. ASSUME NEW i \in 1 .. n, NEW k \in 1 .. n, i < k
         PROVE  Before(s[i], s[k]) /\ s[i] # s[k]
    <2>1. s[i] \in P /\ s[k] \in P /\ rank[s[i]] = i - 1 /\ rank[s[k]] = k - 1
      BY <1>15
    <2>2. rank[s[i]] < rank[s[k]] /\ ~ (rank[s[k]] < rank[s[i]])
      BY <1>18, <2>1
    <2>3. s[i] # s[k]
      BY <1>18, <2>1
    <2>. QED
      BY <1>2, <1>11, <2>1, <2>2, <2>3
  <1>19. Lists(s, P)
    BY <1>16, <1>17, <1>18 DEF Lists, n
  <1>. QED
    BY <1>18, <1>19 DEF s, n

LEMMA ByLists ==
  ASSUME NEW S \in SUBSET Int, IsFiniteSet(S), NEW key, \A x \in S : key[x] \in Int
  PROVE  /\ Lists(By(S, key), S)
         /\ \A i, k \in 1 .. Cardinality(S) :
              i < k => key[By(S, key)[i]] <= key[By(S, key)[k]]
  <1> DEFINE P == {<<key[x], x>> : x \in S}
             pair == [x \in S |-> <<key[x], x>>]
             n == Cardinality(S)
             s == Sorted(P)
             b == By(S, key)
  <1>1. pair \in Bijection(S, P)
    BY DEF Bijection, Injection, IsInjective, Surjection
  <1>2. IsFiniteSet(P) /\ Cardinality(P) = n
    BY <1>1, FS_Bijection DEF ExistsBijection
  <1>3. P \in SUBSET (Int \X Int)
    <2>1. \A x \in S : <<key[x], x>> \in Int \X Int
      OBVIOUS
    <2>. QED
      BY <2>1
  <1>4. /\ Lists(s, P)
        /\ \A i, k \in 1 .. n : i < k => Before(s[i], s[k])
    BY <1>2, <1>3, SortedLists
  <1>5. b = [i \in DOMAIN s |-> s[i][2]]
    BY DEF By
  <1> HIDE DEF s, b
  <1>6. DOMAIN s = 1 .. n /\ \A i \in 1 .. n : s[i] \in P
    BY <1>2, <1>4 DEF Lists
  <1>7. \A i \in 1 .. n : /\ b[i] \in S /\ b[i] = s[i][2]
                          /\ s[i][1] = key[b[i]] /\ s[i] = <<key[b[i]], b[i]>>
    BY <1>5, <1>6
  <1>8. b \in [1 .. n -> S]
    BY <1>5, <1>6, <1>7
  <1>9. \A x \in S : \E i \in 1 .. n : b[i] = x
    <2> SUFFICES ASSUME NEW x \in S PROVE \E i \in 1 .. n : b[i] = x
      OBVIOUS
    <2>1. PICK i \in 1 .. n : s[i] = <<key[x], x>>
      BY <1>2, <1>4 DEF Lists
    <2>. QED
      BY <1>7, <2>1
  <1>10. \A i, k \in 1 .. n : i < k => b[i] # b[k] /\ key[b[i]] <= key[b[k]]
    <2> SUFFICES ASSUME NEW i \in 1 .. n, NEW k \in 1 .. n, i < k
                 PROVE  b[i] # b[k] /\ key[b[i]] <= key[b[k]]
      OBVIOUS
    <2>1. Before(s[i], s[k])
      BY <1>4
    <2>2. /\ s[i][1] = key[b[i]] /\ s[k][1] = key[b[k]]
          /\ s[i][2] = b[i] /\ s[k][2] = b[k]
          /\ key[b[i]] \in Int /\ key[b[k]] \in Int /\ b[i] \in Int /\ b[k] \in Int
      BY <1>7
    <2>3. \/ key[b[i]] < key[b[k]]
          \/ key[b[i]] = key[b[k]] /\ b[i] < b[k]
      BY <2>1, <2>2 DEF Before
    <2>. QED
      BY <2>2, <2>3
  <1>. QED
    BY <1>8, <1>9, <1>10 DEF Lists, b

LEMMA AscendingLists ==
  ASSUME NEW S \in SUBSET Int, IsFiniteSet(S)
  PROVE  Lists(Ascending(S), S)
  BY ByLists DEF Ascending

LEMMA MinusLists ==
  ASSUME NEW S \in SUBSET Int, IsFiniteSet(S), NEW key, \A x \in S : key[x] \in Int
  PROVE  /\ Lists(By(S, Minus(S, key)), S)
         /\ \A i, k \in 1 .. Cardinality(S) :
              i < k => key[By(S, Minus(S, key))[i]] >= key[By(S, Minus(S, key))[k]]
  <1> DEFINE low == Minus(S, key)
             b == By(S, low)
  <1>1. \A x \in S : low[x] \in Int /\ low[x] = 0 - key[x]
    BY DEF Minus
  <1> HIDE DEF low
  <1>2. /\ Lists(b, S)
        /\ \A i, k \in 1 .. Cardinality(S) : i < k => low[b[i]] <= low[b[k]]
    BY <1>1, ByLists
  <1> HIDE DEF b
  <1>3. \A i \in 1 .. Cardinality(S) : b[i] \in S
    BY <1>2 DEF Lists
  <1>4. ASSUME NEW i \in 1 .. Cardinality(S), NEW k \in 1 .. Cardinality(S), i < k
        PROVE  key[b[i]] >= key[b[k]]
    <2>1. b[i] \in S /\ b[k] \in S /\ low[b[i]] <= low[b[k]]
      BY <1>2, <1>3, <1>4
    <2>2. /\ low[b[i]] = 0 - key[b[i]] /\ low[b[k]] = 0 - key[b[k]]
          /\ key[b[i]] \in Int /\ key[b[k]] \in Int
      BY <1>1, <2>1
    <2>. QED
      BY <2>1, <2>2
  <1>. QED
    BY <1>2, <1>4 DEF b, low

\* The first answer is one of the answers, and there is one if any is.
LEMMA FirstFitHits ==
  ASSUME NEW order, DOMAIN order \subseteq Nat, NEW answer
  PROVE  /\ FirstFit(order, answer) # NoFit =>
              \E i \in DOMAIN order : FirstFit(order, answer) = answer[order[i]]
         /\ (\E i \in DOMAIN order : answer[order[i]] # NoFit) =>
              FirstFit(order, answer) # NoFit
  <1> DEFINE hits == {i \in DOMAIN order : answer[order[i]] # NoFit}
  <1>1. FirstFit(order, answer) = IF hits = {} THEN NoFit ELSE answer[order[Min(hits)]]
    BY DEF FirstFit
  <1>2. CASE hits = {}
    BY <1>1, <1>2
  <1>3. CASE hits # {}
    <2>1. Min(hits) \in hits
      BY <1>3, MinIsLeast
    <2>. QED
      BY <1>1, <1>3, <2>1
  <1>. QED
    BY <1>2, <1>3

\* Over a list of S: the answer for some x of S.
LEMMA FirstFitOver ==
  ASSUME NEW S, IsFiniteSet(S), NEW order, Lists(order, S), NEW answer
  PROVE  /\ FirstFit(order, answer) # NoFit =>
              \E x \in S : FirstFit(order, answer) = answer[x]
         /\ (\E x \in S : answer[x] # NoFit) => FirstFit(order, answer) # NoFit
  <1>1. /\ DOMAIN order = 1 .. Cardinality(S) /\ \A i \in 1 .. Cardinality(S) : order[i] \in S
        /\ \A x \in S : \E i \in DOMAIN order : order[i] = x
    BY DEF Lists
  <1>2. DOMAIN order \subseteq Nat
    BY <1>1, FS_CardinalityType
  <1>3. /\ FirstFit(order, answer) # NoFit =>
             \E i \in DOMAIN order : FirstFit(order, answer) = answer[order[i]]
        /\ (\E i \in DOMAIN order : answer[order[i]] # NoFit) =>
             FirstFit(order, answer) # NoFit
    BY <1>2, FirstFitHits
  <1>. QED
    BY <1>1, <1>3

---------------------------------------------------------------------------
(* The domains above a domain, and the leaves under it.                    *)

LEMMA FiniteBounded ==
  ASSUME NEW T, T \subseteq Nat, IsFiniteSet(T)
  PROVE  \E n \in Nat : \A x \in T : x < n
  <1> DEFINE F == {U \in SUBSET T : \E n \in Nat : \A x \in U : x < n}
  <1>1. {} \in F
    OBVIOUS
  <1>2. ASSUME NEW U \in SUBSET T, NEW y \in T \ U, U \in F
        PROVE  U \cup {y} \in F
    <2>1. PICK n \in Nat : \A x \in U : x < n
      BY <1>2
    <2>2. y \in Nat /\ \A x \in U : x \in Nat
      OBVIOUS
    <2>3. \A x \in U \cup {y} : x < n + y + 1
      BY <2>1, <2>2
    <2>4. n + y + 1 \in Nat
      BY <2>2
    <2>. QED
      BY <2>3, <2>4
  <1> HIDE DEF F
  <1>3. T \in F
    BY <1>1, <1>2, FiniteInduction
  <1>. QED
    BY <1>3 DEF F

LEMMA MaxOfFinite ==
  ASSUME NEW T, T \subseteq Nat, IsFiniteSet(T), T # {}
  PROVE  Max(T) \in T /\ \A y \in T : y <= Max(T)
  <1>1. PICK n \in Nat : \A x \in T : x < n
    BY FiniteBounded
  <1> DEFINE gaps == {n - x : x \in T}
  <1>2. PICK g \in gaps : \A h \in gaps : g <= h
    <2>1. \A x \in T : n - x \in Nat
      BY <1>1
    <2>2. gaps \subseteq Nat /\ gaps # {}
      BY <2>1
    <2>. QED
      BY <2>2, LeastNumber
  <1>3. PICK x \in T : g = n - x
    OBVIOUS
  <1>4. \A y \in T : n - x <= n - y
    BY <1>2, <1>3
  <1>5. \A y \in T : x >= y
    BY <1>4
  <1>6. Max(T) \in T /\ \A y \in T : Max(T) >= y
    BY <1>5 DEF Max
  <1>. QED
    BY <1>6

\* What SearchAssumption says of the domains.
LEMMA TreeShape ==
  /\ Domain \subseteq Nat /\ IsFiniteSet(Domain) /\ NoDomain \notin Domain
  /\ \A d \in Domain : Parent[d] # NoDomain => Parent[d] \in Domain /\ Parent[d] < d
  /\ \A d \in Domain : \A e \in Above[d] : Level[e] = Level[d] => e = d
  /\ Roots \subseteq Domain
  /\ \A l \in Leaf : Cardinality(Above[l] \cap Roots) = 1
  /\ \A l \in Leaf : ChipType[l] \in Int
  /\ \A spec \in Specs : spec.chips \in Nat \ {0} /\ spec.perSegment \in Nat
  BY SearchAssumption, TreeAssumption DEF SearchAssumption, TreeAssumption

\* Parents come before their children, so the recursion ends.
LEMMA AboveIs ==
  \A d \in Domain :
    Above[d] = {d} \cup IF Parent[d] = NoDomain THEN {} ELSE Above[Parent[d]]
  <1> DEFINE Rec(f) == [d \in Domain |->
               {d} \cup IF Parent[d] = NoDomain THEN {} ELSE f[Parent[d]]]
             Upto(i) == {d \in Domain : d < i}
             Good(f, i) == \A d \in Upto(i) :
               f[d] = {d} \cup IF Parent[d] = NoDomain THEN {} ELSE f[Parent[d]]
  <1>1. PICK n \in Nat : \A d \in Domain : d < n
    BY TreeShape, FiniteBounded
  <1> DEFINE P == {i \in 0 .. n : \E f \in [Domain -> SUBSET Domain] : Good(f, i)}
  <1>2. 0 \in P
    <2>1. \A d \in Domain : d \in Nat
      BY TreeShape
    <2>2. \A d : d \notin Upto(0)
      BY <2>1
    <2>3. [d \in Domain |-> {}] \in [Domain -> SUBSET Domain]
      OBVIOUS
    <2>4. 0 \in 0 .. n
      OBVIOUS
    <2> HIDE DEF Upto
    <2>5. Good([d \in Domain |-> {}], 0)
      BY <2>2
    <2> HIDE DEF Good
    <2>. QED
      BY <2>3, <2>4, <2>5
  <1>3. ASSUME NEW i \in 0 .. n - 1, i \in P PROVE i + 1 \in P
    <2>1. PICK f \in [Domain -> SUBSET Domain] : Good(f, i)
      BY <1>3
    <2> DEFINE row == {i} \cup IF Parent[i] = NoDomain THEN {} ELSE f[Parent[i]]
               g == [d \in Domain |-> IF d = i THEN row ELSE f[d]]
    <2>2. i \in Domain => row \in SUBSET Domain
      BY TreeShape
    <2>3. g \in [Domain -> SUBSET Domain]
      BY <2>2
    <2>4. ASSUME NEW d \in Upto(i + 1)
          PROVE  g[d] = {d} \cup IF Parent[d] = NoDomain THEN {} ELSE g[Parent[d]]
      <3>1. d \in Nat /\ (d = i \/ d \in Upto(i))
        BY TreeShape
      <3>2. Parent[d] # NoDomain => g[Parent[d]] = f[Parent[d]]
        BY TreeShape, <3>1
      <3>3. CASE d = i
        BY <3>2, <3>3
      <3>4. CASE d # i
        <4>1. d \in Upto(i) /\ g[d] = f[d]
          BY <3>1, <3>4
        <4>. QED
          BY <2>1, <3>2, <4>1
      <3>. QED
        BY <3>3, <3>4
    <2>5. i + 1 \in 0 .. n
      OBVIOUS
    <2> HIDE DEF g
    <2>. QED
      BY <2>3, <2>4, <2>5
  <1>4. n \in P
    <2> HIDE DEF P
    <2>1. \A i \in 0 .. n : i \in P
      BY <1>2, <1>3, UpwardInduction
    <2>. QED
      BY <2>1
  <1>5. PICK f \in [Domain -> SUBSET Domain] : Good(f, n)
    BY <1>4
  <1>6. f = Rec(f)
    BY <1>1, <1>5
  <1>7. Above = CHOOSE g : g = Rec(g)
    BY Zenon DEF Above
  <1>8. Above = Rec(Above)
    BY Zenon, <1>6, <1>7
  <1>. QED
    BY <1>8

\* Above is reflexive and transitive, goes to smaller ids, and is a chain.
LEMMA AboveFacts ==
  /\ \A d \in Domain : d \in Above[d] /\ Above[d] \in SUBSET Domain
  /\ \A d \in Domain : \A e \in Above[d] : e <= d
  /\ \A d \in Domain : \A e \in Above[d] : \A c \in Above[e] : c \in Above[d]
  /\ \A d \in Domain : \A e, c \in Above[d] : c <= e => c \in Above[e]
  <1> DEFINE Good(d) == /\ d \in Above[d] /\ Above[d] \in SUBSET Domain
                        /\ \A e \in Above[d] : e <= d
                        /\ \A e \in Above[d] : \A c \in Above[e] : c \in Above[d]
                        /\ \A e, c \in Above[d] : c <= e => c \in Above[e]
             bad == {d \in Domain : ~ Good(d)}
  <1>1. bad = {}
    <2> SUFFICES ASSUME bad # {} PROVE FALSE
      OBVIOUS
    <2>1. bad \subseteq Nat
      BY TreeShape
    <2>2. PICK d \in bad : \A e \in bad : d <= e
      BY <2>1, LeastNumber
    <2>3. d \in Domain /\ d \in Nat
      BY TreeShape
    <2>4. CASE Parent[d] = NoDomain
      <3>1. Above[d] = {d}
        BY <2>3, <2>4, AboveIs
      <3>2. Good(d)
        BY <2>3, <3>1
      <3>. QED
        BY <3>2
    <2>5. CASE Parent[d] # NoDomain
      <3> DEFINE p == Parent[d]
      <3>1. p \in Domain /\ p \in Nat /\ p < d
        BY <2>3, <2>5, TreeShape
      <3>2. Above[d] = {d} \cup Above[p]
        BY <2>3, <2>5, AboveIs
      <3>3. Good(p)
        <4>1. p \notin bad
          BY <2>2, <2>3, <3>1
        <4>. QED
          BY <3>1, <4>1
      <3> HIDE DEF p
      <3>4. /\ p \in Above[p] /\ Above[p] \in SUBSET Domain
            /\ \A e \in Above[p] : e <= p
            /\ \A e \in Above[p] : \A c \in Above[e] : c \in Above[p]
            /\ \A e, c \in Above[p] : c <= e => c \in Above[e]
        BY <3>3
      <3>5. \A e \in Above[p] : e \in Nat /\ e < d
        <4>1. \A e \in Domain : e \in Nat
          BY TreeShape
        <4>2. \A e \in Above[p] : e \in Nat /\ e <= p
          BY <3>4, <4>1
        <4>. QED
          BY <2>3, <3>1, <4>2
      <3>6. \A e \in Above[d] : e <= d
        BY <2>3, <3>2, <3>5
      <3>7. \A e \in Above[d] : \A c \in Above[e] : c \in Above[d]
        BY <3>2, <3>4
      <3>8. ASSUME NEW e \in Above[d], NEW c \in Above[d], c <= e PROVE c \in Above[e]
        <4>1. CASE e = d
          BY <4>1
        <4>2. CASE e # d
          <5>1. e \in Above[p] /\ e < d
            BY <3>2, <3>5, <4>2
          <5>2. c # d
            BY <2>3, <3>5, <3>8, <5>1
          <5>3. c \in Above[p]
            BY <3>2, <5>2
          <5>. QED
            BY <3>4, <3>8, <5>1, <5>3
        <4>. QED
          BY <4>1, <4>2
      <3>9. d \in Above[d] /\ Above[d] \in SUBSET Domain
        BY <2>3, <3>2, <3>4
      <3>10. Good(d)
        BY <3>6, <3>7, <3>8, <3>9
      <3>. QED
        BY <3>10
    <2>. QED
      BY <2>4, <2>5
  <1>2. \A d \in Domain : Good(d)
    BY <1>1
  <1> HIDE DEF bad
  <1>. QED
    BY <1>2

LEMMA UnderFacts ==
  /\ \A d \in Domain, l \in Leaf : l \in LeavesUnder[d] <=> d \in Above[l]
  /\ \A d \in Domain : \A e \in Above[d] :
       e \in Domain /\ LeavesUnder[d] \subseteq LeavesUnder[e]
  /\ \A d, e \in Domain : Level[d] = Level[e] /\ d # e =>
       LeavesUnder[d] \cap LeavesUnder[e] = {}
  <1>1. \A d \in Domain : LeavesUnder[d] = {l \in Leaf : d \in Above[l]}
    BY DEF LeavesUnder
  <1>2. \A l \in Leaf : l \in Domain
    BY LeafFacts
  <1>3. ASSUME NEW d \in Domain, NEW e \in Above[d]
        PROVE  e \in Domain /\ LeavesUnder[d] \subseteq LeavesUnder[e]
    <2>1. e \in Domain
      BY AboveFacts
    <2>. QED
      BY <1>1, <1>2, <2>1, AboveFacts
  <1>4. ASSUME NEW d \in Domain, NEW e \in Domain, Level[d] = Level[e], d # e,
               NEW l \in LeavesUnder[d], l \in LeavesUnder[e]
        PROVE  FALSE
    <2>1. l \in Domain /\ d \in Above[l] /\ e \in Above[l]
      BY <1>1, <1>2, <1>4
    <2>2. d \in Nat /\ e \in Nat
      BY TreeShape
    <2>3. d <= e \/ e <= d
      BY <2>2
    <2>4. d \in Above[e] \/ e \in Above[d]
      BY <2>1, <2>3, AboveFacts
    <2>. QED
      BY <1>4, <2>4, TreeShape
  <1>. QED
    BY <1>1, <1>3, <1>4

\* The lowest common ancestor of domains under d.
LEMMA CommonAboveIs ==
  ASSUME NEW d \in Domain, NEW S \in SUBSET Domain, S # {},
         \A s \in S : d \in Above[s]
  PROVE  /\ CommonAbove(S) \in Domain /\ d \in Above[CommonAbove(S)]
         /\ \A s \in S : CommonAbove(S) \in Above[s]
  <1> DEFINE common == {e \in Domain : \A s \in S : e \in Above[s]}
  <1>1. d \in common /\ common \subseteq Nat /\ IsFiniteSet(common)
    BY TreeShape, FS_Subset
  <1>2. Max(common) \in common /\ \A e \in common : e <= Max(common)
    BY <1>1, MaxOfFinite
  <1>3. \E m \in common : \A e \in common : e \in Above[m]
    <2>1. PICK s \in S : TRUE
      OBVIOUS
    <2>2. ASSUME NEW e \in common PROVE e \in Above[Max(common)]
      <3>1. s \in Domain /\ e \in Above[s] /\ Max(common) \in Above[s]
        BY <1>2, <2>1
      <3>2. e <= Max(common)
        BY <1>2
      <3> DEFINE m == Max(common)
      <3>3. m \in Above[s] /\ e <= m
        BY <3>1, <3>2
      <3> HIDE DEF m, common
      <3>4. e \in Above[m]
        BY <3>1, <3>3, AboveFacts
      <3>. QED
        BY <3>4 DEF m
    <2>. QED
      BY <1>2, <2>2
  <1>4. CommonAbove(S) = CHOOSE m \in common : \A e \in common : e \in Above[m]
    BY DEF CommonAbove
  <1> HIDE DEF common
  <1>5. CommonAbove(S) \in common /\ \A e \in common : e \in Above[CommonAbove(S)]
    BY <1>3, <1>4
  <1>. QED
    BY <1>1, <1>5 DEF common

---------------------------------------------------------------------------
(* The greedy cover.                                                       *)

Covers(S) == [set : SUBSET S, sum : Nat]
Taken(acc, l, chips) ==
  IF acc.sum + LeafChips[l] <= chips
  THEN [set |-> acc.set \cup {l}, sum |-> acc.sum + LeafChips[l]]
  ELSE acc

\* f is the course of the greedy cover along order.
Course(f, order, n, chips) ==
  /\ f[0] = [set |-> {}, sum |-> 0]
  /\ \A i \in 1 .. n : f[i] = Taken(f[i - 1], order[i], chips)
  /\ f[n] = Greedy(order, chips)

LEMMA GreedyCourse ==
  ASSUME NEW n \in Nat, NEW S \in SUBSET Leaf, NEW order \in [1 .. n -> S],
         NEW chips \in Nat
  PROVE  \E f \in [0 .. n -> Covers(S)] : Course(f, order, n, chips)
  <1> DEFINE base == [set |-> {}, sum |-> 0]
             Rec(k) == [s \in SUBSET (DOMAIN order) |->
                          IF s = {} THEN base
                          ELSE Taken(k[s \ {Max(s)}], order[Max(s)], chips)]
             table == CHOOSE k : k = Rec(k)
             G == [p \in Covers(S) \X (1 .. n) |-> Taken(p[1], order[p[2]], chips)]
  <1>1. DOMAIN order = 1 .. n
    OBVIOUS
  <1>2. Greedy(order, chips) = table[1 .. n]
    BY <1>1 DEF Greedy, FoldLeft, MapThenFoldSet, Taken
  <1>3. base \in Covers(S)
    BY DEF Covers
  <1>4. G \in [Covers(S) \X (1 .. n) -> Covers(S)]
    <2> SUFFICES ASSUME NEW c \in Covers(S), NEW i \in 1 .. n
                 PROVE  Taken(c, order[i], chips) \in Covers(S)
      OBVIOUS
    <2>1. LeafChips[order[i]] \in Nat /\ order[i] \in S
      BY LeafFacts
    <2>. QED
      BY <2>1 DEF Taken, Covers
  <1>5. \A c \in Covers(S) : \A i \in 1 .. n : G[<<c, i>>] = Taken(c, order[i], chips)
    OBVIOUS
  <1> HIDE DEF base, G
  <1>6. PICK h \in [SUBSET (1 .. n) -> Covers(S)] : Table(n, base, G, h)
    BY <1>3, <1>4, TableExists
  <1>7. h = Rec(h)
    <2>1. ASSUME NEW s \in SUBSET (1 .. n)
          PROVE  h[s] = IF s = {} THEN base
                        ELSE Taken(h[s \ {Max(s)}], order[Max(s)], chips)
      <3>1. h[s] = IF s = {} THEN base ELSE G[<<h[s \ {Max(s)}], Max(s)>>]
        BY <1>6 DEF Table
      <3>2. CASE s # {}
        <4>1. Max(s) \in 1 .. n
          BY <3>2, MaxIsGreatest
        <4>2. s \ {Max(s)} \in SUBSET (1 .. n)
          OBVIOUS
        <4>3. h[s \ {Max(s)}] \in Covers(S)
          BY <4>2
        <4>. QED
          BY <1>5, <3>1, <3>2, <4>1, <4>3
      <3>. QED
        BY <3>1, <3>2
    <2>. QED
      BY <1>1, <2>1
  <1>8. table = Rec(table)
    <2> HIDE DEF Rec
    <2>. QED
      BY <1>7
  <1> HIDE DEF table
  <1>9. Follows(table, n, Covers(S), base, G)
    <2>1. \A s \in SUBSET (1 .. n) :
            table[s] = IF s = {} THEN base
                       ELSE Taken(table[s \ {Max(s)}], order[Max(s)], chips)
      BY <1>1, <1>8
    <2>2. \A s \in SUBSET (1 .. n) : s # {} => Max(s) \in 1 .. n
      BY MaxIsGreatest
    <2>. QED
      BY <1>3, <1>4, <1>5, <2>1, <2>2 DEF Follows
  <1>10. PICK f \in [0 .. n -> Covers(S)] : Rows(f, n, base, G) /\ f[n] = table[1 .. n]
    BY <1>9, TableRows
  <1>11. \A i \in 1 .. n : f[i] = Taken(f[i - 1], order[i], chips)
    <2> SUFFICES ASSUME NEW i \in 1 .. n PROVE f[i] = Taken(f[i - 1], order[i], chips)
      OBVIOUS
    <2>1. i - 1 \in 0 .. n
      OBVIOUS
    <2>2. f[i - 1] \in Covers(S)
      BY <1>10, <2>1
    <2>. QED
      BY <1>5, <1>10, <2>2 DEF Rows
  <1>. QED
    BY <1>2, <1>10, <1>11 DEF Course, base, Rows

LEMMA Sizeable ==
  ASSUME NEW S \in SUBSET Leaf
  PROVE  /\ IsFiniteSet(S) /\ S \in SUBSET Domain /\ S \in SUBSET Int
         /\ \A T \in SUBSET S : Amounts(T, LeafChips) /\ Total(T, LeafChips) \in Nat
                                /\ IsFiniteSet(T)
  <1>1. IsFiniteSet(S) /\ \A T \in SUBSET S : IsFiniteSet(T)
    BY LeafFacts, FS_Subset
  <1>2. \A T \in SUBSET S : Amounts(T, LeafChips)
    BY LeafFacts DEF Amounts
  <1>3. \A T \in SUBSET S : Total(T, LeafChips) \in Nat
    BY <1>1, <1>2, SumType
  <1>4. \A l \in S : l \in Domain /\ l \in Int
    BY LeafFacts, TreeShape
  <1>. QED
    BY <1>1, <1>2, <1>3, <1>4

AddsUp(acc, S, chips) ==
  /\ acc.set \in SUBSET S /\ acc.sum \in Nat
  /\ acc.sum = Total(acc.set, LeafChips) /\ acc.sum <= chips

\* The cover adds up, stays within what is asked for, and is made of the
\* leaves already passed.
LEMMA CourseKeeps ==
  ASSUME NEW S \in SUBSET Leaf, NEW order, Lists(order, S), NEW chips \in Nat,
         NEW f \in [0 .. Cardinality(S) -> Covers(S)],
         Course(f, order, Cardinality(S), chips)
  PROVE  \A i \in 0 .. Cardinality(S) :
           /\ AddsUp(f[i], S, chips)
           /\ \A l \in f[i].set : \E k \in 1 .. i : order[k] = l
  <1> DEFINE n == Cardinality(S)
             Good(i) == /\ f[i].sum = Total(f[i].set, LeafChips) /\ f[i].sum <= chips
                        /\ \A l \in f[i].set : \E k \in 1 .. i : order[k] = l
             P == {i \in 0 .. n : Good(i)}
  <1>1. n \in Nat
    BY Sizeable, FS_CardinalityType
  <1>2. /\ order \in [1 .. n -> S]
        /\ \A i, k \in 1 .. n : i < k => order[i] # order[k]
    BY DEF Lists
  <1>3. /\ f[0] = [set |-> {}, sum |-> 0]
        /\ \A i \in 1 .. n : f[i] = Taken(f[i - 1], order[i], chips)
    BY DEF Course
  <1>4. \A i \in 0 .. n : f[i] \in Covers(S) /\ f[i].set \in SUBSET S /\ f[i].sum \in Nat
    BY DEF Covers
  <1> HIDE DEF n
  <1>5. 0 \in P
    <2>1. Total({}, LeafChips) = 0
      BY SumEmpty
    <2>2. 0 \in 0 .. n
      BY <1>1
    <2>3. f[0].set = {} /\ f[0].sum = 0
      BY <1>3
    <2>4. Good(0)
      BY <2>1, <2>3
    <2> HIDE DEF Good
    <2>. QED
      BY <2>2, <2>4
  <1>6. ASSUME NEW i \in 0 .. n - 1, i \in P PROVE i + 1 \in P
    <2>1. i + 1 \in 1 .. n /\ i + 1 \in 0 .. n /\ (i + 1) - 1 = i /\ i \in 0 .. n
      BY <1>1
    <2>2. f[i + 1] = Taken(f[i], order[i + 1], chips)
      BY <1>3, <2>1
    <2> DEFINE l == order[i + 1]
               g == f[i]
    <2>3. l \in S /\ LeafChips[l] \in Nat
      BY <1>2, <2>1, LeafFacts
    <2>4. /\ g.sum = Total(g.set, LeafChips) /\ g.sum <= chips
          /\ \A x \in g.set : \E k \in 1 .. i : order[k] = x
      BY <1>6
    <2>5. g.set \in SUBSET S /\ g.sum \in Nat
      BY <1>4, <2>1
    <2>6. l \notin g.set
      <3> SUFFICES ASSUME l \in g.set PROVE FALSE
        OBVIOUS
      <3>1. PICK k \in 1 .. i : order[k] = l
        BY <2>4
      <3>2. k \in 1 .. n /\ k < i + 1
        BY <1>1, <2>1
      <3>. QED
        BY <1>2, <2>1, <3>1, <3>2
    <2>7. \A x \in g.set \cup {l} : \E k \in 1 .. i + 1 : order[k] = x
      <3>1. 1 .. i \subseteq 1 .. i + 1 /\ i + 1 \in 1 .. i + 1
        BY <1>1
      <3>. QED
        BY <2>4, <3>1
    <2> HIDE DEF l, g
    <2>8. f[i + 1] = Taken(g, l, chips)
      BY <2>2 DEF l, g
    <2>9. CASE g.sum + LeafChips[l] <= chips
      <3>1. f[i + 1].set = g.set \cup {l} /\ f[i + 1].sum = g.sum + LeafChips[l]
        BY <2>8, <2>9 DEF Taken
      <3>2. Total(g.set \cup {l}, LeafChips) = Total(g.set, LeafChips) + LeafChips[l]
        <4>1. IsFiniteSet(g.set) /\ Amounts(g.set, LeafChips)
          BY <2>5, Sizeable
        <4>. QED
          BY <2>3, <2>6, <4>1, SumAdjoin
      <3>3. \A x \in f[i + 1].set : \E k \in 1 .. i + 1 : order[k] = x
        BY <2>7, <3>1
      <3>. QED
        BY <2>1, <2>4, <2>9, <3>1, <3>2, <3>3
    <2>10. CASE ~ (g.sum + LeafChips[l] <= chips)
      <3>1. f[i + 1] = g
        BY <2>8, <2>10 DEF Taken
      <3>3. \A x \in f[i + 1].set : \E k \in 1 .. i + 1 : order[k] = x
        BY <2>7, <3>1
      <3>. QED
        BY <2>1, <2>4, <3>1, <3>3
    <2>. QED
      BY <2>9, <2>10
  <1>7. \A i \in 0 .. n : i \in P
    <2> HIDE DEF P
    <2>. QED
      BY <1>1, <1>5, <1>6, UpwardInduction
  <1>. QED
    BY <1>4, <1>7 DEF n, AddsUp

LEMMA GreedyKeeps ==
  ASSUME NEW S \in SUBSET Leaf, NEW order, Lists(order, S), NEW chips \in Nat
  PROVE  AddsUp(Greedy(order, chips), S, chips)
  <1> DEFINE n == Cardinality(S)
  <1>1. n \in Nat
    BY Sizeable, FS_CardinalityType
  <1>2. order \in [1 .. n -> S]
    BY DEF Lists
  <1>3. PICK f \in [0 .. n -> Covers(S)] : Course(f, order, n, chips)
    BY <1>1, <1>2, GreedyCourse
  <1>4. n \in 0 .. n /\ f[n] = Greedy(order, chips)
    BY <1>1, <1>3 DEF Course
  <1>5. \A i \in 0 .. n : AddsUp(f[i], S, chips)
    BY <1>3, CourseKeeps
  <1>. QED
    BY <1>4, <1>5

---------------------------------------------------------------------------
(* The orders in which the cover is tried.                                 *)

LEMMA LargestFirstLists ==
  ASSUME NEW S \in SUBSET Leaf
  PROVE  /\ Lists(LargestFirst(S), S)
         /\ \A i, k \in 1 .. Cardinality(S) :
              i < k => LeafChips[LargestFirst(S)[i]] >= LeafChips[LargestFirst(S)[k]]
  <1>1. S \in SUBSET Int /\ IsFiniteSet(S) /\ \A l \in S : LeafChips[l] \in Int
    BY Sizeable, LeafFacts
  <1>. QED
    BY <1>1, MinusLists DEF LargestFirst

\* Where x stands in a list.
LEMMA PlaceIn ==
  ASSUME NEW order, NEW n \in Nat, DOMAIN order = 1 .. n, NEW x,
         \E i \in 1 .. n : order[i] = x
  PROVE  Place(order, x) \in 1 .. n /\ order[Place(order, x)] = x
  BY DEF Place

\* s names every element of S.
Names(s, S) == \E n \in Nat : DOMAIN s = 1 .. n /\ \A x \in S : \E i \in 1 .. n : s[i] = x

LEMMA NamesTwo ==
  ASSUME NEW A, NEW B, NEW a, NEW b, IsFiniteSet(A), IsFiniteSet(B),
         Lists(a, A), Lists(b, B)
  PROVE  Names(a \o b, A \cup B)
  <1> DEFINE m == Cardinality(A)
             n == Cardinality(B)
             s == a \o b
  <1>1. m \in Nat /\ n \in Nat
    BY FS_CardinalityType
  <1>2. a \in [1 .. m -> A] /\ b \in [1 .. n -> B]
    BY DEF Lists
  <1>3. \A x \in A : \E i \in 1 .. m : a[i] = x
    BY DEF Lists
  <1>4. \A x \in B : \E i \in 1 .. n : b[i] = x
    BY DEF Lists
  <1> HIDE DEF m, n
  <1>5. a \in Seq(A \cup B) /\ b \in Seq(A \cup B) /\ Len(a) = m /\ Len(b) = n
    BY <1>1, <1>2
  <1>6. /\ DOMAIN s = 1 .. m + n
        /\ \A i \in 1 .. m : s[i] = a[i]
        /\ \A i \in 1 .. n : s[m + i] = b[i]
    BY <1>1, <1>5
  <1>7. \A i \in 1 .. m : i \in 1 .. m + n
    BY <1>1
  <1>8. \A i \in 1 .. n : m + i \in 1 .. m + n
    BY <1>1
  <1> HIDE DEF s
  <1>9. \A x \in A \cup B : \E i \in 1 .. m + n : s[i] = x
    BY <1>3, <1>4, <1>6, <1>7, <1>8
  <1>10. m + n \in Nat
    BY <1>1
  <1>11. Names(s, A \cup B)
    BY <1>6, <1>9, <1>10 DEF Names
  <1>. QED
    BY <1>11 DEF s

LEMMA NamesOne ==
  ASSUME NEW A, NEW a, IsFiniteSet(A), Lists(a, A)
  PROVE  Names(a, A)
  BY FS_CardinalityType DEF Lists, Names

LEMMA PackedOrderLists ==
  ASSUME NEW S \in SUBSET Leaf, NEW chips \in Nat, NEW mode
  PROVE  Lists(PackedOrder(S, chips, mode), S)
  <1> DEFINE group == [l \in S |-> IF Parent[l] = NoDomain THEN l ELSE Parent[l]]
             groups == {group[l] : l \in S}
             In(g) == {l \in S : group[l] = g}
             member == [g \in groups |-> LargestFirst(In(g))]
             room == [g \in groups |-> Total(In(g), LeafChips)]
             fits == {g \in groups : room[g] >= chips}
             short == groups \ fits
             order == CASE mode = "spread" -> By(groups, Minus(groups, room))
                 [] mode = "consolidate" ->
                      By(fits, room) \o By(short, Minus(short, room))
                 [] OTHER -> By(fits, room) \o By(short, room)
             turn == [l \in S |->
               LET i == Place(order, group[l])
                   k == Place(member[group[l]], l)
               IN  IF mode = "spread" THEN k * Cardinality(S) + i
                   ELSE i * Cardinality(S) + k]
  <1>1. PackedOrder(S, chips, mode) = By(S, turn)
    BY DEF PackedOrder
  <1>2. S \in SUBSET Int /\ IsFiniteSet(S) /\ Cardinality(S) \in Nat
    BY Sizeable, FS_CardinalityType
  <1>3. \A l \in S : group[l] \in Domain
    BY Sizeable, TreeShape
  <1>4. groups \in SUBSET Domain /\ groups \in SUBSET Int /\ IsFiniteSet(groups)
    <2>1. groups \in SUBSET Domain
      BY <1>3
    <2>2. \A d \in Domain : d \in Int
      BY TreeShape
    <2>. QED
      BY <2>1, <2>2, TreeShape, FS_Subset
  <1>5. \A g : In(g) \in SUBSET S
    OBVIOUS
  <1>6. \A g \in groups : room[g] \in Int
    <2>1. \A g : Total(In(g), LeafChips) \in Nat
      BY <1>5, Sizeable
    <2> HIDE DEF In, groups
    <2>. QED
      BY <2>1
  <1>7. \A l \in S : group[l] \in groups /\ l \in In(group[l])
    OBVIOUS
  <1>8. \A g \in groups : member[g] = LargestFirst(In(g))
    OBVIOUS
  <1>9. turn = [l \in S |-> IF mode = "spread"
                  THEN Place(member[group[l]], l) * Cardinality(S) + Place(order, group[l])
                  ELSE Place(order, group[l]) * Cardinality(S) + Place(member[group[l]], l)]
    OBVIOUS
  <1>10. fits \in SUBSET groups /\ short \in SUBSET groups /\ groups = fits \cup short
    OBVIOUS
  <1>11. order = CASE mode = "spread" -> By(groups, Minus(groups, room))
                 [] mode = "consolidate" ->
                      By(fits, room) \o By(short, Minus(short, room))
                 [] OTHER -> By(fits, room) \o By(short, room)
    OBVIOUS
  <1> HIDE DEF group, groups, In, member, room, fits, short, order, turn
  <1>12. Names(order, groups)
    <2>1. /\ fits \in SUBSET Int /\ IsFiniteSet(fits) /\ \A g \in fits : room[g] \in Int
          /\ short \in SUBSET Int /\ IsFiniteSet(short) /\ \A g \in short : room[g] \in Int
      BY <1>4, <1>6, <1>10, FS_Subset
    <2>2. /\ Lists(By(groups, Minus(groups, room)), groups)
          /\ Lists(By(short, Minus(short, room)), short)
      BY <1>4, <1>6, <2>1, MinusLists
    <2>3. Lists(By(fits, room), fits) /\ Lists(By(short, room), short)
      BY <2>1, ByLists
    <2>4. Names(By(groups, Minus(groups, room)), groups)
      BY <1>4, <2>2, NamesOne
    <2>5. Names(By(fits, room) \o By(short, Minus(short, room)), groups)
      BY <1>10, <2>1, <2>2, <2>3, NamesTwo
    <2>6. Names(By(fits, room) \o By(short, room), groups)
      BY <1>10, <2>1, <2>3, NamesTwo
    <2>. QED
      BY <1>11, <2>4, <2>5, <2>6
  <1>13. \A l \in S : Place(order, group[l]) \in Int
    <2>1. PICK n \in Nat : DOMAIN order = 1 .. n /\ \A g \in groups : \E i \in 1 .. n : order[i] = g
      BY <1>12 DEF Names
    <2>. QED
      BY <1>7, <2>1, PlaceIn
  <1>14. ASSUME NEW l \in S PROVE Place(member[group[l]], l) \in Int
    <2> DEFINE T == In(group[l])
               s == LargestFirst(T)
    <2>1. T \in SUBSET Leaf /\ l \in T /\ member[group[l]] = s
      BY <1>5, <1>7, <1>8
    <2> HIDE DEF T, s
    <2>2. Lists(s, T) /\ IsFiniteSet(T)
      BY <2>1, LargestFirstLists, Sizeable DEF s
    <2>3. DOMAIN s = 1 .. Cardinality(T) /\ \E i \in 1 .. Cardinality(T) : s[i] = l
      BY <2>1, <2>2 DEF Lists
    <2>4. Cardinality(T) \in Nat
      BY <2>2, FS_CardinalityType
    <2>5. Place(s, l) \in 1 .. Cardinality(T)
      BY <2>3, <2>4, PlaceIn
    <2>. QED
      BY <2>1, <2>4, <2>5
  <1>15. \A l \in S : turn[l] \in Int
    <2> SUFFICES ASSUME NEW l \in S PROVE turn[l] \in Int
      OBVIOUS
    <2> DEFINE a == Place(order, group[l])
               b == Place(member[group[l]], l)
               c == Cardinality(S)
    <2>1. a \in Int /\ b \in Int /\ c \in Int
      BY <1>2, <1>13, <1>14
    <2>2. turn[l] = IF mode = "spread" THEN b * c + a ELSE a * c + b
      BY <1>9
    <2> HIDE DEF a, b, c
    <2>. QED
      BY <2>1, <2>2
  <1>. QED
    BY <1>1, <1>2, <1>15, ByLists

LEMMA OrdersList ==
  ASSUME NEW S \in SUBSET Leaf, NEW chips \in Nat, NEW mode
  PROVE  /\ DOMAIN Orders(S, chips, mode) \subseteq Nat
         /\ 1 \in DOMAIN Orders(S, chips, mode)
         /\ \A i \in DOMAIN Orders(S, chips, mode) : Lists(Orders(S, chips, mode)[i], S)
         /\ mode = "first_fit" => Orders(S, chips, mode) = <<LargestFirst(S)>>
         /\ mode # "first_fit" /\ Mixed(S) =>
              2 \in DOMAIN Orders(S, chips, mode)
              /\ Orders(S, chips, mode)[2] = LargestFirst(S)
  <1>1. Lists(LargestFirst(S), S) /\ Lists(PackedOrder(S, chips, mode), S)
    BY LargestFirstLists, PackedOrderLists
  <1> DEFINE a == LargestFirst(S)
             b == PackedOrder(S, chips, mode)
  <1>2. Orders(S, chips, mode) = IF mode = "first_fit" THEN <<a>>
                                 ELSE IF Mixed(S) THEN <<b, a>> ELSE <<b>>
    BY DEF Orders
  <1> HIDE DEF a, b
  <1>3. Lists(a, S) /\ Lists(b, S)
    BY <1>1 DEF a, b
  <1>4. CASE mode = "first_fit"
    BY <1>2, <1>3, <1>4 DEF a
  <1>5. CASE mode # "first_fit" /\ Mixed(S)
    BY <1>2, <1>3, <1>5 DEF a
  <1>6. CASE mode # "first_fit" /\ ~ Mixed(S)
    BY <1>2, <1>3, <1>6
  <1>. QED
    BY <1>4, <1>5, <1>6

---------------------------------------------------------------------------
(* A placement that offers what is asked for is sound.                     *)

\* The leaves of p are usable and give the chips asked for.
Offer(t, who, ct, chips, p) ==
  /\ p.anchor \in Domain
  /\ p.leaves \in SUBSET LeavesUnder[p.anchor]
  /\ \A l \in p.leaves : ChipType[l] = ct /\ IsHealthy(t, l) /\ EligibleFor(t, l, who)
  /\ \/ /\ p.whole /\ Total(p.leaves, LeafChips) = chips
        /\ \A l \in p.leaves : t.free[l] = LeafChips[l]
     \/ /\ ~ p.whole /\ p.chips = chips
        /\ \E l : p.leaves = {l} /\ chips <= t.free[l]

SegmentsRight(spec, p) ==
  /\ \A s \in DOMAIN p.segments :
       Cardinality(p.leaves \cap LeavesUnder[s]) = p.segments[s] * spec.perSegment
  /\ Total(DOMAIN p.segments, p.segments) * spec.perSegment
       = IF spec.perSegment = 0 THEN 0 ELSE Cardinality(p.leaves)

LEMMA FreeOfLeaf ==
  ASSUME NEW t, FleetInv(t), NEW l \in Leaf
  PROVE  /\ t.free[l] \in Nat
         /\ IsHealthy(t, l) => t.free[l] = LeafChips[l] - Used(t, l)
         /\ IsHealthy(t, l) /\ t.free[l] = LeafChips[l] => Ownerless(t, l)
         /\ IsHealthy(t, l) /\ Ownerless(t, l) => t.free[l] = LeafChips[l]
         /\ ~ IsHealthy(t, l) => t.free[l] = 0
         /\ t.free[l] <= LeafChips[l]
  <1>1. t.free[l] = IF IsHealthy(t, l) THEN LeafChips[l] - Used(t, l) ELSE 0
    BY LeafFree DEF Available
  <1>2. Used(t, l) \in Nat /\ (Ownerless(t, l) <=> Used(t, l) = 0)
    BY UsedFacts DEF FleetInv
  <1>3. Used(t, l) <= LeafChips[l]
    BY DEF FleetInv, OwnersMatch
  <1>4. LeafChips[l] \in Nat /\ LeafChips[l] > 0
    BY LeafFacts
  <1>. QED
    BY <1>1, <1>2, <1>3, <1>4

\* The free chips of a domain are those of its leaves.
LEMMA FreeOfDomain ==
  ASSUME NEW t, FleetInv(t), NEW d \in Domain
  PROVE  /\ t.free[d] = Total(LeavesUnder[d], t.free)
         /\ t.free[d] \in Nat
         /\ \A S \in SUBSET Leaf : Amounts(S, t.free) /\ IsFiniteSet(S)
  <1>1. \A l \in Leaf : t.free[l] \in Nat /\ t.free[l] = Available(t)[l]
    BY FreeOfLeaf, LeafFree
  <1>2. \A S \in SUBSET Leaf : Amounts(S, t.free) /\ IsFiniteSet(S)
    BY <1>1, Sizeable DEF Amounts
  <1>3. LeavesUnder[d] \in SUBSET Leaf
    BY LeafFacts
  <1>4. t.free[d] = Total(LeavesUnder[d], Available(t))
    BY DEF FleetInv, CountersMatch
  <1>5. Total(LeavesUnder[d], Available(t)) = Total(LeavesUnder[d], t.free)
    BY <1>1, <1>3, SumSame
  <1>6. Total(LeavesUnder[d], t.free) \in Nat
    BY <1>2, <1>3, SumType
  <1>. QED
    BY <1>2, <1>4, <1>5, <1>6

\* A demand for one gang.
LEMMA DemandOfOne ==
  ASSUME NEW g, NEW l \in Leaf, Amount(g, l) \in Nat
  PROVE  Demand(<<g>>)[l] = Amount(g, l)
         /\ (WantsWhole(<<g>>, l) <=> g.whole /\ l \in g.nodes)
  <1> DEFINE a == <<g>>
             f == [i \in DOMAIN a |-> Amount(a[i], l)]
  <1>1. DOMAIN a = {1} /\ a[1] = g
    OBVIOUS
  <1>2. Demand(a)[l] = Total(DOMAIN a, f)
    BY DEF Demand
  <1>3. f[1] = Amount(g, l) /\ f[1] \in Nat /\ 1 \in DOMAIN a
    BY <1>1
  <1>4. Total({1}, f) = f[1]
    <2> HIDE DEF f
    <2>. QED
      BY <1>3, SumOne
  <1>5. WantsWhole(a, l) <=> a[1].whole /\ l \in a[1].nodes
    <2> HIDE DEF a
    <2>. QED
      BY <1>1 DEF WantsWhole
  <1>. QED
    BY <1>1, <1>2, <1>3, <1>4, <1>5

\* Chips g of leaves S that are free and not held for another tenant fit in
\* what is free for the tenant, there and in every domain above.
LEMMA AmountFits ==
  ASSUME NEW t, FleetInv(t), NEW c \in Domain, NEW S \in SUBSET LeavesUnder[c],
         NEW who, NEW g, \A l \in S : EligibleFor(t, l, who),
         \A l \in S : g[l] \in Nat /\ g[l] <= t.free[l]
  PROVE  /\ Total(S, g) <= t.free[c] - HeldFreeChips(t, c, who)
         /\ \A d \in Above[c] : Total(S, g) <= LargestPlaceable(t, Level[d])
  <1> DEFINE L == LeavesUnder[c]
             H == {l \in L : ~ EligibleFor(t, l, who) /\ IsHealthy(t, l)}
  <1>1. L \in SUBSET Leaf /\ H \in SUBSET L /\ S \in SUBSET L /\ S \cap H = {}
    BY LeafFacts
  <1>2. HeldFreeChips(t, c, who) = Total(H, t.free)
    BY DEF HeldFreeChips
  <1>3. t.free[c] = Total(L, t.free) /\ t.free[c] \in Nat
    BY FreeOfDomain
  <1>4. /\ Amounts(L, t.free) /\ Amounts(S, t.free) /\ Amounts(H, t.free)
        /\ IsFiniteSet(L) /\ IsFiniteSet(S) /\ IsFiniteSet(H)
    <2> HIDE DEF L, H
    <2>1. S \in SUBSET Leaf /\ H \in SUBSET Leaf
      BY <1>1
    <2>. QED
      BY <1>1, <2>1, FreeOfDomain
  <1> HIDE DEF L, H
  <1>5. Amounts(S, g)
    BY DEF Amounts
  <1>6. Total(S, g) <= Total(S, t.free)
    BY <1>4, <1>5, SumLess
  <1>7. Total(S \cup H, t.free) = Total(S, t.free) + Total(H, t.free)
    BY <1>1, <1>4, SumUnion
  <1>8. Total(S \cup H, t.free) <= Total(L, t.free)
    <2>1. S \cup H \in SUBSET L /\ Amounts(S \cup H, t.free)
      BY <1>1, <1>4 DEF Amounts
    <2> DEFINE T == S \cup H
               f == t.free
    <2>2. T \in SUBSET L /\ Amounts(T, f) /\ Amounts(L, f) /\ IsFiniteSet(L)
      BY <1>4, <2>1
    <2> HIDE DEF T, f
    <2>3. \A x \in T : f[x] <= f[x]
      BY <2>2 DEF Amounts
    <2>4. Total(T, f) <= Total(L, f)
      BY <2>2, <2>3, SumLess
    <2>. QED
      BY <2>4 DEF T, f
  <1>9. Total(S, g) \in Nat /\ Total(S, t.free) \in Nat /\ Total(H, t.free) \in Nat
    BY <1>4, <1>5, SumType
  <1>10. Total(S, g) <= t.free[c] - HeldFreeChips(t, c, who)
    BY <1>2, <1>3, <1>6, <1>7, <1>8, <1>9
  <1>11. ASSUME NEW d \in Above[c] PROVE Total(S, g) <= LargestPlaceable(t, Level[d])
    <2> DEFINE level == Level[d]
               D == {e \in Domain : Level[e] = level}
               T == {t.free[e] : e \in D} \cup {0}
    <2>1. d \in Domain /\ L \in SUBSET LeavesUnder[d]
      BY UnderFacts DEF L
    <2>2. T \subseteq Nat
      BY FreeOfDomain
    <2>3. IsFiniteSet(T)
      <3> DEFINE f == [e \in D |-> t.free[e]]
                 R == {t.free[e] : e \in D}
      <3>1. IsFiniteSet(D)
        BY TreeShape, FS_Subset
      <3>2. f \in Surjection(D, R)
        BY DEF Surjection
      <3> HIDE DEF f, R, D
      <3>3. IsFiniteSet(R)
        BY <3>1, <3>2, FS_Surjection
      <3>. QED
        BY <3>3, FS_AddElement DEF R
    <2>4. Max(T) \in T /\ \A y \in T : y <= Max(T)
      BY <2>2, <2>3, MaxOfFinite
    <2>5. t.free[d] \in T
      BY <2>1
    <2>6. LargestPlaceable(t, level) = Max(T)
      BY DEF LargestPlaceable
    <2> HIDE DEF T
    <2>7. Total(S, g) <= t.free[d]
      <3> DEFINE M == LeavesUnder[d]
                 f == t.free
      <3>1. M \in SUBSET Leaf /\ S \in SUBSET M
        BY <1>1, <2>1, LeafFacts
      <3>2. Amounts(M, f) /\ IsFiniteSet(M) /\ t.free[d] = Total(M, f)
        BY <2>1, <3>1, FreeOfDomain
      <3>3. \A l \in S : g[l] <= f[l]
        OBVIOUS
      <3> HIDE DEF M, f
      <3>4. Total(S, g) <= Total(M, f)
        BY <1>5, <3>1, <3>2, <3>3, SumLess
      <3>. QED
        BY <3>2, <3>4
    <2>8. t.free[d] <= Max(T) /\ Max(T) \in Nat /\ t.free[d] \in Nat
      BY <2>1, <2>2, <2>4, <2>5, FreeOfDomain
    <2>. QED
      BY <1>9, <2>6, <2>7, <2>8
  <1>. QED
    BY <1>10, <1>11

\* The free chips of the roots are those of all leaves, so the chips of
\* leaves that are wholly free are not among the stranded ones.
LEMMA WholeNotStranded ==
  ASSUME NEW t, FleetInv(t), NEW S \in SUBSET Leaf,
         \A l \in S : t.free[l] = LeafChips[l]
  PROVE  Total(S, LeafChips) <= Total(Roots, t.free) - StrandedWholeNodeChips(t)
  <1> DEFINE f == t.free
             part == [r \in Roots |-> LeavesUnder[r]]
             All == UNION {part[r] : r \in Roots}
             Q == PartlyFree(t)
  <1>1. IsFiniteSet(Roots) /\ Roots \in SUBSET Domain
    BY TreeShape, FS_Subset
  <1>2. \A r \in Roots : IsFiniteSet(part[r]) /\ Amounts(part[r], f) /\ f[r] = Total(part[r], f)
    BY <1>1, LeafFacts, FreeOfDomain
  <1>3. ASSUME NEW r \in Roots, NEW s \in Roots, r # s
        PROVE  part[r] \cap part[s] = {}
    <2> SUFFICES ASSUME NEW l \in LeavesUnder[r], l \in LeavesUnder[s] PROVE FALSE
      OBVIOUS
    <2>1. l \in Leaf /\ r \in Above[l] \cap Roots /\ s \in Above[l] \cap Roots
      BY <1>1, LeafFacts, UnderFacts
    <2>2. Cardinality(Above[l] \cap Roots) = 1 /\ IsFiniteSet(Above[l] \cap Roots)
      BY <1>1, <2>1, TreeShape, FS_Subset
    <2>3. \E x : Above[l] \cap Roots = {x}
      BY <2>2, FS_Singleton
    <2>. QED
      BY <1>3, <2>1, <2>3
  <1>4. Leaf \subseteq All /\ All \subseteq Leaf
    <2>1. ASSUME NEW l \in Leaf PROVE l \in All
      <3>1. Above[l] \cap Roots # {}
        BY TreeShape, FS_EmptySet
      <3>2. PICK r \in Roots : r \in Above[l]
        BY <3>1
      <3>. QED
        BY <1>1, <3>2, UnderFacts
    <2>2. \A r \in Roots : LeavesUnder[r] \subseteq Leaf
      BY <1>1, LeafFacts
    <2>. QED
      BY <2>1, <2>2
  <1>5. All = Leaf
    BY <1>4
  <1>6. Q \in SUBSET Leaf /\ S \cap Q = {}
    BY LeafFacts DEF PartlyFree
  <1>7. \A T \in SUBSET Leaf : Amounts(T, f) /\ IsFiniteSet(T)
    <2>1. \A l \in Leaf : f[l] \in Nat
      BY FreeOfLeaf
    <2>. QED
      BY <2>1, Sizeable DEF Amounts
  <1>8. StrandedWholeNodeChips(t) = Total(Q, f)
    BY DEF StrandedWholeNodeChips
  <1>9. Total(Roots, f) = Total(All, f)
    <2> HIDE DEF f, part
    <2>1. Parts(Roots, part, f, f)
      BY <1>1, <1>2, <1>3 DEF Parts
    <2>. QED
      BY <2>1, SumOfParts
  <1>10. Total(S, LeafChips) = Total(S, f)
    BY SumSame
  <1> HIDE DEF f, All, Q
  <1>11. Total(S \cup Q, f) = Total(S, f) + Total(Q, f)
    BY <1>6, <1>7, SumUnion
  <1> DEFINE T == S \cup Q
  <1>12. T \in SUBSET Leaf /\ Amounts(T, f) /\ Amounts(Leaf, f) /\ IsFiniteSet(Leaf)
    <2>1. T \in SUBSET Leaf /\ Leaf \in SUBSET Leaf
      BY <1>6
    <2> HIDE DEF T
    <2>. QED
      BY <1>7, <2>1
  <1> HIDE DEF T
  <1>13. Total(T, f) <= Total(Leaf, f)
    <2>1. \A x \in T : f[x] <= f[x]
      BY <1>12 DEF Amounts
    <2>. QED
      BY <1>12, <2>1, SumLess
  <1>14. Total(S, f) \in Nat /\ Total(Q, f) \in Nat /\ Total(Leaf, f) \in Nat
    BY <1>6, <1>7, SumType
  <1>15. Total(S, f) <= Total(Leaf, f) - Total(Q, f)
    BY <1>11, <1>13, <1>14 DEF T
  <1>. QED
    BY <1>5, <1>8, <1>9, <1>10, <1>15 DEF f

Given(p) == [l \in Leaf |-> Amount(ToGang(p), l)]

FitsOffered(t, chips, p) ==
  /\ p.leaves # {} /\ p.leaves \in SUBSET Leaf
  /\ \A l \in p.leaves : Given(p)[l] \in Nat /\ Given(p)[l] <= t.free[l]
  /\ Total(p.leaves, Given(p)) = chips
  /\ Fits(t, <<ToGang(p)>>)
  /\ p.whole => /\ Total(p.leaves, LeafChips) = chips
                /\ \A l \in p.leaves : t.free[l] = LeafChips[l]

LEMMA OfferFits ==
  ASSUME NEW t, FleetInv(t), NEW who, NEW ct, NEW chips \in Nat \ {0}, NEW p,
         Offer(t, who, ct, chips, p)
  PROVE  FitsOffered(t, chips, p)
  <1> DEFINE gang == ToGang(p)
             g == Given(p)
  <1>1. /\ gang.nodes = p.leaves /\ gang.chips = p.chips /\ gang.whole = p.whole
    BY DEF ToGang
  <1>2. /\ p.leaves \in SUBSET Leaf
        /\ \A l \in p.leaves : IsHealthy(t, l) /\ l \in Leaf
    BY LeafFacts DEF Offer
  <1>3. \/ /\ p.whole /\ Total(p.leaves, LeafChips) = chips
           /\ \A l \in p.leaves : t.free[l] = LeafChips[l]
        \/ /\ ~ p.whole /\ p.chips = chips
           /\ \E l : p.leaves = {l} /\ chips <= t.free[l]
    BY DEF Offer
  <1>4. \A l \in Leaf : Amount(gang, l) = IF l \notin p.leaves THEN 0
                                          ELSE IF p.whole THEN LeafChips[l] ELSE p.chips
    BY <1>1 DEF Amount
  <1>5. \A l \in Leaf : LeafChips[l] \in Nat /\ LeafChips[l] > 0 /\ t.free[l] \in Nat
    BY LeafFacts, FreeOfLeaf
  <1>6. \A l \in Leaf : g[l] = Amount(gang, l)
    BY DEF Given
  <1> HIDE DEF gang, g
  <1>7. \A l \in Leaf : Amount(gang, l) \in Nat
    BY <1>3, <1>4, <1>5
  <1>8. \A l \in p.leaves : g[l] \in Nat /\ g[l] <= t.free[l]
    BY <1>2, <1>3, <1>4, <1>5, <1>6
  <1>9. Total(p.leaves, g) = chips
    <2>1. CASE p.whole
      <3>1. \A l \in p.leaves : g[l] = LeafChips[l]
        BY <1>2, <1>4, <1>6, <2>1
      <3>2. Total(p.leaves, g) = Total(p.leaves, LeafChips)
        BY <3>1, SumSame
      <3>. QED
        BY <1>3, <2>1, <3>2
    <2>2. CASE ~ p.whole
      <3>1. PICK l : p.leaves = {l} /\ chips <= t.free[l]
        BY <1>3, <2>2
      <3>2. g[l] = chips /\ l \in p.leaves
        BY <1>2, <1>3, <1>4, <1>6, <2>2, <3>1
      <3>3. Total({l}, g) = g[l]
        BY <3>2, SumOne
      <3>. QED
        BY <3>1, <3>2, <3>3
    <2>. QED
      BY <2>1, <2>2
  <1>10. p.leaves # {}
    BY <1>9, SumEmpty
  <1>11. Fits(t, <<gang>>)
    <2> SUFFICES ASSUME NEW l \in Asked(<<gang>>)
                 PROVE  /\ IsHealthy(t, l)
                        /\ WantsWhole(<<gang>>, l) => Ownerless(t, l)
                        /\ Demand(<<gang>>)[l] <= t.free[l]
      BY DEF Fits
    <2>1. l \in Leaf /\ Demand(<<gang>>)[l] > 0
      BY DEF Asked
    <2>2. Demand(<<gang>>)[l] = g[l] /\ (WantsWhole(<<gang>>, l) <=> p.whole /\ l \in p.leaves)
      BY <1>1, <1>6, <1>7, <2>1, DemandOfOne
    <2>3. l \in p.leaves
      BY <1>4, <1>6, <2>1, <2>2
    <2>4. IsHealthy(t, l)
      BY <1>2, <2>3
    <2>5. p.whole => Ownerless(t, l)
      BY <1>3, <2>1, <2>3, <2>4, FreeOfLeaf
    <2>. QED
      BY <1>8, <2>2, <2>3, <2>4, <2>5
  <1>. QED
    BY <1>2, <1>3, <1>8, <1>9, <1>10, <1>11 DEF gang, g, FitsOffered

LEMMA OfferSound ==
  ASSUME NEW t, FleetInv(t), NEW spec \in Specs, NEW who, NEW d \in DomainsFor(spec),
         NEW ct \in WantedTypes(spec, d), NEW p, Offer(t, who, ct, spec.chips, p),
         d \in Above[p.anchor], SegmentsRight(spec, p)
  PROVE  Sound(t, spec, who, p)
  <1> DEFINE g == Given(p)
  <1>1. spec.chips \in Nat \ {0}
    BY TreeShape
  <1>2. /\ p.leaves # {} /\ p.leaves \in SUBSET Leaf
        /\ \A l \in p.leaves : g[l] \in Nat /\ g[l] <= t.free[l]
        /\ Total(p.leaves, g) = spec.chips
        /\ Fits(t, <<ToGang(p)>>)
        /\ p.whole => /\ Total(p.leaves, LeafChips) = spec.chips
                      /\ \A l \in p.leaves : t.free[l] = LeafChips[l]
    <2>1. FitsOffered(t, spec.chips, p)
      BY <1>1, OfferFits
    <2>. QED
      BY <2>1 DEF FitsOffered
  <1>3. /\ p.anchor \in Domain
        /\ p.leaves \in SUBSET LeavesUnder[p.anchor]
        /\ \A l \in p.leaves : ChipType[l] = ct /\ IsHealthy(t, l) /\ EligibleFor(t, l, who)
    BY DEF Offer
  <1>4. Sound(t, spec, who, p) <=>
          /\ Fits(t, <<ToGang(p)>>)
          /\ Total(p.leaves, g) = spec.chips
          /\ p.leaves \subseteq LeavesUnder[p.anchor]
          /\ \A l \in p.leaves : EligibleFor(t, l, who)
          /\ \E c \in WantedTypes(spec, p.anchor) : \A l \in p.leaves : ChipType[l] = c
          /\ \E e \in Above[p.anchor] :
               /\ IF spec.within = AnyLevel THEN e \in Roots ELSE Level[e] = spec.within
               /\ spec.chips <= LargestPlaceable(t, Level[e])
          /\ SegmentsRight(spec, p)
          /\ spec.chips <= t.free[p.anchor] - HeldFreeChips(t, p.anchor, who)
          /\ p.whole /\ p.anchor \in Roots =>
               spec.chips <= Total(Roots, t.free) - StrandedWholeNodeChips(t)
    BY Zenon DEF Sound, SegmentsRight, Given
  <1> HIDE DEF g
  <1>5. ct \in WantedTypes(spec, p.anchor)
    <2>1. PICK l \in p.leaves : TRUE
      BY <1>2
    <2>2. ct \in TypesUnder(p.anchor)
      BY <1>3, <2>1 DEF TypesUnder
    <2>. QED
      BY <2>2 DEF WantedTypes
  <1>6. IF spec.within = AnyLevel THEN d \in Roots ELSE Level[d] = spec.within
    BY DEF DomainsFor
  <1>7. /\ spec.chips <= t.free[p.anchor] - HeldFreeChips(t, p.anchor, who)
        /\ spec.chips <= LargestPlaceable(t, Level[d])
    BY <1>2, <1>3, AmountFits
  <1>8. p.whole => spec.chips <= Total(Roots, t.free) - StrandedWholeNodeChips(t)
    BY <1>2, WholeNotStranded
  <1>. QED
    BY <1>2, <1>3, <1>4, <1>5, <1>6, <1>7, <1>8

---------------------------------------------------------------------------
(* The scan of the leaves offers what it finds.                            *)

CoverOf(S, chips, d, p) ==
  \E T \in SUBSET S : Total(T, LeafChips) = chips /\ p = Placement(T, 0, TRUE, d, << >>)

LEMMA FirstCoverCovers ==
  ASSUME NEW S \in SUBSET Leaf, NEW chips \in Nat, NEW mode, NEW d,
         FirstCover(Orders(S, chips, mode), chips, d) # NoFit
  PROVE  CoverOf(S, chips, d, FirstCover(Orders(S, chips, mode), chips, d))
  <1> DEFINE os == Orders(S, chips, mode)
             answer == [order \in ToSet(os) |-> Cover(order, chips, d)]
  <1>1. FirstCover(os, chips, d) = FirstFit(os, answer)
    BY DEF FirstCover
  <1>2. DOMAIN os \subseteq Nat /\ \A i \in DOMAIN os : Lists(os[i], S)
    BY OrdersList
  <1>3. \A i \in DOMAIN os : answer[os[i]] = Cover(os[i], chips, d)
    BY DEF ToSet
  <1> HIDE DEF os, answer
  <1>4. PICK i \in DOMAIN os : FirstCover(os, chips, d) = Cover(os[i], chips, d)
    <2>1. FirstFit(os, answer) # NoFit
      BY <1>1 DEF os
    <2>2. \E i \in DOMAIN os : FirstFit(os, answer) = answer[os[i]]
      BY <1>2, <2>1, FirstFitHits
    <2>. QED
      BY <1>1, <1>3, <2>2
  <1> DEFINE g == Greedy(os[i], chips)
  <1>5. AddsUp(g, S, chips)
    BY <1>2, GreedyKeeps
  <1>6. Cover(os[i], chips, d) # NoFit
    BY <1>4 DEF os
  <1>7. g.sum = chips /\ Cover(os[i], chips, d) = Placement(g.set, 0, TRUE, d, << >>)
    BY <1>6 DEF Cover
  <1> HIDE DEF g
  <1>. QED
    BY <1>4, <1>5, <1>7 DEF CoverOf, AddsUp, os

Usable(t, d, ct, who) ==
  {l \in LeavesUnder[d] : ChipType[l] = ct /\ IsHealthy(t, l) /\ EligibleFor(t, l, who)}
Sharable(t, d, ct, chips, who) ==
  {l \in Usable(t, d, ct, who) : chips < LeafChips[l] /\ t.free[l] >= chips}
Takable(t, d, ct, chips, who) ==
  {l \in Usable(t, d, ct, who) : chips >= LeafChips[l] /\ t.free[l] = LeafChips[l]}

\* What the scan answers.
LEMMA ScanAnswer ==
  ASSUME NEW t, FleetInv(t), NEW d \in Domain, NEW ct, NEW chips, NEW who, NEW mode
  PROVE  LET sub == Sharable(t, d, ct, chips, who)
             p == ScanLeaves(t, d, ct, chips, who, mode)
         IN  /\ sub # {} => \E l \in sub : p = Placement({l}, chips, FALSE, d, << >>)
             /\ sub = {} => p = FirstCover(Orders(Takable(t, d, ct, chips, who), chips, mode),
                                           chips, d)
  <1> DEFINE usable == {l \in LeavesUnder[d] :
                   ChipType[l] = ct /\ IsHealthy(t, l) /\ EligibleFor(t, l, who)}
             sub == {l \in usable : chips < LeafChips[l] /\ t.free[l] >= chips}
             whole == {l \in usable : chips >= LeafChips[l] /\ t.free[l] = LeafChips[l]}
             preferred == CASE mode = "first_fit" -> Ascending(sub)
                            [] mode = "spread" -> By(sub, Minus(sub, t.free))
                            [] OTHER -> By(sub, t.free)
             p == ScanLeaves(t, d, ct, chips, who, mode)
  <1>1. p = IF sub # {} THEN Placement({Head(preferred)}, chips, FALSE, d, << >>)
            ELSE FirstCover(Orders(whole, chips, mode), chips, d)
    BY Zenon DEF ScanLeaves
  <1>2. sub = Sharable(t, d, ct, chips, who) /\ whole = Takable(t, d, ct, chips, who)
    BY DEF Usable, Sharable, Takable
  <1>3. sub \in SUBSET Leaf
    BY LeafFacts
  <1> HIDE DEF sub, whole, p
  <1>4. sub # {} => Head(preferred) \in sub
    <2>1. /\ IsFiniteSet(sub) /\ sub \in SUBSET Int /\ \A l \in sub : t.free[l] \in Int
      BY <1>3, Sizeable, FreeOfLeaf
    <2>2. /\ Lists(Ascending(sub), sub) /\ Lists(By(sub, Minus(sub, t.free)), sub)
          /\ Lists(By(sub, t.free), sub)
      BY <2>1, ByLists, MinusLists, AscendingLists
    <2>3. Lists(preferred, sub)
      BY <2>2
    <2> HIDE DEF preferred
    <2>4. preferred \in [1 .. Cardinality(sub) -> sub]
      BY <2>3 DEF Lists
    <2>5. Cardinality(sub) \in Nat
      BY <2>1, FS_CardinalityType
    <2>6. sub # {} => Cardinality(sub) # 0
      BY <2>1, FS_EmptySet
    <2>7. Head(preferred) = preferred[1]
      BY <2>4, <2>5
    <2>. QED
      BY <2>4, <2>5, <2>6, <2>7
  <1> HIDE DEF preferred
  <1>5. sub # {} => \E l \in sub : p = Placement({l}, chips, FALSE, d, << >>)
    BY <1>1, <1>4
  <1>6. sub = {} => p = FirstCover(Orders(whole, chips, mode), chips, d)
    BY <1>1
  <1>. QED
    BY <1>2, <1>5, <1>6 DEF p

LEMMA ScanOffers ==
  ASSUME NEW t, FleetInv(t), NEW d \in Domain, NEW ct, NEW chips \in Nat, NEW who, NEW mode,
         ScanLeaves(t, d, ct, chips, who, mode) # NoFit
  PROVE  LET p == ScanLeaves(t, d, ct, chips, who, mode) IN
         Offer(t, who, ct, chips, p) /\ p.anchor = d /\ p.segments = << >>
  <1> DEFINE p == ScanLeaves(t, d, ct, chips, who, mode)
             sub == Sharable(t, d, ct, chips, who)
             whole == Takable(t, d, ct, chips, who)
  <1>0. p # NoFit
    OBVIOUS
  <1>1. /\ sub # {} => \E l \in sub : p = Placement({l}, chips, FALSE, d, << >>)
        /\ sub = {} => p = FirstCover(Orders(whole, chips, mode), chips, d)
    BY ScanAnswer
  <1>2. /\ \A l \in sub : /\ l \in LeavesUnder[d] /\ ChipType[l] = ct /\ IsHealthy(t, l)
                          /\ EligibleFor(t, l, who) /\ t.free[l] >= chips
        /\ \A l \in whole : /\ l \in LeavesUnder[d] /\ ChipType[l] = ct /\ IsHealthy(t, l)
                            /\ EligibleFor(t, l, who) /\ t.free[l] = LeafChips[l]
    BY DEF Usable, Sharable, Takable
  <1>3. LeavesUnder[d] \in SUBSET Leaf
    BY LeafFacts
  <1> HIDE DEF p, sub, whole
  <1>4. CASE sub # {}
    <2>1. PICK l \in sub : p = Placement({l}, chips, FALSE, d, << >>)
      BY <1>1, <1>4
    <2>2. /\ p.leaves = {l} /\ p.chips = chips /\ p.whole = FALSE
          /\ p.anchor = d /\ p.segments = << >>
      BY <2>1 DEF Placement
    <2>3. t.free[l] \in Nat /\ chips <= t.free[l]
      BY <1>2, <1>3, FreeOfLeaf
    <2>. QED
      BY <1>2, <2>2, <2>3 DEF Offer, p
  <1>5. CASE sub = {}
    <2>1. whole \in SUBSET Leaf /\ whole \in SUBSET LeavesUnder[d]
      BY <1>2, <1>3
    <2>2. CoverOf(whole, chips, d, p)
      BY <1>0, <1>1, <1>5, <2>1, FirstCoverCovers
    <2>3. PICK T \in SUBSET whole : Total(T, LeafChips) = chips
                                    /\ p = Placement(T, 0, TRUE, d, << >>)
      BY <2>2 DEF CoverOf
    <2>4. /\ p.leaves = T /\ p.whole = TRUE /\ p.anchor = d /\ p.segments = << >>
      BY <2>3 DEF Placement
    <2>. QED
      BY <1>2, <2>1, <2>3, <2>4 DEF Offer, p
  <1>. QED
    BY <1>4, <1>5

---------------------------------------------------------------------------
(* From the scan to the search.                                            *)

LEMMA KindsFinite ==
  /\ IsFiniteSet(Types) /\ Types \subseteq Int
  /\ IsFiniteSet(Sizes) /\ Sizes \subseteq Nat \ {0}
  <1> DEFINE f == [l \in Leaf |-> ChipType[l]]
             g == [l \in Leaf |-> LeafChips[l]]
  <1>1. f \in Surjection(Leaf, Types)
    BY DEF Surjection, Types
  <1>2. g \in Surjection(Leaf, Sizes)
    BY DEF Surjection, Sizes
  <1> HIDE DEF f, g
  <1>3. IsFiniteSet(Types) /\ IsFiniteSet(Sizes)
    BY <1>1, <1>2, LeafFacts, FS_Surjection
  <1>4. Types \subseteq Int
    BY TreeShape DEF Types
  <1>5. Sizes \subseteq Nat \ {0}
    BY LeafFacts DEF Sizes
  <1>. QED
    BY <1>3, <1>4, <1>5

LEMMA WantedFinite ==
  ASSUME NEW spec, NEW d \in Domain
  PROVE  /\ WantedTypes(spec, d) \in SUBSET Int /\ IsFiniteSet(WantedTypes(spec, d))
         /\ WantedTypes(spec, d) \in SUBSET Types
  <1>1. TypesUnder(d) \in SUBSET Types
    BY LeafFacts DEF TypesUnder, Types
  <1>2. WantedTypes(spec, d) \in SUBSET Types
    BY <1>1 DEF WantedTypes
  <1>. QED
    BY <1>2, KindsFinite, FS_Subset

\* What one type of chips answers in one domain.
TypeAnswer(t, d, ct, spec, who, mode) ==
  IF t.freeByType[d][ct] < spec.chips THEN NoFit
  ELSE ScanLeaves(t, d, ct, spec.chips, who, mode)

LEMMA DomainAnswer ==
  ASSUME NEW t, NEW d \in Domain, NEW spec, NEW who, NEW mode
  PROVE  /\ SearchDomain(t, d, spec, who, mode) # NoFit =>
              \E ct \in WantedTypes(spec, d) :
                SearchDomain(t, d, spec, who, mode) = TypeAnswer(t, d, ct, spec, who, mode)
         /\ (\E ct \in WantedTypes(spec, d) : TypeAnswer(t, d, ct, spec, who, mode) # NoFit) =>
              SearchDomain(t, d, spec, who, mode) # NoFit
  <1> DEFINE S == WantedTypes(spec, d)
             answer == [ct \in S |-> TypeAnswer(t, d, ct, spec, who, mode)]
             p == SearchDomain(t, d, spec, who, mode)
  <1>1. p = FirstFit(Ascending(S), answer)
    BY DEF SearchDomain, TypeAnswer
  <1>2. IsFiniteSet(S) /\ S \in SUBSET Int
    BY WantedFinite
  <1>3. \A ct \in S : answer[ct] = TypeAnswer(t, d, ct, spec, who, mode)
    OBVIOUS
  <1> HIDE DEF S, answer, p
  <1>4. Lists(Ascending(S), S)
    BY <1>2, AscendingLists
  <1>5. /\ p # NoFit => \E ct \in S : p = answer[ct]
        /\ (\E ct \in S : answer[ct] # NoFit) => p # NoFit
    BY <1>1, <1>2, <1>4, FirstFitOver
  <1>. QED
    BY <1>3, <1>5 DEF S, p

\* What one domain answers.
AnswerOf(t, d, spec, who, mode) ==
  IF spec.perSegment > 0 THEN SearchSegmentedDomain(t, d, spec, who)
  ELSE SearchDomain(t, d, spec, who, mode)

LEMMA SearchAnswer ==
  ASSUME NEW t, FleetInv(t), NEW spec, NEW who, NEW mode
  PROVE  /\ Search(t, spec, who, mode) # NoFit =>
              \E d \in DomainsFor(spec) :
                Search(t, spec, who, mode) = AnswerOf(t, d, spec, who, mode)
         /\ (\E d \in DomainsFor(spec) : AnswerOf(t, d, spec, who, mode) # NoFit) =>
              Search(t, spec, who, mode) # NoFit
  <1> DEFINE D == DomainsFor(spec)
             order == CASE mode = "first_fit" \/ spec.perSegment > 0 -> Ascending(D)
                        [] mode = "spread" -> By(D, Minus(D, t.free))
                        [] OTHER -> By(D, t.free)
             answer == [d \in D |-> AnswerOf(t, d, spec, who, mode)]
             p == Search(t, spec, who, mode)
  <1>1. p = FirstFit(order, answer)
    BY Zenon DEF Search, AnswerOf
  <1>2. D \in SUBSET Domain
    BY DEF DomainsFor
  <1>3. \A d \in D : answer[d] = AnswerOf(t, d, spec, who, mode)
    OBVIOUS
  <1> HIDE DEF D, answer, p
  <1>4. D \in SUBSET Int /\ IsFiniteSet(D)
    BY <1>2, TreeShape, FS_Subset
  <1>5. \A d \in D : t.free[d] \in Int
    BY <1>2, FreeOfDomain
  <1>6. /\ Lists(Ascending(D), D) /\ Lists(By(D, Minus(D, t.free)), D)
        /\ Lists(By(D, t.free), D)
    BY <1>4, <1>5, AscendingLists, MinusLists, ByLists
  <1>7. Lists(order, D)
    BY <1>6
  <1> HIDE DEF order
  <1>8. /\ p # NoFit => \E d \in D : p = answer[d]
        /\ (\E d \in D : answer[d] # NoFit) => p # NoFit
    BY <1>1, <1>4, <1>7, FirstFitOver
  <1>. QED
    BY <1>3, <1>8 DEF D, p

LEMMA PlainSound ==
  ASSUME NEW t, FleetInv(t), NEW spec \in Specs, NEW who, NEW mode, NEW d \in DomainsFor(spec),
         spec.perSegment = 0, SearchDomain(t, d, spec, who, mode) # NoFit
  PROVE  Sound(t, spec, who, SearchDomain(t, d, spec, who, mode))
  <1> DEFINE p == SearchDomain(t, d, spec, who, mode)
  <1>1. d \in Domain
    BY DEF DomainsFor
  <1>2. PICK ct \in WantedTypes(spec, d) : p = TypeAnswer(t, d, ct, spec, who, mode)
    BY <1>1, DomainAnswer
  <1>3. p = ScanLeaves(t, d, ct, spec.chips, who, mode) /\ p # NoFit
    BY <1>2 DEF TypeAnswer
  <1>4. spec.chips \in Nat
    BY TreeShape
  <1> HIDE DEF p
  <1>5. Offer(t, who, ct, spec.chips, p) /\ p.anchor = d /\ p.segments = << >>
    BY <1>1, <1>3, <1>4, ScanOffers
  <1>6. SegmentsRight(spec, p)
    <2>1. DOMAIN << >> = {}
      OBVIOUS
    <2>2. Total({}, << >>) = 0
      BY SumEmpty
    <2>. QED
      BY <1>5, <2>1, <2>2 DEF SegmentsRight
  <1>7. d \in Above[p.anchor]
    BY <1>1, <1>5, AboveFacts
  <1>. QED
    BY <1>5, <1>6, <1>7, OfferSound DEF p

---------------------------------------------------------------------------
(* More about sums, and division.                                          *)

LEMMA Division ==
  ASSUME NEW a \in Nat, NEW b \in Nat, b > 0
  PROVE  /\ a \div b \in Nat /\ a = b * (a \div b) + (a % b) /\ (a \div b) * b <= a
         /\ \A q \in Nat : q * b <= a => q <= a \div b
  <1>1. a \div b \in Nat
    OBVIOUS
  <1>2. a = b * (a \div b) + (a % b)
    OBVIOUS
  <1>3. (a \div b) * b <= a
    OBVIOUS
  <1>4. ASSUME NEW q \in Nat, q * b <= a PROVE q <= a \div b
    BY <1>4
  <1>. QED
    BY <1>1, <1>2, <1>3, <1>4

Scaled(S, f, m, g) == m \in Nat /\ \A x \in S : g[x] = f[x] * m

LEMMA SumScaled ==
  ASSUME NEW S, IsFiniteSet(S), NEW f, Amounts(S, f), NEW m, NEW g, Scaled(S, f, m, g)
  PROVE  Total(S, g) = Total(S, f) * m
  <1> USE DEF Scaled
  <1> DEFINE F == {T \in SUBSET S : Total(T, g) = Total(T, f) * m}
  <1>1. {} \in F
    BY SumEmpty
  <1>2. ASSUME NEW T \in SUBSET S, NEW x \in S \ T, T \in F PROVE T \cup {x} \in F
    <2>1. Total(T, g) = Total(T, f) * m
      BY <1>2
    <2>2. f[x] \in Nat /\ g[x] = f[x] * m /\ g[x] \in Nat
      BY DEF Amounts
    <2>3. IsFiniteSet(T) /\ Amounts(T, f) /\ Amounts(T, g)
      BY FS_Subset DEF Amounts
    <2>4. Total(T \cup {x}, f) = Total(T, f) + f[x] /\ Total(T \cup {x}, g) = Total(T, g) + g[x]
      BY <2>2, <2>3, SumAdjoin
    <2>5. Total(T, f) \in Nat
      BY <2>3, SumType
    <2>6. Total(T, f) * m + f[x] * m = (Total(T, f) + f[x]) * m
      BY <2>2, <2>5
    <2>7. Total(T \cup {x}, g) = Total(T \cup {x}, f) * m
      BY <2>1, <2>2, <2>4, <2>6
    <2>. QED
      BY <2>7
  <1> HIDE DEF F
  <1>3. S \in F
    BY <1>1, <1>2, FiniteInduction
  <1>. QED
    BY <1>3 DEF F

\* Elements that count nothing may be left out.
LEMMA SumPositive ==
  ASSUME NEW S, IsFiniteSet(S), NEW T \in SUBSET S, NEW f, Amounts(S, f),
         \A x \in S \ T : f[x] = 0
  PROVE  Total(S, f) = Total(T, f)
  <1> DEFINE R == S \ T
  <1>1. S = T \cup R /\ T \cap R = {} /\ R \in SUBSET S
    OBVIOUS
  <1>2. IsFiniteSet(T) /\ IsFiniteSet(R) /\ Amounts(T, f) /\ Amounts(R, f)
    BY FS_Subset DEF Amounts
  <1>3. \A x \in R : f[x] = 0
    OBVIOUS
  <1> HIDE DEF R
  <1>4. Total(R, f) = 0
    BY <1>3, SumNone
  <1>5. Total(T \cup R, f) = Total(T, f) + Total(R, f)
    BY <1>1, <1>2, SumUnion
  <1>6. Total(T, f) \in Nat
    BY <1>2, SumType
  <1>. QED
    BY <1>1, <1>4, <1>5, <1>6

\* Counting a set is summing ones.
Pieces(R, part, g) ==
  /\ \A r \in R : IsFiniteSet(part[r]) /\ g[r] = Cardinality(part[r])
  /\ \A r, s \in R : r # s => part[r] \cap part[s] = {}

LEMMA CardinalityOfParts ==
  ASSUME NEW R, IsFiniteSet(R), NEW part, NEW g, Pieces(R, part, g)
  PROVE  /\ Cardinality(UNION {part[r] : r \in R}) = Total(R, g)
         /\ IsFiniteSet(UNION {part[r] : r \in R})
  <1> USE DEF Pieces
  <1> DEFINE All == UNION {part[r] : r \in R}
             one == [x \in All |-> 1]
  <1>1. \A r \in R : part[r] \in SUBSET All
    OBVIOUS
  <1>2. \A x \in All : one[x] = 1
    OBVIOUS
  <1> HIDE DEF one
  <1>3. ASSUME NEW r \in R
        PROVE  IsFiniteSet(part[r]) /\ Amounts(part[r], one) /\ g[r] = Total(part[r], one)
    <2>1. \A x \in part[r] : one[x] = 1
      BY <1>1, <1>2
    <2>2. Total(part[r], one) = 1 * Cardinality(part[r])
      BY <2>1, SumEven
    <2>3. Cardinality(part[r]) \in Nat
      BY FS_CardinalityType
    <2>. QED
      BY <2>1, <2>2, <2>3 DEF Amounts
  <1>4. Total(R, g) = Total(All, one) /\ IsFiniteSet(All)
    <2>1. Parts(R, part, one, g)
      BY <1>3 DEF Parts
    <2>. QED
      BY <2>1, SumOfParts
  <1> HIDE DEF All
  <1>5. Total(All, one) = 1 * Cardinality(All)
    BY <1>2, <1>4, SumEven
  <1>6. Cardinality(All) \in Nat
    BY <1>4, FS_CardinalityType
  <1>. QED
    BY <1>4, <1>5, <1>6 DEF All

---------------------------------------------------------------------------
(* Segments.                                                               *)

\* The leaves a segment of s may be given.
FreeIn(t, s, ct, n, who) ==
  {l \in LeavesUnder[s] :
     /\ ChipType[l] = ct /\ LeafChips[l] = n
     /\ IsHealthy(t, l) /\ Ownerless(t, l)
     /\ EligibleFor(t, l, who)}

\* FreeFor counts them.
LEMMA FreeForCounts ==
  ASSUME NEW t, FleetInv(t), NEW s \in Domain, NEW ct \in Types, NEW n \in Sizes, NEW who
  PROVE  /\ FreeFor(t, s, ct, n, who) = Cardinality(FreeIn(t, s, ct, n, who))
         /\ FreeIn(t, s, ct, n, who) \in SUBSET LeavesUnder[s]
         /\ FreeIn(t, s, ct, n, who) \in SUBSET Leaf
         /\ IsFiniteSet(FreeIn(t, s, ct, n, who))
         /\ FreeFor(t, s, ct, n, who) \in Nat
  <1> DEFINE K == OfKey(s, ct, n)
             E == {l \in K : IsHealthy(t, l) /\ Ownerless(t, l)}
             F == FreeIn(t, s, ct, n, who)
             H == {l \in LeavesUnder[s] :
                     /\ ~ EligibleFor(t, l, who)
                     /\ ChipType[l] = ct /\ LeafChips[l] = n
                     /\ IsHealthy(t, l) /\ Ownerless(t, l)}
             one == FreeNode(t)
  <1>1. K \in SUBSET Leaf /\ IsFiniteSet(K)
    BY LeafFacts
  <1>2. E = F \cup H /\ F \cap H = {} /\ F \in SUBSET E /\ H \in SUBSET E /\ E \in SUBSET K
    BY DEF FreeIn, OfKey
  <1>3. F \in SUBSET LeavesUnder[s]
    BY DEF FreeIn
  <1>4. \A l \in K : one[l] = IF l \in E THEN 1 ELSE 0
    BY <1>1 DEF FreeNode
  <1>5. t.freeNodes[s][ct][n] = Total(K, one)
    BY DEF FleetInv, CountersMatch, OfKey
  <1>6. HeldFreeNodes(t, s, ct, n, who) = Cardinality(H)
    BY DEF HeldFreeNodes
  <1> HIDE DEF K, E, F, H, one
  <1>7. IsFiniteSet(E) /\ IsFiniteSet(F) /\ IsFiniteSet(H)
    BY <1>1, <1>2, FS_Subset
  <1>8. Cardinality(F) \in Nat /\ Cardinality(H) \in Nat /\ Cardinality(E) \in Nat
    BY <1>7, FS_CardinalityType
  <1>9. Cardinality(E) = Cardinality(F) + Cardinality(H)
    <2>1. Cardinality(F \cup H) = Cardinality(F) + Cardinality(H) - Cardinality(F \cap H)
      BY <1>7, FS_Union
    <2>2. Cardinality(F \cap H) = 0
      BY <1>2, FS_EmptySet
    <2>3. Cardinality(F \cup H) = Cardinality(E)
      BY <1>2
    <2>. QED
      BY <1>8, <2>1, <2>2, <2>3
  <1>10. Total(K, one) = Cardinality(E)
    <2>1. Amounts(K, one) /\ \A l \in K \ E : one[l] = 0
      BY <1>4 DEF Amounts
    <2>2. Total(K, one) = Total(E, one)
      BY <1>1, <1>2, <2>1, SumPositive
    <2>3. \A l \in E : one[l] = 1
      BY <1>2, <1>4
    <2>4. Total(E, one) = 1 * Cardinality(E)
      BY <1>7, <2>3, SumEven
    <2>. QED
      BY <1>8, <2>2, <2>4
  <1>11. FreeFor(t, s, ct, n, who) = Cardinality(F)
    BY <1>5, <1>6, <1>8, <1>9, <1>10 DEF FreeFor
  <1>12. F \in SUBSET Leaf
    BY <1>1, <1>2
  <1>. QED
    BY <1>3, <1>7, <1>8, <1>11, <1>12 DEF F

---------------------------------------------------------------------------
(* _pack_segments.                                                         *)

Under(spec, d) == {s \in Domain : Level[s] = spec.segmentLevel /\ d \in Above[s]}

\* Segments given to the domains of H, no more than there is room for.
Shares(H, count) == {a \in [got : Nat, given : [H -> Nat]] : a.got <= count}

Gave(acc, s, room, per, count) ==
  LET k == Min({count - acc.got, room[s] \div per})
  IN  [got |-> acc.got + k, given |-> [acc.given EXCEPT ![s] = k]]

PackCourse(f, order, m, H, room, per, count) ==
  /\ f[0] = [got |-> 0, given |-> [s \in H |-> 0]]
  /\ \A i \in 1 .. m : f[i] = Gave(f[i - 1], order[i], room, per, count)

\* The lesser of two numbers.
LEMMA MinOfTwo ==
  ASSUME NEW a \in Nat, NEW b \in Nat
  PROVE  Min({a, b}) = IF a <= b THEN a ELSE b
  <1>1. Min({a, b}) \in {a, b} /\ \A y \in {a, b} : Min({a, b}) <= y
    <2>1. {a, b} \subseteq Nat /\ {a, b} # {}
      OBVIOUS
    <2>. QED
      BY <2>1, MinIsLeast
  <1>. QED
    BY <1>1

LEMMA GaveInShares ==
  ASSUME NEW H, NEW count \in Nat, NEW per \in Nat, per > 0, NEW room,
         NEW s \in H, room[s] \in Nat, NEW acc \in Shares(H, count)
  PROVE  LET k == IF count - acc.got <= room[s] \div per
                  THEN count - acc.got ELSE room[s] \div per
             next == Gave(acc, s, room, per, count)
         IN  /\ next \in Shares(H, count) /\ k \in Nat
             /\ next.got = acc.got + k
             /\ next.given = [acc.given EXCEPT ![s] = k]
  <1> DEFINE k == IF count - acc.got <= room[s] \div per
                  THEN count - acc.got ELSE room[s] \div per
             next == Gave(acc, s, room, per, count)
  <1>1. /\ acc.got \in Nat /\ acc.got <= count /\ acc.given \in [H -> Nat]
    BY DEF Shares
  <1>2. room[s] \div per \in Nat
    BY Division
  <1>3. count - acc.got \in Nat
    BY <1>1
  <1>4. k = Min({count - acc.got, room[s] \div per})
    <2> DEFINE a == count - acc.got
               b == room[s] \div per
    <2>1. a \in Nat /\ b \in Nat
      BY <1>2, <1>3
    <2> HIDE DEF a, b
    <2>2. Min({a, b}) = IF a <= b THEN a ELSE b
      BY <2>1, MinOfTwo
    <2>. QED
      BY <2>2 DEF a, b
  <1>5. next = [got |-> acc.got + k, given |-> [acc.given EXCEPT ![s] = k]]
    BY <1>4 DEF Gave
  <1>6. k \in Nat /\ acc.got + k <= count
    BY <1>1, <1>2, <1>3
  <1> HIDE DEF k, next
  <1>7. [acc.given EXCEPT ![s] = k] \in [H -> Nat]
    BY <1>1, <1>6
  <1>8. next \in Shares(H, count)
    BY <1>1, <1>5, <1>6, <1>7 DEF Shares
  <1>. QED
    BY <1>5, <1>6, <1>8 DEF k, next

PackFold(H, order, room, per, count) ==
  FoldLeft(LAMBDA acc, s : Gave(acc, s, room, per, count),
           [got |-> 0, given |-> [s \in H |-> 0]], order)

LEMMA PackCourseExists ==
  ASSUME NEW H, NEW m \in Nat, NEW order \in [1 .. m -> H], NEW count \in Nat,
         NEW per \in Nat, per > 0, NEW room, \A s \in H : room[s] \in Nat, NEW p,
         p = PackFold(H, order, room, per, count)
  PROVE  \E f \in [0 .. m -> Shares(H, count)] :
           PackCourse(f, order, m, H, room, per, count) /\ f[m] = p
  <1> DEFINE A == Shares(H, count)
             base == [got |-> 0, given |-> [s \in H |-> 0]]
             Rec(k) == [s \in SUBSET (DOMAIN order) |->
                          IF s = {} THEN base
                          ELSE Gave(k[s \ {Max(s)}], order[Max(s)], room, per, count)]
             table == CHOOSE k : k = Rec(k)
             G == [q \in A \X (1 .. m) |-> Gave(q[1], order[q[2]], room, per, count)]
  <1>1. DOMAIN order = 1 .. m
    OBVIOUS
  <1>2. p = table[1 .. m]
    BY <1>1 DEF PackFold, FoldLeft, MapThenFoldSet
  <1>3. base \in A
    BY DEF Shares
  <1>4. \A c \in A : \A i \in 1 .. m : Gave(c, order[i], room, per, count) \in A
    BY GaveInShares
  <1> HIDE DEF base, A
  <1>5. G \in [A \X (1 .. m) -> A]
    BY <1>4
  <1>6. \A c \in A : \A i \in 1 .. m : G[<<c, i>>] = Gave(c, order[i], room, per, count)
    OBVIOUS
  <1> HIDE DEF G
  <1>7. PICK h \in [SUBSET (1 .. m) -> A] : Table(m, base, G, h)
    BY <1>3, <1>5, TableExists
  <1>8. h = Rec(h)
    <2>1. ASSUME NEW s \in SUBSET (1 .. m)
          PROVE  h[s] = IF s = {} THEN base
                        ELSE Gave(h[s \ {Max(s)}], order[Max(s)], room, per, count)
      <3>1. h[s] = IF s = {} THEN base ELSE G[<<h[s \ {Max(s)}], Max(s)>>]
        BY <1>7 DEF Table
      <3>2. CASE s # {}
        <4>1. Max(s) \in 1 .. m
          BY <3>2, MaxIsGreatest
        <4>2. s \ {Max(s)} \in SUBSET (1 .. m)
          OBVIOUS
        <4>3. h[s \ {Max(s)}] \in A
          BY <4>2
        <4>. QED
          BY <1>6, <3>1, <3>2, <4>1, <4>3
      <3>. QED
        BY <3>1, <3>2
    <2>. QED
      BY <1>1, <2>1
  <1>9. table = Rec(table)
    <2> HIDE DEF Rec
    <2>. QED
      BY <1>8
  <1> HIDE DEF table
  <1>10. Follows(table, m, A, base, G)
    <2>1. \A s \in SUBSET (1 .. m) :
            table[s] = IF s = {} THEN base
                       ELSE Gave(table[s \ {Max(s)}], order[Max(s)], room, per, count)
      BY <1>1, <1>9
    <2>2. \A s \in SUBSET (1 .. m) : s # {} => Max(s) \in 1 .. m
      BY MaxIsGreatest
    <2>. QED
      BY <1>3, <1>5, <1>6, <2>1, <2>2 DEF Follows
  <1>11. PICK f \in [0 .. m -> A] : Rows(f, m, base, G) /\ f[m] = table[1 .. m]
    BY <1>10, TableRows
  <1>12. \A i \in 1 .. m : f[i] = Gave(f[i - 1], order[i], room, per, count)
    <2> SUFFICES ASSUME NEW i \in 1 .. m
                 PROVE  f[i] = Gave(f[i - 1], order[i], room, per, count)
      OBVIOUS
    <2>1. i - 1 \in 0 .. m
      OBVIOUS
    <2>2. f[i - 1] \in A
      BY <1>11, <2>1
    <2>. QED
      BY <1>6, <1>11, <2>2 DEF Rows
  <1>. QED
    BY <1>2, <1>11, <1>12 DEF PackCourse, base, Rows, A

\* One element of a sum changes from 0 to k.
LEMMA SumRaised ==
  ASSUME NEW H, IsFiniteSet(H), NEW f \in [H -> Nat], NEW s \in H, f[s] = 0, NEW k \in Nat
  PROVE  Total(H, [f EXCEPT ![s] = k]) = Total(H, f) + k
  <1> DEFINE g == [f EXCEPT ![s] = k]
             one == [x \in H |-> IF x = s THEN k ELSE 0]
  <1>1. Amounts(H, f) /\ Amounts(H, one) /\ \A x \in H : g[x] = f[x] + one[x]
    BY DEF Amounts
  <1>2. Total(H, g) = Total(H, f) + Total(H, one)
    <2> HIDE DEF g, one
    <2>. QED
      BY <1>1, SumAdd
  <1>3. one[s] = k /\ \A x \in H : x # s => one[x] = 0
    OBVIOUS
  <1>4. Total(H, one) = one[s]
    <2> HIDE DEF one
    <2>. QED
      BY <1>3, SumOne
  <1>. QED
    BY <1>2, <1>3, <1>4

\* No host is given more segments than it has room for; what was given is
\* got; if that is not all, no host has room left.
Packed(p, H, room, per, count) ==
  /\ p.got \in Nat /\ p.got <= count /\ p.given \in [H -> Nat]
  /\ p.got = Total(H, p.given)
  /\ \A s \in H : p.given[s] <= room[s] \div per
  /\ p.got # count => \A s \in H : p.given[s] = room[s] \div per

LEMMA PackKeeps ==
  ASSUME NEW H, IsFiniteSet(H), NEW order, Lists(order, H), NEW count \in Nat,
         NEW per \in Nat, per > 0, NEW room, \A s \in H : room[s] \in Nat, NEW p,
         p = PackFold(H, order, room, per, count)
  PROVE  Packed(p, H, room, per, count)
  <1> DEFINE m == Cardinality(H)
  <1>1. m \in Nat
    BY FS_CardinalityType
  <1>2. /\ order \in [1 .. m -> H]
        /\ \A x \in H : \E i \in 1 .. m : order[i] = x
        /\ \A i, k \in 1 .. m : i < k => order[i] # order[k]
    BY DEF Lists
  <1>3. \A s \in H : room[s] \div per \in Nat
    BY Division
  <1>4. PICK f \in [0 .. m -> Shares(H, count)] :
              PackCourse(f, order, m, H, room, per, count) /\ f[m] = p
    BY <1>1, <1>2, PackCourseExists
  <1> HIDE DEF m
  <1>5. /\ f[0] = [got |-> 0, given |-> [s \in H |-> 0]]
        /\ \A i \in 1 .. m : f[i] = Gave(f[i - 1], order[i], room, per, count)
    BY <1>4 DEF PackCourse
  <1>6. \A i \in 0 .. m : /\ f[i] \in Shares(H, count)
                          /\ f[i].got \in Nat /\ f[i].got <= count /\ f[i].given \in [H -> Nat]
    BY <1>4 DEF Shares
  <1> DEFINE Good(i) ==
               /\ f[i].got = Total(H, f[i].given)
               /\ \A s \in H : f[i].given[s] <= room[s] \div per
               /\ \A k \in 1 .. m : k > i => f[i].given[order[k]] = 0
               /\ f[i].got # count =>
                    \A k \in 1 .. i : f[i].given[order[k]] = room[order[k]] \div per
             P == {i \in 0 .. m : Good(i)}
  <1>7. 0 \in P
    <2>1. f[0].got = 0 /\ f[0].given = [s \in H |-> 0]
      BY <1>5
    <2>2. \A s \in H : f[0].given[s] = 0
      BY <2>1
    <2>3. Total(H, f[0].given) = 0
      BY <2>2, SumNone
    <2>4. \A k \in 1 .. m : order[k] \in H
      BY <1>2
    <2>5. 0 \in 0 .. m /\ \A k : k \notin 1 .. 0
      BY <1>1
    <2>6. Good(0)
      BY <1>3, <2>1, <2>2, <2>3, <2>4, <2>5
    <2> HIDE DEF Good
    <2>. QED
      BY <2>5, <2>6
  <1>8. ASSUME NEW i \in 0 .. m - 1, i \in P PROVE i + 1 \in P
    <2>1. i + 1 \in 1 .. m /\ i + 1 \in 0 .. m /\ (i + 1) - 1 = i /\ i \in 0 .. m
      BY <1>1
    <2> DEFINE s == order[i + 1]
               a == f[i]
               b == f[i + 1]
               k == IF count - a.got <= room[s] \div per
                    THEN count - a.got ELSE room[s] \div per
    <2>2. s \in H /\ b = Gave(a, s, room, per, count) /\ a \in Shares(H, count)
      BY <1>2, <1>5, <1>6, <2>1
    <2>3. /\ a.got \in Nat /\ a.got <= count /\ a.given \in [H -> Nat]
          /\ b.got \in Nat /\ b.got <= count
      BY <1>6, <2>1
    <2>4. Good(i)
      BY <1>8
    <2>5. a.given[s] = 0
      <3>1. i + 1 > i
        BY <2>1
      <3>. QED
        BY <2>1, <2>4, <3>1
    <2>6. /\ \A q \in 1 .. m : q > i => a.given[order[q]] = 0
          /\ a.got = Total(H, a.given)
          /\ \A x \in H : a.given[x] <= room[x] \div per
          /\ a.got # count =>
               \A q \in 1 .. i : a.given[order[q]] = room[order[q]] \div per
      BY <2>4
    <2>7. \A q \in 1 .. m : q # i + 1 => order[q] # s
      <3> SUFFICES ASSUME NEW q \in 1 .. m, q # i + 1 PROVE order[q] # s
        OBVIOUS
      <3>1. q < i + 1 \/ i + 1 < q
        BY <2>1
      <3>. QED
        BY <1>2, <2>1, <3>1
    <2> HIDE DEF s, a, b, Good
    <2>8. k \in Nat /\ b.got = a.got + k /\ b.given = [a.given EXCEPT ![s] = k]
      <3> HIDE DEF k
      <3>1. room[s] \in Nat
        BY <2>2
      <3>. QED
        BY <2>2, <3>1, GaveInShares DEF k
    <2>9. b.got = Total(H, b.given)
      <3> HIDE DEF k
      <3>1. Total(H, [a.given EXCEPT ![s] = k]) = Total(H, a.given) + k
        <4> DEFINE g == a.given
        <4>1. g \in [H -> Nat] /\ s \in H /\ g[s] = 0 /\ k \in Nat
          BY <2>2, <2>3, <2>5, <2>8
        <4> HIDE DEF g
        <4>2. Total(H, [g EXCEPT ![s] = k]) = Total(H, g) + k
          BY <4>1, SumRaised
        <4>. QED
          BY <4>2 DEF g
      <3>. QED
        BY <2>6, <2>8, <3>1
    <2>10. k <= room[s] \div per /\ (k = count - a.got \/ k = room[s] \div per)
      BY <1>3, <2>2, <2>3
    <2> HIDE DEF k
    <2>11. \A x \in H : b.given[x] = IF x = s THEN k ELSE a.given[x]
      BY <2>3, <2>8
    <2>12. \A x \in H : b.given[x] <= room[x] \div per
      BY <2>6, <2>10, <2>11
    <2>13. \A q \in 1 .. m : q > i + 1 => b.given[order[q]] = 0
      <3> SUFFICES ASSUME NEW q \in 1 .. m, q > i + 1 PROVE b.given[order[q]] = 0
        OBVIOUS
      <3>1. q > i /\ q # i + 1 /\ order[q] \in H
        BY <1>2, <2>1
      <3>. QED
        BY <2>6, <2>7, <2>11, <3>1
    <2>14. b.got # count =>
             \A q \in 1 .. i + 1 : b.given[order[q]] = room[order[q]] \div per
      <3> SUFFICES ASSUME b.got # count, NEW q \in 1 .. i + 1
                   PROVE  b.given[order[q]] = room[order[q]] \div per
        OBVIOUS
      <3>1. q \in 1 .. m /\ order[q] \in H /\ (q = i + 1 \/ q \in 1 .. i)
        BY <1>1, <1>2, <2>1
      <3>2. k = room[s] \div per /\ (a.got = count => b.got = count)
        <4>1. b.got # count
          OBVIOUS
        <4>2. k # count - a.got
          BY <2>3, <2>8, <4>1
        <4>3. a.got # count
          BY <2>3, <2>8, <4>1
        <4>. QED
          BY <2>10, <4>2, <4>3
      <3>3. CASE q = i + 1
        BY <2>2, <2>11, <3>2, <3>3 DEF s
      <3>4. CASE q \in 1 .. i
        <4>1. q # i + 1
          BY <2>1, <3>4
        <4>2. order[q] # s
          BY <2>7, <3>1, <4>1
        <4>. QED
          BY <2>6, <2>11, <3>1, <3>2, <3>4, <4>2
      <3>. QED
        BY <3>1, <3>3, <3>4
    <2>15. Good(i + 1)
      BY <2>9, <2>12, <2>13, <2>14 DEF Good, b
    <2>. QED
      BY <2>1, <2>15
  <1>9. m \in P
    <2> HIDE DEF P
    <2>1. \A i \in 0 .. m : i \in P
      BY <1>1, <1>7, <1>8, UpwardInduction
    <2>. QED
      BY <1>1, <2>1
  <1>10. m \in 0 .. m /\ Good(m)
    BY <1>1, <1>9
  <1>11. p.got # count => \A s \in H : p.given[s] = room[s] \div per
    BY <1>2, <1>4, <1>10
  <1>. QED
    BY <1>4, <1>6, <1>10, <1>11 DEF Packed

\* The domains with room for a segment.
Hosts(t, d, ct, n, spec, who) ==
  {s \in Under(spec, d) : FreeFor(t, s, ct, n, who) >= spec.perSegment}

RoomIn(t, d, ct, n, spec, who) == [s \in Under(spec, d) |-> FreeFor(t, s, ct, n, who)]

LEMMA HostsAre ==
  ASSUME NEW t, FleetInv(t), NEW d \in Domain, NEW ct \in Types, NEW n \in Sizes,
         NEW spec, NEW who
  PROVE  LET H == Hosts(t, d, ct, n, spec, who)
             room == RoomIn(t, d, ct, n, spec, who)
         IN  /\ IsFiniteSet(Under(spec, d)) /\ Under(spec, d) \in SUBSET Domain
             /\ H \in SUBSET Under(spec, d) /\ IsFiniteSet(H) /\ H \in SUBSET Int
             /\ \A s \in Under(spec, d) : /\ room[s] = FreeFor(t, s, ct, n, who)
                                          /\ room[s] \in Nat
  <1>1. Under(spec, d) \in SUBSET Domain
    BY DEF Under
  <1>2. IsFiniteSet(Under(spec, d)) /\ \A s \in Domain : s \in Int
    <2>1. IsFiniteSet(Under(spec, d))
      BY <1>1, TreeShape, FS_Subset
    <2>2. \A s \in Domain : s \in Int
      BY TreeShape
    <2>. QED
      BY <2>1, <2>2
  <1>3. Hosts(t, d, ct, n, spec, who) \in SUBSET Under(spec, d)
    BY DEF Hosts
  <1>4. IsFiniteSet(Hosts(t, d, ct, n, spec, who))
    BY <1>2, <1>3, FS_Subset
  <1>5. \A s \in Under(spec, d) : FreeFor(t, s, ct, n, who) \in Nat
    BY <1>1, FreeForCounts
  <1>6. \A s \in Under(spec, d) :
          RoomIn(t, d, ct, n, spec, who)[s] = FreeFor(t, s, ct, n, who)
    BY DEF RoomIn
  <1>. QED
    BY <1>1, <1>2, <1>3, <1>4, <1>5, <1>6

LEMMA PackedSegments ==
  ASSUME NEW t, FleetInv(t), NEW d \in Domain, NEW ct \in Types, NEW n \in Sizes,
         NEW spec, spec.perSegment \in Nat, spec.perSegment > 0, NEW who, NEW count \in Nat
  PROVE  Packed(PackSegments(t, d, ct, n, spec, who, count), Hosts(t, d, ct, n, spec, who),
                RoomIn(t, d, ct, n, spec, who), spec.perSegment, count)
  <1> DEFINE room == RoomIn(t, d, ct, n, spec, who)
             H == Hosts(t, d, ct, n, spec, who)
             order == By(H, Minus(H, room))
             p == PackSegments(t, d, ct, n, spec, who, count)
             per == spec.perSegment
  <1>1. H = {s \in Under(spec, d) : room[s] >= per}
    BY DEF Hosts, RoomIn
  <1>2. p = PackFold(H, order, room, per, count)
    <2> DEFINE under == {s \in Domain : Level[s] = spec.segmentLevel /\ d \in Above[s]}
               rm == [s \in under |-> FreeFor(t, s, ct, n, who)]
               hosts == {s \in under : rm[s] >= spec.perSegment}
    <2>1. p = PackFold(hosts, By(hosts, Minus(hosts, rm)), rm, per, count)
      BY DEF PackSegments, PackFold, Gave
    <2>2. rm = room
      BY DEF RoomIn, Under
    <2>3. hosts = H
      BY <1>1, <2>2 DEF Under
    <2> HIDE DEF rm, hosts, room, H, p, per
    <2>. QED
      BY <2>1, <2>2, <2>3
  <1>3. /\ H \in SUBSET Int /\ IsFiniteSet(H) /\ \A s \in H : room[s] \in Nat /\ room[s] \in Int
    BY HostsAre
  <1> HIDE DEF H, room, p, per
  <1>4. Lists(order, H)
    BY <1>3, MinusLists
  <1> HIDE DEF order
  <1>5. per \in Nat /\ per > 0
    BY DEF per
  <1>6. Packed(p, H, room, per, count)
    BY <1>2, <1>3, <1>4, <1>5, PackKeeps
  <1>. QED
    BY <1>6 DEF H, room, p, per

\* The first k leaves of a list of S.
LEMMA FirstOfList ==
  ASSUME NEW S, IsFiniteSet(S), NEW s, Lists(s, S), NEW k \in 0 .. Cardinality(S)
  PROVE  /\ {s[i] : i \in 1 .. k} \in SUBSET S
         /\ Cardinality({s[i] : i \in 1 .. k}) = k
         /\ IsFiniteSet({s[i] : i \in 1 .. k})
  <1> DEFINE T == {s[i] : i \in 1 .. k}
             b == [i \in 1 .. k |-> s[i]]
  <1>1. Cardinality(S) \in Nat /\ k \in Nat
    BY FS_CardinalityType
  <1>2. \A i \in 1 .. k : i \in 1 .. Cardinality(S)
    BY <1>1
  <1>3. \A i \in 1 .. k : s[i] \in S
    BY <1>2 DEF Lists
  <1>4. ASSUME NEW i \in 1 .. k, NEW j \in 1 .. k, s[i] = s[j] PROVE i = j
    <2>1. i < j \/ j < i \/ i = j
      OBVIOUS
    <2>. QED
      BY <1>2, <1>4, <2>1 DEF Lists
  <1>5. b \in Bijection(1 .. k, T)
    BY <1>4 DEF Bijection, Injection, IsInjective, Surjection
  <1>6. IsFiniteSet(1 .. k) /\ Cardinality(1 .. k) = k
    <2>1. CASE k = 0
      <3>1. 1 .. k = {}
        BY <2>1
      <3>. QED
        BY <2>1, <3>1, FS_EmptySet
    <2>2. CASE k # 0
      <3>1. IsFiniteSet(1 .. k) /\ Cardinality(1 .. k) = k - 1 + 1
        BY <1>1, <2>2, FS_Interval
      <3>. QED
        BY <1>1, <3>1
    <2>. QED
      BY <2>1, <2>2
  <1>7. IsFiniteSet(T) /\ Cardinality(T) = k
    <2> HIDE DEF b, T
    <2>1. ExistsBijection(1 .. k, T)
      BY <1>5 DEF ExistsBijection
    <2>. QED
      BY <1>5, <1>6, <2>1, FS_Bijection
  <1>. QED
    BY <1>3, <1>7

\* What each host gives, and what that makes together.
Taking(t, given, ct, n, per, who) ==
  [s \in {x \in DOMAIN given : given[x] > 0} |->
     {Ascending(FreeIn(t, s, ct, n, who))[i] :
        i \in 1 .. Min({given[s] * per, Cardinality(FreeIn(t, s, ct, n, who))})}]

Realized(p, t, given, ct, n, per, who) ==
  LET H == {x \in DOMAIN given : given[x] > 0}
      took == Taking(t, given, ct, n, per, who)
  IN  /\ p.leaves = UNION {took[s] : s \in H}
      /\ p.whole = TRUE /\ p.anchor = CommonAbove(H)
      /\ p.segments = [s \in H |-> given[s]]

LEMMA RealizeIs ==
  ASSUME NEW t, NEW given, NEW ct, NEW n, NEW spec, NEW who
  PROVE  Realized(RealizeSegments(t, given, ct, n, spec, who),
                  t, given, ct, n, spec.perSegment, who)
  <1> DEFINE H == {x \in DOMAIN given : given[x] > 0}
             T(s) == {Ascending(FreeIn(t, s, ct, n, who))[i] :
                        i \in 1 .. Min({given[s] * spec.perSegment,
                                       Cardinality(FreeIn(t, s, ct, n, who))})}
             took == Taking(t, given, ct, n, spec.perSegment, who)
             p == RealizeSegments(t, given, ct, n, spec, who)
  <1>1. p = Placement(UNION {T(s) : s \in H}, 0, TRUE, CommonAbove(H), [s \in H |-> given[s]])
    BY Zenon DEF RealizeSegments, FreeIn
  <1>2. took = [s \in H |-> T(s)]
    BY Zenon DEF Taking
  <1> HIDE DEF H, T, took, p
  <1>3. {T(s) : s \in H} = {took[s] : s \in H}
    BY <1>2
  <1>4. /\ p.leaves = UNION {took[s] : s \in H}
        /\ p.whole = TRUE /\ p.anchor = CommonAbove(H)
        /\ p.segments = [s \in H |-> given[s]]
    BY <1>1, <1>3 DEF Placement
  <1>. QED
    BY <1>4 DEF H, took, p, Realized

LEMMA RealizeOffers ==
  ASSUME NEW t, FleetInv(t), NEW d \in Domain, NEW ct \in Types, NEW n \in Sizes,
         NEW spec \in Specs, spec.perSegment > 0, NEW who, NEW count \in Nat, count > 0,
         spec.chips = count * spec.perSegment * n,
         NEW H, H \in SUBSET Under(spec, d), NEW given \in [H -> Nat],
         \A s \in H : given[s] * spec.perSegment <= FreeFor(t, s, ct, n, who),
         Total(H, given) = count
  PROVE  LET p == RealizeSegments(t, given, ct, n, spec, who) IN
         /\ Offer(t, who, ct, spec.chips, p)
         /\ d \in Above[p.anchor] /\ SegmentsRight(spec, p)
  <1> DEFINE per == spec.perSegment
             p == RealizeSegments(t, given, ct, n, spec, who)
             Q == {x \in DOMAIN given : given[x] > 0}
             took == Taking(t, given, ct, n, per, who)
             size == [s \in Q |-> given[s] * per]
             seg == [s \in Q |-> given[s]]
  <1>1. /\ p.leaves = UNION {took[s] : s \in Q}
        /\ p.whole = TRUE /\ p.anchor = CommonAbove(Q) /\ p.segments = seg
    <2>1. Realized(p, t, given, ct, n, per, who)
      BY RealizeIs
    <2>. QED
      BY Zenon, <2>1 DEF Realized
  <1>2. per \in Nat /\ per > 0 /\ n \in Nat /\ n > 0 /\ spec.chips = count * per * n
    BY TreeShape, KindsFinite
  <1>3. /\ Q \in SUBSET H /\ Q \in SUBSET Under(spec, d) /\ Q \in SUBSET Domain
        /\ \A s \in Q : given[s] \in Nat /\ given[s] > 0 /\ d \in Above[s]
                        /\ Level[s] = spec.segmentLevel
        /\ \A s \in H \ Q : given[s] = 0
    BY DEF Under
  <1>4. IsFiniteSet(H) /\ IsFiniteSet(Q)
    <2>1. H \in SUBSET Domain
      BY DEF Under
    <2> HIDE DEF Q
    <2>. QED
      BY <1>3, <2>1, TreeShape, FS_Subset
  <1>5. \A s \in Q : took[s] = {Ascending(FreeIn(t, s, ct, n, who))[i] :
              i \in 1 .. Min({given[s] * per, Cardinality(FreeIn(t, s, ct, n, who))})}
    BY Zenon DEF Taking
  <1>6. \A s \in Q : size[s] = given[s] * per /\ seg[s] = given[s]
    OBVIOUS
  <1>7. DOMAIN seg = Q
    OBVIOUS
  <1> HIDE DEF p, Q, took, size, seg, per
  <1>8. ASSUME NEW s \in Q
        PROVE  /\ took[s] \in SUBSET FreeIn(t, s, ct, n, who)
               /\ Cardinality(took[s]) = size[s] /\ IsFiniteSet(took[s])
               /\ size[s] \in Nat
    <2> DEFINE F == FreeIn(t, s, ct, n, who)
               k == given[s] * per
               a == Ascending(F)
    <2>1. /\ s \in Domain /\ given[s] \in Nat
      BY <1>3
    <2>2. k \in Nat
      BY <1>2, <2>1
    <2>3. /\ FreeFor(t, s, ct, n, who) = Cardinality(F) /\ IsFiniteSet(F) /\ F \in SUBSET Leaf
      BY <2>1, FreeForCounts
    <2>4. k <= Cardinality(F)
      BY <1>3, <2>3 DEF per
    <2> HIDE DEF F, k, a
    <2>5. Cardinality(F) \in Nat
      BY <2>3, FS_CardinalityType
    <2>6. Min({k, Cardinality(F)}) = k
      BY <2>2, <2>4, <2>5, MinOfTwo
    <2>7. F \in SUBSET Int
      BY <2>3, Sizeable
    <2>8. Lists(a, F)
      BY <2>3, <2>7, AscendingLists DEF a
    <2>9. took[s] = {a[i] : i \in 1 .. k}
      <3>1. took[s] = {a[i] : i \in 1 .. Min({k, Cardinality(F)})}
        BY Zenon, <1>5 DEF a, F, k
      <3>. QED
        BY <2>6, <3>1
    <2>10. k \in 0 .. Cardinality(F)
      BY <2>2, <2>4, <2>5
    <2>11. /\ {a[i] : i \in 1 .. k} \in SUBSET F
           /\ Cardinality({a[i] : i \in 1 .. k}) = k
           /\ IsFiniteSet({a[i] : i \in 1 .. k})
      BY <2>3, <2>8, <2>10, FirstOfList
    <2>12. size[s] = k
      BY <1>6 DEF k
    <2>. QED
      BY <2>2, <2>9, <2>11, <2>12 DEF F
  <1>9. \A s \in Q : took[s] \in SUBSET LeavesUnder[s]
    <2>1. \A s \in Q : FreeIn(t, s, ct, n, who) \in SUBSET LeavesUnder[s]
      BY <1>3, FreeForCounts
    <2>. QED
      BY <1>8, <2>1
  <1>10. \A r, s \in Q : r # s => LeavesUnder[r] \cap LeavesUnder[s] = {}
    BY <1>3, UnderFacts
  <1>11. \A r, s \in Q : r # s => took[r] \cap LeavesUnder[s] = {}
    BY <1>9, <1>10
  <1>12. \A r, s \in Q : r # s => took[r] \cap took[s] = {}
    BY <1>9, <1>11
  <1>13. Total(Q, given) = count /\ Amounts(Q, given) /\ Total(Q, seg) = count
    <2>1. Amounts(H, given)
      BY DEF Amounts
    <2>2. Total(H, given) = Total(Q, given)
      BY <1>3, <1>4, <2>1, SumPositive
    <2>3. Total(Q, given) = Total(Q, seg)
      BY <1>6, SumSame
    <2>. QED
      BY <1>3, <2>2, <2>3 DEF Amounts
  <1>14. Total(Q, size) = count * per
    <2>1. Scaled(Q, given, per, size)
      BY <1>2, <1>6 DEF Scaled
    <2>2. Amounts(Q, given)
      BY <1>13
    <2>3. Total(Q, size) = Total(Q, given) * per
      BY <1>4, <2>1, <2>2, SumScaled
    <2>. QED
      BY <1>13, <2>3
  <1>15. Cardinality(p.leaves) = count * per /\ IsFiniteSet(p.leaves)
    <2>1. \A s \in Q : IsFiniteSet(took[s]) /\ size[s] = Cardinality(took[s])
      BY <1>8
    <2>3. Pieces(Q, took, size)
      BY <1>12, <2>1 DEF Pieces
    <2>2. /\ Cardinality(UNION {took[s] : s \in Q}) = Total(Q, size)
          /\ IsFiniteSet(UNION {took[s] : s \in Q})
      BY <1>4, <2>3, CardinalityOfParts
    <2>. QED
      BY <1>1, <1>14, <2>2
  <1>16. Q # {}
    <2>1. Q = {} => Total(Q, given) = 0
      BY SumEmpty
    <2>. QED
      BY <1>13, <2>1
  <1>17. /\ p.anchor \in Domain /\ d \in Above[p.anchor]
         /\ \A s \in Q : p.anchor \in Above[s]
    BY <1>1, <1>3, <1>16, CommonAboveIs
  <1>18. \A l \in p.leaves : \E s \in Q : l \in took[s]
    BY <1>1
  <1>19. \A l \in p.leaves : l \in LeavesUnder[p.anchor]
    <2> SUFFICES ASSUME NEW l \in p.leaves PROVE l \in LeavesUnder[p.anchor]
      OBVIOUS
    <2>1. PICK s \in Q : l \in took[s]
      BY <1>18
    <2>2. s \in Domain /\ p.anchor \in Above[s]
      BY <1>3, <1>17
    <2>3. LeavesUnder[s] \subseteq LeavesUnder[p.anchor]
      BY <2>2, UnderFacts
    <2>. QED
      BY <1>9, <2>1, <2>3
  <1>20. \A l \in p.leaves : /\ l \in Leaf /\ ChipType[l] = ct /\ LeafChips[l] = n
                             /\ IsHealthy(t, l) /\ Ownerless(t, l) /\ EligibleFor(t, l, who)
    <2> SUFFICES ASSUME NEW l \in p.leaves
                 PROVE  /\ l \in Leaf /\ ChipType[l] = ct /\ LeafChips[l] = n
                        /\ IsHealthy(t, l) /\ Ownerless(t, l) /\ EligibleFor(t, l, who)
      OBVIOUS
    <2>1. PICK s \in Q : l \in took[s]
      BY <1>18
    <2>2. l \in FreeIn(t, s, ct, n, who)
      BY <1>8, <2>1
    <2>3. l \in Leaf
      BY <1>17, <1>19, LeafFacts
    <2>. QED
      BY <2>2, <2>3 DEF FreeIn
  <1>21. \A l \in p.leaves : t.free[l] = LeafChips[l]
    BY <1>20, FreeOfLeaf
  <1>22. Total(p.leaves, LeafChips) = spec.chips
    <2>1. Total(p.leaves, LeafChips) = n * Cardinality(p.leaves)
      BY <1>2, <1>15, <1>20, SumEven
    <2>2. n * (count * per) = count * per * n
      BY <1>2
    <2>. QED
      BY <1>2, <1>15, <2>1, <2>2
  <1>23. Offer(t, who, ct, spec.chips, p)
    BY <1>1, <1>17, <1>19, <1>20, <1>21, <1>22 DEF Offer
  <1>24. SegmentsRight(spec, p)
    <2>1. ASSUME NEW s \in Q PROVE Cardinality(p.leaves \cap LeavesUnder[s]) = seg[s] * per
      <3>1. \A l \in p.leaves : l \in LeavesUnder[s] => l \in took[s]
        BY <1>11, <1>18
      <3>2. took[s] \in SUBSET p.leaves /\ took[s] \in SUBSET LeavesUnder[s]
        BY <1>1, <1>9
      <3>3. p.leaves \cap LeavesUnder[s] = took[s]
        BY <3>1, <3>2
      <3>. QED
        BY <1>6, <1>8, <3>3
    <2>2. Total(DOMAIN p.segments, p.segments) * per = Cardinality(p.leaves)
      BY <1>1, <1>7, <1>13, <1>15
    <2>. QED
      BY <1>1, <1>2, <1>7, <2>1, <2>2 DEF SegmentsRight, per
  <1>. QED
    BY <1>17, <1>23, <1>24 DEF p

LEMMA SegmentsOffer ==
  ASSUME NEW t, FleetInv(t), NEW d \in Domain, NEW ct \in Types, NEW n \in Sizes,
         NEW spec \in Specs, spec.perSegment > 0, NEW who,
         SearchSegments(t, d, ct, n, spec, who) # NoFit
  PROVE  LET p == SearchSegments(t, d, ct, n, spec, who) IN
         /\ Offer(t, who, ct, spec.chips, p)
         /\ d \in Above[p.anchor] /\ SegmentsRight(spec, p)
  <1> DEFINE per == spec.perSegment
             chips == spec.chips
             count == chips \div (per * n)
             packed == PackSegments(t, d, ct, n, spec, who, count)
             H == Hosts(t, d, ct, n, spec, who)
             room == RoomIn(t, d, ct, n, spec, who)
             p == SearchSegments(t, d, ct, n, spec, who)
  <1>1. per \in Nat /\ per > 0 /\ n \in Nat /\ n > 0 /\ chips \in Nat /\ chips > 0
    BY TreeShape, KindsFinite
  <1>2. p # NoFit
    OBVIOUS
  <1>3. /\ chips % (per * n) = 0
        /\ p = RealizeAll(t, packed, ct, n, spec, who, count)
    BY <1>2 DEF SearchSegments
  <1>4. /\ ~ (packed.got < count)
        /\ p = RealizeSegments(t, packed.given, ct, n, spec, who)
    BY <1>2, <1>3 DEF RealizeAll
  <1> HIDE DEF p, packed, H, room, per, chips
  <1>5. per * n \in Nat /\ per * n > 0
    BY <1>1
  <1>6. count \in Nat /\ chips = count * per * n /\ count > 0
    <2> DEFINE u == per * n
    <2>1. u \in Nat /\ u > 0
      BY <1>5
    <2>2. chips % u = 0 /\ count = chips \div u
      BY <1>3
    <2> HIDE DEF u
    <2>3. chips \div u \in Nat /\ chips = u * (chips \div u) + (chips % u)
      BY <1>1, <2>1, Division
    <2> HIDE DEF count
    <2>4. count \in Nat /\ chips = u * count
      BY <2>1, <2>2, <2>3
    <2>5. u * count = count * per * n
      BY <1>1, <2>4 DEF u
    <2>6. count # 0
      BY <1>1, <2>1, <2>4
    <2>. QED
      BY <2>4, <2>5, <2>6
  <1> HIDE DEF count
  <1>7. Packed(packed, H, room, per, count)
    BY <1>1, <1>6, PackedSegments DEF packed, H, room, per, count
  <1>8. /\ packed.got = count /\ packed.given \in [H -> Nat]
        /\ Total(H, packed.given) = count
        /\ \A s \in H : packed.given[s] <= room[s] \div per
    BY <1>4, <1>6, <1>7 DEF Packed
  <1>9. /\ H \in SUBSET Under(spec, d)
        /\ \A s \in H : room[s] = FreeFor(t, s, ct, n, who) /\ room[s] \in Nat
    BY HostsAre DEF H, room
  <1>10. ASSUME NEW s \in H
         PROVE  packed.given[s] * per <= FreeFor(t, s, ct, n, who)
    <2> DEFINE g == packed.given[s]
               r == room[s]
    <2>1. g \in Nat /\ r \in Nat /\ g <= r \div per
      BY <1>8, <1>9
    <2> HIDE DEF g, r
    <2>2. r \div per \in Nat /\ (r \div per) * per <= r
      BY <1>1, <2>1, Division
    <2>3. g * per <= (r \div per) * per
      BY <1>1, <2>1, <2>2
    <2>4. g * per \in Nat /\ (r \div per) * per \in Nat
      BY <1>1, <2>1, <2>2
    <2>5. g * per <= r
      BY <2>1, <2>2, <2>3, <2>4
    <2>. QED
      BY <1>9, <2>5 DEF g, r
  <1> DEFINE given == packed.given
  <1>11. given \in [H -> Nat] /\ Total(H, given) = count
         /\ \A s \in H : given[s] * spec.perSegment <= FreeFor(t, s, ct, n, who)
    BY <1>8, <1>10 DEF per
  <1>12. spec.chips = count * spec.perSegment * n /\ spec.perSegment > 0
    BY <1>1, <1>6 DEF chips, per
  <1> HIDE DEF given
  <1> DEFINE r == RealizeSegments(t, given, ct, n, spec, who)
  <1>13. /\ Offer(t, who, ct, spec.chips, r)
         /\ d \in Above[r.anchor] /\ SegmentsRight(spec, r)
    BY <1>6, <1>9, <1>11, <1>12, RealizeOffers
  <1>. QED
    BY <1>4, <1>13 DEF p, given

---------------------------------------------------------------------------
(* Every search is sound.                                                  *)

\* What one type of chips answers for a gang with segments.
SegmentsOfType(t, d, ct, spec, who) ==
  FirstFit(Ascending(Sizes), [n \in Sizes |-> SearchSegments(t, d, ct, n, spec, who)])

LEMMA SegmentedTypeAnswer ==
  ASSUME NEW t, NEW d, NEW ct, NEW spec, NEW who
  PROVE  /\ SegmentsOfType(t, d, ct, spec, who) # NoFit =>
              \E n \in Sizes :
                SegmentsOfType(t, d, ct, spec, who) = SearchSegments(t, d, ct, n, spec, who)
         /\ (\E n \in Sizes : SearchSegments(t, d, ct, n, spec, who) # NoFit) =>
              SegmentsOfType(t, d, ct, spec, who) # NoFit
  <1> DEFINE answer == [n \in Sizes |-> SearchSegments(t, d, ct, n, spec, who)]
             p == SegmentsOfType(t, d, ct, spec, who)
  <1>1. p = FirstFit(Ascending(Sizes), answer)
    BY DEF SegmentsOfType
  <1>2. \A n \in Sizes : answer[n] = SearchSegments(t, d, ct, n, spec, who)
    OBVIOUS
  <1> HIDE DEF answer, p
  <1>3. IsFiniteSet(Sizes) /\ Sizes \in SUBSET Int
    BY KindsFinite
  <1>4. Lists(Ascending(Sizes), Sizes)
    BY <1>3, AscendingLists
  <1>5. /\ p # NoFit => \E n \in Sizes : p = answer[n]
        /\ (\E n \in Sizes : answer[n] # NoFit) => p # NoFit
    BY <1>1, <1>3, <1>4, FirstFitOver
  <1>. QED
    BY <1>2, <1>5 DEF p

LEMMA SegmentedAnswer ==
  ASSUME NEW t, NEW d \in Domain, NEW spec, NEW who
  PROVE  /\ SearchSegmentedDomain(t, d, spec, who) # NoFit =>
              \E ct \in WantedTypes(spec, d) : \E n \in Sizes :
                SearchSegmentedDomain(t, d, spec, who) = SearchSegments(t, d, ct, n, spec, who)
         /\ (\E ct \in WantedTypes(spec, d) : \E n \in Sizes :
                SearchSegments(t, d, ct, n, spec, who) # NoFit) =>
              SearchSegmentedDomain(t, d, spec, who) # NoFit
  <1> DEFINE S == WantedTypes(spec, d)
             answer == [ct \in S |-> SegmentsOfType(t, d, ct, spec, who)]
             p == SearchSegmentedDomain(t, d, spec, who)
  <1>1. p = FirstFit(Ascending(S), answer)
    BY DEF SearchSegmentedDomain, SegmentsOfType
  <1>2. IsFiniteSet(S) /\ S \in SUBSET Int
    BY WantedFinite
  <1>3. \A ct \in S : answer[ct] = SegmentsOfType(t, d, ct, spec, who)
    OBVIOUS
  <1> HIDE DEF S, answer, p
  <1>4. Lists(Ascending(S), S)
    BY <1>2, AscendingLists
  <1>5. /\ p # NoFit => \E ct \in S : p = answer[ct]
        /\ (\E ct \in S : answer[ct] # NoFit) => p # NoFit
    BY <1>1, <1>2, <1>4, FirstFitOver
  <1>6. p # NoFit => \E ct \in S : \E n \in Sizes : p = SearchSegments(t, d, ct, n, spec, who)
    <2> SUFFICES ASSUME p # NoFit
                 PROVE  \E ct \in S : \E n \in Sizes : p = SearchSegments(t, d, ct, n, spec, who)
      OBVIOUS
    <2>1. PICK ct \in S : p = SegmentsOfType(t, d, ct, spec, who)
      BY <1>3, <1>5
    <2>2. \E n \in Sizes : p = SearchSegments(t, d, ct, n, spec, who)
      BY <2>1, SegmentedTypeAnswer
    <2>. QED
      BY <2>2
  <1>7. (\E ct \in S : \E n \in Sizes : SearchSegments(t, d, ct, n, spec, who) # NoFit)
          => p # NoFit
    <2> SUFFICES ASSUME NEW ct \in S, NEW n \in Sizes,
                        SearchSegments(t, d, ct, n, spec, who) # NoFit
                 PROVE  p # NoFit
      OBVIOUS
    <2>1. answer[ct] # NoFit
      BY <1>3, SegmentedTypeAnswer
    <2>. QED
      BY <1>5, <2>1
  <1>. QED
    BY <1>6, <1>7 DEF S, p

LEMMA SegmentedSound ==
  ASSUME NEW t, FleetInv(t), NEW spec \in Specs, NEW who, NEW d \in DomainsFor(spec),
         spec.perSegment > 0, SearchSegmentedDomain(t, d, spec, who) # NoFit
  PROVE  Sound(t, spec, who, SearchSegmentedDomain(t, d, spec, who))
  <1> DEFINE p == SearchSegmentedDomain(t, d, spec, who)
  <1>1. d \in Domain
    BY DEF DomainsFor
  <1>2. PICK ct \in WantedTypes(spec, d) : \E n \in Sizes :
          p = SearchSegments(t, d, ct, n, spec, who)
    BY <1>1, SegmentedAnswer
  <1>3. PICK n \in Sizes : p = SearchSegments(t, d, ct, n, spec, who)
    BY <1>2
  <1>4. ct \in Types /\ p # NoFit
    BY <1>1, WantedFinite
  <1>5. SearchSegments(t, d, ct, n, spec, who) # NoFit
    BY <1>3, <1>4
  <1> HIDE DEF p
  <1>6. Offer(t, who, ct, spec.chips, p) /\ d \in Above[p.anchor] /\ SegmentsRight(spec, p)
    BY <1>1, <1>3, <1>4, <1>5, SegmentsOffer
  <1>. QED
    BY <1>6, OfferSound DEF p

\* A search of a tree with the invariant answers with a sound placement.
LEMMA SearchIsSound ==
  ASSUME NEW t, FleetInv(t), NEW spec \in Specs, NEW who, NEW mode,
         Search(t, spec, who, mode) # NoFit
  PROVE  Sound(t, spec, who, Search(t, spec, who, mode))
  <1>1. PICK d \in DomainsFor(spec) : Search(t, spec, who, mode) = AnswerOf(t, d, spec, who, mode)
    BY SearchAnswer
  <1>2. spec.perSegment \in Nat
    BY TreeShape
  <1>3. CASE spec.perSegment > 0
    BY <1>1, <1>3, SegmentedSound DEF AnswerOf
  <1>4. CASE spec.perSegment = 0
    BY <1>1, <1>4, PlainSound DEF AnswerOf
  <1>. QED
    BY <1>2, <1>3, <1>4

\* Every placement that search (tree.py) returns, in any mode and for any
\* tenant, is one that apply accepts: exactly the chips of the spec, free and
\* eligible leaves of one wanted type under the anchor, and each segment of a
\* segmented gang within one domain.
THEOREM SearchesAreSound == Spec => []SearchSound
  <1>1. IInv => SearchSound
    BY SearchIsSound DEF IInv, SearchSound
  <1>. QED
    BY <1>1, FleetInvHolds, PTL

---------------------------------------------------------------------------
(* The dry run: a tree without the allocations of some jobs.               *)

LEMMA AddedShape ==
  ASSUME NEW t \in Shape, NEW gain, NEW loss, Amounts(Leaf, gain), Amounts(Leaf, loss)
  PROVE  AddFree(t, gain, loss) \in Shape /\ AddFreeNodes(t, gain, loss) \in Shape
  <1> DEFINE free == [d \in Domain |-> Adjusted(t.free[d], LeavesUnder[d], gain, loss)]
             kinds == [d \in Domain |-> [ct \in Types |->
                         Adjusted(t.freeByType[d][ct], OfType(d, ct), gain, loss)]]
             nodes == [d \in Domain |-> [ct \in Types |-> [n \in Sizes |->
                         Adjusted(t.freeNodes[d][ct][n], OfKey(d, ct, n), gain, loss)]]]
  <1>1. \A S \in SUBSET Leaf : Total(S, gain) \in Nat /\ Total(S, loss) \in Nat
    BY LeafSum
  <1>2. \A S \in SUBSET Leaf : \A c \in Int : Adjusted(c, S, gain, loss) \in Int
    BY <1>1 DEF Adjusted
  <1>3. /\ \A d \in Domain : LeavesUnder[d] \in SUBSET Leaf
        /\ \A d \in Domain, ct \in Types : OfType(d, ct) \in SUBSET Leaf
        /\ \A d \in Domain, ct \in Types, n \in Sizes : OfKey(d, ct, n) \in SUBSET Leaf
    BY LeafFacts
  <1>4. /\ \A d \in Domain : t.free[d] \in Int
        /\ \A d \in Domain, ct \in Types : t.freeByType[d][ct] \in Int
        /\ \A d \in Domain, ct \in Types, n \in Sizes : t.freeNodes[d][ct][n] \in Int
    BY DEF Shape
  <1>5. /\ free \in [Domain -> Int]
        /\ kinds \in [Domain -> [Types -> Int]]
        /\ nodes \in [Domain -> [Types -> [Sizes -> Int]]]
    BY <1>2, <1>3, <1>4
  <1>6. /\ AddFree(t, gain, loss) = [t EXCEPT !.free = free, !.freeByType = kinds]
        /\ AddFreeNodes(t, gain, loss) = [t EXCEPT !.freeNodes = nodes]
    BY Zenon DEF AddFree, AddFreeNodes, OfType, OfKey
  <1> HIDE DEF free, kinds, nodes
  <1>. QED
    BY <1>5, <1>6 DEF Shape

LEMMA OccupiedShape ==
  ASSUME NEW t \in Shape, NEW j \in Job, NEW a \in Seq(Gangs), NEW S \in SUBSET Leaf
  PROVE  Occupied(t, j, a, S) \in Shape
  <1> DEFINE owner == [l \in Leaf |-> IF l \in Asked(a)
                         THEN [t.owner[l] EXCEPT ![j] = Demand(a)[l]] ELSE t.owner[l]]
             alloc == [t.alloc EXCEPT ![j] = a]
             v == [t EXCEPT !.owner = owner, !.alloc = alloc]
             loss == Only(S, Demand(a))
             opened == {l \in S : Ownerless(t, l)}
             w == AddFreeNodes(v, Nothing, NodesOf(opened))
  <1>1. \A l \in Leaf : Demand(a)[l] \in Nat
    BY DemandFacts
  <1>2. owner \in [Leaf -> [Job -> Nat]] /\ alloc \in [Job -> Seq(Gangs)]
    BY <1>1 DEF Shape
  <1>3. v \in Shape
    <2> HIDE DEF owner, alloc
    <2>. QED
      BY <1>2 DEF Shape
  <1>4. /\ Amounts(Leaf, Nothing) /\ Amounts(Leaf, loss)
        /\ Amounts(Leaf, NodesOf(opened))
    BY <1>1 DEF Amounts, Nothing, Only, NodesOf
  <1>5. Occupied(t, j, a, S) = AddFree(w, Nothing, loss)
    BY Zenon DEF Occupied
  <1> HIDE DEF v, loss, opened
  <1>6. w \in Shape
    BY <1>3, <1>4, AddedShape
  <1> HIDE DEF w
  <1>. QED
    BY <1>4, <1>5, <1>6, AddedShape

\* u is t without the allocations of the jobs of J.
Lacks(u, t, J) ==
  /\ FleetInv(u) /\ u.health = t.health /\ u.held = t.held
  /\ \A l \in Leaf, k \in Job : u.owner[l][k] = IF k \in J THEN 0 ELSE t.owner[l][k]
  /\ \A k \in Job : u.alloc[k] = IF k \in J THEN << >> ELSE t.alloc[k]

LEMMA LacksNothing ==
  ASSUME NEW t, FleetInv(t), NEW u, Lacks(u, t, {})
  PROVE  u = t
  <1>1. u \in Shape /\ t \in Shape
    BY DEF Lacks, FleetInv
  <1>2. \A k \in Job : u.alloc[k] = t.alloc[k]
    BY DEF Lacks
  <1>3. u.alloc = t.alloc
    BY <1>1, <1>2 DEF Shape
  <1>4. \A l \in Leaf : u.owner[l] = t.owner[l]
    <2> SUFFICES ASSUME NEW l \in Leaf PROVE u.owner[l] = t.owner[l]
      OBVIOUS
    <2> DEFINE v == u.owner[l]
               w == t.owner[l]
    <2>1. v \in [Job -> Nat] /\ w \in [Job -> Nat]
      BY <1>1 DEF Shape
    <2>2. \A k \in Job : v[k] = w[k]
      BY DEF Lacks
    <2> HIDE DEF v, w
    <2>3. v = w
      BY <2>1, <2>2
    <2>. QED
      BY <2>3 DEF v, w
  <1>5. u.owner = t.owner
    <2> DEFINE v == u.owner
               w == t.owner
               Row == [Job -> Nat]
    <2>1. v \in [Leaf -> Row] /\ w \in [Leaf -> Row] /\ \A l \in Leaf : v[l] = w[l]
      BY <1>1, <1>4 DEF Shape
    <2> HIDE DEF v, w, Row
    <2>2. v = w
      BY <2>1
    <2>. QED
      BY <2>2 DEF v, w
  <1>6. u.health = t.health /\ u.held = t.held /\ FleetInv(u)
    BY DEF Lacks
  <1>. QED
    BY <1>3, <1>5, <1>6, LeavesDetermine DEF SameLeaves

LEMMA ReleaseLacks ==
  ASSUME NEW t, FleetInv(t), NEW J, NEW u, Lacks(u, t, J), NEW j \in Job
  PROVE  Lacks(Released(u, j), t, J \cup {j})
  <1> DEFINE r == Released(u, j)
  <1>1. /\ FleetInv(r) /\ r.health = u.health /\ r.held = u.held
        /\ \A l \in Leaf : r.owner[l] = [u.owner[l] EXCEPT ![j] = 0]
        /\ r.alloc = [u.alloc EXCEPT ![j] = << >>]
    BY ReleasedKeeps DEF Lacks
  <1> HIDE DEF r
  <1>2. u \in Shape
    BY DEF Lacks, FleetInv
  <1>3. \A l \in Leaf : u.owner[l] \in [Job -> Nat]
    BY <1>2 DEF Shape
  <1>4. ASSUME NEW l \in Leaf, NEW k \in Job
        PROVE  r.owner[l][k] = IF k \in J \cup {j} THEN 0 ELSE t.owner[l][k]
    <2>1. r.owner[l][k] = IF k = j THEN 0 ELSE u.owner[l][k]
      BY <1>1, <1>3
    <2>2. u.owner[l][k] = IF k \in J THEN 0 ELSE t.owner[l][k]
      BY DEF Lacks
    <2>. QED
      BY <2>1, <2>2
  <1>5. ASSUME NEW k \in Job
        PROVE  r.alloc[k] = IF k \in J \cup {j} THEN << >> ELSE t.alloc[k]
    <2>1. r.alloc[k] = IF k = j THEN << >> ELSE u.alloc[k]
      BY <1>1, <1>2 DEF Shape
    <2>2. u.alloc[k] = IF k \in J THEN << >> ELSE t.alloc[k]
      BY DEF Lacks
    <2>. QED
      BY <2>1, <2>2
  <1>6. r.health = t.health /\ r.held = t.held
    BY <1>1 DEF Lacks
  <1>. QED
    BY <1>1, <1>4, <1>5, <1>6 DEF Lacks, r

LEMMA ReapplyLacks ==
  ASSUME NEW t, FleetInv(t), NEW J, NEW u, Lacks(u, t, J), NEW j \in Job, j \in J
  PROVE  Lacks(Reapplied(u, j, t.alloc[j]), t, J \ {j})
  <1> DEFINE a == t.alloc[j]
             r == Reapplied(u, j, a)
  <1>1. /\ t \in Shape /\ u \in Shape /\ FleetInv(u)
        /\ OwnersMatch(t) /\ u.health = t.health /\ u.held = t.held
    BY DEF Lacks, FleetInv
  <1>2. a \in Seq(Gangs)
    BY <1>1 DEF Shape
  <1>3. \A l \in Leaf : /\ u.owner[l] \in [Job -> Nat] /\ t.owner[l] \in [Job -> Nat]
                        /\ t.owner[l][j] = Demand(a)[l]
    BY <1>1 DEF Shape, OwnersMatch
  <1>4. \A l \in Leaf, k \in Job : u.owner[l][k] = IF k \in J THEN 0 ELSE t.owner[l][k]
    BY DEF Lacks
  <1>5. u.alloc[j] = << >>
    BY DEF Lacks
  <1>6. ASSUME NEW l \in Asked(a)
        PROVE  /\ Used(u, l) + Demand(a)[l] <= LeafChips[l]
               /\ u.health[l] # "MAINTENANCE"
               /\ WantsWhole(a, l) => Ownerless(u, l)
    <2>1. l \in Leaf /\ Demand(a)[l] > 0
      BY DEF Asked
    <2> DEFINE v == u.owner[l]
               w == t.owner[l]
               x == [v EXCEPT ![j] = w[j]]
    <2>2. /\ v \in [Job -> Nat] /\ w \in [Job -> Nat] /\ w[j] = Demand(a)[l]
          /\ \A k \in Job : v[k] = IF k \in J THEN 0 ELSE w[k]
      BY <1>3, <1>4, <2>1
    <2>3. w[j] > 0
      BY <2>1, <2>2
    <2>4. Used(u, l) = Total(Job, v) /\ Used(t, l) = Total(Job, w)
      BY DEF Used
    <2>5. Total(Job, w) <= LeafChips[l] /\ t.health[l] # "MAINTENANCE"
      <3>1. ~ Ownerless(t, l)
        BY <2>3 DEF Ownerless
      <3>. QED
        BY <1>1, <2>1, <2>4, <3>1 DEF OwnersMatch
    <2>6. \A k \in Job : WantsWhole(a, l) /\ w[k] > 0 => j = k
      BY <1>1, <2>1 DEF OwnersMatch
    <2> HIDE DEF v, w
    <2>7. Total(Job, x) + v[j] = Total(Job, v) + w[j]
      BY <2>2, RowChanged
    <2>8. v[j] = 0 /\ w[j] \in Nat /\ \A k \in Job : v[k] \in Nat /\ w[k] \in Nat
      BY <2>2
    <2>9. \A k \in Job : x[k] \in Nat /\ x[k] <= w[k]
      BY <2>2, <2>8
    <2>10. Total(Job, x) <= Total(Job, w)
      <3>1. IsFiniteSet(Job) /\ Amounts(Job, w) /\ Amounts(Job, x)
        BY <2>8, <2>9, TreeAssumption DEF Amounts, TreeAssumption
      <3> HIDE DEF x
      <3>. QED
        BY <2>9, <3>1, SumLess
    <2>11. Total(Job, x) \in Nat /\ Total(Job, v) \in Nat /\ Total(Job, w) \in Nat
           /\ LeafChips[l] \in Nat
      <3>1. IsFiniteSet(Job) /\ Amounts(Job, w) /\ Amounts(Job, x) /\ Amounts(Job, v)
        BY <2>8, <2>9, TreeAssumption DEF Amounts, TreeAssumption
      <3> HIDE DEF x
      <3>. QED
        BY <2>1, <3>1, SumType, LeafFacts
    <2> HIDE DEF x
    <2>12. Used(u, l) + Demand(a)[l] <= LeafChips[l]
      BY <2>2, <2>4, <2>5, <2>7, <2>8, <2>10, <2>11
    <2>13. ASSUME WantsWhole(a, l), NEW k \in Job PROVE u.owner[l][k] = 0
      <3>1. v[k] = 0
        <4>1. CASE k = j
          BY <2>8, <4>1
        <4>2. CASE k # j
          BY <2>2, <2>6, <2>8, <2>13, <4>2
        <4>. QED
          BY <4>1, <4>2
      <3>. QED
        BY <3>1 DEF v
    <2>. QED
      BY <1>1, <2>5, <2>12, <2>13 DEF Ownerless
  <1>7. Recordable(u, j, a)
    BY <1>5, <1>6 DEF Recordable
  <1>8. FleetInv(r) /\ Recorded(r, u, j, a)
    <2>1. r = Occupied(u, j, a, InUse(u, a))
      BY DEF Reapplied, InUse
    <2> HIDE DEF r, a
    <2>. QED
      BY <1>1, <1>2, <1>7, <2>1, OccupiedKeeps
  <1> HIDE DEF r
  <1>9. ASSUME NEW l \in Leaf, NEW k \in Job
        PROVE  r.owner[l][k] = IF k \in J \ {j} THEN 0 ELSE t.owner[l][k]
    <2>1. r.owner[l] = [u.owner[l] EXCEPT ![j] = Demand(a)[l]]
      BY <1>8 DEF Recorded
    <2>2. r.owner[l][k] = IF k = j THEN t.owner[l][j] ELSE u.owner[l][k]
      BY <1>3, <2>1
    <2>. QED
      BY <1>4, <2>2
  <1>10. ASSUME NEW k \in Job
         PROVE  r.alloc[k] = IF k \in J \ {j} THEN << >> ELSE t.alloc[k]
    <2>1. r.alloc[k] = IF k = j THEN a ELSE u.alloc[k]
      BY <1>1, <1>8 DEF Recorded, Shape
    <2>2. u.alloc[k] = IF k \in J THEN << >> ELSE t.alloc[k]
      BY DEF Lacks
    <2>. QED
      BY <2>1, <2>2
  <1>11. r.health = t.health /\ r.held = t.held
    BY <1>1, <1>8 DEF Recorded
  <1>. QED
    BY <1>8, <1>9, <1>10, <1>11 DEF Lacks, r

---------------------------------------------------------------------------
(* What a release of victims saves.                                        *)

Kept == [job : Job, alloc : Seq(Gangs)]
Plans == [tree : {u \in Shape : FleetInv(u)}, saved : Seq(Kept)]

\* One victim is released, or skipped.
Freed(acc, j) ==
  IF acc.tree.alloc[j] = << >> THEN acc
  ELSE [tree |-> Released(acc.tree, j),
        saved |-> Append(acc.saved, [job |-> j, alloc |-> acc.tree.alloc[j]])]

FreedCourse(f, t, victims, n) ==
  /\ f[0] = [tree |-> t, saved |-> << >>]
  /\ \A i \in 1 .. n : f[i] = Freed(f[i - 1], victims[i])

ReleaseFold(t, victims) ==
  FoldLeft(LAMBDA acc, j : Freed(acc, j), [tree |-> t, saved |-> << >>], victims)

LEMMA FreedIsPlan ==
  ASSUME NEW acc \in Plans, NEW j \in Job
  PROVE  Freed(acc, j) \in Plans
  <1>1. FleetInv(acc.tree) /\ acc.saved \in Seq(Kept) /\ acc.tree.alloc[j] \in Seq(Gangs)
    BY DEF Plans, Shape
  <1>2. FleetInv(Released(acc.tree, j))
    BY <1>1, ReleasedKeeps
  <1>3. Released(acc.tree, j) \in Shape
    BY <1>2 DEF FleetInv
  <1>4. Append(acc.saved, [job |-> j, alloc |-> acc.tree.alloc[j]]) \in Seq(Kept)
    BY <1>1 DEF Kept
  <1>. QED
    BY <1>2, <1>3, <1>4 DEF Freed, Plans

LEMMA FreedCourseExists ==
  ASSUME NEW t, FleetInv(t), NEW m \in Nat, NEW victims \in [1 .. m -> Job], NEW p,
         p = ReleaseFold(t, victims)
  PROVE  \E f \in [0 .. m -> Plans] : FreedCourse(f, t, victims, m) /\ f[m] = p
  <1> DEFINE A == Plans
             base == [tree |-> t, saved |-> << >>]
             Rec(k) == [s \in SUBSET (DOMAIN victims) |->
                          IF s = {} THEN base ELSE Freed(k[s \ {Max(s)}], victims[Max(s)])]
             table == CHOOSE k : k = Rec(k)
             G == [q \in A \X (1 .. m) |-> Freed(q[1], victims[q[2]])]
  <1>1. DOMAIN victims = 1 .. m
    OBVIOUS
  <1>2. p = table[1 .. m]
    BY <1>1 DEF ReleaseFold, FoldLeft, MapThenFoldSet
  <1>3. base \in A
    BY DEF Plans, FleetInv
  <1>4. \A c \in A : \A i \in 1 .. m : Freed(c, victims[i]) \in A
    BY FreedIsPlan
  <1> HIDE DEF base, A
  <1>5. G \in [A \X (1 .. m) -> A]
    BY <1>4
  <1>6. \A c \in A : \A i \in 1 .. m : G[<<c, i>>] = Freed(c, victims[i])
    OBVIOUS
  <1> HIDE DEF G
  <1>7. PICK h \in [SUBSET (1 .. m) -> A] : Table(m, base, G, h)
    BY <1>3, <1>5, TableExists
  <1>8. h = Rec(h)
    <2>1. ASSUME NEW s \in SUBSET (1 .. m)
          PROVE  h[s] = IF s = {} THEN base ELSE Freed(h[s \ {Max(s)}], victims[Max(s)])
      <3>1. h[s] = IF s = {} THEN base ELSE G[<<h[s \ {Max(s)}], Max(s)>>]
        BY <1>7 DEF Table
      <3>2. CASE s # {}
        <4>1. Max(s) \in 1 .. m
          BY <3>2, MaxIsGreatest
        <4>2. s \ {Max(s)} \in SUBSET (1 .. m)
          OBVIOUS
        <4>3. h[s \ {Max(s)}] \in A
          BY <4>2
        <4>. QED
          BY <1>6, <3>1, <3>2, <4>1, <4>3
      <3>. QED
        BY <3>1, <3>2
    <2>. QED
      BY <1>1, <2>1
  <1>9. table = Rec(table)
    <2> HIDE DEF Rec
    <2>. QED
      BY <1>8
  <1> HIDE DEF table
  <1>10. Follows(table, m, A, base, G)
    <2>1. \A s \in SUBSET (1 .. m) :
            table[s] = IF s = {} THEN base ELSE Freed(table[s \ {Max(s)}], victims[Max(s)])
      BY <1>1, <1>9
    <2>2. \A s \in SUBSET (1 .. m) : s # {} => Max(s) \in 1 .. m
      BY MaxIsGreatest
    <2>. QED
      BY <1>3, <1>5, <1>6, <2>1, <2>2 DEF Follows
  <1>11. PICK f \in [0 .. m -> A] : Rows(f, m, base, G) /\ f[m] = table[1 .. m]
    <2>1. HasRows(table, m, A, base, G)
      BY <1>10, TableRuns
    <2>. QED
      BY <2>1 DEF HasRows
  <1>12. \A i \in 1 .. m : f[i] = Freed(f[i - 1], victims[i])
    <2> SUFFICES ASSUME NEW i \in 1 .. m
                 PROVE  f[i] = Freed(f[i - 1], victims[i])
      OBVIOUS
    <2>1. i - 1 \in 0 .. m
      OBVIOUS
    <2>2. f[i - 1] \in A
      BY <1>11, <2>1
    <2>. QED
      BY <1>6, <1>11, <2>2 DEF Rows
  <1>. QED
    BY <1>2, <1>11, <1>12 DEF FreedCourse, base, Rows, A

\* The allocations saved so far are those that t had, and what the tree lacks.
JobsOf(saved) == {saved[k].job : k \in DOMAIN saved}

Saves(acc, t) ==
  /\ acc.saved \in Seq(Kept)
  /\ Lacks(acc.tree, t, JobsOf(acc.saved))
  /\ \A k \in 1 .. Len(acc.saved) : acc.saved[k].alloc = t.alloc[acc.saved[k].job]
  /\ \A i, k \in 1 .. Len(acc.saved) : i < k => acc.saved[i].job # acc.saved[k].job

LEMMA FreedSaves ==
  ASSUME NEW t, FleetInv(t), NEW acc, Saves(acc, t), NEW j \in Job
  PROVE  Saves(Freed(acc, j), t)
  <1> DEFINE s == acc.saved
             u == acc.tree
             e == [job |-> j, alloc |-> u.alloc[j]]
             r == Append(s, e)
  <1>1. CASE u.alloc[j] = << >>
    BY <1>1 DEF Freed
  <1>2. CASE u.alloc[j] # << >>
    <2>1. /\ s \in Seq(Kept) /\ Lacks(u, t, JobsOf(s))
          /\ \A k \in 1 .. Len(s) : s[k].alloc = t.alloc[s[k].job]
          /\ \A i, k \in 1 .. Len(s) : i < k => s[i].job # s[k].job
      BY DEF Saves
    <2>2. j \notin JobsOf(s) /\ u.alloc[j] = t.alloc[j]
      BY <1>2, <2>1 DEF Lacks
    <2>3. e.job = j /\ e.alloc = t.alloc[j]
      BY <2>2
    <2>4. e \in Kept
      <3>1. u \in Shape
        BY <2>1 DEF Lacks, FleetInv
      <3>2. u.alloc[j] \in Seq(Gangs)
        BY <3>1 DEF Shape
      <3>. QED
        BY <3>2 DEF Kept
    <2>5. Freed(acc, j) = [tree |-> Released(u, j), saved |-> r]
      BY <1>2 DEF Freed
    <2> HIDE DEF s, u, e
    <2>6. /\ r \in Seq(Kept) /\ Len(r) = Len(s) + 1 /\ Len(s) \in Nat
          /\ r[Len(s) + 1] = e
          /\ \A k \in 1 .. Len(s) : r[k] = s[k]
      BY <2>1, <2>4
    <2>7. DOMAIN s = 1 .. Len(s) /\ DOMAIN r = 1 .. Len(s) + 1
      BY <2>1, <2>6
    <2> HIDE DEF r
    <2>8. JobsOf(r) = JobsOf(s) \cup {j}
      <3>1. ASSUME NEW x \in JobsOf(r) PROVE x \in JobsOf(s) \cup {j}
        <4>1. PICK k \in DOMAIN r : x = r[k].job
          BY DEF JobsOf
        <4>2. k \in 1 .. Len(s) \/ k = Len(s) + 1
          BY <2>6, <2>7
        <4>. QED
          BY <2>3, <2>6, <2>7, <4>1, <4>2 DEF JobsOf
      <3>2. ASSUME NEW x \in JobsOf(s) PROVE x \in JobsOf(r)
        <4>1. PICK k \in DOMAIN s : x = s[k].job
          BY DEF JobsOf
        <4>2. k \in DOMAIN r /\ r[k] = s[k]
          BY <2>6, <2>7
        <4>. QED
          BY <4>1, <4>2 DEF JobsOf
      <3>3. j \in JobsOf(r)
        <4>1. Len(s) + 1 \in DOMAIN r
          BY <2>6, <2>7
        <4>. QED
          BY <2>3, <2>6, <4>1 DEF JobsOf
      <3>. QED
        BY <3>1, <3>2, <3>3
    <2>9. Lacks(Released(u, j), t, JobsOf(r))
      BY <2>1, <2>8, ReleaseLacks
    <2>10. \A k \in 1 .. Len(r) : r[k].alloc = t.alloc[r[k].job]
      BY <2>1, <2>3, <2>6
    <2>11. ASSUME NEW i \in 1 .. Len(r), NEW k \in 1 .. Len(r), i < k
           PROVE  r[i].job # r[k].job
      <3>1. i \in 1 .. Len(s) /\ r[i] = s[i]
        BY <2>6, <2>11
      <3>2. CASE k \in 1 .. Len(s)
        BY <2>1, <2>6, <2>11, <3>1, <3>2
      <3>3. CASE k = Len(s) + 1
        <4>1. r[i].job \in JobsOf(s)
          BY <2>7, <3>1 DEF JobsOf
        <4>2. r[k].job = j
          BY <2>3, <2>6, <3>3
        <4>. QED
          BY <2>2, <4>1, <4>2
      <3>. QED
        BY <2>6, <3>2, <3>3
    <2>. QED
      BY <2>5, <2>6, <2>9, <2>10, <2>11 DEF Saves
  <1>. QED
    BY <1>1, <1>2

LEMMA ReleaseSaves ==
  ASSUME NEW t, FleetInv(t), NEW n \in Nat, NEW victims \in [1 .. n -> Job]
  PROVE  Saves(AfterRelease(t, victims), t)
  <1> DEFINE p == AfterRelease(t, victims)
  <1>1. p = ReleaseFold(t, victims)
    BY DEF AfterRelease, ReleaseFold, Freed
  <1> HIDE DEF p
  <1>2. PICK f \in [0 .. n -> Plans] : FreedCourse(f, t, victims, n) /\ f[n] = p
    BY <1>1, FreedCourseExists
  <1> DEFINE P == {i \in 0 .. n : Saves(f[i], t)}
  <1>3. 0 \in P
    <2> DEFINE b == [tree |-> t, saved |-> << >>]
    <2>1. f[0] = b
      BY <1>2 DEF FreedCourse
    <2>2. b.tree = t /\ b.saved = << >>
      OBVIOUS
    <2>3. JobsOf(<< >>) = {} /\ Len(<< >>) = 0 /\ << >> \in Seq(Kept)
      BY DEF JobsOf
    <2>4. Lacks(t, t, {})
      BY DEF Lacks
    <2> HIDE DEF b
    <2>5. /\ b.saved \in Seq(Kept) /\ JobsOf(b.saved) = {}
          /\ \A k \in 1 .. Len(b.saved) : FALSE
      BY <2>2, <2>3
    <2>6. Lacks(b.tree, t, JobsOf(b.saved))
      BY <2>2, <2>4, <2>5
    <2>7. Saves(b, t)
      BY <2>5, <2>6 DEF Saves
    <2>. QED
      BY <2>1, <2>7
  <1>4. ASSUME NEW i \in 0 .. n - 1, i \in P PROVE i + 1 \in P
    <2>1. i + 1 \in 1 .. n /\ i + 1 - 1 = i
      OBVIOUS
    <2>2. f[i + 1] = Freed(f[i], victims[i + 1]) /\ victims[i + 1] \in Job
      BY <1>2, <2>1 DEF FreedCourse
    <2>3. Saves(f[i], t)
      BY <1>4
    <2>. QED
      BY <2>1, <2>2, <2>3, FreedSaves
  <1> HIDE DEF P
  <1>5. \A i \in 0 .. n : i \in P
    BY <1>3, <1>4, UpwardInduction
  <1>6. Saves(f[n], t)
    BY <1>5 DEF P
  <1>. QED
    BY <1>2, <1>6 DEF p

---------------------------------------------------------------------------
(* Putting back what was saved.                                            *)

PutBack(u, s) == Reapplied(u, s.job, s.alloc)

BackCourse(f, u, saved, m) ==
  f[0] = u /\ \A i \in 1 .. m : f[i] = PutBack(f[i - 1], saved[i])

RestoreFold(u, saved) == FoldLeft(LAMBDA v, s : PutBack(v, s), u, saved)

LEMMA PutBackShape ==
  ASSUME NEW u \in Shape, NEW s \in Kept
  PROVE  PutBack(u, s) \in Shape
  <1> DEFINE j == s.job
             a == s.alloc
             S == {l \in Asked(a) : IsHealthy(u, l)}
  <1>1. j \in Job /\ a \in Seq(Gangs)
    BY DEF Kept
  <1>2. S \in SUBSET Leaf
    BY DEF Asked
  <1>3. PutBack(u, s) = Occupied(u, j, a, S)
    BY DEF PutBack, Reapplied
  <1> HIDE DEF j, a, S
  <1>. QED
    BY <1>1, <1>2, <1>3, OccupiedShape

LEMMA BackCourseExists ==
  ASSUME NEW u \in Shape, NEW m \in Nat, NEW saved \in [1 .. m -> Kept], NEW p,
         p = RestoreFold(u, saved)
  PROVE  \E f \in [0 .. m -> Shape] : BackCourse(f, u, saved, m) /\ f[m] = p
  <1> DEFINE A == Shape
             Rec(k) == [s \in SUBSET (DOMAIN saved) |->
                          IF s = {} THEN u ELSE PutBack(k[s \ {Max(s)}], saved[Max(s)])]
             table == CHOOSE k : k = Rec(k)
             G == [q \in A \X (1 .. m) |-> PutBack(q[1], saved[q[2]])]
  <1>1. DOMAIN saved = 1 .. m
    OBVIOUS
  <1>2. p = table[1 .. m]
    BY <1>1 DEF RestoreFold, FoldLeft, MapThenFoldSet
  <1>3. u \in A
    OBVIOUS
  <1>4. \A c \in A : \A i \in 1 .. m : PutBack(c, saved[i]) \in A
    BY PutBackShape
  <1> HIDE DEF A
  <1>5. G \in [A \X (1 .. m) -> A]
    BY <1>4
  <1>6. \A c \in A : \A i \in 1 .. m : G[<<c, i>>] = PutBack(c, saved[i])
    OBVIOUS
  <1> HIDE DEF G
  <1>7. PICK h \in [SUBSET (1 .. m) -> A] : Table(m, u, G, h)
    BY <1>3, <1>5, TableExists
  <1>8. h = Rec(h)
    <2>1. ASSUME NEW s \in SUBSET (1 .. m)
          PROVE  h[s] = IF s = {} THEN u ELSE PutBack(h[s \ {Max(s)}], saved[Max(s)])
      <3>1. h[s] = IF s = {} THEN u ELSE G[<<h[s \ {Max(s)}], Max(s)>>]
        BY <1>7 DEF Table
      <3>2. CASE s # {}
        <4>1. Max(s) \in 1 .. m
          BY <3>2, MaxIsGreatest
        <4>2. s \ {Max(s)} \in SUBSET (1 .. m)
          OBVIOUS
        <4>3. h[s \ {Max(s)}] \in A
          BY <4>2
        <4>. QED
          BY <1>6, <3>1, <3>2, <4>1, <4>3
      <3>. QED
        BY <3>1, <3>2
    <2>. QED
      BY <1>1, <2>1
  <1>9. table = Rec(table)
    <2> HIDE DEF Rec
    <2>. QED
      BY <1>8
  <1> HIDE DEF table
  <1>10. Follows(table, m, A, u, G)
    <2>1. \A s \in SUBSET (1 .. m) :
            table[s] = IF s = {} THEN u ELSE PutBack(table[s \ {Max(s)}], saved[Max(s)])
      BY <1>1, <1>9
    <2>2. \A s \in SUBSET (1 .. m) : s # {} => Max(s) \in 1 .. m
      BY MaxIsGreatest
    <2>. QED
      BY <1>3, <1>5, <1>6, <2>1, <2>2 DEF Follows
  <1>11. PICK f \in [0 .. m -> A] : Rows(f, m, u, G) /\ f[m] = table[1 .. m]
    <2>1. HasRows(table, m, A, u, G)
      BY <1>10, TableRuns
    <2>. QED
      BY <2>1 DEF HasRows
  <1>12. \A i \in 1 .. m : f[i] = PutBack(f[i - 1], saved[i])
    <2> SUFFICES ASSUME NEW i \in 1 .. m
                 PROVE  f[i] = PutBack(f[i - 1], saved[i])
      OBVIOUS
    <2>1. i - 1 \in 0 .. m
      OBVIOUS
    <2>2. f[i - 1] \in A
      BY <1>11, <2>1
    <2>. QED
      BY <1>6, <1>11, <2>2 DEF Rows
  <1>. QED
    BY <1>2, <1>11, <1>12 DEF BackCourse, Rows, A

\* The jobs still to be put back after the first i.
Rest(saved, i) == {saved[k].job : k \in i + 1 .. Len(saved)}

\* Putting back what a release of victims saved gives the tree it began with.
LEMMA RestoreUndoes ==
  ASSUME NEW t, FleetInv(t), NEW acc, Saves(acc, t)
  PROVE  Restored(acc.tree, acc.saved) = t
  <1> DEFINE saved == acc.saved
             u == acc.tree
             m == Len(saved)
             p == Restored(u, saved)
  <1>1. /\ saved \in Seq(Kept) /\ Lacks(u, t, JobsOf(saved))
        /\ \A k \in 1 .. m : saved[k].alloc = t.alloc[saved[k].job]
        /\ \A i, k \in 1 .. m : i < k => saved[i].job # saved[k].job
    BY DEF Saves
  <1>2. p = RestoreFold(u, saved)
    BY DEF Restored, RestoreFold, PutBack
  <1> HIDE DEF saved, u, p
  <1>3. m \in Nat /\ saved \in [1 .. m -> Kept] /\ DOMAIN saved = 1 .. m
    BY <1>1
  <1>4. u \in Shape
    BY <1>1 DEF Lacks, FleetInv
  <1> HIDE DEF m
  <1>5. PICK f \in [0 .. m -> Shape] : BackCourse(f, u, saved, m) /\ f[m] = p
    BY <1>2, <1>3, <1>4, BackCourseExists
  <1> DEFINE P == {i \in 0 .. m : Lacks(f[i], t, Rest(saved, i))}
  <1>6. 0 \in P
    <2>1. Rest(saved, 0) = JobsOf(saved)
      BY <1>3 DEF Rest, JobsOf, m
    <2>. QED
      BY <1>1, <1>3, <1>5, <2>1 DEF BackCourse
  <1>7. ASSUME NEW i \in 0 .. m - 1, i \in P PROVE i + 1 \in P
    <2>1. i + 1 \in 1 .. m /\ i + 1 - 1 = i /\ i \in Nat
      BY <1>3
    <2> DEFINE s == saved[i + 1]
               j == s.job
    <2>2. f[i + 1] = PutBack(f[i], s)
      BY <1>5, <2>1 DEF BackCourse
    <2>3. s \in Kept
      BY <1>3, <2>1
    <2>4. j \in Job /\ s.alloc = t.alloc[j]
      BY <1>1, <2>1, <2>3 DEF Kept
    <2>5. f[i + 1] = Reapplied(f[i], j, t.alloc[j])
      BY <2>2, <2>4 DEF PutBack
    <2>6. Lacks(f[i], t, Rest(saved, i))
      BY <1>7
    <2>7. j \in Rest(saved, i)
      BY <2>1 DEF Rest, m
    <2>8. Rest(saved, i) \ {j} = Rest(saved, i + 1)
      <3>1. ASSUME NEW x \in Rest(saved, i), x # j PROVE x \in Rest(saved, i + 1)
        <4>1. PICK k \in i + 1 .. m : x = saved[k].job
          BY DEF Rest, m
        <4>2. k \in i + 2 .. m
          BY <2>1, <3>1, <4>1
        <4>3. i + 1 + 1 = i + 2
          BY <2>1
        <4>. QED
          BY <4>1, <4>2, <4>3 DEF Rest, m
      <3>2. ASSUME NEW x \in Rest(saved, i + 1) PROVE x \in Rest(saved, i) /\ x # j
        <4>1. PICK k \in i + 1 + 1 .. m : x = saved[k].job
          BY DEF Rest, m
        <4>2. k \in i + 1 .. m /\ k \in 1 .. m /\ i + 1 < k
          BY <1>3, <2>1
        <4>3. x # j
          BY <1>1, <2>1, <4>1, <4>2
        <4>. QED
          BY <4>1, <4>2, <4>3 DEF Rest, m
      <3>. QED
        BY <3>1, <3>2
    <2> HIDE DEF s, j
    <2>9. Lacks(f[i + 1], t, Rest(saved, i + 1))
      <3> DEFINE J == Rest(saved, i)
                 v == f[i]
      <3>1. Lacks(v, t, J) /\ j \in J /\ j \in Job
        BY <2>4, <2>6, <2>7
      <3> HIDE DEF J, v
      <3>2. Lacks(Reapplied(v, j, t.alloc[j]), t, J \ {j})
        BY <3>1, ReapplyLacks
      <3>. QED
        BY <2>5, <2>8, <3>2 DEF J, v
    <2>. QED
      BY <2>1, <2>9
  <1> HIDE DEF P
  <1>8. \A i \in 0 .. m : i \in P
    BY <1>3, <1>6, <1>7, UpwardInduction
  <1>9. Lacks(f[m], t, Rest(saved, m))
    BY <1>3, <1>8 DEF P
  <1>10. Rest(saved, m) = {}
    BY <1>3 DEF Rest, m
  <1>11. p = t
    BY <1>5, <1>9, <1>10, LacksNothing
  <1>. QED
    BY <1>11 DEF p, u, saved

\* The dry run of search_after_release, whose finally clause re-applies what
\* it released, leaves the tree as it was, and finds what apply accepts once
\* the victims are gone.
THEOREM DryRunsLeaveNoTrace == Spec => []DryRunLeavesNoTrace
  <1>1. ASSUME FleetInv(tree), NEW victims \in Victims
        PROVE  LET freed == AfterRelease(tree, victims).tree
               IN  /\ TreeAfter(tree, victims) = tree
                   /\ \A spec \in Specs, who \in Tenant :
                        LET p == SearchAfterRelease(tree, spec, victims, who, "best_fit")
                        IN  p # NoFit => Sound(freed, spec, who, p)
    <2> DEFINE acc == AfterRelease(tree, victims)
    <2>1. PICK S \in SUBSET Job : victims \in SetToSeqs(S)
      BY <1>1 DEF Victims
    <2>2. IsFiniteSet(S) /\ Cardinality(S) \in Nat
      BY TreeAssumption, FS_Subset, FS_CardinalityType DEF TreeAssumption
    <2>3. victims \in [1 .. Cardinality(S) -> Job]
      BY <2>1 DEF SetToSeqs
    <2>4. Saves(acc, tree)
      BY <1>1, <2>2, <2>3, ReleaseSaves
    <2> HIDE DEF acc
    <2>5. Restored(acc.tree, acc.saved) = tree
      BY <1>1, <2>4, RestoreUndoes
    <2>6. FleetInv(acc.tree)
      BY <2>4 DEF Saves, Lacks
    <2>7. \A spec \in Specs, who \in Tenant :
            Search(acc.tree, spec, who, "best_fit") # NoFit =>
              Sound(acc.tree, spec, who, Search(acc.tree, spec, who, "best_fit"))
      BY <2>6, SearchIsSound
    <2>. QED
      BY <2>5, <2>7 DEF acc, TreeAfter, SearchAfterRelease
  <1>2. IInv => DryRunLeavesNoTrace
    BY <1>1 DEF IInv, DryRunLeavesNoTrace
  <1>. QED
    BY <1>2, FleetInvHolds, PTL

---------------------------------------------------------------------------
(* Completeness: sizes on a divisor chain.                                 *)

LEMMA Multiple ==
  ASSUME NEW a \in Nat, NEW b \in Nat \ {0}, a % b = 0
  PROVE  \E q \in Nat : a = b * q
  <1>1. a \div b \in Nat /\ a = b * (a \div b) + (a % b)
    BY Division
  <1> DEFINE q == a \div b
  <1>2. q \in Nat /\ a = b * q + 0
    BY <1>1
  <1> HIDE DEF q
  <1>3. b * q \in Nat
    BY <1>2
  <1>4. a = b * q
    BY <1>2, <1>3
  <1>. QED
    BY <1>2, <1>4

\* A lesser multiple is less by m at least.
LEMMA NextMultiple ==
  ASSUME NEW m \in Nat, NEW a \in Nat, NEW b \in Nat, m * a < m * b
  PROVE  m * a + m <= m * b
  <1>1. a < b
    <2>1. SUFFICES ASSUME b <= a PROVE FALSE
      OBVIOUS
    <2>2. PICK k \in Nat : a = b + k
      <3>1. a - b \in Nat /\ a = b + (a - b)
        BY <2>1
      <3>. QED
        BY <3>1
    <2>3. m * a = m * b + m * k /\ m * k \in Nat /\ m * b \in Nat
      BY <2>2
    <2>. QED
      BY <2>3
  <1>2. PICK k \in Nat : b = a + 1 + k
    <2>1. b - a - 1 \in Nat /\ b = a + 1 + (b - a - 1)
      BY <1>1
    <2>. QED
      BY <2>1
  <1>3. m * b = m * a + m + m * k /\ m * k \in Nat /\ m * a \in Nat
    BY <1>2
  <1>. QED
    BY <1>3

\* Of sizes on a divisor chain the lesser divides the greater.
LEMMA ChainDivides ==
  ASSUME NEW sizes, Chain(sizes), NEW m \in sizes, NEW n \in sizes,
         m \in Nat \ {0}, n \in Nat \ {0}, m <= n
  PROVE  \E q \in Nat : n = m * q
  <1>1. m % n = 0 \/ n % m = 0
    BY DEF Chain
  <1>2. CASE n % m = 0
    BY <1>2, Multiple
  <1>3. CASE m % n = 0
    <2>1. PICK q \in Nat : m = n * q
      BY <1>3, Multiple
    <2>2. q # 0
      BY <2>1
    <2>3. n * q >= n
      <3>1. PICK k \in Nat : q = k + 1
        <4>1. q - 1 \in Nat /\ q = (q - 1) + 1
          BY <2>2
        <4>. QED
          BY <4>1
      <3>2. n * q = n * k + n /\ n * k \in Nat
        BY <3>1
      <3>. QED
        BY <3>2
    <2>4. n = m * 1
      BY <2>1, <2>3
    <2>. QED
      BY <2>4
  <1>. QED
    BY <1>1, <1>2, <1>3

SizesOf(S) == {LeafChips[l] : l \in S}

\* Leaves on a divisor chain, none larger than c, that have c chips or more,
\* have some with just c: a set with the least excess has none, or it would
\* do without its smallest leaf.
LEMMA Exchange ==
  ASSUME NEW U \in SUBSET Leaf, NEW c \in Nat \ {0}, Chain(SizesOf(U) \cup {c}),
         \A l \in U : LeafChips[l] <= c, c <= Total(U, LeafChips)
  PROVE  \E V \in SUBSET U : Total(V, LeafChips) = c
  <1> DEFINE Enough == {V \in SUBSET U : c <= Total(V, LeafChips)}
             N == {Total(V, LeafChips) : V \in Enough}
  <1>1. \A V \in SUBSET U : /\ Total(V, LeafChips) \in Nat /\ IsFiniteSet(V)
                            /\ Amounts(V, LeafChips)
    BY Sizeable
  <1>2. N \subseteq Nat /\ N # {}
    BY <1>1
  <1>3. PICK x \in N : \A y \in N : x <= y
    BY <1>2, LeastNumber
  <1>4. PICK V \in Enough : x = Total(V, LeafChips)
    OBVIOUS
  <1>5. V \in SUBSET U /\ c <= Total(V, LeafChips)
    OBVIOUS
  <1>6. SUFFICES ASSUME c < Total(V, LeafChips) PROVE FALSE
    BY <1>1, <1>5
  <1>7. V # {}
    <2>1. V = {} => Total(V, LeafChips) = 0
      BY SumEmpty
    <2>. QED
      BY <1>6, <2>1
  <1>8. \A l \in V : LeafChips[l] \in Nat \ {0} /\ LeafChips[l] <= c
    BY <1>5, LeafFacts
  <1>9. PICK m \in SizesOf(V) : \A y \in SizesOf(V) : m <= y
    <2>1. SizesOf(V) \subseteq Nat /\ SizesOf(V) # {}
      BY <1>7, <1>8 DEF SizesOf
    <2>. QED
      BY <2>1, LeastNumber
  <1>10. PICK l \in V : LeafChips[l] = m
    BY DEF SizesOf
  <1>11. m \in Nat \ {0} /\ m <= c
    BY <1>8, <1>10
  <1> DEFINE K == SizesOf(U) \cup {c}
  <1>12. Chain(K) /\ c \in K /\ \A k \in V : LeafChips[k] \in K
    BY <1>5 DEF SizesOf
  <1> HIDE DEF K
  <1>13. \A k \in V : \E q \in Nat : LeafChips[k] = m * q
    <2> SUFFICES ASSUME NEW k \in V PROVE \E q \in Nat : LeafChips[k] = m * q
      OBVIOUS
    <2>1. m <= LeafChips[k]
      BY <1>9 DEF SizesOf
    <2>2. m \in K /\ LeafChips[k] \in K /\ LeafChips[k] \in Nat \ {0}
      BY <1>8, <1>10, <1>12
    <2>. QED
      BY <1>11, <1>12, <2>1, <2>2, ChainDivides
  <1>14. PICK b \in Nat : c = m * b
    <2>1. m \in K
      BY <1>10, <1>12
    <2>. QED
      BY <1>11, <1>12, <2>1, ChainDivides
  <1>15. PICK a \in Nat : Total(V, LeafChips) = m * a
    <2>1. IsFiniteSet(V) /\ Amounts(V, LeafChips)
      BY <1>1, <1>5
    <2>. QED
      BY <1>11, <1>13, <2>1, SumMultiple
  <1>16. c + m <= Total(V, LeafChips)
    BY <1>6, <1>11, <1>14, <1>15, NextMultiple
  <1> DEFINE W == V \ {l}
  <1>17. Total(V, LeafChips) = Total(W, LeafChips) + m
    <2>1. W \in SUBSET U /\ l \notin W /\ V = W \cup {l}
      BY <1>5
    <2>2. IsFiniteSet(W) /\ Amounts(W, LeafChips)
      BY <1>1, <2>1
    <2> HIDE DEF W
    <2>. QED
      BY <1>10, <1>11, <2>1, <2>2, SumAdjoin
  <1>18. W \in SUBSET U /\ Total(W, LeafChips) \in Nat
    BY <1>1, <1>5
  <1> HIDE DEF W
  <1>19. W \in Enough
    BY <1>11, <1>16, <1>17, <1>18
  <1>20. Total(V, LeafChips) <= Total(W, LeafChips)
    BY <1>3, <1>4, <1>19
  <1>. QED
    BY <1>11, <1>17, <1>18, <1>20

Descends(order, n) ==
  \A i, k \in 1 .. n : i < k => LeafChips[order[i]] >= LeafChips[order[k]]

\* What is missing can be made up of leaves still to come.
MakesUp(acc, rest, chips) ==
  \E U \in SUBSET rest : acc.sum + Total(U, LeafChips) = chips

\* The greedy cover takes the next leaf, no smaller than those to come.
LEMMA TakenMakesUp ==
  ASSUME NEW S \in SUBSET Leaf, Chain(SizesOf(S)), NEW chips \in Nat,
         NEW R \in SUBSET S, NEW l \in S, l \notin R,
         \A x \in R : LeafChips[x] <= LeafChips[l],
         NEW acc \in Covers(S), MakesUp(acc, R \cup {l}, chips)
  PROVE  MakesUp(Taken(acc, l, chips), R, chips)
  <1> DEFINE c == LeafChips[l]
             s == acc.sum
             next == Taken(acc, l, chips)
  <1>1. c \in Nat \ {0} /\ s \in Nat
    BY LeafFacts DEF Covers
  <1>2. PICK U \in SUBSET (R \cup {l}) : s + Total(U, LeafChips) = chips
    BY DEF MakesUp
  <1>3. \A T \in SUBSET S : /\ Total(T, LeafChips) \in Nat /\ IsFiniteSet(T)
                            /\ Amounts(T, LeafChips)
    BY Sizeable
  <1>4. U \in SUBSET S
    OBVIOUS
  <1>5. CASE l \in U
    <2> DEFINE W == U \ {l}
    <2>1. W \in SUBSET R /\ W \in SUBSET S /\ l \notin W /\ U = W \cup {l}
      BY <1>4, <1>5
    <2> HIDE DEF W
    <2>2. Total(U, LeafChips) = Total(W, LeafChips) + c /\ Total(W, LeafChips) \in Nat
      BY <1>1, <1>3, <2>1, SumAdjoin
    <2>3. s + c <= chips /\ s + c + Total(W, LeafChips) = chips
      BY <1>1, <1>2, <2>2
    <2>4. next.sum = s + c
      BY <2>3 DEF Taken
    <2>. QED
      BY <2>1, <2>3, <2>4 DEF MakesUp
  <1>6. CASE l \notin U /\ ~ (s + c <= chips)
    <2>1. next = acc /\ U \in SUBSET R
      BY <1>6 DEF Taken
    <2>. QED
      BY <1>2, <2>1 DEF MakesUp
  <1>7. CASE l \notin U /\ s + c <= chips
    <2>1. next.sum = s + c /\ U \in SUBSET R
      BY <1>7 DEF Taken
    <2>2. c <= Total(U, LeafChips)
      BY <1>1, <1>2, <1>3, <1>4, <1>7
    <2>3. SizesOf(U) \cup {c} \in SUBSET SizesOf(S)
      BY <1>4 DEF SizesOf
    <2>4. Chain(SizesOf(U) \cup {c})
      BY <2>3 DEF Chain
    <2>5. U \in SUBSET Leaf /\ \A x \in U : LeafChips[x] <= c
      BY <1>4, <2>1
    <2> HIDE DEF c, s, next
    <2>6. PICK V \in SUBSET U : Total(V, LeafChips) = c
      BY <1>1, <2>2, <2>4, <2>5, Exchange
    <2> DEFINE W == U \ V
    <2>7. W \in SUBSET R /\ W \in SUBSET S /\ V \in SUBSET S /\ W \cap V = {} /\ U = W \cup V
      BY <1>4, <2>1
    <2> HIDE DEF W
    <2>8. Total(U, LeafChips) = Total(W, LeafChips) + Total(V, LeafChips)
      BY <1>3, <2>7, SumUnion
    <2>9. Total(W, LeafChips) \in Nat
      BY <1>3, <2>7
    <2>10. next.sum + Total(W, LeafChips) = chips
      BY <1>1, <1>2, <2>1, <2>6, <2>8, <2>9
    <2>. QED
      BY <2>7, <2>10 DEF MakesUp, next
  <1>. QED
    BY <1>5, <1>6, <1>7

\* Along leaves on a divisor chain, the largest first, the greedy cover is
\* exact whenever some leaves add up to what is asked for.
LEMMA ChainGreedy ==
  ASSUME NEW S \in SUBSET Leaf, Chain(SizesOf(S)), NEW chips \in Nat,
         NEW order, Lists(order, S), Descends(order, Cardinality(S)),
         NEW T \in SUBSET S, Total(T, LeafChips) = chips
  PROVE  Greedy(order, chips).sum = chips
  <1> DEFINE n == Cardinality(S)
             Left(i) == {order[k] : k \in i + 1 .. n}
  <1>1. n \in Nat
    BY Sizeable, FS_CardinalityType
  <1>2. /\ order \in [1 .. n -> S]
        /\ \A x \in S : \E i \in 1 .. n : order[i] = x
        /\ \A i, k \in 1 .. n : i < k => order[i] # order[k]
    BY DEF Lists
  <1>3. \A i, k \in 1 .. n : i < k => LeafChips[order[i]] >= LeafChips[order[k]]
    BY DEF Descends
  <1> HIDE DEF n
  <1>4. PICK f \in [0 .. n -> Covers(S)] : Course(f, order, n, chips)
    BY <1>1, <1>2, GreedyCourse
  <1>5. /\ f[0] = [set |-> {}, sum |-> 0] /\ f[n] = Greedy(order, chips)
        /\ \A i \in 1 .. n : f[i] = Taken(f[i - 1], order[i], chips)
    BY <1>4 DEF Course
  <1> DEFINE P == {i \in 0 .. n : MakesUp(f[i], Left(i), chips)}
  <1>6. 0 \in P
    <2>1. T \in SUBSET Left(0)
      BY <1>2
    <2>2. f[0].sum = 0 /\ Total(T, LeafChips) = chips
      BY <1>5
    <2>3. MakesUp(f[0], Left(0), chips)
      <3> HIDE DEF Left
      <3>. QED
        BY <2>1, <2>2 DEF MakesUp
    <2>. QED
      BY <1>1, <2>3
  <1>7. ASSUME NEW i \in 0 .. n - 1, i \in P PROVE i + 1 \in P
    <2> DEFINE l == order[i + 1]
               R == Left(i + 1)
               acc == f[i]
    <2>1. i + 1 \in 1 .. n /\ (i + 1) - 1 = i /\ i \in 0 .. n /\ i \in Nat
      BY <1>1
    <2>2. l \in S /\ R \in SUBSET S
      BY <1>2, <2>1
    <2>3. l \notin R
      <3> SUFFICES ASSUME NEW k \in i + 1 + 1 .. n, order[k] = l PROVE FALSE
        OBVIOUS
      <3>1. k \in 1 .. n /\ i + 1 < k
        BY <1>1, <2>1
      <3>. QED
        BY <1>2, <2>1, <3>1
    <2>4. \A x \in R : LeafChips[x] <= LeafChips[l]
      <3> SUFFICES ASSUME NEW k \in i + 1 + 1 .. n PROVE LeafChips[order[k]] <= LeafChips[l]
        OBVIOUS
      <3>1. k \in 1 .. n /\ i + 1 < k
        BY <1>1, <2>1
      <3>2. LeafChips[order[k]] \in Nat /\ LeafChips[l] \in Nat
        BY <1>2, <2>2, <3>1, LeafFacts
      <3>. QED
        BY <1>3, <2>1, <3>1, <3>2
    <2>5. Left(i) \in SUBSET (R \cup {l})
      <3> SUFFICES ASSUME NEW k \in i + 1 .. n PROVE order[k] \in R \cup {l}
        OBVIOUS
      <3>1. k = i + 1 \/ k \in i + 1 + 1 .. n
        BY <1>1, <2>1
      <3>. QED
        BY <3>1
    <2>6. MakesUp(acc, R \cup {l}, chips)
      <3>1. MakesUp(acc, Left(i), chips)
        BY <1>7
      <3> HIDE DEF R, l, acc, Left
      <3>. QED
        BY <2>5, <3>1 DEF MakesUp
    <2>7. f[i + 1] = Taken(acc, l, chips) /\ acc \in Covers(S)
      BY <1>5, <2>1
    <2> HIDE DEF R, l, acc
    <2>8. MakesUp(f[i + 1], R, chips)
      BY <2>2, <2>3, <2>4, <2>6, <2>7, TakenMakesUp
    <2>. QED
      BY <2>1, <2>8 DEF R
  <1> HIDE DEF P
  <1>8. \A i \in 0 .. n : i \in P
    BY <1>1, <1>6, <1>7, UpwardInduction
  <1>9. MakesUp(f[n], Left(n), chips)
    BY <1>1, <1>8 DEF P
  <1>10. Left(n) = {}
    BY <1>1
  <1>11. PICK U \in SUBSET {} : f[n].sum + Total(U, LeafChips) = chips
    BY <1>9, <1>10 DEF MakesUp
  <1>12. Total(U, LeafChips) = 0
    <2>1. U = {}
      OBVIOUS
    <2>. QED
      BY <2>1, SumEmpty
  <1>13. f[n].sum \in Nat
    BY <1>1, <1>4 DEF Covers
  <1>. QED
    BY <1>5, <1>11, <1>12, <1>13

---------------------------------------------------------------------------
(* Completeness: the orders, and the scan.                                 *)

\* Leaves that are not mixed have one size.
LEMMA OneSize ==
  ASSUME NEW S \in SUBSET Leaf, ~ Mixed(S)
  PROVE  /\ \A x, y \in S : LeafChips[x] = LeafChips[y]
         /\ Chain(SizesOf(S))
  <1> DEFINE K == SizesOf(S)
  <1>1. IsFiniteSet(K) /\ Cardinality(K) \in Nat
    <2>1. IsFiniteSet(S)
      BY Sizeable
    <2>2. IsFiniteSet(K)
      <3> DEFINE g == [l \in S |-> LeafChips[l]]
      <3>1. g \in Surjection(S, K)
        BY DEF Surjection, SizesOf
      <3> HIDE DEF g, K
      <3>. QED
        BY <2>1, <3>1, FS_Surjection
    <2>. QED
      BY <2>2, FS_CardinalityType
  <1>2. ~ (Cardinality(K) > 1)
    BY DEF Mixed, SizesOf
  <1>3. ASSUME NEW x \in K, NEW y \in K, x # y PROVE FALSE
    <2>1. IsFiniteSet({x}) /\ Cardinality({x}) = 1
      BY FS_Singleton
    <2>2. IsFiniteSet({x} \cup {y}) /\ Cardinality({x} \cup {y}) = 2
      <3>1. y \notin {x}
        BY <1>3
      <3>. QED
        BY <2>1, <3>1, FS_AddElement
    <2>3. {x} \cup {y} \in SUBSET K
      OBVIOUS
    <2>4. Cardinality({x} \cup {y}) <= Cardinality(K)
      BY <1>1, <2>3, FS_Subset
    <2>. QED
      BY <1>1, <1>2, <2>2, <2>4
  <1>4. \A x, y \in S : LeafChips[x] = LeafChips[y]
    BY <1>3 DEF SizesOf
  <1>5. \A m \in K : m \in Nat \ {0}
    BY LeafFacts DEF SizesOf
  <1>6. ASSUME NEW m \in Nat \ {0} PROVE m % m = 0
    OBVIOUS
  <1>7. Chain(K)
    BY <1>3, <1>5, <1>6 DEF Chain
  <1>. QED
    BY <1>4, <1>7

\* The answer is found in the first order whose cover is exact.
LEMMA FirstCoverFinds ==
  ASSUME NEW S \in SUBSET Leaf, NEW chips \in Nat, NEW mode, NEW d
  PROVE  FirstCover(Orders(S, chips, mode), chips, d) # NoFit <=>
           \E i \in DOMAIN Orders(S, chips, mode) :
             Greedy(Orders(S, chips, mode)[i], chips).sum = chips
  <1> DEFINE os == Orders(S, chips, mode)
             answer == [order \in ToSet(os) |-> Cover(order, chips, d)]
             p == FirstCover(os, chips, d)
  <1>1. p = FirstFit(os, answer)
    BY DEF FirstCover
  <1>2. DOMAIN os \subseteq Nat
    BY OrdersList
  <1>3. \A i \in DOMAIN os : answer[os[i]] = Cover(os[i], chips, d)
    BY DEF ToSet
  <1>4. \A order : Cover(order, chips, d) # NoFit <=> Greedy(order, chips).sum = chips
    <2> SUFFICES ASSUME NEW order
                 PROVE  Cover(order, chips, d) # NoFit <=> Greedy(order, chips).sum = chips
      OBVIOUS
    <2> DEFINE g == Greedy(order, chips)
    <2>1. Cover(order, chips, d) =
            IF g.sum = chips THEN Placement(g.set, 0, TRUE, d, << >>) ELSE NoFit
      BY DEF Cover
    <2> HIDE DEF g
    <2>2. Placement(g.set, 0, TRUE, d, << >>) # NoFit
      BY DEF Placement, NoFit
    <2>. QED
      BY <2>1, <2>2 DEF g
  <1> HIDE DEF os, answer, p
  <1>5. /\ p # NoFit => \E i \in DOMAIN os : p = answer[os[i]]
        /\ (\E i \in DOMAIN os : answer[os[i]] # NoFit) => p # NoFit
    BY <1>1, <1>2, FirstFitHits
  <1>. QED
    BY <1>3, <1>4, <1>5 DEF os, p

LEMMA ChainCovered ==
  ASSUME NEW S \in SUBSET Leaf, Chain(SizesOf(S)), NEW chips \in Nat, NEW mode, NEW d,
         NEW T \in SUBSET S, Total(T, LeafChips) = chips
  PROVE  FirstCover(Orders(S, chips, mode), chips, d) # NoFit
  <1> DEFINE os == Orders(S, chips, mode)
             n == Cardinality(S)
  <1>1. /\ 1 \in DOMAIN os /\ \A i \in DOMAIN os : Lists(os[i], S)
        /\ mode = "first_fit" => os = <<LargestFirst(S)>>
        /\ mode # "first_fit" /\ Mixed(S) => 2 \in DOMAIN os /\ os[2] = LargestFirst(S)
    BY OrdersList
  <1>2. Descends(LargestFirst(S), n)
    BY LargestFirstLists DEF Descends
  <1> HIDE DEF os
  <1>3. PICK i \in DOMAIN os : Descends(os[i], n)
    <2>1. CASE mode = "first_fit"
      <3>1. os[1] = LargestFirst(S)
        BY <1>1, <2>1
      <3>. QED
        BY <1>1, <1>2, <3>1
    <2>2. CASE mode # "first_fit" /\ Mixed(S)
      BY <1>1, <1>2, <2>2
    <2>3. CASE ~ Mixed(S)
      <3> DEFINE order == os[1]
      <3>1. Lists(order, S)
        BY <1>1
      <3> HIDE DEF order
      <3>2. \A i \in 1 .. n : order[i] \in S
        BY <3>1 DEF Lists
      <3>3. \A x, y \in S : LeafChips[x] = LeafChips[y] /\ LeafChips[x] \in Nat
        BY <2>3, OneSize, LeafFacts
      <3>4. Descends(order, n)
        <4> HIDE DEF n
        <4>. QED
          BY <3>2, <3>3 DEF Descends
      <3>. QED
        BY <1>1, <3>4 DEF order
    <2>. QED
      BY <2>1, <2>2, <2>3
  <1> DEFINE order == os[i]
  <1>4. Lists(order, S) /\ Descends(order, n)
    BY <1>1, <1>3
  <1> HIDE DEF order
  <1>5. Greedy(order, chips).sum = chips
    BY <1>4, ChainGreedy
  <1>. QED
    BY <1>5, FirstCoverFinds DEF order, os

\* A packed mode covers what first fit covers.
LEMMA PackedCovers ==
  ASSUME NEW S \in SUBSET Leaf, NEW chips \in Nat, NEW mode, NEW d,
         FirstCover(Orders(S, chips, "first_fit"), chips, d) # NoFit
  PROVE  FirstCover(Orders(S, chips, mode), chips, d) # NoFit
  <1>1. CASE mode = "first_fit"
    BY <1>1
  <1>2. CASE ~ Mixed(S)
    <2>1. CoverOf(S, chips, d, FirstCover(Orders(S, chips, "first_fit"), chips, d))
      BY FirstCoverCovers
    <2>2. PICK T \in SUBSET S : Total(T, LeafChips) = chips
      BY <2>1 DEF CoverOf
    <2>3. Chain(SizesOf(S))
      BY <1>2, OneSize
    <2>. QED
      BY <2>2, <2>3, ChainCovered
  <1>3. CASE mode # "first_fit" /\ Mixed(S)
    <2> DEFINE os == Orders(S, chips, "first_fit")
               ps == Orders(S, chips, mode)
    <2>1. /\ os = <<LargestFirst(S)>>
          /\ 2 \in DOMAIN ps /\ ps[2] = LargestFirst(S)
      BY <1>3, OrdersList
    <2>2. PICK i \in DOMAIN os : Greedy(os[i], chips).sum = chips
      BY FirstCoverFinds
    <2> HIDE DEF os, ps
    <2>3. os[i] = LargestFirst(S)
      BY <2>1, <2>2
    <2>4. Greedy(ps[2], chips).sum = chips
      BY <2>1, <2>2, <2>3
    <2>. QED
      BY <2>1, <2>4, FirstCoverFinds DEF ps
  <1>. QED
    BY <1>1, <1>2, <1>3

LEMMA ScanFinds ==
  ASSUME NEW t, FleetInv(t), NEW d \in Domain, NEW ct, NEW chips, NEW who, NEW mode
  PROVE  ScanLeaves(t, d, ct, chips, who, mode) # NoFit <=>
           \/ Sharable(t, d, ct, chips, who) # {}
           \/ FirstCover(Orders(Takable(t, d, ct, chips, who), chips, mode), chips, d) # NoFit
              /\ Sharable(t, d, ct, chips, who) = {}
  <1> DEFINE sub == Sharable(t, d, ct, chips, who)
             p == ScanLeaves(t, d, ct, chips, who, mode)
             q == FirstCover(Orders(Takable(t, d, ct, chips, who), chips, mode), chips, d)
  <1>1. /\ sub # {} => \E l \in sub : p = Placement({l}, chips, FALSE, d, << >>)
        /\ sub = {} => p = q
    BY ScanAnswer
  <1>2. \A l : Placement({l}, chips, FALSE, d, << >>) # NoFit
    BY DEF Placement, NoFit
  <1> HIDE DEF sub, p, q
  <1>. QED
    BY <1>1, <1>2 DEF sub, p, q

LEMMA PackedFinds ==
  ASSUME NEW t, FleetInv(t), NEW d \in Domain, NEW ct, NEW spec \in Specs, NEW who, NEW mode,
         TypeAnswer(t, d, ct, spec, who, "first_fit") # NoFit
  PROVE  TypeAnswer(t, d, ct, spec, who, mode) # NoFit
  <1> DEFINE chips == spec.chips
             whole == Takable(t, d, ct, chips, who)
             sub == Sharable(t, d, ct, chips, who)
  <1>1. /\ ~ (t.freeByType[d][ct] < chips)
        /\ ScanLeaves(t, d, ct, chips, who, "first_fit") # NoFit
    BY DEF TypeAnswer
  <1>2. chips \in Nat
    BY TreeShape
  <1>3. whole \in SUBSET Leaf
    BY LeafFacts DEF Takable, Usable
  <1>4. TypeAnswer(t, d, ct, spec, who, mode) = ScanLeaves(t, d, ct, chips, who, mode)
    BY <1>1 DEF TypeAnswer
  <1> HIDE DEF chips
  <1>5. sub # {} \/ (FirstCover(Orders(whole, chips, "first_fit"), chips, d) # NoFit /\ sub = {})
    BY <1>1, ScanFinds
  <1>6. FirstCover(Orders(whole, chips, "first_fit"), chips, d) # NoFit =>
          FirstCover(Orders(whole, chips, mode), chips, d) # NoFit
    <2> HIDE DEF whole
    <2>. QED
      BY <1>2, <1>3, PackedCovers
  <1>7. ScanLeaves(t, d, ct, chips, who, mode) # NoFit
    BY <1>5, <1>6, ScanFinds
  <1>. QED
    BY <1>4, <1>7

\* The packed modes find a fit where first fit does.
LEMMA PackedSearches ==
  ASSUME NEW t, FleetInv(t), NEW spec \in Specs, NEW who, NEW mode,
         Search(t, spec, who, "first_fit") # NoFit
  PROVE  Search(t, spec, who, mode) # NoFit
  <1>1. PICK d \in DomainsFor(spec) : AnswerOf(t, d, spec, who, "first_fit") # NoFit
    <2>1. PICK d \in DomainsFor(spec) :
            Search(t, spec, who, "first_fit") = AnswerOf(t, d, spec, who, "first_fit")
      BY SearchAnswer
    <2>. QED
      BY <2>1
  <1>2. d \in Domain
    BY DEF DomainsFor
  <1>3. AnswerOf(t, d, spec, who, mode) # NoFit
    <2>1. CASE spec.perSegment > 0
      BY <1>1, <2>1 DEF AnswerOf
    <2>2. CASE ~ (spec.perSegment > 0)
      <3>1. SearchDomain(t, d, spec, who, "first_fit") # NoFit
        BY <1>1, <2>2 DEF AnswerOf
      <3>2. PICK ct \in WantedTypes(spec, d) :
              TypeAnswer(t, d, ct, spec, who, "first_fit") # NoFit
        <4>1. PICK ct \in WantedTypes(spec, d) :
                SearchDomain(t, d, spec, who, "first_fit")
                  = TypeAnswer(t, d, ct, spec, who, "first_fit")
          BY <1>2, <3>1, DomainAnswer
        <4>. QED
          BY <3>1, <4>1
      <3>3. TypeAnswer(t, d, ct, spec, who, mode) # NoFit
        BY <1>2, <3>2, PackedFinds
      <3>4. SearchDomain(t, d, spec, who, mode) # NoFit
        BY <1>2, <3>3, DomainAnswer
      <3>. QED
        BY <2>2, <3>4 DEF AnswerOf
    <2>. QED
      BY <2>1, <2>2
  <1>. QED
    BY <1>3, SearchAnswer

\* Leaves that sizes on a divisor chain and some of which add up to chips.
FillableBy(free, chips) ==
  /\ Chain({LeafChips[l] : l \in free})
  /\ \E S \in SUBSET free : Total(S, LeafChips) = chips

LEMMA PlainFinds ==
  ASSUME NEW t, FleetInv(t), NEW d \in Domain, NEW ct \in Types, NEW spec \in Specs,
         NEW who, NEW mode,
         \/ CanShare(t, d, ct, spec.chips, who)
         \/ FillableBy(CanTake(t, d, ct, spec.chips, who), spec.chips)
  PROVE  TypeAnswer(t, d, ct, spec, who, mode) # NoFit
  <1> DEFINE chips == spec.chips
             sub == Sharable(t, d, ct, chips, who)
             whole == Takable(t, d, ct, chips, who)
             K == OfType(d, ct)
             av == Available(t)
  <1>1. chips \in Nat \ {0}
    BY TreeShape
  <1>2. /\ IsFiniteSet(K) /\ K \in SUBSET Leaf /\ K = {l \in LeavesUnder[d] : ChipType[l] = ct}
        /\ LeavesUnder[d] \in SUBSET Leaf
    BY LeafFacts DEF OfType
  <1>3. Amounts(Leaf, av) /\ Amounts(K, av)
    BY <1>2, CountsTyped DEF FleetInv, Amounts
  <1>4. t.freeByType[d][ct] = Total(K, av)
    BY DEF FleetInv, CountersMatch, OfType
  <1>5. Total(K, av) \in Nat
    BY <1>2, <1>3, SumType
  <1>6. \A l \in Leaf : /\ t.free[l] = av[l] /\ av[l] \in Nat
                        /\ ~ IsHealthy(t, l) => av[l] = 0
    BY <1>3, LeafFree DEF Amounts, Available
  <1>7. TypeAnswer(t, d, ct, spec, who, mode) =
          IF Total(K, av) < chips THEN NoFit ELSE ScanLeaves(t, d, ct, chips, who, mode)
    BY <1>4 DEF TypeAnswer
  <1>8. CASE CanShare(t, d, ct, chips, who)
    <2>1. PICK l \in LeavesUnder[d] : /\ ChipType[l] = ct /\ EligibleFor(t, l, who)
                                      /\ chips < LeafChips[l] /\ chips <= av[l]
      BY <1>8 DEF CanShare
    <2>2. l \in Leaf /\ l \in K /\ t.free[l] = av[l] /\ av[l] \in Nat
      BY <1>2, <1>6, <2>1
    <2>3. IsHealthy(t, l)
      BY <1>1, <1>6, <2>1, <2>2
    <2>4. l \in sub
      BY <1>1, <2>1, <2>2, <2>3 DEF Sharable, Usable
    <2> HIDE DEF sub, K, av, chips
    <2>5. av[l] <= Total(K, av)
      BY <1>2, <1>3, <2>2, SumGe
    <2>6. ~ (Total(K, av) < chips)
      BY <1>1, <1>5, <2>1, <2>2, <2>5
    <2>7. ScanLeaves(t, d, ct, chips, who, mode) # NoFit
      BY <2>4, ScanFinds DEF sub
    <2>. QED
      BY <1>7, <2>6, <2>7
  <1>9. CASE FillableBy(CanTake(t, d, ct, chips, who), chips)
    <2>1. CanTake(t, d, ct, chips, who) = whole
      <3>1. ASSUME NEW l \in LeavesUnder[d]
            PROVE  FreeNode(t)[l] = 1 <=> IsHealthy(t, l) /\ t.free[l] = LeafChips[l]
        <4>1. l \in Leaf
          BY <1>2
        <4>2. FreeNode(t)[l] = 1 <=> IsHealthy(t, l) /\ Ownerless(t, l)
          BY <4>1 DEF FreeNode
        <4>. QED
          BY <4>1, <4>2, FreeOfLeaf
      <3>. QED
        BY <3>1 DEF CanTake, Takable, Usable
    <2>2. /\ whole \in SUBSET K /\ \A l \in whole : t.free[l] = LeafChips[l]
      BY DEF Takable, Usable, OfType
    <2> HIDE DEF whole, K
    <2>3. Chain(SizesOf(whole))
      BY <1>9, <2>1 DEF FillableBy, SizesOf
    <2>4. PICK S \in SUBSET whole : Total(S, LeafChips) = chips
      BY <1>9, <2>1 DEF FillableBy
    <2>5. chips <= Total(K, av)
      <3>1. S \in SUBSET K /\ \A l \in S : LeafChips[l] <= av[l]
        <4>1. \A l \in S : l \in Leaf /\ LeafChips[l] \in Nat /\ av[l] = LeafChips[l]
          BY <1>2, <1>6, <2>2, LeafFacts
        <4> HIDE DEF av
        <4>. QED
          BY <2>2, <4>1
      <3>2. Amounts(S, LeafChips)
        BY <1>2, <3>1, LeafFacts DEF Amounts
      <3> HIDE DEF av
      <3>3. Total(S, LeafChips) <= Total(K, av)
        BY <1>2, <1>3, <3>1, <3>2, SumLess
      <3>. QED
        BY <2>4, <3>3
    <2>6. whole \in SUBSET Leaf
      BY <1>2, <2>2
    <2> HIDE DEF av, chips
    <2>7. FirstCover(Orders(whole, chips, mode), chips, d) # NoFit
      BY <1>1, <2>3, <2>4, <2>6, ChainCovered
    <2>8. ScanLeaves(t, d, ct, chips, who, mode) # NoFit
      BY <2>7, ScanFinds DEF whole, sub
    <2>9. ~ (Total(K, av) < chips)
      BY <1>1, <1>5, <2>5
    <2>. QED
      BY <1>7, <2>8, <2>9
  <1>. QED
    BY <1>8, <1>9

---------------------------------------------------------------------------
(* Completeness: segments.                                                 *)

\* The segments that the leaves of s have room for.
SegmentsIn(t, d, ct, n, spec, who) ==
  [s \in Under(spec, d) |-> Cardinality(FreeIn(t, s, ct, n, who)) \div spec.perSegment]

\* The segments of each domain under d fit in what is free in d.
LEMMA SegmentsWithin ==
  ASSUME NEW t, FleetInv(t), NEW d \in Domain, NEW ct \in Types, NEW n \in Sizes,
         NEW spec, NEW who, spec.perSegment \in Nat, spec.perSegment > 0
  PROVE  LET k == SegmentsIn(t, d, ct, n, spec, who)
             U == Under(spec, d)
         IN  /\ Amounts(U, k) /\ Total(U, k) \in Nat
             /\ Total(U, k) * spec.perSegment <= FreeFor(t, d, ct, n, who)
  <1> DEFINE k == SegmentsIn(t, d, ct, n, spec, who)
             U == Under(spec, d)
             per == spec.perSegment
             F == [s \in U |-> FreeIn(t, s, ct, n, who)]
             size == [s \in U |-> Cardinality(FreeIn(t, s, ct, n, who))]
             used == [s \in U |-> k[s] * per]
             All == UNION {F[s] : s \in U}
             D == FreeIn(t, d, ct, n, who)
  <1>1. /\ IsFiniteSet(U) /\ U \in SUBSET Domain
        /\ \A s \in U : d \in Above[s] /\ Level[s] = spec.segmentLevel
    BY HostsAre DEF Under
  <1>2. ASSUME NEW s \in U
        PROVE  /\ F[s] = FreeIn(t, s, ct, n, who) /\ size[s] = Cardinality(F[s])
               /\ IsFiniteSet(F[s]) /\ size[s] \in Nat /\ F[s] \in SUBSET LeavesUnder[s]
               /\ k[s] = size[s] \div per /\ used[s] = k[s] * per
    <2>1. F[s] = FreeIn(t, s, ct, n, who) /\ size[s] = Cardinality(F[s])
      OBVIOUS
    <2>2. IsFiniteSet(FreeIn(t, s, ct, n, who)) /\ FreeIn(t, s, ct, n, who) \in SUBSET LeavesUnder[s]
      BY <1>1, FreeForCounts
    <2>3. k[s] = size[s] \div per /\ used[s] = k[s] * per
      BY DEF SegmentsIn
    <2> HIDE DEF F, size, k, used
    <2>. QED
      BY <2>1, <2>2, <2>3, FS_CardinalityType
  <1>3. /\ FreeFor(t, d, ct, n, who) = Cardinality(D) /\ IsFiniteSet(D)
        /\ Cardinality(D) \in Nat
    BY FreeForCounts, FS_CardinalityType
  <1>4. All \in SUBSET D
    <2> SUFFICES ASSUME NEW s \in U, NEW l \in FreeIn(t, s, ct, n, who) PROVE l \in D
      OBVIOUS
    <2>1. l \in LeavesUnder[s]
      BY DEF FreeIn
    <2>2. l \in LeavesUnder[d]
      BY <1>1, <2>1, UnderFacts
    <2>. QED
      BY <2>2 DEF FreeIn
  <1> HIDE DEF F, size, used, k, U, per, D
  <1>5. /\ \A s \in U : k[s] \in Nat /\ used[s] \in Nat /\ used[s] <= size[s]
    <2> SUFFICES ASSUME NEW s \in U PROVE k[s] \in Nat /\ used[s] \in Nat /\ used[s] <= size[s]
      OBVIOUS
    <2> DEFINE z == size[s]
    <2>1. z \in Nat /\ per \in Nat /\ per > 0
      BY <1>2 DEF per
    <2> HIDE DEF z
    <2>2. z \div per \in Nat /\ (z \div per) * per <= z
      BY <2>1, Division
    <2>3. (z \div per) * per \in Nat
      BY <2>1, <2>2
    <2>. QED
      BY <1>2, <2>2, <2>3 DEF z
  <1>6. Amounts(U, k) /\ Amounts(U, used) /\ Amounts(U, size)
    BY <1>2, <1>5 DEF Amounts
  <1>7. Total(U, k) \in Nat
    BY <1>1, <1>6, SumType
  <1>8. Total(U, used) = Total(U, k) * per
    <2>1. Scaled(U, k, per, used)
      BY <1>2 DEF Scaled, per
    <2>. QED
      BY <1>1, <1>6, <2>1, SumScaled
  <1>9. Total(U, used) <= Total(U, size)
    BY <1>1, <1>5, <1>6, SumLess
  <1>10. Cardinality(All) = Total(U, size) /\ IsFiniteSet(All)
    <2>1. ASSUME NEW r \in U, NEW s \in U, r # s PROVE F[r] \cap F[s] = {}
      <3>1. LeavesUnder[r] \cap LeavesUnder[s] = {}
        BY <1>1, <2>1, UnderFacts
      <3>2. F[r] \in SUBSET LeavesUnder[r] /\ F[s] \in SUBSET LeavesUnder[s]
        BY <1>2
      <3>. QED
        BY <3>1, <3>2
    <2>2. Pieces(U, F, size)
      BY <1>2, <2>1 DEF Pieces
    <2>. QED
      BY <1>1, <2>2, CardinalityOfParts
  <1>11. Cardinality(All) <= Cardinality(D)
    <2> HIDE DEF All
    <2>. QED
      BY <1>3, <1>4, FS_Subset
  <1> HIDE DEF All
  <1>12. Total(U, k) * per <= FreeFor(t, d, ct, n, who)
    <2>1. Total(U, used) \in Nat /\ Total(U, size) \in Nat
      BY <1>1, <1>6, SumType
    <2>. QED
      BY <1>3, <1>8, <1>9, <1>10, <1>11, <2>1
  <1>. QED
    BY <1>6, <1>7, <1>12 DEF U, k, per

\* With room for count segments, that many are packed.
LEMMA AllPacked ==
  ASSUME NEW t, FleetInv(t), NEW d \in Domain, NEW ct \in Types, NEW n \in Sizes,
         NEW spec, NEW who, spec.perSegment \in Nat, spec.perSegment > 0, NEW count \in Nat,
         count <= Total(Under(spec, d), SegmentsIn(t, d, ct, n, spec, who))
  PROVE  PackSegments(t, d, ct, n, spec, who, count).got = count
  <1> DEFINE k == SegmentsIn(t, d, ct, n, spec, who)
             U == Under(spec, d)
             per == spec.perSegment
             H == Hosts(t, d, ct, n, spec, who)
             room == RoomIn(t, d, ct, n, spec, who)
             p == PackSegments(t, d, ct, n, spec, who, count)
  <1>1. Packed(p, H, room, per, count)
    BY PackedSegments
  <1>2. /\ IsFiniteSet(U) /\ H \in SUBSET U /\ U \in SUBSET Domain
        /\ \A s \in U : room[s] = FreeFor(t, s, ct, n, who) /\ room[s] \in Nat
    BY HostsAre
  <1>3. Amounts(U, k) /\ Total(U, k) \in Nat
    BY SegmentsWithin
  <1>4. per \in Nat /\ per > 0 /\ count <= Total(U, k)
    OBVIOUS
  <1>5. \A s \in U : k[s] = room[s] \div per
    <2> SUFFICES ASSUME NEW s \in U PROVE k[s] = room[s] \div per
      OBVIOUS
    <2>1. k[s] = Cardinality(FreeIn(t, s, ct, n, who)) \div per
      BY DEF SegmentsIn
    <2>2. room[s] = Cardinality(FreeIn(t, s, ct, n, who))
      BY <1>2, FreeForCounts
    <2> HIDE DEF k, room
    <2>. QED
      BY <2>1, <2>2
  <1>6. \A s \in U \ H : room[s] < per
    BY <1>2 DEF Hosts, RoomIn
  <1> HIDE DEF p, H, room, k, U, per
  <1>7. \A s \in U \ H : k[s] = 0
    <2> SUFFICES ASSUME NEW s \in U \ H PROVE k[s] = 0
      OBVIOUS
    <2> DEFINE r == room[s]
    <2>1. r \in Nat /\ r < per /\ k[s] = r \div per
      BY <1>2, <1>5, <1>6
    <2> HIDE DEF r
    <2>2. r \div per = 0
      BY <1>4, <2>1
    <2>. QED
      BY <2>1, <2>2
  <1>8. Total(U, k) = Total(H, k)
    BY <1>2, <1>3, <1>7, SumPositive
  <1>9. SUFFICES ASSUME p.got # count PROVE FALSE
    BY DEF p
  <1>10. \A s \in H : p.given[s] = k[s]
    BY <1>1, <1>2, <1>5, <1>9 DEF Packed
  <1>11. p.got = Total(H, k)
    <2>1. p.got = Total(H, p.given)
      BY <1>1 DEF Packed
    <2>2. Total(H, p.given) = Total(H, k)
      BY <1>10, SumSame
    <2>. QED
      BY <2>1, <2>2
  <1>12. p.got \in Nat /\ p.got <= count
    BY <1>1 DEF Packed
  <1>. QED
    BY <1>3, <1>4, <1>8, <1>9, <1>11, <1>12

LEMMA Cancel ==
  ASSUME NEW a \in Nat, NEW b \in Nat, NEW m \in Nat \ {0}, a * m <= b * m
  PROVE  a <= b
  <1>1. SUFFICES ASSUME b < a PROVE FALSE
    OBVIOUS
  <1>2. PICK k \in Nat : a = b + 1 + k
    <2>1. a - b - 1 \in Nat /\ a = b + 1 + (a - b - 1)
      BY <1>1
    <2>. QED
      BY <2>1
  <1>3. a * m = b * m + m + k * m /\ k * m \in Nat /\ b * m \in Nat
    BY <1>2
  <1>. QED
    BY <1>3

LEMMA SegmentsFound ==
  ASSUME NEW t, FleetInv(t), NEW d \in Domain, NEW ct \in Types, NEW n \in Sizes,
         NEW spec \in Specs, spec.perSegment > 0, NEW who,
         spec.chips % (spec.perSegment * n) = 0,
         spec.chips <= Total(Under(spec, d), SegmentsIn(t, d, ct, n, spec, who))
                         * spec.perSegment * n
  PROVE  SearchSegments(t, d, ct, n, spec, who) # NoFit
  <1> DEFINE per == spec.perSegment
             chips == spec.chips
             u == per * n
             count == chips \div u
             K == Total(Under(spec, d), SegmentsIn(t, d, ct, n, spec, who))
             packed == PackSegments(t, d, ct, n, spec, who, count)
             p == SearchSegments(t, d, ct, n, spec, who)
             free == FreeFor(t, d, ct, n, who)
             nodes == t.freeNodes[d][ct][n]
  <1>1. per \in Nat /\ per > 0 /\ n \in Nat /\ n > 0 /\ chips \in Nat /\ chips > 0
    BY TreeShape, KindsFinite
  <1>2. K \in Nat /\ K * per <= free /\ free \in Nat
    BY <1>1, SegmentsWithin, FreeForCounts
  <1>3. chips % u = 0 /\ chips <= K * per * n
    OBVIOUS
  <1>4. p = IF nodes <= 0 \/ chips % u # 0 \/ free < count * per
            THEN NoFit ELSE RealizeAll(t, packed, ct, n, spec, who, count)
    BY Zenon DEF SearchSegments
  <1>5. free <= nodes /\ nodes \in Int
    <2>1. t.freeNodes[d][ct][n] \in Int
      BY DEF FleetInv, Shape
    <2>2. HeldFreeNodes(t, d, ct, n, who) \in Nat
      <3> DEFINE X == {l \in LeavesUnder[d] :
                         /\ ~ EligibleFor(t, l, who)
                         /\ ChipType[l] = ct /\ LeafChips[l] = n
                         /\ IsHealthy(t, l) /\ Ownerless(t, l)}
      <3>1. X \in SUBSET LeavesUnder[d] /\ IsFiniteSet(LeavesUnder[d])
        BY LeafFacts
      <3>2. HeldFreeNodes(t, d, ct, n, who) = Cardinality(X)
        BY DEF HeldFreeNodes
      <3> HIDE DEF X
      <3>. QED
        BY <3>1, <3>2, FS_Subset, FS_CardinalityType
    <2>3. free = nodes - HeldFreeNodes(t, d, ct, n, who)
      BY DEF FreeFor
    <2>. QED
      BY <2>1, <2>2, <2>3
  <1> HIDE DEF p, K, packed, free, nodes, per, chips
  <1>6. u \in Nat /\ u > 0
    BY <1>1
  <1>7. K * per * n = K * u
    BY <1>1, <1>2
  <1> HIDE DEF u
  <1>8. count \in Nat /\ chips = u * count
    <2>1. chips \div u \in Nat /\ chips = u * (chips \div u) + (chips % u)
      BY <1>1, <1>6, Division
    <2>2. u * count \in Nat
      BY <1>6, <2>1
    <2>. QED
      BY <1>3, <2>1, <2>2
  <1>9. count <= K
    <2> HIDE DEF count
    <2>1. count * u <= K * u
      <3>1. count * u = chips
        BY <1>6, <1>8
      <3>. QED
        BY <1>3, <1>7, <3>1
    <2>. QED
      BY <1>2, <1>6, <1>8, <2>1, Cancel
  <1>10. count > 0
    <2> HIDE DEF count
    <2>1. count # 0
      BY <1>1, <1>6, <1>8
    <2>. QED
      BY <1>8, <2>1
  <1>11. packed.got = count
    BY <1>1, <1>8, <1>9, AllPacked DEF packed, K, per
  <1> HIDE DEF count
  <1>12. count * per <= K * per /\ count * per \in Nat /\ count * per > 0 /\ K * per \in Nat
    <2>1. PICK k \in Nat : K = count + k
      <3>1. K - count \in Nat /\ K = count + (K - count)
        BY <1>2, <1>8, <1>9
      <3>. QED
        BY <3>1
    <2>2. K * per = count * per + k * per /\ k * per \in Nat /\ count * per \in Nat
      BY <1>1, <1>8, <2>1
    <2>3. count * per > 0
      BY <1>1, <1>8, <1>10
    <2>. QED
      BY <2>2, <2>3
  <1>13. ~ (free < count * per) /\ ~ (nodes <= 0)
    BY <1>2, <1>5, <1>12
  <1>14. p = RealizeAll(t, packed, ct, n, spec, who, count)
    BY <1>3, <1>4, <1>13
  <1>15. p = RealizeSegments(t, packed.given, ct, n, spec, who)
    BY <1>8, <1>11, <1>14 DEF RealizeAll
  <1>16. p.whole = TRUE
    <2>1. Realized(p, t, packed.given, ct, n, per, who)
      BY <1>15, RealizeIs DEF per
    <2>. QED
      BY <2>1 DEF Realized
  <1>17. NoFit.whole = FALSE
    BY DEF NoFit, Placement
  <1>. QED
    BY <1>16, <1>17 DEF p

\* The room for segments, as SearchComplete counts it.
RoomTable(t, d, ct, n, spec, who) ==
  [s \in {e \in Domain : Level[e] = spec.segmentLevel /\ d \in Above[e]} |->
     Cardinality({l \in LeavesUnder[s] :
       /\ ChipType[l] = ct /\ LeafChips[l] = n
       /\ FreeNode(t)[l] = 1 /\ EligibleFor(t, l, who)})
         \div spec.perSegment]

LEMMA RoomIsSegments ==
  ASSUME NEW t, NEW d, NEW ct, NEW n, NEW spec, NEW who
  PROVE  /\ RoomTable(t, d, ct, n, spec, who) = SegmentsIn(t, d, ct, n, spec, who)
         /\ DOMAIN RoomTable(t, d, ct, n, spec, who) = Under(spec, d)
  <1> DEFINE F(s) == {l \in LeavesUnder[s] :
                        /\ ChipType[l] = ct /\ LeafChips[l] = n
                        /\ FreeNode(t)[l] = 1 /\ EligibleFor(t, l, who)}
             segments == [s \in Under(spec, d) |-> Cardinality(F(s)) \div spec.perSegment]
  <1>1. \A s \in Under(spec, d) : F(s) = FreeIn(t, s, ct, n, who)
    <2> SUFFICES ASSUME NEW s \in Under(spec, d) PROVE F(s) = FreeIn(t, s, ct, n, who)
      OBVIOUS
    <2>1. \A l \in LeavesUnder[s] : FreeNode(t)[l] = 1 <=> IsHealthy(t, l) /\ Ownerless(t, l)
      BY LeafFacts DEF FreeNode, Under
    <2>. QED
      BY <2>1 DEF FreeIn
  <1> HIDE DEF F
  <1>2. segments = SegmentsIn(t, d, ct, n, spec, who)
    BY <1>1 DEF SegmentsIn
  <1>. QED
    BY <1>2 DEF F, Under, RoomTable

RoomFor(t, d, ct, n, spec, who) ==
  spec.chips <= Total(Under(spec, d), SegmentsIn(t, d, ct, n, spec, who))
                  * spec.perSegment * n

\* What the docstrings of the searches promise to find.
PossibleFit(t, spec, who) ==
  \E d \in DomainsFor(spec) : \E ct \in WantedTypes(spec, d) :
    IF spec.perSegment = 0
    THEN \/ CanShare(t, d, ct, spec.chips, who)
         \/ FillableBy(CanTake(t, d, ct, spec.chips, who), spec.chips)
    ELSE \E n \in Sizes : spec.chips % (spec.perSegment * n) = 0
                          /\ RoomFor(t, d, ct, n, spec, who)

LEMMA PossibleIsFound ==
  ASSUME NEW t, FleetInv(t), NEW spec \in Specs, NEW who, NEW mode, PossibleFit(t, spec, who)
  PROVE  Search(t, spec, who, mode) # NoFit
  <1>0. PICK d \in DomainsFor(spec) : \E ct \in WantedTypes(spec, d) :
          IF spec.perSegment = 0
          THEN \/ CanShare(t, d, ct, spec.chips, who)
               \/ FillableBy(CanTake(t, d, ct, spec.chips, who), spec.chips)
          ELSE \E n \in Sizes : spec.chips % (spec.perSegment * n) = 0
                                /\ RoomFor(t, d, ct, n, spec, who)
    BY Zenon DEF PossibleFit
  <1>1. PICK ct \in WantedTypes(spec, d) :
          IF spec.perSegment = 0
          THEN \/ CanShare(t, d, ct, spec.chips, who)
               \/ FillableBy(CanTake(t, d, ct, spec.chips, who), spec.chips)
          ELSE \E n \in Sizes : spec.chips % (spec.perSegment * n) = 0
                                /\ RoomFor(t, d, ct, n, spec, who)
    BY <1>0
  <1>2. d \in Domain
    BY DEF DomainsFor
  <1>3. ct \in Types
    BY <1>2, WantedFinite
  <1>4. spec.perSegment \in Nat
    BY TreeShape
  <1>5. AnswerOf(t, d, spec, who, mode) # NoFit
    <2>1. CASE spec.perSegment = 0
      <3>1. TypeAnswer(t, d, ct, spec, who, mode) # NoFit
        BY <1>1, <1>2, <1>3, <2>1, PlainFinds
      <3>2. SearchDomain(t, d, spec, who, mode) # NoFit
        BY <1>2, <3>1, DomainAnswer
      <3>. QED
        BY <2>1, <3>2 DEF AnswerOf
    <2>2. CASE spec.perSegment > 0
      <3>1. PICK n \in Sizes : spec.chips % (spec.perSegment * n) = 0
                               /\ RoomFor(t, d, ct, n, spec, who)
        BY <1>1, <2>2
      <3>2. SearchSegments(t, d, ct, n, spec, who) # NoFit
        BY <1>2, <1>3, <2>2, <3>1, SegmentsFound DEF RoomFor
      <3>3. SearchSegmentedDomain(t, d, spec, who) # NoFit
        BY <1>2, <3>2, SegmentedAnswer
      <3>. QED
        BY <2>2, <3>3 DEF AnswerOf
    <2>. QED
      BY <1>4, <2>1, <2>2
  <1>. QED
    BY <1>5, SearchAnswer

\* What first fit or the leaves themselves show to be possible, search finds in
\* every mode, as the docstrings claim: on divisor chains the greedy cover of
\* _scan_leaves misses nothing, elsewhere _scan_leaves_packed retries in the
\* order of first fit, and _pack_segments goes on while a domain has room.
THEOREM SearchesAreComplete == Spec => []SearchComplete
  <1>1. ASSUME FleetInv(tree), NEW spec \in Specs, NEW who \in Tenant
        PROVE  \A mode \in Modes :
                 PossibleFit(tree, spec, who) \/ Search(tree, spec, who, "first_fit") # NoFit
                   => Search(tree, spec, who, mode) # NoFit
    BY <1>1, PossibleIsFound, PackedSearches
  <1>2. IInv => SearchComplete
    <2> SUFFICES ASSUME FleetInv(tree), NEW spec \in Specs, NEW who \in Tenant
                 PROVE  LET plain == spec.perSegment = 0
                            Found(mode) == Search(tree, spec, who, mode) # NoFit
                            Fillable(d, ct) ==
                              LET free == CanTake(tree, d, ct, spec.chips, who)
                              IN  /\ Chain({LeafChips[l] : l \in free})
                                  /\ \E S \in SUBSET free : Total(S, LeafChips) = spec.chips
                            Room(d, ct, n) ==
                              LET segments == [s \in {e \in Domain : Level[e] = spec.segmentLevel
                                                                    /\ d \in Above[e]} |->
                                    Cardinality({l \in LeavesUnder[s] :
                                      /\ ChipType[l] = ct /\ LeafChips[l] = n
                                      /\ FreeNode(tree)[l] = 1 /\ EligibleFor(tree, l, who)})
                                        \div spec.perSegment]
                              IN  spec.chips <= Total(DOMAIN segments, segments) * spec.perSegment * n
                            Possible ==
                              \E d \in DomainsFor(spec) : \E ct \in WantedTypes(spec, d) :
                                IF plain THEN \/ CanShare(tree, d, ct, spec.chips, who)
                                              \/ Fillable(d, ct)
                                ELSE \E n \in Sizes : spec.chips % (spec.perSegment * n) = 0
                                                      /\ Room(d, ct, n)
                        IN  \A mode \in Modes : Possible \/ Found("first_fit") => Found(mode)
      BY Zenon DEF IInv, SearchComplete
    <2> DEFINE Fillable(d, ct) ==
                 LET free == CanTake(tree, d, ct, spec.chips, who)
                 IN  /\ Chain({LeafChips[l] : l \in free})
                     /\ \E S \in SUBSET free : Total(S, LeafChips) = spec.chips
               segments(d, ct, n) ==
                 [s \in {e \in Domain : Level[e] = spec.segmentLevel /\ d \in Above[e]} |->
                    Cardinality({l \in LeavesUnder[s] :
                      /\ ChipType[l] = ct /\ LeafChips[l] = n
                      /\ FreeNode(tree)[l] = 1 /\ EligibleFor(tree, l, who)})
                        \div spec.perSegment]
               Room(d, ct, n) ==
                 spec.chips <= Total(DOMAIN segments(d, ct, n), segments(d, ct, n))
                                 * spec.perSegment * n
               Possible ==
                 \E d \in DomainsFor(spec) : \E ct \in WantedTypes(spec, d) :
                   IF spec.perSegment = 0
                   THEN \/ CanShare(tree, d, ct, spec.chips, who) \/ Fillable(d, ct)
                   ELSE \E n \in Sizes : spec.chips % (spec.perSegment * n) = 0
                                         /\ Room(d, ct, n)
    <2>1. \A d, ct : Fillable(d, ct) <=>
                       FillableBy(CanTake(tree, d, ct, spec.chips, who), spec.chips)
      BY Zenon DEF FillableBy
    <2>2. ASSUME NEW d, NEW ct, NEW n
          PROVE  Room(d, ct, n) <=> RoomFor(tree, d, ct, n, spec, who)
      <3>1. /\ segments(d, ct, n) = SegmentsIn(tree, d, ct, n, spec, who)
            /\ DOMAIN segments(d, ct, n) = Under(spec, d)
        <4>1. segments(d, ct, n) = RoomTable(tree, d, ct, n, spec, who)
          BY Zenon DEF RoomTable
        <4> HIDE DEF segments
        <4>. QED
          BY <4>1, RoomIsSegments
      <3> HIDE DEF segments
      <3>. QED
        BY <3>1 DEF RoomFor
    <2> HIDE DEF Fillable, segments, Room
    <2>3. Possible => PossibleFit(tree, spec, who)
      BY Zenon, <2>1, <2>2 DEF PossibleFit
    <2>4. \A mode \in Modes :
            Possible \/ Search(tree, spec, who, "first_fit") # NoFit
              => Search(tree, spec, who, mode) # NoFit
      <3> HIDE DEF Possible
      <3>. QED
        BY <1>1, <2>3
    <2>. QED
      BY Zenon, <2>4 DEF Fillable, Room, segments
  <1>. QED
    BY <1>2, FleetInvHolds, PTL
=============================================================================
