----------------------------- MODULE MemoryProofs -----------------------------
(***************************************************************************)
(* Proofs about the memory of an inquiry (RetainedMemory) and about the    *)
(* saga that starts and links the children it measures (Reacquisition).    *)
(*                                                                         *)
(* RetainedMemory, for any registrations, queries, requests, links,        *)
(* measurements and comparisons.  Every committed state satisfies the      *)
(* validators, so the inductive invariant is Valid with the types the      *)
(* arguments need.  The work is in what the validators mean:               *)
(*   - costs are compared by cross multiplication, which orders the        *)
(*     fractions; so "no worse on any axis" is a preorder, a finite set of *)
(*     measurements has undominated ones below each of its members, and    *)
(*     the canonical order that picks the witnesses is total.  What        *)
(*     compare_recovery_frontiers computes from the points of two          *)
(*     frontiers is then what it says of the measurements themselves;      *)
(*   - the ranks of a retrieval, refined by the order of ids, are a total  *)
(*     order of the packages; so cutting off at the limit keeps the first  *)
(*     of them, and leaves one out only when all the kept ones precede it; *)
(*   - each validator reads a few collections only.  A record that decide  *)
(*     accepts is new in its own collection, and what the others say is    *)
(*     kept by every state that keeps or extends what they read.           *)
(*                                                                         *)
(* Reacquisition, for any number of parents, children, callers, crashes    *)
(* and commands of others.  The three commits of the saga are separate     *)
(* transactions, and what a call read may be stale when it appends.  The   *)
(* argument: a link and an observation are checked against the child       *)
(* stream in the transaction that appends them, streams only grow, and     *)
(* nothing in a parent is removed; so what was true of a prefix stays true *)
(* of it.  The manifest of the first event then decides whose child it is. *)
(***************************************************************************)
EXTENDS RetainedMemory, Reacquisition, FiniteSetTheorems, WellFoundedInduction, TLAPS

------------------------------------------------------------------------------
(* Costs: cross multiplication orders the fractions. *)

(* Two inequalities of fractions chain: each is multiplied by the other    *)
(* denominator, and the common one is cancelled.                           *)
LEMMA CrossMultiplied ==
    ASSUME NEW p \in Nat, NEW q \in Nat \ {0}, NEW r \in Nat, NEW s \in Nat \ {0},
           NEW t \in Nat, NEW u \in Nat \ {0},
           p * s <= r * q, r * u <= t * s
    PROVE  p * u <= t * q
<1>1. /\ p * s \in Int /\ r * q \in Int /\ r * u \in Int /\ t * s \in Int
      /\ p * u \in Int /\ t * q \in Int
  OBVIOUS
<1>2. (p * s) * u <= (r * q) * u
  BY <1>1
<1>3. (r * u) * q <= (t * s) * q
  BY <1>1
<1>4. (p * s) * u = (p * u) * s /\ (r * q) * u = (r * u) * q /\ (t * s) * q = (t * q) * s
  OBVIOUS
<1>5. (p * u) * s <= (t * q) * s
  BY <1>1, <1>2, <1>3, <1>4
<1>6. \A x, y \in Int : x * s <= y * s => x <= y
  OBVIOUS
<1> QED  BY <1>1, <1>5, <1>6

LEMMA NotCostlierTransitive ==
    ASSUME NEW a, NEW b, NEW c, IsCost(a), IsCost(b), IsCost(c),
           NotCostlier(a, b), NotCostlier(b, c)
    PROVE  NotCostlier(a, c)
<1>1. /\ a.n \in Nat /\ a.d \in Nat \ {0} /\ b.n \in Nat /\ b.d \in Nat \ {0}
      /\ c.n \in Nat /\ c.d \in Nat \ {0}
  BY DEF IsCost
<1>2. a.n * b.d <= b.n * a.d /\ b.n * c.d <= c.n * b.d
  BY <1>1 DEF NotCostlier, Cheaper
<1>3. a.n * c.d <= c.n * a.d
  BY <1>1, <1>2, CrossMultiplied
<1> QED  BY <1>1, <1>3 DEF NotCostlier, Cheaper

LEMMA NotCostlierConnected ==
    ASSUME NEW a, NEW b, IsCost(a), IsCost(b)
    PROVE  /\ NotCostlier(a, a)
           /\ NotCostlier(a, b) \/ NotCostlier(b, a)
           /\ Cheaper(a, b) => NotCostlier(a, b)
<1>1. a.n \in Nat /\ a.d \in Nat \ {0} /\ b.n \in Nat /\ b.d \in Nat \ {0}
  BY DEF IsCost
<1>2. a.n * b.d \in Int /\ b.n * a.d \in Int /\ a.n * a.d \in Int
  BY <1>1
<1> QED  BY <1>2 DEF NotCostlier, Cheaper

(* Vectors: no worse on any axis is a preorder. *)
NoWorseThan(u, v) == \A x \in DOMAIN u : NotCostlier(u[x], v[x])

LEMMA NoWorseReflexive ==
    ASSUME NEW u, IsCostVector(u)
    PROVE  NoWorseThan(u, u)
BY NotCostlierConnected DEF NoWorseThan, IsCostVector

LEMMA NoWorseTransitive ==
    ASSUME NEW u, NEW v, NEW w, IsCostVector(u), IsCostVector(v), IsCostVector(w),
           NoWorseThan(u, v), NoWorseThan(v, w)
    PROVE  NoWorseThan(u, w)
<1> SUFFICES ASSUME NEW x \in DOMAIN u
             PROVE  NotCostlier(u[x], w[x])
  BY DEF NoWorseThan
<1>1. x \in DOMAIN v /\ x \in DOMAIN w
  BY DEF IsCostVector
<1>2. IsCost(u[x]) /\ IsCost(v[x]) /\ IsCost(w[x])
  BY <1>1 DEF IsCostVector
<1>3. NotCostlier(u[x], v[x]) /\ NotCostlier(v[x], w[x])
  BY <1>1 DEF NoWorseThan
<1> QED  BY <1>2, <1>3, NotCostlierTransitive

LEMMA CompareDecides ==
    ASSUME NEW u, NEW v, DOMAIN u = DOMAIN v
    PROVE  /\ CompareCostVectors(u, v) = "equal" <=> NoWorseThan(u, v) /\ NoWorseThan(v, u)
           /\ CompareCostVectors(u, v) = "left_strictly_better"
                 <=> NoWorseThan(u, v) /\ ~ NoWorseThan(v, u)
<1>1. (\A x \in DOMAIN u : NotCostlier(v[x], u[x])) <=> NoWorseThan(v, u)
  BY DEF NoWorseThan
<1>2. (\A x \in DOMAIN u : NotCostlier(u[x], v[x])) <=> NoWorseThan(u, v)
  BY DEF NoWorseThan
<1>3. CompareCostVectors(u, v) =
         CASE NoWorseThan(u, v) /\ NoWorseThan(v, u) -> "equal"
           [] NoWorseThan(u, v) /\ ~ NoWorseThan(v, u) -> "left_strictly_better"
           [] ~ NoWorseThan(u, v) /\ NoWorseThan(v, u) -> "right_strictly_better"
           [] OTHER -> "incomparable"
  BY <1>1, <1>2 DEF CompareCostVectors
<1> HIDE DEF NoWorseThan, CompareCostVectors
<1> QED  BY <1>3

------------------------------------------------------------------------------
(* Finite orders. *)

(* A set of numbers with a member has a least one.                         *)
LEMMA LeastNatural ==
    ASSUME NEW T \in SUBSET Nat, NEW x \in T
    PROVE  \E n \in T : \A m \in T : n <= m
<1> DEFINE R == OpToRel(<, Nat)
<1>1. PICK n \in T : \A m \in T : <<m, n>> \notin R
  <2>1. IsWellFoundedOn(R, Nat)
    BY NatLessThanWellFounded
  <2> HIDE DEF R
  <2> QED  BY <2>1, WFMin
<1>2. \A m \in T : ~ (m < n)
  BY <1>1 DEF OpToRel
<1> QED  BY <1>2

(* What comes before an element of S in a strict order R, a set of pairs.  *)
Below(S, R, x) == {y \in S : <<y, x>> \in R}
StrictOrder(S, R) ==
    /\ \A x \in S : <<x, x>> \notin R
    /\ \A x, y, z \in S : <<x, y>> \in R /\ <<y, z>> \in R => <<x, z>> \in R
TotalOrder(S, R) ==
    /\ StrictOrder(S, R)
    /\ \A x, y \in S : x = y \/ <<x, y>> \in R \/ <<y, x>> \in R

(* Counting what comes before follows the order. *)
LEMMA BelowCounts ==
    ASSUME NEW S, NEW R, IsFiniteSet(S), StrictOrder(S, R), NEW x \in S
    PROVE  /\ IsFiniteSet(Below(S, R, x)) /\ Cardinality(Below(S, R, x)) \in Nat
           /\ \A y \in S : <<y, x>> \in R =>
                 Cardinality(Below(S, R, y)) < Cardinality(Below(S, R, x))
<1>1. \A y \in S : /\ Below(S, R, y) \in SUBSET S
                   /\ IsFiniteSet(Below(S, R, y)) /\ Cardinality(Below(S, R, y)) \in Nat
  <2> SUFFICES ASSUME NEW y \in S
               PROVE  /\ Below(S, R, y) \in SUBSET S
                      /\ IsFiniteSet(Below(S, R, y)) /\ Cardinality(Below(S, R, y)) \in Nat
    OBVIOUS
  <2>1. Below(S, R, y) \in SUBSET S
    BY DEF Below
  <2>2. IsFiniteSet(Below(S, R, y))
    BY <2>1, FS_Subset
  <2> QED  BY <2>1, <2>2, FS_CardinalityType
<1>2. ASSUME NEW y \in S, <<y, x>> \in R
      PROVE  Cardinality(Below(S, R, y)) < Cardinality(Below(S, R, x))
  <2>1. Below(S, R, y) \in SUBSET Below(S, R, x)
    BY <1>2 DEF Below, StrictOrder
  <2>2. Below(S, R, y) # Below(S, R, x)
    BY <1>2 DEF Below, StrictOrder
  <2>3. /\ Cardinality(Below(S, R, y)) <= Cardinality(Below(S, R, x))
        /\ Cardinality(Below(S, R, x)) # Cardinality(Below(S, R, y))
    BY <1>1, <2>1, <2>2, FS_Subset
  <2>4. Cardinality(Below(S, R, x)) \in Nat /\ Cardinality(Below(S, R, y)) \in Nat
    BY <1>1
  <2> QED  BY <2>3, <2>4
<1> QED  BY <1>1, <1>2

LEMMA MinimalElement ==
    ASSUME NEW S, NEW R, IsFiniteSet(S), StrictOrder(S, R), NEW x \in S
    PROVE  \E m \in S : \A y \in S : <<y, m>> \notin R
<1> DEFINE T == {Cardinality(Below(S, R, y)) : y \in S}
<1>1. T \in SUBSET Nat /\ Cardinality(Below(S, R, x)) \in T
  BY BelowCounts
<1>2. PICK n \in T : \A k \in T : n <= k
  <2> HIDE DEF T
  <2> QED  BY <1>1, LeastNatural
<1>3. PICK m \in S : n = Cardinality(Below(S, R, m))
  BY <1>2
<1>4. ASSUME NEW y \in S, <<y, m>> \in R  PROVE FALSE
  <2>1. Cardinality(Below(S, R, y)) < n
    BY <1>3, <1>4, BelowCounts
  <2>2. n <= Cardinality(Below(S, R, y)) /\ Cardinality(Below(S, R, y)) \in T
    BY <1>2
  <2>3. n \in Nat /\ Cardinality(Below(S, R, y)) \in Nat
    BY <1>1, <2>2
  <2> QED  BY <2>1, <2>2, <2>3
<1> QED  BY <1>4

(* The elements with fewer than limit before them are the first limit ones *)
(* of the order: all of them, or exactly that many.                        *)
First(S, R, limit) == {x \in S : Cardinality(Below(S, R, x)) < limit}
LEMMA FirstOfOrder ==
    ASSUME NEW S, NEW R, IsFiniteSet(S), TotalOrder(S, R), NEW limit \in Nat
    PROVE  /\ IsFiniteSet(First(S, R, limit)) /\ Cardinality(First(S, R, limit)) <= limit
           /\ \A x \in S \ First(S, R, limit) :
                 /\ Cardinality(First(S, R, limit)) = limit
                 /\ \A h \in First(S, R, limit) : <<h, x>> \in R
<1> DEFINE H == First(S, R, limit)
           f == [x \in H |-> Cardinality(Below(S, R, x))]
<1>1. StrictOrder(S, R)
  BY DEF TotalOrder
<1>2. \A x \in S : Cardinality(Below(S, R, x)) \in Nat
  BY <1>1, BelowCounts
<1>3. H \in SUBSET S
  BY DEF First
<1>4. f \in Injection(H, 0 .. (limit - 1))
  <2>1. f \in [H -> 0 .. (limit - 1)]
    BY <1>2, <1>3 DEF First
  <2>2. ASSUME NEW x \in H, NEW y \in H, f[x] = f[y]  PROVE x = y
    <3>1. x \in S /\ y \in S
      BY <1>3
    <3>2. Cardinality(Below(S, R, x)) = Cardinality(Below(S, R, y))
      BY <2>2
    <3>3. <<x, y>> \notin R /\ <<y, x>> \notin R
      BY <1>1, <1>2, <3>1, <3>2, BelowCounts
    <3> QED  BY <3>1, <3>3 DEF TotalOrder
  <2> HIDE DEF f, H
  <2> QED  BY <2>1, <2>2, Zenon DEF Injection, IsInjective
<1>5. IsFiniteSet(0 .. (limit - 1)) /\ Cardinality(0 .. (limit - 1)) = limit
  <2>1. 0 \in Int /\ limit - 1 \in Int
    OBVIOUS
  <2>2. IsFiniteSet(0 .. (limit - 1)) /\ Cardinality(0 .. (limit - 1)) =
           IF 0 > limit - 1 THEN 0 ELSE (limit - 1) - 0 + 1
    BY <2>1, FS_Interval
  <2> QED  BY <2>2
<1>6. IsFiniteSet(H) /\ Cardinality(H) <= limit /\ Cardinality(H) \in Nat
  <2>1. IsFiniteSet(H) /\ Cardinality(H) <= Cardinality(0 .. (limit - 1))
    <3> HIDE DEF f, H
    <3> QED  BY <1>4, <1>5, FS_Injection
  <2> HIDE DEF f, H
  <2> QED  BY <2>1, <1>5, FS_CardinalityType
<1>7. ASSUME NEW x \in S \ H
      PROVE  Cardinality(H) = limit /\ \A h \in H : <<h, x>> \in R
  <2>1. \A y \in S \ H : Cardinality(Below(S, R, y)) >= limit
    BY <1>2 DEF First
  <2>2. ASSUME NEW h \in H  PROVE <<h, x>> \in R
    <3>1. Cardinality(Below(S, R, h)) < Cardinality(Below(S, R, x)) /\ h \in S /\ x \in S
      BY <1>2, <1>3, <2>1 DEF First
    <3>2. <<x, h>> \notin R
      <4>1. SUFFICES ASSUME <<x, h>> \in R  PROVE FALSE
        OBVIOUS
      <4>2. Cardinality(Below(S, R, x)) < Cardinality(Below(S, R, h))
        BY <1>1, <3>1, <4>1, BelowCounts
      <4> QED  BY <1>2, <3>1, <4>2
    <3>3. x # h
      OBVIOUS
    <3> QED  BY <3>1, <3>2, <3>3 DEF TotalOrder
  <2>3. PICK m \in S \ H : \A y \in S \ H : <<y, m>> \notin R
    <3>1. S \ H \in SUBSET S
      OBVIOUS
    <3>2. IsFiniteSet(S \ H)
      <4> HIDE DEF H
      <4> QED  BY <3>1, FS_Subset
    <3>3. StrictOrder(S \ H, R)
      BY <1>1 DEF StrictOrder
    <3> HIDE DEF H
    <3> QED  BY <3>2, <3>3, MinimalElement
  <2>4. Below(S, R, m) \in SUBSET H
    BY <2>3 DEF Below
  <2>5. Cardinality(Below(S, R, m)) <= Cardinality(H)
    <3> HIDE DEF H
    <3> QED  BY <1>6, <2>4, FS_Subset
  <2>6. Cardinality(H) = limit
    <3>1. Cardinality(Below(S, R, m)) \in Nat /\ Cardinality(Below(S, R, m)) >= limit
      BY <1>2, <2>1
    <3> HIDE DEF H
    <3> QED  BY <1>6, <2>5, <3>1
  <2> QED  BY <2>2, <2>6
<1> QED  BY <1>6, <1>7

------------------------------------------------------------------------------
(* Frontiers: the points of a frontier are the cost vectors of successful  *)
(* observations that no successful observation is better than.             *)

Measurable(O) ==
    /\ IsFiniteSet(O)
    /\ \A x \in O : IsCostVector(x.costs) /\ x.id \in DOMAIN ObservationOrder
    /\ \A x, y \in O : x.id = y.id => x = y
Successes(O) == {x \in O : x.competent}
BetterThan(u, v) == NoWorseThan(u, v) /\ ~ NoWorseThan(v, u)
AsCheap(u, v) == NoWorseThan(u, v) /\ NoWorseThan(v, u)
Undominated(O, x) ==
    x \in Successes(O) /\ \A y \in Successes(O) : ~ BetterThan(y.costs, x.costs)
PointOf(x) == [id |-> x.id, costs |-> x.costs]

LEMMA BetterIsStrict ==
    ASSUME NEW u, NEW v, NEW w, IsCostVector(u), IsCostVector(v), IsCostVector(w)
    PROVE  /\ ~ BetterThan(u, u)
           /\ BetterThan(u, v) /\ NoWorseThan(v, w) => BetterThan(u, w)
           /\ NoWorseThan(u, v) /\ BetterThan(v, w) => BetterThan(u, w)
<1>1. BetterThan(u, v) /\ NoWorseThan(v, w) => BetterThan(u, w)
  BY NoWorseTransitive, Zenon DEF BetterThan
<1>2. NoWorseThan(u, v) /\ BetterThan(v, w) => BetterThan(u, w)
  BY NoWorseTransitive, Zenon DEF BetterThan
<1> QED  BY <1>1, <1>2 DEF BetterThan

(* Whatever was achieved was achieved as cheaply or cheaper by an          *)
(* observation that none is better than.                                   *)
LEMMA SomeUndominated ==
    ASSUME NEW O, Measurable(O), NEW x \in Successes(O)
    PROVE  \E m \in Successes(O) : NoWorseThan(m.costs, x.costs) /\ Undominated(O, m)
<1> DEFINE S == {y \in Successes(O) : NoWorseThan(y.costs, x.costs)}
           R == {t \in S \X S : BetterThan(t[1].costs, t[2].costs)}
<1>1. \A y \in Successes(O) : IsCostVector(y.costs)
  BY DEF Measurable, Successes
<1>2. S \in SUBSET O
  BY DEF Successes
<1>3. IsFiniteSet(S)
  <2>1. IsFiniteSet(O)
    BY DEF Measurable
  <2> HIDE DEF S
  <2> QED  BY <1>2, <2>1, FS_Subset
<1>4. \A a, b \in S : <<a, b>> \in R <=> BetterThan(a.costs, b.costs)
  OBVIOUS
<1>5. \A a \in S : a \in Successes(O) /\ NoWorseThan(a.costs, x.costs)
  OBVIOUS
<1>6. x \in S
  BY <1>1, NoWorseReflexive
<1>7. \A y \in Successes(O) : NoWorseThan(y.costs, x.costs) => y \in S
  OBVIOUS
<1> HIDE DEF S, R
<1>8. StrictOrder(S, R)
  <2>1. \A a \in S : <<a, a>> \notin R
    BY <1>1, <1>4, <1>5, BetterIsStrict
  <2>2. ASSUME NEW a \in S, NEW b \in S, NEW c \in S, <<a, b>> \in R, <<b, c>> \in R
        PROVE  <<a, c>> \in R
    <3>1. BetterThan(a.costs, b.costs) /\ BetterThan(b.costs, c.costs)
      BY <1>4, <2>2
    <3>2. IsCostVector(a.costs) /\ IsCostVector(b.costs) /\ IsCostVector(c.costs)
      BY <1>1, <1>5
    <3>3. NoWorseThan(b.costs, c.costs)
      BY <3>1 DEF BetterThan
    <3>4. BetterThan(a.costs, c.costs)
      BY <3>1, <3>2, <3>3, BetterIsStrict
    <3> QED  BY <1>4, <3>4
  <2> QED  BY <2>1, <2>2 DEF StrictOrder
<1>9. PICK m \in S : \A y \in S : <<y, m>> \notin R
  BY <1>3, <1>6, <1>8, MinimalElement
<1>10. ASSUME NEW y \in Successes(O), BetterThan(y.costs, m.costs)  PROVE FALSE
  <2>1. NoWorseThan(y.costs, m.costs) /\ NoWorseThan(m.costs, x.costs)
    BY <1>5, <1>10 DEF BetterThan
  <2>2. IsCostVector(y.costs) /\ IsCostVector(m.costs) /\ IsCostVector(x.costs)
    BY <1>1, <1>5
  <2>3. y \in S
    BY <1>7, <2>1, <2>2, NoWorseTransitive
  <2> QED  BY <1>4, <1>9, <1>10, <2>3
<1> QED  BY <1>5, <1>10 DEF Undominated

LEMMA UniquePointsAre ==
    ASSUME NEW O, Measurable(O)
    PROVE  /\ \A p \in UniquePoints(O) : \E x \in Successes(O) : p = PointOf(x)
           /\ \A x \in Successes(O) :
                 (\A y \in Successes(O) : AsCheap(x.costs, y.costs)
                     => ObservationOrder[x.id] <= ObservationOrder[y.id])
                 => PointOf(x) \in UniquePoints(O)
           /\ \A x, y \in Successes(O) :
                 /\ CompareCostVectors(x.costs, y.costs) = "equal" <=> AsCheap(x.costs, y.costs)
                 /\ CompareCostVectors(x.costs, y.costs) = "left_strictly_better"
                       <=> BetterThan(x.costs, y.costs)
<1>1. \A x, y \in Successes(O) : DOMAIN x.costs = DOMAIN y.costs
  BY DEF Measurable, IsCostVector, Successes
<1>2. \A x, y \in Successes(O) :
         /\ CompareCostVectors(x.costs, y.costs) = "equal" <=> AsCheap(x.costs, y.costs)
         /\ CompareCostVectors(x.costs, y.costs) = "left_strictly_better"
               <=> BetterThan(x.costs, y.costs)
  BY <1>1, CompareDecides DEF AsCheap, BetterThan
<1>3. \A p \in UniquePoints(O) : \E x \in Successes(O) : p = PointOf(x)
  BY DEF UniquePoints, PointOf, Successes
<1>4. ASSUME NEW x \in Successes(O),
             \A y \in Successes(O) : AsCheap(x.costs, y.costs)
                => ObservationOrder[x.id] <= ObservationOrder[y.id]
      PROVE  PointOf(x) \in UniquePoints(O)
  <2>1. \A y \in O : y.competent /\ CompareCostVectors(x.costs, y.costs) = "equal"
                        => ObservationOrder[x.id] <= ObservationOrder[y.id]
    BY <1>2, <1>4 DEF Successes
  <2> QED  BY <2>1 DEF UniquePoints, PointOf, Successes
<1> QED  BY <1>2, <1>3, <1>4

(* An undominated observation has a point in the frontier, its own or that *)
(* of an observation as cheap with a lower id.                             *)
LEMMA UndominatedHasPoint ==
    ASSUME NEW O, Measurable(O), NEW x, Undominated(O, x)
    PROVE  \E p \in RecoveryPoints(O) : AsCheap(p.costs, x.costs)
<1> DEFINE E == {y \in Successes(O) : AsCheap(y.costs, x.costs)}
           T == {ObservationOrder[y.id] : y \in E}
<1>1. \A y \in Successes(O) : IsCostVector(y.costs) /\ ObservationOrder[y.id] \in Nat
  BY OrderAssumption DEF Measurable, Successes
<1>2. x \in Successes(O)
  BY DEF Undominated
<1>3. x \in E
  BY <1>1, <1>2, NoWorseReflexive DEF AsCheap
<1>4. T \in SUBSET Nat /\ ObservationOrder[x.id] \in T
  BY <1>1, <1>3
<1>5. PICK n \in T : \A k \in T : n <= k
  <2> HIDE DEF T
  <2> QED  BY <1>4, LeastNatural
<1>6. PICK m \in E : n = ObservationOrder[m.id]
  BY <1>5
<1>7. m \in Successes(O) /\ AsCheap(m.costs, x.costs)
  BY <1>6
<1>8. ASSUME NEW y \in Successes(O), AsCheap(m.costs, y.costs)
      PROVE  ObservationOrder[m.id] <= ObservationOrder[y.id]
  <2>1. IsCostVector(m.costs) /\ IsCostVector(y.costs) /\ IsCostVector(x.costs)
    BY <1>1, <1>2, <1>7
  <2>2. AsCheap(y.costs, x.costs)
    BY <1>7, <1>8, <2>1, NoWorseTransitive DEF AsCheap
  <2> QED  BY <1>5, <1>6, <2>2
<1> HIDE DEF E, T
<1>9. PointOf(m) \in UniquePoints(O)
  BY <1>7, <1>8, UniquePointsAre
<1>10. ASSUME NEW q \in UniquePoints(O),
              CompareCostVectors(q.costs, PointOf(m).costs) = "left_strictly_better"
       PROVE  FALSE
  <2>1. PICK z \in Successes(O) : q = PointOf(z)
    BY UniquePointsAre
  <2>2. BetterThan(z.costs, m.costs)
    BY <1>7, <1>10, <2>1, UniquePointsAre DEF PointOf
  <2>3. IsCostVector(m.costs) /\ IsCostVector(z.costs) /\ IsCostVector(x.costs)
    BY <1>1, <1>2, <1>7
  <2>4. BetterThan(z.costs, x.costs)
    BY <1>7, <2>2, <2>3, BetterIsStrict DEF AsCheap
  <2> QED  BY <2>4 DEF Undominated
<1>11. PointOf(m) \in RecoveryPoints(O)
  BY <1>9, <1>10 DEF RecoveryPoints
<1> QED  BY <1>7, <1>11 DEF PointOf

LEMMA PointIsUndominated ==
    ASSUME NEW O, Measurable(O), NEW p \in RecoveryPoints(O)
    PROVE  \E x \in Successes(O) : p = PointOf(x) /\ Undominated(O, x)
<1>1. PICK x \in Successes(O) : p = PointOf(x)
  BY UniquePointsAre DEF RecoveryPoints
<1>2. \A y \in Successes(O) : IsCostVector(y.costs)
  BY DEF Measurable, Successes
<1>3. ASSUME NEW y \in Successes(O), BetterThan(y.costs, x.costs)  PROVE FALSE
  <2>1. PICK m \in Successes(O) : NoWorseThan(m.costs, y.costs) /\ Undominated(O, m)
    BY SomeUndominated
  <2>2. PICK q \in RecoveryPoints(O) : AsCheap(q.costs, m.costs)
    BY <2>1, UndominatedHasPoint
  <2>3. PICK z \in Successes(O) : q = PointOf(z)
    BY UniquePointsAre DEF RecoveryPoints
  <2>4. NoWorseThan(z.costs, m.costs)
    BY <2>2, <2>3 DEF AsCheap, PointOf
  <2>5. NoWorseThan(z.costs, y.costs)
    BY <1>2, <2>1, <2>4, NoWorseTransitive
  <2>6. BetterThan(z.costs, x.costs)
    BY <1>2, <1>3, <2>5, BetterIsStrict
  <2>7. CompareCostVectors(q.costs, p.costs) = "left_strictly_better"
    BY <1>1, <2>3, <2>6, UniquePointsAre DEF PointOf
  <2> QED  BY <2>2, <2>7 DEF RecoveryPoints
<1> QED  BY <1>1, <1>3 DEF Undominated

------------------------------------------------------------------------------
(* The canonical order of points, and the witness of a baseline point. *)

SameCost(a, b) == NotCostlier(a, b) /\ NotCostlier(b, a)

LEMMA CostLaws ==
    ASSUME NEW a, NEW b, NEW c, IsCost(a), IsCost(b), IsCost(c)
    PROVE  /\ SameCost(a, a) /\ ~ Cheaper(a, a)
           /\ SameCost(a, b) \/ Cheaper(a, b) \/ Cheaper(b, a)
           /\ SameCost(a, b) => SameCost(b, a) /\ ~ Cheaper(a, b)
           /\ SameCost(a, b) /\ SameCost(b, c) => SameCost(a, c)
           /\ SameCost(a, b) /\ Cheaper(b, c) => Cheaper(a, c)
           /\ Cheaper(a, b) /\ SameCost(b, c) => Cheaper(a, c)
           /\ Cheaper(a, b) /\ Cheaper(b, c) => Cheaper(a, c)
<1>1. /\ NotCostlier(a, a) /\ (NotCostlier(a, b) \/ NotCostlier(b, a))
      /\ Cheaper(a, b) => NotCostlier(a, b)
  BY NotCostlierConnected
<1>2. /\ NotCostlier(a, b) /\ NotCostlier(b, c) => NotCostlier(a, c)
      /\ NotCostlier(c, b) /\ NotCostlier(b, a) => NotCostlier(c, a)
      /\ NotCostlier(c, a) /\ NotCostlier(a, b) => NotCostlier(c, b)
      /\ NotCostlier(b, c) /\ NotCostlier(c, a) => NotCostlier(b, a)
  BY NotCostlierTransitive
<1>3. /\ \A x, y \in {a, b, c} : Cheaper(x, y) <=> ~ NotCostlier(y, x)
  BY DEF NotCostlier
<1>4. Cheaper(b, c) => NotCostlier(b, c)
  BY NotCostlierConnected
<1> HIDE DEF NotCostlier, Cheaper
<1> QED  BY <1>1, <1>2, <1>3, <1>4 DEF SameCost

(* Precedes, axis by axis: the first axis on which the points differ       *)
(* decides, and their ids when there is none.                              *)
LexBefore(p, q) ==
    \/ /\ \A i \in DOMAIN Axes : SameCost(p.costs[Axes[i]], q.costs[Axes[i]])
       /\ ObservationOrder[p.id] < ObservationOrder[q.id]
    \/ \E i \in DOMAIN Axes :
          /\ Cheaper(p.costs[Axes[i]], q.costs[Axes[i]])
          /\ \A j \in DOMAIN Axes : j < i => SameCost(p.costs[Axes[j]], q.costs[Axes[j]])

LEMMA PrecedesIsLexicographic ==
    ASSUME NEW p, NEW q, IsCostVector(p.costs), IsCostVector(q.costs)
    PROVE  Precedes(p, q) <=> LexBefore(p, q)
<1> DEFINE Same(i) == SameCost(p.costs[Axes[i]], q.costs[Axes[i]])
           Less(i) == Cheaper(p.costs[Axes[i]], q.costs[Axes[i]])
           D == {i \in DOMAIN Axes : ~ Same(i)}
<1>1. ASSUME NEW i \in DOMAIN Axes
      PROVE  CompareCostVectors([x \in {Axes[i]} |-> p.costs[x]],
                                [x \in {Axes[i]} |-> q.costs[x]]) = "equal" <=> Same(i)
  <2> DEFINE u == [x \in {Axes[i]} |-> p.costs[x]]
             v == [x \in {Axes[i]} |-> q.costs[x]]
  <2>1. DOMAIN u = {Axes[i]} /\ DOMAIN v = {Axes[i]}
        /\ u[Axes[i]] = p.costs[Axes[i]] /\ v[Axes[i]] = q.costs[Axes[i]]
    OBVIOUS
  <2>2. NoWorseThan(u, v) /\ NoWorseThan(v, u) <=> Same(i)
    <3> HIDE DEF u, v
    <3> QED  BY <2>1 DEF NoWorseThan, SameCost
  <2> HIDE DEF u, v, Same
  <2>3. CompareCostVectors(u, v) = "equal" <=> Same(i)
    BY <2>1, <2>2, CompareDecides
  <2> QED  BY <2>3 DEF u, v
<1>2. {i \in DOMAIN Axes : CompareCostVectors([x \in {Axes[i]} |-> p.costs[x]],
          [x \in {Axes[i]} |-> q.costs[x]]) # "equal"} = D
  BY <1>1
<1>3. Precedes(p, q) <=> IF D = {} THEN ObservationOrder[p.id] < ObservationOrder[q.id]
                         ELSE \E i \in D : (\A j \in D : i <= j) /\ Less(i)
  BY <1>2 DEF Precedes
<1>4. \A i \in DOMAIN Axes : i \in Nat /\ (Less(i) => ~ Same(i))
  <2>1. \A i \in DOMAIN Axes : IsCost(p.costs[Axes[i]]) /\ IsCost(q.costs[Axes[i]])
    BY DEF IsCostVector
  <2> QED  BY <2>1, CostLaws, OrderAssumption
<1>5. LexBefore(p, q) <=>
         \/ (\A i \in DOMAIN Axes : Same(i)) /\ ObservationOrder[p.id] < ObservationOrder[q.id]
         \/ \E i \in DOMAIN Axes : Less(i) /\ \A j \in DOMAIN Axes : j < i => Same(j)
  BY DEF LexBefore
<1>6. D = {} <=> \A i \in DOMAIN Axes : Same(i)
  OBVIOUS
<1>7. (\E i \in D : (\A j \in D : i <= j) /\ Less(i))
         <=> \E i \in DOMAIN Axes : Less(i) /\ \A j \in DOMAIN Axes : j < i => Same(j)
  <2>1. \A i \in DOMAIN Axes : i \in D <=> ~ Same(i)
    OBVIOUS
  <2>2. \A i \in D : i \in DOMAIN Axes
    OBVIOUS
  <2> HIDE DEF Same, Less, D
  <2>3. ASSUME NEW i \in DOMAIN Axes
        PROVE  (\A j \in D : i <= j) <=> \A j \in DOMAIN Axes : j < i => Same(j)
    BY <1>4, <2>1, <2>2
  <2> QED  BY <1>4, <2>1, <2>2, <2>3
<1> HIDE DEF Same, Less, D
<1> QED  BY <1>3, <1>4, <1>5, <1>6, <1>7

LEMMA LexTransitive ==
    ASSUME NEW p, NEW q, NEW s,
           IsCostVector(p.costs), IsCostVector(q.costs), IsCostVector(s.costs),
           ObservationOrder[p.id] \in Nat, ObservationOrder[q.id] \in Nat,
           ObservationOrder[s.id] \in Nat,
           LexBefore(p, q), LexBefore(q, s)
    PROVE  LexBefore(p, s)
<1> DEFINE P(i) == p.costs[Axes[i]]
           Q(i) == q.costs[Axes[i]]
           S(i) == s.costs[Axes[i]]
           I == DOMAIN Axes
<1>1. \A i \in I : IsCost(P(i)) /\ IsCost(Q(i)) /\ IsCost(S(i))
  BY DEF IsCostVector
<1>2. \A i \in I : i \in Nat
  BY OrderAssumption
<1>3. \A i \in I :
         /\ SameCost(P(i), Q(i)) /\ SameCost(Q(i), S(i)) => SameCost(P(i), S(i))
         /\ SameCost(P(i), Q(i)) /\ Cheaper(Q(i), S(i)) => Cheaper(P(i), S(i))
         /\ Cheaper(P(i), Q(i)) /\ SameCost(Q(i), S(i)) => Cheaper(P(i), S(i))
         /\ Cheaper(P(i), Q(i)) /\ Cheaper(Q(i), S(i)) => Cheaper(P(i), S(i))
  <2> HIDE DEF P, Q, S
  <2> QED  BY <1>1, CostLaws
<1>4. /\ LexBefore(p, q) <=>
            \/ /\ \A i \in I : SameCost(P(i), Q(i))
               /\ ObservationOrder[p.id] < ObservationOrder[q.id]
            \/ \E i \in I : /\ Cheaper(P(i), Q(i))
                            /\ \A j \in I : j < i => SameCost(P(j), Q(j))
      /\ LexBefore(q, s) <=>
            \/ /\ \A i \in I : SameCost(Q(i), S(i))
               /\ ObservationOrder[q.id] < ObservationOrder[s.id]
            \/ \E i \in I : /\ Cheaper(Q(i), S(i))
                            /\ \A j \in I : j < i => SameCost(Q(j), S(j))
      /\ LexBefore(p, s) <=>
            \/ /\ \A i \in I : SameCost(P(i), S(i))
               /\ ObservationOrder[p.id] < ObservationOrder[s.id]
            \/ \E i \in I : /\ Cheaper(P(i), S(i))
                            /\ \A j \in I : j < i => SameCost(P(j), S(j))
  BY DEF LexBefore
<1> HIDE DEF P, Q, S, I
<1>5. CASE /\ \A i \in I : SameCost(P(i), Q(i))
           /\ ObservationOrder[p.id] < ObservationOrder[q.id]
  <2>1. CASE /\ \A i \in I : SameCost(Q(i), S(i))
             /\ ObservationOrder[q.id] < ObservationOrder[s.id]
    <3>1. ObservationOrder[p.id] < ObservationOrder[s.id]
      BY <1>5, <2>1
    <3> QED  BY <1>3, <1>4, <1>5, <2>1, <3>1
  <2>2. CASE \E i \in I : /\ Cheaper(Q(i), S(i))
                          /\ \A j \in I : j < i => SameCost(Q(j), S(j))
    BY <1>3, <1>4, <1>5, <2>2
  <2> QED  BY <1>4, <2>1, <2>2
<1>6. CASE \E i \in I : /\ Cheaper(P(i), Q(i))
                        /\ \A j \in I : j < i => SameCost(P(j), Q(j))
  <2>1. PICK i \in I : Cheaper(P(i), Q(i)) /\ \A j \in I : j < i => SameCost(P(j), Q(j))
    BY <1>6
  <2>2. CASE \A k \in I : SameCost(Q(k), S(k))
    BY <1>3, <1>4, <2>1, <2>2
  <2>3. CASE \E k \in I : /\ Cheaper(Q(k), S(k))
                          /\ \A j \in I : j < k => SameCost(Q(j), S(j))
    <3>1. PICK k \in I : Cheaper(Q(k), S(k)) /\ \A j \in I : j < k => SameCost(Q(j), S(j))
      BY <2>3
    <3>2. i < k \/ i = k \/ k < i
      BY <1>2
    <3>3. \A j \in I : j < i /\ j < k => SameCost(P(j), S(j))
      BY <1>3, <2>1, <3>1
    <3>4. CASE i < k
      <4>1. Cheaper(P(i), S(i))
        BY <1>3, <2>1, <3>1, <3>4
      <4>2. \A j \in I : j < i => j < k
        BY <1>2, <3>4
      <4> QED  BY <1>4, <3>3, <4>1, <4>2
    <3>5. CASE i = k
      <4>1. Cheaper(P(i), S(i))
        BY <1>3, <2>1, <3>1, <3>5
      <4> QED  BY <1>4, <3>3, <3>5, <4>1
    <3>6. CASE k < i
      <4>1. Cheaper(P(k), S(k))
        BY <1>3, <2>1, <3>1, <3>6
      <4>2. \A j \in I : j < k => j < i
        BY <1>2, <3>6
      <4> QED  BY <1>4, <3>3, <4>1, <4>2
    <3> QED  BY <3>2, <3>4, <3>5, <3>6
  <2> QED  BY <1>4, <2>2, <2>3
<1> QED  BY <1>4, <1>5, <1>6

LEMMA LexConnected ==
    ASSUME NEW p, NEW q, IsCostVector(p.costs), IsCostVector(q.costs),
           p.id \in DOMAIN ObservationOrder, q.id \in DOMAIN ObservationOrder
    PROVE  /\ ~ LexBefore(p, p)
           /\ p.id # q.id => LexBefore(p, q) \/ LexBefore(q, p)
           /\ NoWorseThan(q.costs, p.costs) /\ ~ NoWorseThan(p.costs, q.costs)
                 => ~ LexBefore(p, q)
<1> DEFINE P(i) == p.costs[Axes[i]]
           Q(i) == q.costs[Axes[i]]
           I == DOMAIN Axes
<1>1. \A i \in I : IsCost(P(i)) /\ IsCost(Q(i))
  BY DEF IsCostVector
<1>2. \A i \in I : i \in Nat
  BY OrderAssumption
<1>3. /\ ObservationOrder[p.id] \in Nat /\ ObservationOrder[q.id] \in Nat
      /\ p.id # q.id => ObservationOrder[p.id] # ObservationOrder[q.id]
  BY OrderAssumption
<1>4. \A i \in I : /\ ~ Cheaper(P(i), P(i))
                   /\ SameCost(P(i), Q(i)) \/ Cheaper(P(i), Q(i)) \/ Cheaper(Q(i), P(i))
                   /\ SameCost(P(i), Q(i)) => SameCost(Q(i), P(i))
  <2> HIDE DEF P, Q
  <2> QED  BY <1>1, CostLaws
<1>5. ~ LexBefore(p, p)
  BY <1>3, <1>4 DEF LexBefore
<1>6. ASSUME p.id # q.id  PROVE LexBefore(p, q) \/ LexBefore(q, p)
  <2>1. CASE \A i \in I : SameCost(P(i), Q(i))
    <3>1. ObservationOrder[p.id] < ObservationOrder[q.id]
             \/ ObservationOrder[q.id] < ObservationOrder[p.id]
      BY <1>3, <1>6
    <3> QED  BY <1>4, <2>1, <3>1 DEF LexBefore
  <2>2. CASE \E i \in I : ~ SameCost(P(i), Q(i))
    <3> DEFINE T == {i \in I : ~ SameCost(P(i), Q(i))}
    <3>1. PICK i \in I : i \in T
      BY <2>2
    <3>2. T \in SUBSET Nat
      BY <1>2
    <3>3. PICK k \in T : \A j \in T : k <= j
      <4> HIDE DEF T
      <4> QED  BY <3>1, <3>2, LeastNatural
    <3>4. \A j \in I : j < k => SameCost(P(j), Q(j))
      BY <1>2, <3>3
    <3>5. k \in I /\ (Cheaper(P(k), Q(k)) \/ Cheaper(Q(k), P(k)))
      BY <1>4, <3>3
    <3> QED  BY <1>4, <3>4, <3>5 DEF LexBefore
  <2> QED  BY <2>1, <2>2
<1>7. ASSUME NoWorseThan(q.costs, p.costs), ~ NoWorseThan(p.costs, q.costs), LexBefore(p, q)
      PROVE  FALSE
  <2>1. \A i \in I : NotCostlier(Q(i), P(i))
    BY <1>7 DEF NoWorseThan, IsCostVector
  <2>2. \A i \in I : ~ Cheaper(P(i), Q(i))
    BY <2>1 DEF NotCostlier
  <2>3. \A i \in I : SameCost(P(i), Q(i))
    BY <1>7, <2>2 DEF LexBefore
  <2>4. NoWorseThan(p.costs, q.costs)
    BY <2>3 DEF NoWorseThan, IsCostVector, SameCost
  <2> QED  BY <1>7, <2>4
<1> QED  BY <1>5, <1>6, <1>7

(* A retained frontier that covers a baseline point has a first such       *)
(* point, the witness; when any covering point is better, the witness is.  *)
LEMMA WitnessIsFirst ==
    ASSUME NEW O, Measurable(O), NEW b, IsCostVector(b.costs),
           NEW r \in Covering(b, RecoveryPoints(O))
    PROVE  LET w == Witness(b, RecoveryPoints(O)) IN
           /\ w \in Covering(b, RecoveryPoints(O))
           /\ w = r \/ Precedes(w, r)
<1> DEFINE C == Covering(b, RecoveryPoints(O))
           S == {x \in O : PointOf(x) \in C}
           R == {t \in S \X S : Precedes(PointOf(t[1]), PointOf(t[2]))}
<1>1. \A p \in C : \E x \in S : p = PointOf(x)
  <2>1. \A p \in C : \E x \in Successes(O) : p = PointOf(x)
    BY PointIsUndominated DEF Covering
  <2> QED  BY <2>1 DEF Successes
<1>2. \A x \in S : x \in O /\ PointOf(x) \in C
  OBVIOUS
<1>3. \A x, y \in S : <<x, y>> \in R <=> Precedes(PointOf(x), PointOf(y))
  OBVIOUS
<1>4. IsFiniteSet(S)
  <2>1. IsFiniteSet(O) /\ S \in SUBSET O
    BY DEF Measurable
  <2> HIDE DEF S
  <2> QED  BY <2>1, FS_Subset
<1> HIDE DEF C, S, R
<1>5. \A x \in S : /\ IsCostVector(PointOf(x).costs)
                   /\ PointOf(x).id \in DOMAIN ObservationOrder
                   /\ ObservationOrder[PointOf(x).id] \in Nat
                   /\ \A y \in S : PointOf(x).id = PointOf(y).id => x = y
  BY <1>2, OrderAssumption DEF Measurable, PointOf
<1>6. \A x, y \in S : <<x, y>> \in R <=> LexBefore(PointOf(x), PointOf(y))
  BY <1>3, <1>5, PrecedesIsLexicographic
<1>7. StrictOrder(S, R)
  <2>1. \A x \in S : <<x, x>> \notin R
    BY <1>5, <1>6, LexConnected
  <2>2. \A x, y, z \in S : <<x, y>> \in R /\ <<y, z>> \in R => <<x, z>> \in R
    BY <1>5, <1>6, LexTransitive
  <2> QED  BY <2>1, <2>2 DEF StrictOrder
<1>8. PICK m \in S : \A y \in S : <<y, m>> \notin R
  <2>1. PICK x \in S : r = PointOf(x)
    BY <1>1 DEF C
  <2> QED  BY <1>4, <1>7, MinimalElement
<1>9. \A y \in S : y = m \/ Precedes(PointOf(m), PointOf(y))
  BY <1>3, <1>5, <1>6, <1>8, LexConnected
<1>10. PointOf(m) \in C /\ \A s \in C : s = PointOf(m) \/ Precedes(PointOf(m), s)
  BY <1>1, <1>2, <1>9
<1>11. /\ Witness(b, RecoveryPoints(O)) \in C
       /\ \A s \in C : s = Witness(b, RecoveryPoints(O))
                          \/ Precedes(Witness(b, RecoveryPoints(O)), s)
  BY <1>10 DEF Witness, C
<1> QED  BY <1>11 DEF C

(* A point covers another iff it is no worse. *)
LEMMA CoveringIs ==
    ASSUME NEW O, Measurable(O), NEW b, IsCostVector(b.costs), NEW r \in RecoveryPoints(O)
    PROVE  /\ IsCostVector(r.costs) /\ r.id \in DOMAIN ObservationOrder
           /\ r \in Covering(b, RecoveryPoints(O)) <=> NoWorseThan(r.costs, b.costs)
           /\ CompareCostVectors(r.costs, b.costs) = "left_strictly_better"
                 <=> BetterThan(r.costs, b.costs)
<1>1. PICK x \in Successes(O) : r = PointOf(x)
  BY PointIsUndominated
<1>2. IsCostVector(r.costs) /\ r.id \in DOMAIN ObservationOrder
  BY <1>1 DEF Measurable, Successes, PointOf
<1>3. DOMAIN r.costs = DOMAIN b.costs
  BY <1>2 DEF IsCostVector
<1>4. /\ CompareCostVectors(r.costs, b.costs) = "equal"
            <=> NoWorseThan(r.costs, b.costs) /\ NoWorseThan(b.costs, r.costs)
      /\ CompareCostVectors(r.costs, b.costs) = "left_strictly_better"
            <=> NoWorseThan(r.costs, b.costs) /\ ~ NoWorseThan(b.costs, r.costs)
  BY <1>3, CompareDecides
<1> QED  BY <1>2, <1>4 DEF Covering, BetterThan

LEMMA StrictlyCoveredIs ==
    ASSUME NEW O, Measurable(O), NEW b, IsCostVector(b.costs),
           Covering(b, RecoveryPoints(O)) # {}
    PROVE  StrictlyCovered(b, RecoveryPoints(O))
              <=> \E r \in RecoveryPoints(O) : BetterThan(r.costs, b.costs)
<1> DEFINE w == Witness(b, RecoveryPoints(O))
<1>1. w \in Covering(b, RecoveryPoints(O)) /\ w \in RecoveryPoints(O)
  BY WitnessIsFirst DEF Covering
<1>2. StrictlyCovered(b, RecoveryPoints(O)) <=> BetterThan(w.costs, b.costs)
  <2>1. StrictlyCovered(b, RecoveryPoints(O))
           <=> CompareCostVectors(w.costs, b.costs) = "left_strictly_better"
    BY DEF StrictlyCovered
  <2> HIDE DEF w
  <2> QED  BY <1>1, <2>1, CoveringIs
<1>3. ASSUME NEW r \in RecoveryPoints(O), BetterThan(r.costs, b.costs)
      PROVE  BetterThan(w.costs, b.costs)
  <2>1. /\ IsCostVector(r.costs) /\ r.id \in DOMAIN ObservationOrder
        /\ r \in Covering(b, RecoveryPoints(O))
    BY <1>3, CoveringIs DEF BetterThan
  <2>2. w = r \/ Precedes(w, r)
    BY <2>1, WitnessIsFirst
  <2> HIDE DEF w
  <2>3. IsCostVector(w.costs) /\ w.id \in DOMAIN ObservationOrder
        /\ NoWorseThan(w.costs, b.costs)
    BY <1>1, CoveringIs
  <2>4. SUFFICES ASSUME NoWorseThan(b.costs, w.costs)  PROVE FALSE
    BY <2>3 DEF BetterThan
  <2>5. BetterThan(r.costs, w.costs)
    BY <1>3, <2>1, <2>3, <2>4, BetterIsStrict
  <2>6. w # r
    BY <2>1, <2>5, BetterIsStrict
  <2>7. LexBefore(w, r)
    BY <2>1, <2>2, <2>3, <2>6, PrecedesIsLexicographic
  <2> QED  BY <2>1, <2>3, <2>5, <2>7, LexConnected DEF BetterThan
<1> QED  BY <1>1, <1>2, <1>3

(* compare_recovery_frontiers in terms of the observations. *)
Advantage(B, R) ==
    /\ Successes(B) # {}
    /\ \A b \in Successes(B) : \E r \in Successes(R) : NoWorseThan(r.costs, b.costs)
    /\ \E b \in Successes(B), r \in Successes(R) :
          BetterThan(r.costs, b.costs) /\ \A x \in Successes(B) : ~ BetterThan(x.costs, b.costs)

LEMMA OutcomeIsAdvantage ==
    ASSUME NEW B, NEW R, Measurable(B), Measurable(R)
    PROVE  ComparisonOutcome(RecoveryPoints(B), RecoveryPoints(R)) = "strict_advantage"
              <=> Advantage(B, R)
<1> DEFINE P == RecoveryPoints(B)
           Q == RecoveryPoints(R)
           complete == P # {} /\ \A b \in P : Covering(b, Q) # {}
           strict == \E b \in P : StrictlyCovered(b, Q)
<1>1. ComparisonOutcome(P, Q) = "strict_advantage" <=> complete /\ strict
  <2>1. ComparisonOutcome(P, Q) =
           CASE complete /\ strict -> "strict_advantage"
             [] ~ (complete /\ strict) /\ (\E b \in P : NoticedIncomparable(b, Q)) -> "incomparable"
             [] OTHER -> "no_advantage"
    BY DEF ComparisonOutcome
  <2> HIDE DEF P, Q, complete, strict
  <2> QED  BY <2>1
<1>2. /\ \A b \in Successes(B) : IsCostVector(b.costs)
      /\ \A r \in Successes(R) : IsCostVector(r.costs)
  BY DEF Measurable, Successes
<1>3. \A p \in P : \E b \in Successes(B) : p = PointOf(b) /\ Undominated(B, b)
  BY PointIsUndominated
<1>4. \A q \in Q : \E r \in Successes(R) : q = PointOf(r)
  BY PointIsUndominated
<1>5. ASSUME NEW b \in Successes(B)
      PROVE  \E p \in P : NoWorseThan(p.costs, b.costs)
  <2>1. PICK m \in Successes(B) : NoWorseThan(m.costs, b.costs) /\ Undominated(B, m)
    BY SomeUndominated
  <2>2. PICK p \in P : AsCheap(p.costs, m.costs)
    BY <2>1, UndominatedHasPoint
  <2>3. IsCostVector(p.costs)
    BY <1>2, <1>3 DEF PointOf
  <2> QED  BY <1>2, <2>1, <2>2, <2>3, NoWorseTransitive DEF AsCheap
<1>6. ASSUME NEW r \in Successes(R)
      PROVE  \E q \in Q : NoWorseThan(q.costs, r.costs)
  <2>1. PICK m \in Successes(R) : NoWorseThan(m.costs, r.costs) /\ Undominated(R, m)
    BY SomeUndominated
  <2>2. PICK q \in Q : AsCheap(q.costs, m.costs)
    BY <2>1, UndominatedHasPoint
  <2>3. IsCostVector(q.costs)
    BY <1>2, <1>4 DEF PointOf
  <2> QED  BY <1>2, <2>1, <2>2, <2>3, NoWorseTransitive DEF AsCheap
<1>7. /\ \A p \in P : IsCostVector(p.costs)
      /\ \A q \in Q : IsCostVector(q.costs)
  BY <1>2, <1>3, <1>4 DEF PointOf
<1>8. \A p \in P, q \in Q : q \in Covering(p, Q) <=> NoWorseThan(q.costs, p.costs)
  BY <1>7, CoveringIs
<1>9. \A p \in P : Covering(p, Q) \subseteq Q
  BY DEF Covering
<1>10. \A p \in P : Covering(p, Q) # {} =>
          (StrictlyCovered(p, Q) <=> \E q \in Q : BetterThan(q.costs, p.costs))
  BY <1>7, StrictlyCoveredIs
<1>11. \A b : Undominated(B, b) => \E p \in P : AsCheap(p.costs, b.costs)
  BY UndominatedHasPoint
<1> HIDE DEF P, Q
<1>12. ASSUME complete, strict  PROVE Advantage(B, R)
  <2>1. Successes(B) # {}
    BY <1>3, <1>12
  <2>2. ASSUME NEW b \in Successes(B)
        PROVE  \E r \in Successes(R) : NoWorseThan(r.costs, b.costs)
    <3>1. PICK p \in P : NoWorseThan(p.costs, b.costs)
      BY <1>5
    <3>2. PICK q \in Q : NoWorseThan(q.costs, p.costs)
      BY <1>8, <1>9, <1>12
    <3>3. PICK r \in Successes(R) : q = PointOf(r)
      BY <1>4
    <3>4. NoWorseThan(r.costs, p.costs)
      BY <3>2, <3>3 DEF PointOf
    <3> QED  BY <1>2, <1>7, <3>1, <3>4, NoWorseTransitive
  <2>3. PICK p \in P : StrictlyCovered(p, Q)
    BY <1>12
  <2>4. PICK q \in Q : BetterThan(q.costs, p.costs)
    BY <1>10, <1>12, <2>3
  <2>5. PICK b \in Successes(B) : p = PointOf(b) /\ Undominated(B, b)
    BY <1>3
  <2>6. PICK r \in Successes(R) : q = PointOf(r)
    BY <1>4
  <2>7. BetterThan(r.costs, b.costs) /\ \A x \in Successes(B) : ~ BetterThan(x.costs, b.costs)
    BY <2>4, <2>5, <2>6 DEF PointOf, Undominated
  <2> QED  BY <2>1, <2>2, <2>7 DEF Advantage
<1>13. ASSUME Advantage(B, R)  PROVE complete /\ strict
  <2>1. P # {}
    BY <1>5, <1>13 DEF Advantage
  <2>2. ASSUME NEW p \in P  PROVE Covering(p, Q) # {}
    <3>1. PICK b \in Successes(B) : p = PointOf(b)
      BY <1>3
    <3>2. PICK r \in Successes(R) : NoWorseThan(r.costs, b.costs)
      BY <1>13 DEF Advantage
    <3>3. PICK q \in Q : NoWorseThan(q.costs, r.costs)
      BY <1>6
    <3>4. NoWorseThan(q.costs, p.costs)
      BY <1>2, <1>7, <3>1, <3>2, <3>3, NoWorseTransitive DEF PointOf
    <3> QED  BY <1>8, <3>4
  <2>3. PICK b \in Successes(B), r \in Successes(R) :
           BetterThan(r.costs, b.costs) /\ \A x \in Successes(B) : ~ BetterThan(x.costs, b.costs)
    BY <1>13 DEF Advantage
  <2>4. Undominated(B, b)
    BY <2>3 DEF Undominated
  <2>5. PICK p \in P : AsCheap(p.costs, b.costs)
    BY <1>11, <2>4
  <2>6. PICK q \in Q : NoWorseThan(q.costs, r.costs)
    BY <1>6
  <2>7. /\ IsCostVector(p.costs) /\ IsCostVector(q.costs)
        /\ IsCostVector(b.costs) /\ IsCostVector(r.costs)
    BY <1>2, <1>7
  <2>8. BetterThan(q.costs, b.costs)
    BY <2>3, <2>6, <2>7, BetterIsStrict
  <2>9. BetterThan(q.costs, p.costs)
    BY <2>5, <2>7, <2>8, BetterIsStrict DEF AsCheap
  <2> QED  BY <1>10, <2>1, <2>2, <2>9
<1> QED  BY <1>1, <1>12, <1>13 DEF P, Q

------------------------------------------------------------------------------
(* The inductive invariant.  Every fold ends with the validators, so Valid *)
(* is in it for nothing; what decide checked and the validators do not     *)
(* check again is that packages have the context of the inquiry.           *)

Typed(o) ==
    /\ o = [k \in Kinds |-> o[k]]
    /\ o.records \subseteq Recorded \cup Recordable
    /\ o.packages \subseteq {g.package : g \in Registrations}
    /\ o.requests \subseteq Requests /\ o.links \subseteq Links
    /\ o.observations \subseteq Observations
    /\ o.comparisons \subseteq Comparisons
    /\ IsFiniteSet(o.packages) /\ IsFiniteSet(o.observations)
    /\ \A p \in o.packages : p.at = Context
    /\ \A q \in o.queries : q.sequence \in Nat

(* The query under way is one of the queries, over a prefix. *)
PlanTyped ==
    plan # None =>
        /\ plan.sequence \in Nat /\ plan.sequence <= sequence /\ plan.at = Context
        /\ \E q \in Queries : plan.select = q.select /\ plan.limit = q.limit

IInv == /\ Typed(owned) /\ sequence \in Nat /\ PlanTyped
        /\ Valid(owned, sequence, Inquiry, Context)

SetKinds == Kinds \ {"policies"}

LEMMA KindsAre ==
    /\ Kinds = {"records", "packages", "policies", "queries", "results", "direct_use",
                "reconstruction", "consequence", "reacquisition", "scaffolds", "protocols",
                "requests", "links", "observations", "comparisons"}
    /\ MemberKinds = {"direct_use", "reconstruction", "consequence", "reacquisition",
                      "scaffolds", "protocols"}
BY DEF Kinds, MemberKinds, RouteKinds, RecoveryKinds

(* A fold adds its record to its collection and touches no other. *)
Plus(o, k, r) == [o EXCEPT ![k] = @ \cup {r}]
LEMMA FoldWrites ==
    ASSUME NEW o, o = [j \in Kinds |-> o[j]], NEW k \in SetKinds, NEW r,
           NEW p, p = Plus(o, k, r)
    PROVE  /\ p = [j \in Kinds |-> p[j]]
           /\ p[k] = o[k] \cup {r}
           /\ \A j \in Kinds \ {k} : p[j] = o[j]
<1>1. k \in Kinds
  BY DEF SetKinds
<1> HIDE DEF Kinds
<1> QED  BY <1>1 DEF Plus

Registers(o, g, p) ==
    /\ p = [j \in Kinds |-> p[j]]
    /\ p.packages = o.packages \cup {g.package}
    /\ \A k \in MemberKinds : p[k] = o[k] \cup g.members[k]
    /\ p.records = o.records /\ p.policies = o.policies
    /\ p.queries = o.queries /\ p.results = o.results
    /\ p.requests = o.requests /\ p.links = o.links
    /\ p.observations = o.observations /\ p.comparisons = o.comparisons
LEMMA RegistrationWrites ==
    ASSUME NEW o, o = [j \in Kinds |-> o[j]], NEW g, NEW p, p = WithRegistration(o, g)
    PROVE  Registers(o, g, p)
BY KindsAre DEF WithRegistration, Registers

Answers(o, q, r, p) ==
    /\ p = [j \in Kinds |-> p[j]]
    /\ p.policies = Append(o.policies, q.policy)
    /\ p.queries = o.queries \cup {q}
    /\ p.results = o.results \cup {r}
    /\ \A k \in Kinds \ {"policies", "queries", "results"} : p[k] = o[k]
LEMMA RetrievalWrites ==
    ASSUME NEW o, o = [j \in Kinds |-> o[j]], NEW q, NEW r, r = Retrieved(o, q),
           NEW p, p = WithRetrieval(o, q)
    PROVE  Answers(o, q, r, p)
<1>1. {"policies", "queries", "results"} \subseteq Kinds
  BY KindsAre
<1>2. p = [o EXCEPT !.policies = Append(@, q.policy), !.queries = @ \cup {q},
                    !.results = @ \cup {r}]
  BY DEF WithRetrieval
<1> HIDE DEF Kinds
<1>3. p = [j \in Kinds |-> IF j = "policies" THEN Append(o.policies, q.policy)
                           ELSE IF j = "queries" THEN o.queries \cup {q}
                           ELSE IF j = "results" THEN o.results \cup {r} ELSE o[j]]
  BY <1>1, <1>2
<1> QED  BY <1>1, <1>3 DEF Answers

LEMMA InitIInv == Init => IInv
<1> SUFFICES ASSUME Init  PROVE IInv
  OBVIOUS
<1>1. owned = [k \in Kinds |-> IF k = "records" THEN Recorded
                              ELSE IF k = "policies" THEN <<>> ELSE {}]
  BY KindsAre DEF Init, Empty
<1>2. /\ owned = [k \in Kinds |-> owned[k]]
      /\ owned.records = Recorded /\ owned.policies = <<>>
      /\ \A k \in Kinds \ {"records", "policies"} : owned[k] = {}
  BY <1>1, KindsAre
<1>3. /\ owned.packages = {} /\ owned.queries = {} /\ owned.results = {}
      /\ owned.requests = {} /\ owned.links = {} /\ owned.observations = {}
      /\ owned.comparisons = {} /\ \A k \in MemberKinds : owned[k] = {}
  BY <1>2, KindsAre
<1>4. Typed(owned)
  BY <1>2, <1>3, FS_EmptySet DEF Typed
<1>5. sequence \in Nat
  BY MemoryAssumption, FS_CardinalityType DEF Init
<1>6. PlanTyped
  BY DEF Init, PlanTyped
<1>7. Valid(owned, sequence, Inquiry, Context)
  <2>1. UniqueIds(owned)
    BY <1>2 DEF UniqueIds
  <2>2. ValidReferences(owned) /\ ValidPackagePins(owned) /\ ValidRegistrations(owned)
    BY <1>3 DEF ValidReferences, ValidPackagePins, ValidRegistrations, Ids
  <2>3. ValidRetrievals(owned, sequence)
    <3>1. {owned.policies[i] : i \in DOMAIN owned.policies} = {}
      BY <1>2
    <3>2. {r.query : r \in owned.results} = {} /\ Ids(owned.queries) = {}
          /\ {q.policy : q \in owned.queries} = {}
      BY <1>3 DEF Ids
    <3>3. Cardinality(owned.results) = Cardinality(owned.queries)
      BY <1>3
    <3> QED  BY <1>3, <3>1, <3>2, <3>3 DEF ValidRetrievals
  <2>4. /\ ValidRequests(owned, Inquiry, Context) /\ ValidLinks(owned)
        /\ ValidObservations(owned) /\ ValidComparisons(owned)
    BY <1>3 DEF ValidRequests, ValidLinks, ValidObservations, ValidComparisons
  <2> QED  BY <2>1, <2>2, <2>3, <2>4 DEF Valid
<1> QED  BY <1>4, <1>5, <1>6, <1>7 DEF IInv

(* A step that folds needs only the types of what it adds. *)
LEMMA AdvanceKeepsIInv ==
    ASSUME IInv, NEW o, Advance(o), Typed(o), plan' \in {plan, None}
    PROVE  IInv'
<1>1. owned' = o /\ sequence' = sequence + 1 /\ Valid(owned', sequence', Inquiry, Context)
  BY DEF Advance
<1>2. Typed(owned')
  BY <1>1
<1>3. sequence \in Nat /\ sequence' \in Nat
  BY <1>1 DEF IInv
<1>4. PlanTyped'
  <2>1. CASE plan' = None
    BY <2>1 DEF PlanTyped
  <2>2. CASE plan' = plan /\ plan # None
    <3>1. /\ plan.sequence \in Nat /\ plan.sequence <= sequence /\ plan.at = Context
          /\ \E q \in Queries : plan.select = q.select /\ plan.limit = q.limit
      BY <2>2 DEF IInv, PlanTyped
    <3>2. plan'.sequence <= sequence'
      BY <1>1, <1>3, <2>2, <3>1
    <3> QED  BY <2>2, <3>1, <3>2 DEF PlanTyped
  <2> QED  BY <2>1, <2>2
<1> QED  BY <1>1, <1>2, <1>3, <1>4 DEF IInv

(* A record of its kind keeps the types. *)
LEMMA FoldTyped ==
    ASSUME NEW o, Typed(o), NEW k \in SetKinds, NEW r,
           k = "records" => r \in Recordable,
           k \in {"requests", "links", "observations", "comparisons"} =>
              r \in CASE k = "requests" -> Requests [] k = "links" -> Links
                      [] k = "observations" -> Observations [] OTHER -> Comparisons,
           k \notin {"packages", "queries"}
    PROVE  Typed(Plus(o, k, r))
<1>0. PICK p : p = Plus(o, k, r)
  OBVIOUS
<1>1. o = [j \in Kinds |-> o[j]]
  BY DEF Typed
<1>2. /\ p = [j \in Kinds |-> p[j]] /\ p[k] = o[k] \cup {r}
      /\ \A j \in Kinds \ {k} : p[j] = o[j]
  BY <1>0, <1>1, FoldWrites
<1>3. \A j \in Kinds : p[j] = IF j = k THEN o[j] \cup {r} ELSE o[j]
  BY <1>2
<1>4. /\ p.records = (IF k = "records" THEN o.records \cup {r} ELSE o.records)
      /\ p.packages = o.packages /\ p.queries = o.queries
      /\ p.requests = (IF k = "requests" THEN o.requests \cup {r} ELSE o.requests)
      /\ p.links = (IF k = "links" THEN o.links \cup {r} ELSE o.links)
      /\ p.observations = (IF k = "observations" THEN o.observations \cup {r}
                                                 ELSE o.observations)
      /\ p.comparisons = (IF k = "comparisons" THEN o.comparisons \cup {r}
                                               ELSE o.comparisons)
  BY <1>3, KindsAre
<1>5. IsFiniteSet(p.observations)
  <2>1. IsFiniteSet(o.observations) /\ IsFiniteSet(o.observations \cup {r})
    BY FS_AddElement DEF Typed
  <2> QED  BY <1>4, <2>1
<1>6. p.records \subseteq Recorded \cup Recordable
  BY <1>4 DEF Typed
<1>7. p.requests \subseteq Requests /\ p.links \subseteq Links
  BY <1>4 DEF Typed
<1>8. p.observations \subseteq Observations /\ p.comparisons \subseteq Comparisons
  BY <1>4 DEF Typed
<1>9. Typed(p)
  BY <1>2, <1>4, <1>5, <1>6, <1>7, <1>8 DEF Typed
<1> QED  BY <1>0, <1>9

LEMMA NextIInv == IInv /\ [Next]_vars => IInv'
<1> SUFFICES ASSUME IInv, [Next]_vars  PROVE IInv'
  OBVIOUS
<1>1. Typed(owned) /\ owned = [k \in Kinds |-> owned[k]]
  BY DEF IInv, Typed
<1>2. {"records", "requests", "links", "observations", "comparisons"} \subseteq SetKinds
  BY KindsAre DEF SetKinds
<1>3. ASSUME NEW r \in Recordable, RecordOwned(r)  PROVE IInv'
  <2>1. Typed(Plus(owned, "records", r))
    BY <1>1, <1>2, FoldTyped
  <2> QED  BY <1>3, <2>1, AdvanceKeepsIInv DEF RecordOwned, Fold, Plus
<1>4. ASSUME NEW r \in Requests, RequestReacquisition(r)  PROVE IInv'
  <2>1. Typed(Plus(owned, "requests", r))
    BY <1>1, <1>2, FoldTyped
  <2> QED  BY <1>4, <2>1, AdvanceKeepsIInv DEF RequestReacquisition, Fold, Plus
<1>5. ASSUME NEW l \in Links, LinkReacquisitionInquiry(l)  PROVE IInv'
  <2>1. Typed(Plus(owned, "links", l))
    BY <1>1, <1>2, FoldTyped
  <2> QED  BY <1>5, <2>1, AdvanceKeepsIInv DEF LinkReacquisitionInquiry, Fold, Plus
<1>6. ASSUME NEW x \in Observations, RecordRecoveryObservation(x)  PROVE IInv'
  <2>1. Typed(Plus(owned, "observations", x))
    BY <1>1, <1>2, FoldTyped
  <2> QED  BY <1>6, <2>1, AdvanceKeepsIInv DEF RecordRecoveryObservation, Fold, Plus
<1>7. ASSUME NEW c \in Comparisons, RecordRecoveryComparison(c)  PROVE IInv'
  <2>1. Typed(Plus(owned, "comparisons", c))
    BY <1>1, <1>2, FoldTyped
  <2> QED  BY <1>7, <2>1, AdvanceKeepsIInv DEF RecordRecoveryComparison, Fold, Plus
<1>8. ASSUME NEW g \in Registrations, RegisterRetentionPackage(g)  PROVE IInv'
  <2>0. PICK p : p = WithRegistration(owned, g)
    OBVIOUS
  <2>1. /\ p = [j \in Kinds |-> p[j]] /\ p.packages = owned.packages \cup {g.package}
        /\ p.records = owned.records /\ p.requests = owned.requests
        /\ p.links = owned.links /\ p.observations = owned.observations
        /\ p.comparisons = owned.comparisons /\ p.queries = owned.queries
    <3>1. Registers(owned, g, p)
      BY <1>1, <2>0, RegistrationWrites
    <3> QED  BY <3>1 DEF Registers
  <2>2. g.package.at = Context
    BY <1>8 DEF RegisterRetentionPackage, MayRegisterRetentionPackage
  <2>3. Advance(p) /\ plan' = plan
    BY <1>8, <2>0 DEF RegisterRetentionPackage
  <2>4. IsFiniteSet(p.packages)
    <3>1. IsFiniteSet(owned.packages)
      BY <1>1 DEF Typed
    <3>2. IsFiniteSet(owned.packages \cup {g.package})
      BY <3>1, FS_AddElement
    <3> QED  BY <2>1, <3>2
  <2>5. Typed(p)
    BY <1>1, <2>1, <2>2, <2>4 DEF Typed
  <2> QED  BY <2>3, <2>5, AdvanceKeepsIInv
<1>9. ASSUME NEW q \in Queries, BuildQuery(q)  PROVE IInv'
  <2>1. /\ owned' = owned /\ sequence' = sequence
        /\ plan'.sequence = sequence /\ plan'.at = Context
        /\ plan'.select = q.select /\ plan'.limit = q.limit
    BY <1>9 DEF BuildQuery
  <2>2. sequence \in Nat
    BY DEF IInv
  <2>3. PlanTyped'
    BY <2>1, <2>2 DEF PlanTyped
  <2> QED  BY <2>1, <2>3 DEF IInv
<1>10. ASSUME RunRetrieval  PROVE IInv'
  <2>0. PICK p, r : p = WithRetrieval(owned, plan) /\ r = Retrieved(owned, plan)
    OBVIOUS
  <2>1. /\ p = [j \in Kinds |-> p[j]] /\ p.queries = owned.queries \cup {plan}
        /\ \A k \in Kinds \ {"policies", "queries", "results"} : p[k] = owned[k]
    <3>1. Answers(owned, plan, r, p)
      BY <1>1, <2>0, RetrievalWrites
    <3> QED  BY <3>1 DEF Answers
  <2>2. Advance(p) /\ plan' = None
    BY <1>10, <2>0 DEF RunRetrieval
  <2>3. /\ p.records = owned.records /\ p.packages = owned.packages
        /\ p.requests = owned.requests /\ p.links = owned.links
        /\ p.observations = owned.observations /\ p.comparisons = owned.comparisons
    BY <2>1, KindsAre
  <2>4. Typed(p)
    <3>1. plan.sequence \in Nat
      BY <1>10 DEF RunRetrieval, IInv, PlanTyped
    <3> QED  BY <1>1, <2>1, <2>3, <3>1 DEF Typed
  <2> QED  BY <2>2, <2>4, AdvanceKeepsIInv
<1>11. ASSUME RetrievalFails \/ UNCHANGED vars  PROVE IInv'
  <2>1. owned' = owned /\ sequence' = sequence /\ plan' \in {plan, None}
    BY <1>11 DEF RetrievalFails, vars
  <2>2. PlanTyped'
    BY <2>1 DEF PlanTyped, IInv
  <2> QED  BY <2>1, <2>2 DEF IInv
<1> QED
  BY <1>3, <1>4, <1>5, <1>6, <1>7, <1>8, <1>9, <1>10, <1>11 DEF Next, Unrecorded, NewPackages

LEMMA AlwaysIInv == Spec => []IInv
BY InitIInv, NextIInv, PTL DEF Spec

------------------------------------------------------------------------------
(* Advantages. *)

(* Observations of the two branches are of different children: a child has *)
(* one request, and the request has one branch.                            *)
LEMMA BranchesAreApart ==
    ASSUME NEW o, ValidRequests(o, Inquiry, Context), ValidObservations(o),
           NEW b \in o.observations, NEW r \in o.observations,
           b.branch # r.branch
    PROVE  b.child # r.child
<1>1. PICK p \in o.requests : p.branch = b.branch /\ p.child = b.child
  BY DEF ValidObservations, ObservesLinkedChild
<1>2. PICK q \in o.requests : q.branch = r.branch /\ q.child = r.child
  BY DEF ValidObservations, ObservesLinkedChild
<1> QED  BY <1>1, <1>2 DEF ValidRequests

(* The check of a measurement names all of it but the check, its id too.   *)
ValidVerdict(p, a) ==
    [type |-> "checker_verdict", content |-> [proposition |-> p, at |-> a, valid |-> TRUE]]
LEMMA ChecksAreOwn ==
    ASSUME NEW o, ValidObservations(o), UniqueIds(o), o.observations \subseteq Observations,
           NEW x \in o.observations
    PROVE  /\ RecordOf(x.check).content.valid
           /\ \A y \in o.observations : x.check = y.check => x = y
<1>1. \A y \in o.observations :
         RecordOf(y.check) = ValidVerdict(Measured(y), y.pins.at)
  BY DEF ValidObservations, SoundlyMeasured, IsChecked, ValidVerdict
<1>2. \A y \in o.observations : "id" \in DOMAIN y
  BY MemoryAssumption
<1>3. \A y \in o.observations : Measured(y).id = y.id
  BY <1>2 DEF Measured
<1> HIDE DEF Measured
<1>4. \A p, a : /\ ValidVerdict(p, a).content.valid
                /\ ValidVerdict(p, a).content.proposition = p
  BY DEF ValidVerdict
<1>5. RecordOf(x.check).content.valid
  BY <1>1, <1>4
<1>6. ASSUME NEW y \in o.observations, x.check = y.check  PROVE x = y
  <2>1. RecordOf(x.check).content.proposition = Measured(x)
        /\ RecordOf(y.check).content.proposition = Measured(y)
    BY <1>1, <1>4
  <2>2. Measured(x) = Measured(y)
    BY <1>6, <2>1
  <2>3. x.id = y.id
    BY <1>3, <2>2
  <2>4. "observations" \in Kinds \ {"policies", "records"}
    BY KindsAre
  <2> QED  BY <2>3, <2>4 DEF UniqueIds
<1> QED  BY <1>5, <1>6

(* A retained measurement used a package the inquiry has. *)
LEMMA PackageIsOwned ==
    ASSUME NEW o, ValidRequests(o, Inquiry, Context), ValidObservations(o),
           NEW x \in o.observations, x.package # None
    PROVE  x.package \in Ids(o.packages)
<1>1. PICK r \in o.requests : r.package = x.package
  BY DEF ValidObservations, ObservesLinkedChild
<1>2. OwnsRoute(o, r)
  BY <1>1 DEF ValidRequests
<1> QED  BY <1>1, <1>2 DEF OwnsRoute, Ids

(* What a comparison states of its observations. *)
From(o, sources) == {x \in o.observations : x.id \in sources}
LEMMA ComparisonIsDerived ==
    ASSUME NEW o, NEW c, IsDerivedComparison(o, c),
           NEW B, B = From(o, c.baseline.sources), NEW R, R = From(o, c.retained.sources)
    PROVE  /\ Derivable("baseline", c.pins, B) /\ Derivable("retained", c.pins, R)
           /\ c.outcome = ComparisonOutcome(RecoveryPoints(B), RecoveryPoints(R))
<1>1. /\ Derivable("baseline", c.pins, B) /\ Derivable("retained", c.pins, R)
      /\ c.baseline = Frontier(B) /\ c.retained = Frontier(R)
      /\ c = Compared(c.id, c.pins, c.baseline, c.retained, c.check)
  BY DEF IsDerivedComparison, From
<1>2. c.baseline.points = RecoveryPoints(B) /\ c.retained.points = RecoveryPoints(R)
  <2>1. \A O : Frontier(O).points = RecoveryPoints(O)
    BY DEF Frontier
  <2> QED  BY <1>1, <2>1, Zenon
<1>3. \A id, pins, f, g, check :
         Compared(id, pins, f, g, check).outcome = ComparisonOutcome(f.points, g.points)
  BY DEF Compared
<1>4. c.outcome = ComparisonOutcome(c.baseline.points, c.retained.points)
  <2>1. PICK id, pins, f, g, check :
           /\ c = Compared(id, pins, f, g, check) /\ f = c.baseline /\ g = c.retained
    BY <1>1, Zenon
  <2>2. c.outcome = ComparisonOutcome(f.points, g.points)
    BY <1>3, <2>1
  <2> QED  BY <2>1, <2>2
<1> QED  BY <1>1, <1>2, <1>4

LEMMA ObservationsAreMeasurable ==
    ASSUME NEW o, Typed(o), UniqueIds(o), NEW O \in SUBSET o.observations
    PROVE  Measurable(O)
<1>1. IsFiniteSet(O)
  BY FS_Subset DEF Typed
<1>2. \A x \in O : x \in Observations
  BY DEF Typed
<1>3. \A x \in O : IsCostVector(x.costs) /\ x.id \in DOMAIN ObservationOrder
  BY <1>2, MemoryAssumption DEF IsObservation
<1>4. "observations" \in Kinds \ {"policies", "records"}
  BY KindsAre
<1>5. \A x, y \in O : x.id = y.id => x = y
  BY <1>4 DEF UniqueIds
<1> QED  BY <1>1, <1>3, <1>5 DEF Measurable

(* A comparison that compare_recovery_frontiers reports as a strict        *)
(* advantage is one in terms of the observations, and the other way round, *)
(* whatever was measured and in whichever order.                           *)
THEOREM AdvantageIsAlwaysReal == Spec => []AdvantageIsReal
<1>1. IInv => AdvantageIsReal
  <2> SUFFICES ASSUME IInv, NEW c \in owned.comparisons
               PROVE  LET B == {x \in owned.observations : x.id \in c.baseline.sources}
                          R == {x \in owned.observations : x.id \in c.retained.sources}
                          NoWorse(x, y) == \A a \in DOMAIN x.costs :
                                              NotCostlier(x.costs[a], y.costs[a])
                          Better(x, y) == NoWorse(x, y) /\ ~ NoWorse(y, x)
                          won == {x \in B : x.competent}
                          kept == {x \in R : x.competent} IN
                      /\ \A b \in B, r \in R : b.child # r.child /\ b.pins = r.pins
                      /\ \A x, y \in B \cup R : x.check = y.check => x = y
                      /\ \A x \in B \cup R : RecordOf(x.check).content.valid
                      /\ \A b \in B : b.package = None
                      /\ \A r \in R : r.package \in Ids(owned.packages)
                      /\ c.outcome = "strict_advantage" <=>
                            /\ won # {}
                            /\ \A b \in won : \E r \in kept : NoWorse(r, b)
                            /\ \E b \in won, r \in kept :
                                  Better(r, b) /\ \A x \in won : ~ Better(x, b)
    BY DEF AdvantageIsReal
  <2> DEFINE B == {x \in owned.observations : x.id \in c.baseline.sources}
             R == {x \in owned.observations : x.id \in c.retained.sources}
  <2>1. B = From(owned, c.baseline.sources) /\ R = From(owned, c.retained.sources)
    BY DEF From
  <2>2. B \in SUBSET owned.observations /\ R \in SUBSET owned.observations
    OBVIOUS
  <2> HIDE DEF B, R
  <2>3. /\ Typed(owned) /\ UniqueIds(owned) /\ ValidRequests(owned, Inquiry, Context)
        /\ ValidObservations(owned) /\ IsDerivedComparison(owned, c)
        /\ owned.observations \subseteq Observations
    BY DEF IInv, Valid, ValidComparisons, Typed
  <2>4. /\ Derivable("baseline", c.pins, B) /\ Derivable("retained", c.pins, R)
        /\ c.outcome = ComparisonOutcome(RecoveryPoints(B), RecoveryPoints(R))
    BY <2>1, <2>3, ComparisonIsDerived
  <2>6. \A x \in B : x.branch = "baseline" /\ x.pins = c.pins
    BY <2>4 DEF Derivable
  <2>7. \A x \in R : x.branch = "retained" /\ x.pins = c.pins
    BY <2>4 DEF Derivable
  <2>8. ASSUME NEW b \in B, NEW r \in R  PROVE b.child # r.child /\ b.pins = r.pins
    <3>1. b \in owned.observations /\ r \in owned.observations /\ b.branch # r.branch
      BY <2>2, <2>6, <2>7
    <3>2. b.child # r.child
      BY <2>3, <3>1, BranchesAreApart
    <3> QED  BY <2>6, <2>7, <3>2
  <2>9. ASSUME NEW x \in B \cup R
        PROVE  /\ RecordOf(x.check).content.valid
               /\ \A y \in B \cup R : x.check = y.check => x = y
    <3>1. x \in owned.observations
      BY <2>2
    <3>2. /\ RecordOf(x.check).content.valid
          /\ \A y \in owned.observations : x.check = y.check => x = y
      BY <2>3, <3>1, ChecksAreOwn
    <3> QED  BY <2>2, <3>2
  <2>10. \A x \in B : x.package = None
    BY <2>3, <2>2, <2>6, MemoryAssumption DEF IsObservation
  <2>11. ASSUME NEW x \in R  PROVE x.package \in Ids(owned.packages)
    <3>1. x.package # None /\ x \in owned.observations
      BY <2>3, <2>2, <2>7, MemoryAssumption DEF IsObservation
    <3> QED  BY <2>3, <3>1, PackageIsOwned
  <2>12. c.outcome = "strict_advantage" <=> Advantage(B, R)
    <3>1. Measurable(B) /\ Measurable(R)
      BY <2>3, <2>2, ObservationsAreMeasurable
    <3> QED  BY <2>4, <3>1, OutcomeIsAdvantage
  <2> DEFINE NoWorse(x, y) == \A a \in DOMAIN x.costs : NotCostlier(x.costs[a], y.costs[a])
             Better(x, y) == NoWorse(x, y) /\ ~ NoWorse(y, x)
             won == {x \in B : x.competent}
             kept == {x \in R : x.competent}
  <2>13. Advantage(B, R) <=>
            /\ won # {}
            /\ \A b \in won : \E r \in kept : NoWorse(r, b)
            /\ \E b \in won, r \in kept : Better(r, b) /\ \A x \in won : ~ Better(x, b)
    BY DEF Advantage, Successes, NoWorseThan, BetterThan
  <2> HIDE DEF won, kept, NoWorse, Better
  <2>14. /\ \A b \in B, r \in R : b.child # r.child /\ b.pins = r.pins
         /\ \A x, y \in B \cup R : x.check = y.check => x = y
         /\ \A x \in B \cup R : RecordOf(x.check).content.valid
         /\ \A b \in B : b.package = None
         /\ \A r \in R : r.package \in Ids(owned.packages)
         /\ c.outcome = "strict_advantage" <=>
               /\ won # {}
               /\ \A b \in won : \E r \in kept : NoWorse(r, b)
               /\ \E b \in won, r \in kept : Better(r, b) /\ \A x \in won : ~ Better(x, b)
    BY <2>8, <2>9, <2>10, <2>11, <2>12, <2>13
  <2> QED  BY <2>14 DEF B, R, won, kept, NoWorse, Better
<1> QED  BY <1>1, AlwaysIInv, PTL

------------------------------------------------------------------------------
(* Retrieval: hits are ordered by their ranks, then by their ids. *)

RankKeys == [DOMAIN Components -> Nat]
KeyBefore(f, m, g, n) ==
    \/ (\A i \in DOMAIN Components : f[i] = g[i]) /\ m < n
    \/ \E i \in DOMAIN Components :
          f[i] > g[i] /\ \A j \in DOMAIN Components : j < i => f[j] = g[j]

LEMMA ComponentsAre ==
    /\ DOMAIN Components = 1 .. 5
    /\ {Components[i] : i \in DOMAIN Components} = {"reference", "type", "owner", "cue", "tag"}
    /\ \A c \in {"reference", "type", "owner", "cue", "tag"} :
          \E i \in DOMAIN Components : Components[i] = c
<1>1. DOMAIN Components = 1 .. 5
  BY DEF Components
<1>2. /\ Components[1] = "reference" /\ Components[2] = "type" /\ Components[3] = "owner"
      /\ Components[4] = "cue" /\ Components[5] = "tag"
  BY DEF Components
<1>3. 1 .. 5 = {1, 2, 3, 4, 5}
  OBVIOUS
<1> HIDE DEF Components
<1>4. {Components[i] : i \in {1, 2, 3, 4, 5}} = {"reference", "type", "owner", "cue", "tag"}
  BY <1>2
<1> QED  BY <1>1, <1>2, <1>3, <1>4

LEMMA KeyOrder ==
    ASSUME NEW f \in RankKeys, NEW g \in RankKeys, NEW h \in RankKeys,
           NEW a \in Nat, NEW b \in Nat, NEW c \in Nat
    PROVE  /\ ~ KeyBefore(f, a, f, a)
           /\ a # b => KeyBefore(f, a, g, b) \/ KeyBefore(g, b, f, a)
           /\ KeyBefore(f, a, g, b) /\ KeyBefore(g, b, h, c) => KeyBefore(f, a, h, c)
<1> DEFINE I == DOMAIN Components
<1>1. \A i \in I : i \in Nat /\ f[i] \in Nat /\ g[i] \in Nat /\ h[i] \in Nat
  BY ComponentsAre DEF RankKeys
<1>2. ~ KeyBefore(f, a, f, a)
  BY <1>1 DEF KeyBefore
<1>3. ASSUME a # b  PROVE KeyBefore(f, a, g, b) \/ KeyBefore(g, b, f, a)
  <2>1. CASE \A i \in I : f[i] = g[i]
    BY <1>3, <2>1 DEF KeyBefore
  <2>2. CASE \E i \in I : f[i] # g[i]
    <3> DEFINE T == {i \in I : f[i] # g[i]}
    <3>1. PICK i \in I : i \in T
      BY <2>2
    <3>2. T \in SUBSET Nat
      BY <1>1
    <3>3. PICK k \in T : \A j \in T : k <= j
      <4> HIDE DEF T
      <4> QED  BY <3>1, <3>2, LeastNatural
    <3>4. \A j \in I : j < k => f[j] = g[j]
      BY <1>1, <3>3
    <3>5. k \in I /\ (f[k] > g[k] \/ g[k] > f[k])
      BY <1>1, <3>3
    <3> HIDE DEF T
    <3> QED  BY <3>4, <3>5 DEF KeyBefore
  <2> QED  BY <2>1, <2>2
<1>4. ASSUME KeyBefore(f, a, g, b), KeyBefore(g, b, h, c)  PROVE KeyBefore(f, a, h, c)
  <2>1. CASE (\A i \in I : f[i] = g[i]) /\ a < b
    <3>1. CASE (\A i \in I : g[i] = h[i]) /\ b < c
      <4>1. a < c
        BY <2>1, <3>1
      <4> QED  BY <2>1, <3>1, <4>1 DEF KeyBefore
    <3>2. CASE \E i \in I : g[i] > h[i] /\ \A j \in I : j < i => g[j] = h[j]
      BY <2>1, <3>2 DEF KeyBefore
    <3> QED  BY <1>4, <3>1, <3>2 DEF KeyBefore
  <2>2. CASE \E i \in I : f[i] > g[i] /\ \A j \in I : j < i => f[j] = g[j]
    <3>1. PICK i \in I : f[i] > g[i] /\ \A j \in I : j < i => f[j] = g[j]
      BY <2>2
    <3>2. CASE \A j \in I : g[j] = h[j]
      BY <3>1, <3>2 DEF KeyBefore
    <3>3. CASE \E k \in I : g[k] > h[k] /\ \A j \in I : j < k => g[j] = h[j]
      <4>1. PICK k \in I : g[k] > h[k] /\ \A j \in I : j < k => g[j] = h[j]
        BY <3>3
      <4>2. CASE i <= k
        <5>1. f[i] > h[i]
          BY <1>1, <3>1, <4>1, <4>2
        <5>2. \A j \in I : j < i => f[j] = h[j]
          BY <1>1, <3>1, <4>1, <4>2
        <5> QED  BY <5>1, <5>2 DEF KeyBefore
      <4>3. CASE k < i
        <5>1. f[k] > h[k]
          BY <1>1, <3>1, <4>1, <4>3
        <5>2. \A j \in I : j < k => f[j] = h[j]
          BY <1>1, <3>1, <4>1, <4>3
        <5> QED  BY <5>1, <5>2 DEF KeyBefore
      <4> QED  BY <1>1, <4>2, <4>3
    <3> QED  BY <1>4, <3>2, <3>3 DEF KeyBefore
  <2> QED  BY <1>4, <2>1, <2>2 DEF KeyBefore
<1> QED  BY <1>2, <1>3, <1>4

(* A query of the inquiry: its selectors are finite. *)
Asks(q) == \E x \in Queries : q.select = x.select /\ q.limit = x.limit
LEMMA AsksFinitely ==
    ASSUME NEW q, Asks(q)
    PROVE  /\ DOMAIN q.select = {"reference", "type", "owner", "cue", "tag"}
           /\ \A c \in DOMAIN q.select : IsFiniteSet(q.select[c])
           /\ \E c \in DOMAIN q.select : q.select[c] # {}
           /\ q.limit \in Nat
<1>1. PICK x \in Queries : q.select = x.select /\ q.limit = x.limit
  BY DEF Asks
<1>2. IsQuery(x)
  BY MemoryAssumption
<1> QED  BY <1>1, <1>2, ComponentsAre DEF IsQuery

LEMMA RankIsKey ==
    ASSUME NEW q, Asks(q), NEW p
    PROVE  /\ Rank(p, q) \in RankKeys
           /\ \A i \in DOMAIN Components :
                 Rank(p, q)[i] > 0 <=> Offers(p)[Components[i]] \cap q.select[Components[i]] # {}
<1>1. ASSUME NEW i \in DOMAIN Components
      PROVE  /\ Rank(p, q)[i] = Cardinality(Offers(p)[Components[i]] \cap q.select[Components[i]])
             /\ Rank(p, q)[i] \in Nat
             /\ Rank(p, q)[i] > 0 <=> Offers(p)[Components[i]] \cap q.select[Components[i]] # {}
  <2>1. PICK S : S = Offers(p)[Components[i]] \cap q.select[Components[i]]
    OBVIOUS
  <2>2. IsFiniteSet(q.select[Components[i]])
    BY AsksFinitely, ComponentsAre
  <2>3. IsFiniteSet(S)
    <3>1. S \in SUBSET q.select[Components[i]]
      BY <2>1
    <3> QED  BY <2>2, <3>1, FS_Subset
  <2>4. Cardinality(S) \in Nat /\ (Cardinality(S) = 0 <=> S = {})
    BY <2>3, FS_CardinalityType, FS_EmptySet
  <2>5. Rank(p, q)[i] = Cardinality(S)
    BY <2>1 DEF Rank
  <2> QED  BY <2>1, <2>4, <2>5
<1>2. Rank(p, q) \in RankKeys
  <2>1. Rank(p, q) = [i \in DOMAIN Components |-> Rank(p, q)[i]]
    BY DEF Rank
  <2> QED  BY <1>1, <2>1 DEF RankKeys
<1> QED  BY <1>1, <1>2

LEMMA RanksByKey ==
    ASSUME NEW q, Asks(q), NEW p, NEW x
    PROVE  RanksBefore(p, x, q) <=>
              KeyBefore(Rank(p, q), PackageOrder[p.id], Rank(x, q), PackageOrder[x.id])
<1>1. PICK f, g : f = Rank(p, q) /\ g = Rank(x, q) /\ f \in RankKeys /\ g \in RankKeys
  BY RankIsKey
<1>2. PICK m, n : m = PackageOrder[p.id] /\ n = PackageOrder[x.id]
  OBVIOUS
<1> DEFINE I == DOMAIN Components
           D == {i \in I : f[i] # g[i]}
<1>3. \A i \in I : i \in Nat /\ f[i] \in Nat /\ g[i] \in Nat
  BY <1>1, ComponentsAre DEF RankKeys
<1>4. RanksBefore(p, x, q) <=> IF D = {} THEN m < n
                               ELSE \E i \in D : (\A j \in D : i <= j) /\ f[i] > g[i]
  BY <1>1, <1>2 DEF RanksBefore
<1>5. (\E i \in D : (\A j \in D : i <= j) /\ f[i] > g[i])
         <=> \E i \in I : f[i] > g[i] /\ \A j \in I : j < i => f[j] = g[j]
  <2>1. ASSUME NEW i \in D, \A j \in D : i <= j, f[i] > g[i]
        PROVE  \A j \in I : j < i => f[j] = g[j]
    BY <1>3, <2>1
  <2>2. ASSUME NEW i \in I, f[i] > g[i], \A j \in I : j < i => f[j] = g[j]
        PROVE  i \in D /\ \A j \in D : i <= j
    BY <1>3, <2>2
  <2>3. \A i \in D : i \in I
    OBVIOUS
  <2> HIDE DEF D, I
  <2> QED  BY <2>1, <2>2, <2>3
<1>6. D = {} <=> \A i \in I : f[i] = g[i]
  OBVIOUS
<1>7. (\E i \in I : f[i] > g[i] /\ \A j \in I : j < i => f[j] = g[j]) => D # {}
  BY <1>3
<1>8. KeyBefore(f, m, g, n) <=>
         \/ (\A i \in I : f[i] = g[i]) /\ m < n
         \/ \E i \in I : f[i] > g[i] /\ \A j \in I : j < i => f[j] = g[j]
  BY DEF KeyBefore
<1> HIDE DEF D, I
<1>9. RanksBefore(p, x, q) <=> KeyBefore(f, m, g, n)
  BY <1>4, <1>5, <1>6, <1>7, <1>8
<1> QED  BY <1>1, <1>2, <1>9

(* The packages that _rank_package ranks, and their order. *)
Rankable(o, q) ==
    {p \in o.packages : p.at = q.at /\ IsRanked(p, q) /\ ~ HasStaleReference(o, p)}
Ranking(o, q) ==
    {t \in Rankable(o, q) \X Rankable(o, q) : RanksBefore(t[1], t[2], q)}

LEMMA PackagesAreOrdered ==
    ASSUME NEW o, Typed(o), UniqueIds(o), NEW p \in o.packages, NEW x \in o.packages
    PROVE  /\ PackageOrder[p.id] \in Nat
           /\ p # x => PackageOrder[p.id] # PackageOrder[x.id]
<1>1. PICK g \in Registrations : p = g.package
  BY DEF Typed
<1>2. PICK h \in Registrations : x = h.package
  BY DEF Typed
<1>3. p.id \in DOMAIN PackageOrder /\ x.id \in DOMAIN PackageOrder
  BY <1>1, <1>2, MemoryAssumption
<1>4. "packages" \in Kinds \ {"policies", "records"}
  BY KindsAre
<1>5. p # x => p.id # x.id
  BY <1>4 DEF UniqueIds
<1> QED  BY <1>3, <1>5, PackageOrderAssumption

LEMMA RankingIsTotal ==
    ASSUME NEW o, Typed(o), UniqueIds(o), NEW q, Asks(q)
    PROVE  TotalOrder(Rankable(o, q), Ranking(o, q))
<1>1. PICK S : S = Rankable(o, q)
  OBVIOUS
<1>2. PICK R : R = Ranking(o, q)
  OBVIOUS
<1>3. \A p \in S : /\ p \in o.packages /\ PackageOrder[p.id] \in Nat
                   /\ Rank(p, q) \in RankKeys
  BY <1>1, PackagesAreOrdered, RankIsKey DEF Rankable
<1>4. \A p, x \in S : p # x => PackageOrder[p.id] # PackageOrder[x.id]
  BY <1>3, PackagesAreOrdered
<1>5. \A p, x \in S : <<p, x>> \in R <=> RanksBefore(p, x, q)
  BY <1>1, <1>2 DEF Ranking
<1>6. \A p, x \in S : <<p, x>> \in R <=>
         KeyBefore(Rank(p, q), PackageOrder[p.id], Rank(x, q), PackageOrder[x.id])
  BY <1>5, RanksByKey
<1>7. \A p \in S : <<p, p>> \notin R
  BY <1>3, <1>6, KeyOrder
<1>8. ASSUME NEW p \in S, NEW x \in S, p # x  PROVE <<p, x>> \in R \/ <<x, p>> \in R
  <2>1. PICK f, g, m, n : /\ f = Rank(p, q) /\ g = Rank(x, q)
                          /\ m = PackageOrder[p.id] /\ n = PackageOrder[x.id]
    OBVIOUS
  <2>2. f \in RankKeys /\ g \in RankKeys /\ m \in Nat /\ n \in Nat /\ m # n
    BY <1>3, <1>4, <1>8, <2>1
  <2>3. KeyBefore(f, m, g, n) \/ KeyBefore(g, n, f, m)
    BY <2>2, KeyOrder
  <2> QED  BY <1>6, <2>1, <2>3
<1>9. \A p, x, y \in S : <<p, x>> \in R /\ <<x, y>> \in R => <<p, y>> \in R
  BY <1>3, <1>6, KeyOrder
<1> QED  BY <1>1, <1>2, <1>7, <1>8, <1>9 DEF TotalOrder, StrictOrder

(* The hits are the first packages of the ranking. *)
LEMMA HitsAreFirst ==
    ASSUME NEW o, Typed(o), UniqueIds(o), NEW q, Asks(q)
    PROVE  /\ Hits(o, q) \subseteq Rankable(o, q)
           /\ IsFiniteSet(Hits(o, q)) /\ Cardinality(Hits(o, q)) <= q.limit
           /\ \A p \in Rankable(o, q) \ Hits(o, q) :
                 /\ Cardinality(Hits(o, q)) = q.limit
                 /\ \A h \in Hits(o, q) : RanksBefore(h, p, q)
<1>1. PICK S : S = Rankable(o, q)
  OBVIOUS
<1>2. PICK R : R = Ranking(o, q)
  OBVIOUS
<1>3. \A p, x \in S : <<p, x>> \in R <=> RanksBefore(p, x, q)
  BY <1>1, <1>2 DEF Ranking
<1>4. IsFiniteSet(S)
  <2>1. S \in SUBSET o.packages /\ IsFiniteSet(o.packages)
    BY <1>1 DEF Rankable, Typed
  <2> QED  BY <2>1, FS_Subset
<1>5. TotalOrder(S, R) /\ q.limit \in Nat
  BY <1>1, <1>2, RankingIsTotal, AsksFinitely
<1>6. Hits(o, q) = {p \in S : Cardinality({x \in S : RanksBefore(x, p, q)}) < q.limit}
  BY <1>1 DEF Hits, Rankable
<1>7. \A p \in S : {x \in S : RanksBefore(x, p, q)} = Below(S, R, p)
  BY <1>3 DEF Below
<1>8. Hits(o, q) = First(S, R, q.limit)
  <2>1. \A p \in S : Cardinality({x \in S : RanksBefore(x, p, q)}) = Cardinality(Below(S, R, p))
    BY <1>7
  <2>2. \A p : p \in Hits(o, q) <=> p \in First(S, R, q.limit)
    BY <1>6, <2>1 DEF First
  <2>3. Hits(o, q) \subseteq S /\ First(S, R, q.limit) \subseteq S
    BY <1>6 DEF First
  <2> QED  BY <2>2, <2>3
<1>9. /\ IsFiniteSet(First(S, R, q.limit)) /\ Cardinality(First(S, R, q.limit)) <= q.limit
      /\ \A x \in S \ First(S, R, q.limit) :
            /\ Cardinality(First(S, R, q.limit)) = q.limit
            /\ \A h \in First(S, R, q.limit) : <<h, x>> \in R
  BY <1>4, <1>5, FirstOfOrder
<1>10. First(S, R, q.limit) \subseteq S
  BY DEF First
<1> QED  BY <1>1, <1>3, <1>8, <1>9, <1>10

(* What it takes to be ranked: each selector of the query meets something, *)
(* and one reference meets all of the selectors of references.             *)
LEMMA RankedIs ==
    ASSUME NEW q, Asks(q), NEW p, NEW asked, asked = {c \in DOMAIN q.select : q.select[c] # {}}
    PROVE  /\ IsRanked(p, q) => \A c \in asked : Offers(p)[c] \cap q.select[c] # {}
           /\ /\ \A c \in asked \cap {"cue", "tag"} : Offers(p)[c] \cap q.select[c] # {}
              /\ asked \subseteq {"cue", "tag"} \/ MatchingReferences(p, q) # {}
              => IsRanked(p, q)
<1>1. asked \subseteq {"reference", "type", "owner", "cue", "tag"} /\ asked # {}
      /\ \A c \in {"reference", "type", "owner", "cue", "tag"} : c \in asked <=> q.select[c] # {}
  BY AsksFinitely
<1>2. /\ Offers(p)["reference"] = p.refs /\ Offers(p)["type"] = {r.type : r \in p.refs}
      /\ Offers(p)["owner"] = {OwnerOf[r.type] : r \in p.refs}
      /\ Offers(p)["cue"] = p.cues /\ Offers(p)["tag"] = p.tags
  BY DEF Offers
<1>3. ASSUME MatchingReferences(p, q) # {}
      PROVE  \A c \in asked \ {"cue", "tag"} : Offers(p)[c] \cap q.select[c] # {}
  <2>1. PICK r \in MatchingReferences(p, q) : TRUE
    BY <1>3
  <2>2. /\ r \in p.refs
        /\ q.select["owner"] # {} => OwnerOf[r.type] \in q.select["owner"]
        /\ q.select["type"] # {} => r.type \in q.select["type"]
        /\ q.select["reference"] # {} => r \in q.select["reference"]
    BY <2>1 DEF MatchingReferences
  <2>3. "owner" \in asked => OwnerOf[r.type] \in Offers(p)["owner"] \cap q.select["owner"]
    BY <1>1, <1>2, <2>2
  <2>4. "type" \in asked => r.type \in Offers(p)["type"] \cap q.select["type"]
    BY <1>1, <1>2, <2>2
  <2>5. "reference" \in asked => r \in Offers(p)["reference"] \cap q.select["reference"]
    BY <1>1, <1>2, <2>2
  <2>6. \A c \in asked \ {"cue", "tag"} : c \in {"owner", "type", "reference"}
    BY <1>1
  <2> QED  BY <2>3, <2>4, <2>5, <2>6
<1>4. ASSUME IsRanked(p, q), NEW c \in asked  PROVE Offers(p)[c] \cap q.select[c] # {}
  <2>1. /\ (\E d \in {"owner", "type", "reference"} : q.select[d] # {})
              => MatchingReferences(p, q) # {}
        /\ q.select["cue"] # {} => p.cues \cap q.select["cue"] # {}
        /\ q.select["tag"] # {} => p.tags \cap q.select["tag"] # {}
    BY <1>4 DEF IsRanked
  <2>2. CASE c \in {"cue", "tag"}
    BY <1>1, <1>2, <2>1, <2>2
  <2>3. CASE c \notin {"cue", "tag"}
    <3>1. MatchingReferences(p, q) # {}
      BY <1>1, <2>1, <2>3
    <3> QED  BY <1>3, <2>3, <3>1
  <2> QED  BY <2>2, <2>3
<1>5. ASSUME \A c \in asked \cap {"cue", "tag"} : Offers(p)[c] \cap q.select[c] # {},
             asked \subseteq {"cue", "tag"} \/ MatchingReferences(p, q) # {}
      PROVE  IsRanked(p, q)
  <2>1. \A c \in asked : Offers(p)[c] \cap q.select[c] # {}
    <3>1. ASSUME NEW c \in asked  PROVE Offers(p)[c] \cap q.select[c] # {}
      <4>1. CASE c \in {"cue", "tag"}
        BY <1>5, <4>1
      <4>2. CASE c \notin {"cue", "tag"}
        BY <1>3, <1>5, <4>2
      <4> QED  BY <4>1, <4>2
    <3> QED  BY <3>1
  <2>2. (\E d \in {"owner", "type", "reference"} : q.select[d] # {})
           => MatchingReferences(p, q) # {}
    BY <1>1, <1>5
  <2>3. /\ q.select["cue"] # {} => p.cues \cap q.select["cue"] # {}
        /\ q.select["tag"] # {} => p.tags \cap q.select["tag"] # {}
    BY <1>1, <1>2, <2>1
  <2>4. \E i \in DOMAIN Components : Rank(p, q)[i] > 0
    <3>1. PICK c \in asked : TRUE
      BY <1>1
    <3>2. PICK i \in DOMAIN Components : Components[i] = c
      BY <1>1, <3>1, ComponentsAre
    <3>3. Offers(p)[Components[i]] \cap q.select[Components[i]] # {}
      BY <2>1, <3>1, <3>2
    <3> QED  BY <3>3, RankIsKey
  <2> QED  BY <2>2, <2>3, <2>4 DEF IsRanked
<1> QED  BY <1>4, <1>5

(* The persisted result names each hit by its id and its content. *)
HitOf(p) == [package |-> p.id, content |-> p]
LEMMA ResultIs ==
    ASSUME NEW o, NEW q, NEW r, r = Retrieved(o, q)
    PROVE  /\ r.id = q.result /\ r.query = q.id /\ r.policy = q.policy
           /\ r.sequence = q.sequence /\ r.index = q.index
           /\ r.hits = {HitOf(p) : p \in Hits(o, q)}
<1>1. \A a, b, c, d, e, f, g :
         LET x == [id |-> a, query |-> b, policy |-> c, sequence |-> d, index |-> e,
                   hits |-> f, stale |-> g] IN
         /\ x.id = a /\ x.query = b /\ x.policy = c /\ x.sequence = d /\ x.index = e
         /\ x.hits = f
  OBVIOUS
<1>2. PICK H : H = {[package |-> p.id, content |-> p] : p \in Hits(o, q)}
  OBVIOUS
<1>3. r = [id |-> q.result, query |-> q.id, policy |-> q.policy, sequence |-> q.sequence,
           index |-> q.index, hits |-> H, stale |-> StalePackages(o, q)]
  BY <1>2, Zenon DEF Retrieved
<1>4. H = {HitOf(p) : p \in Hits(o, q)}
  BY <1>2, Zenon DEF HitOf
<1> QED  BY <1>1, <1>3, <1>4

LEMMA EntriesCount ==
    ASSUME NEW H, IsFiniteSet(H), NEW E, E = {HitOf(p) : p \in H}
    PROVE  Cardinality(E) = Cardinality(H)
<1>0. PICK f : f = [p \in H |-> HitOf(p)]
  OBVIOUS
<1>1. \A p, x : HitOf(p) = HitOf(x) => p = x
  <2>1. \A p : HitOf(p).content = p
    BY DEF HitOf
  <2> QED  BY <2>1
<1>2. f \in Bijection(H, E)
  <2>1. f \in [H -> E]
    BY <1>0
  <2>2. \A p, x \in H : f[p] = f[x] => p = x
    BY <1>0, <1>1
  <2>3. \A e \in E : \E p \in H : f[p] = e
    BY <1>0
  <2>4. f \in Injection(H, E)
    BY <2>1, <2>2 DEF Injection, IsInjective
  <2>5. f \in Surjection(H, E)
    BY <2>1, <2>3 DEF Surjection
  <2> QED  BY <2>4, <2>5 DEF Bijection
<1>3. ExistsBijection(H, E)
  BY <1>2 DEF ExistsBijection
<1> QED  BY <1>3, FS_Bijection

(* What a retrieval over a valid state finds. *)
Found(o, q, asked, r) ==
    /\ Cardinality(r.hits) <= q.limit
    /\ \A h \in r.hits :
          /\ h.content \in o.packages
          /\ \A c \in asked : Offers(h.content)[c] \cap q.select[c] # {}
    /\ \A p \in o.packages :
          /\ \A c \in asked \cap {"cue", "tag"} : Offers(p)[c] \cap q.select[c] # {}
          /\ asked \subseteq {"cue", "tag"} \/ MatchingReferences(p, q) # {}
          /\ [package |-> p.id, content |-> p] \notin r.hits
          => /\ Cardinality(r.hits) = q.limit
             /\ \A h \in r.hits : RanksBefore(h.content, p, q)
LEMMA RetrievedExactly ==
    ASSUME NEW o, Typed(o), UniqueIds(o), ValidReferences(o),
           NEW q, Asks(q), q.at = Context, NEW r, r = Retrieved(o, q),
           NEW asked, asked = {c \in DOMAIN q.select : q.select[c] # {}}
    PROVE  Found(o, q, asked, r)
<1>1. PICK H : H = Hits(o, q)
  OBVIOUS
<1>2. /\ H \subseteq Rankable(o, q) /\ IsFiniteSet(H) /\ Cardinality(H) <= q.limit
      /\ \A p \in Rankable(o, q) \ H :
            Cardinality(H) = q.limit /\ \A h \in H : RanksBefore(h, p, q)
  BY <1>1, HitsAreFirst
<1>3. r.hits = {HitOf(p) : p \in H}
  BY <1>1, ResultIs
<1>4. Cardinality(r.hits) = Cardinality(H)
  BY <1>2, <1>3, EntriesCount
<1>5. ASSUME NEW h \in r.hits  PROVE h.content \in H
  <2>1. PICK p \in H : h = HitOf(p)
    BY <1>3
  <2>2. h.content = p
    BY <2>1 DEF HitOf
  <2> QED  BY <2>2
<1>6. ASSUME NEW h \in r.hits
      PROVE  /\ h.content \in o.packages
             /\ \A c \in asked : Offers(h.content)[c] \cap q.select[c] # {}
  <2>1. PICK p : p = h.content
    OBVIOUS
  <2>2. p \in Rankable(o, q)
    BY <1>2, <1>5, <2>1
  <2>3. p \in o.packages /\ IsRanked(p, q)
    BY <2>2 DEF Rankable
  <2>4. \A c \in asked : Offers(p)[c] \cap q.select[c] # {}
    BY <2>3, RankedIs
  <2> QED  BY <2>1, <2>3, <2>4
<1>7. ASSUME NEW p \in o.packages,
             \A c \in asked \cap {"cue", "tag"} : Offers(p)[c] \cap q.select[c] # {},
             asked \subseteq {"cue", "tag"} \/ MatchingReferences(p, q) # {},
             [package |-> p.id, content |-> p] \notin r.hits
      PROVE  /\ Cardinality(r.hits) = q.limit
             /\ \A h \in r.hits : RanksBefore(h.content, p, q)
  <2>1. IsRanked(p, q)
    BY <1>7, RankedIs
  <2>2. p.at = q.at /\ ~ HasStaleReference(o, p)
    BY DEF Typed, ValidReferences, HasStaleReference
  <2>3. p \in Rankable(o, q)
    BY <2>1, <2>2 DEF Rankable
  <2>4. p \notin H
    BY <1>3, <1>7 DEF HitOf
  <2> QED  BY <1>2, <1>4, <1>5, <2>3, <2>4
<1> QED  BY <1>2, <1>4, <1>6, <1>7 DEF Found

(* The one command that adds a result answers the query of the call that   *)
(* dispatched it.                                                          *)
LEMMA OnlyRetrievalAnswers ==
    ASSUME IInv, [Next]_vars, NEW r \in owned'.results \ owned.results
    PROVE  /\ plan # None /\ MayRunRetrieval(owned, plan, sequence)
           /\ r = Retrieved(owned, plan) /\ Get(owned'.queries, r.query) = plan
<1>1. Typed(owned) /\ owned = [k \in Kinds |-> owned[k]]
  BY DEF IInv, Typed
<1>2. ASSUME NEW k \in {"records", "requests", "links", "observations", "comparisons"},
             NEW x, Fold(k, x)
      PROVE  FALSE
  <2>1. owned' = Plus(owned, k, x)
    BY <1>2 DEF Fold, Advance, Plus
  <2>2. k \in SetKinds /\ "results" \in Kinds \ {k}
    BY KindsAre DEF SetKinds
  <2>3. owned'.results = owned.results
    BY <1>1, <2>1, <2>2, FoldWrites
  <2> QED  BY <2>3
<1>3. ASSUME NEW g, RegisterRetentionPackage(g)  PROVE FALSE
  <2>1. owned' = WithRegistration(owned, g)
    BY <1>3 DEF RegisterRetentionPackage, Advance
  <2>2. Registers(owned, g, owned')
    BY <1>1, <2>1, RegistrationWrites
  <2> QED  BY <2>2 DEF Registers
<1>4. ASSUME owned' = owned  PROVE FALSE
  BY <1>4
<1>5. RunRetrieval
  BY <1>2, <1>3, <1>4 DEF Next, vars, RecordOwned, BuildQuery, RetrievalFails,
     RequestReacquisition, LinkReacquisitionInquiry, RecordRecoveryObservation,
     RecordRecoveryComparison
<1>6. /\ plan # None /\ MayRunRetrieval(owned, plan, sequence)
      /\ owned' = WithRetrieval(owned, plan) /\ Valid(owned', sequence', Inquiry, Context)
  BY <1>5 DEF RunRetrieval, Advance
<1>7. /\ owned'.queries = owned.queries \cup {plan}
      /\ owned'.results = owned.results \cup {Retrieved(owned, plan)}
  <2>1. PICK o, p, q, x : /\ o = owned /\ p = owned' /\ q = plan
                          /\ x = Retrieved(owned, plan)
    OBVIOUS
  <2>2. o = [k \in Kinds |-> o[k]] /\ p = WithRetrieval(o, q) /\ x = Retrieved(o, q)
    BY <1>1, <1>6, <2>1
  <2>3. Answers(o, q, x, p)
    BY <2>2, RetrievalWrites
  <2> QED  BY <2>1, <2>3 DEF Answers
<1>8. r = Retrieved(owned, plan)
  BY <1>7
<1>9. Get(owned'.queries, r.query) = plan
  <2>1. r.query = plan.id
    BY <1>8, ResultIs
  <2>2. UniqueIds(owned')
    BY <1>6 DEF Valid
  <2>3. "queries" \in Kinds \ {"policies", "records"}
    BY KindsAre
  <2>4. \A x, y \in owned'.queries : x.id = y.id => x = y
    BY <2>2, <2>3 DEF UniqueIds
  <2>5. PICK Q : Q = owned'.queries
    OBVIOUS
  <2>6. plan \in Q /\ \A x \in Q : x.id = plan.id => x = plan
    BY <1>7, <2>4, <2>5
  <2>7. (CHOOSE x \in Q : x.id = plan.id) = plan
    BY <2>6
  <2> QED  BY <2>1, <2>5, <2>7 DEF Get
<1> QED  BY <1>6, <1>8, <1>9

(* The step that RetrievalIsExact allows. *)
StepIsExact ==
    \A r \in owned'.results \ owned.results :
        LET q == Get(owned'.queries, r.query)
            asked == {c \in DOMAIN q.select : q.select[c] # {}} IN
        /\ r.sequence = sequence /\ r.index = StructuralIndex(owned)
        /\ Cardinality(r.hits) <= q.limit
        /\ \A h \in r.hits :
              /\ h.content \in owned.packages
              /\ \A c \in asked : Offers(h.content)[c] \cap q.select[c] # {}
        /\ \A p \in owned.packages :
              /\ \A c \in asked \cap {"cue", "tag"} : Offers(p)[c] \cap q.select[c] # {}
              /\ asked \subseteq {"cue", "tag"} \/ MatchingReferences(p, q) # {}
              /\ [package |-> p.id, content |-> p] \notin r.hits
              => /\ Cardinality(r.hits) = q.limit
                 /\ \A h \in r.hits : RanksBefore(h.content, p, q)

(* What retrieve persists is exactly what the state it pins offers to the  *)
(* query, ranked and cut off at the limit, whatever committed between the  *)
(* inspection of the state and the dispatch of the command.                *)
THEOREM RetrievalIsAlwaysExact == Spec => RetrievalIsExact
<1>1. ASSUME IInv, [Next]_vars  PROVE StepIsExact
  <2> SUFFICES ASSUME NEW r \in owned'.results \ owned.results
               PROVE  LET q == Get(owned'.queries, r.query)
                          asked == {c \in DOMAIN q.select : q.select[c] # {}} IN
                      /\ r.sequence = sequence /\ r.index = StructuralIndex(owned)
                      /\ Found(owned, q, asked, r)
    BY DEF StepIsExact, Found
  <2>1. PICK o, q, asked : /\ o = owned /\ q = Get(owned'.queries, r.query)
                           /\ asked = {c \in DOMAIN q.select : q.select[c] # {}}
    OBVIOUS
  <2>2. /\ plan # None /\ MayRunRetrieval(o, plan, sequence)
        /\ r = Retrieved(o, plan) /\ q = plan
    BY <1>1, <2>1, OnlyRetrievalAnswers
  <2>3. /\ Typed(o) /\ UniqueIds(o) /\ ValidReferences(o)
        /\ plan.at = Context /\ Asks(plan)
    BY <1>1, <2>1, <2>2 DEF IInv, Valid, PlanTyped, Asks
  <2>4. r = Retrieved(o, q) /\ Asks(q) /\ q.at = Context
    BY <2>2, <2>3
  <2>5. r.sequence = sequence /\ r.index = StructuralIndex(o)
    <3>1. r.sequence = q.sequence /\ r.index = q.index
      BY <2>4, ResultIs
    <3> QED  BY <2>2, <3>1 DEF MayRunRetrieval
  <2>6. Found(o, q, asked, r)
    BY <2>1, <2>3, <2>4, RetrievedExactly
  <2> QED  BY <2>1, <2>5, <2>6
<1>2. IInv /\ [Next]_vars => [StepIsExact]_vars
  BY <1>1
<1>3. Spec => [][StepIsExact]_vars
  BY <1>2, AlwaysIInv, PTL DEF Spec
<1> QED  BY <1>3, PTL DEF RetrievalIsExact, StepIsExact

------------------------------------------------------------------------------
(* What decide accepts also folds.  Each validator reads a few of the      *)
(* collections: it holds of a state that keeps or extends those.           *)

LEMMA ResolvesInMore ==
    ASSUME NEW o, NEW p, NEW ref, Resolves(o, ref),
           o.packages \subseteq p.packages, o.scaffolds \subseteq p.scaffolds,
           o.protocols \subseteq p.protocols, o.records \subseteq p.records
    PROVE  Resolves(p, ref)
BY DEF Resolves

LEMMA OwnsRouteInMore ==
    ASSUME NEW o, NEW p, NEW r, OwnsRoute(o, r),
           o.packages \subseteq p.packages, o.reacquisition \subseteq p.reacquisition
    PROVE  OwnsRoute(p, r)
BY DEF OwnsRoute

LEMMA ReferencesStayValid ==
    ASSUME NEW o, NEW p, ValidReferences(o), p.packages = o.packages,
           p.scaffolds = o.scaffolds, p.protocols = o.protocols, p.records = o.records
    PROVE  ValidReferences(p)
<1>1. ASSUME NEW x \in p.packages, NEW ref \in x.refs  PROVE Resolves(p, ref)
  <2>1. Resolves(o, ref)
    BY DEF ValidReferences
  <2> QED  BY <2>1, ResolvesInMore
<1> QED  BY <1>1 DEF ValidReferences

LEMMA RegistrationsStayValid ==
    ASSUME NEW o, NEW p, ValidRegistrations(o), ValidPackagePins(o),
           p.packages = o.packages, \A k \in MemberKinds : p[k] = o[k]
    PROVE  ValidRegistrations(p) /\ ValidPackagePins(p)
<1>1. ValidRegistrations(p)
  <2>1. ASSUME NEW k \in MemberKinds
        PROVE  /\ \A y, x \in p.packages : y # x => y.ids[k] \cap x.ids[k] = {}
               /\ Ids(p[k]) = UNION {y.ids[k] : y \in p.packages}
    BY DEF ValidRegistrations
  <2> QED  BY <2>1 DEF ValidRegistrations
<1>2. ValidPackagePins(p)
  BY DEF ValidPackagePins
<1> QED  BY <1>1, <1>2

LEMMA RetrievalsStayValid ==
    ASSUME NEW o, NEW p, NEW s \in Nat, ValidRetrievals(o, s), UniqueIds(o),
           \A q \in o.queries : q.sequence \in Nat,
           p.queries = o.queries, p.results = o.results, p.policies = o.policies,
           o.packages \subseteq p.packages
    PROVE  ValidRetrievals(p, s + 1)
<1>1. /\ {r.query : r \in p.results} = Ids(p.queries)
      /\ Cardinality(p.results) = Cardinality(p.queries)
      /\ {q.policy : q \in p.queries} = {p.policies[i] : i \in DOMAIN p.policies}
  BY DEF ValidRetrievals
<1>2. ASSUME NEW r \in p.results
      PROVE  LET q == Get(p.queries, r.query) IN
             /\ r.policy = q.policy /\ r.sequence = q.sequence /\ r.index = q.index
             /\ q.sequence < s + 1
             /\ \A h \in r.hits : \E x \in p.packages : x.id = h.package /\ x = h.content
  <2>1. PICK q : q = Get(o.queries, r.query)
    OBVIOUS
  <2>2. /\ r.policy = q.policy /\ r.sequence = q.sequence /\ r.index = q.index
        /\ q.sequence < s
        /\ \A h \in r.hits : \E x \in o.packages : x.id = h.package /\ x = h.content
    BY <2>1 DEF ValidRetrievals
  <2>3. q \in o.queries
    <3>1. r.query \in Ids(o.queries)
      BY DEF ValidRetrievals
    <3>2. \E x \in o.queries : x.id = r.query
      BY <3>1 DEF Ids
    <3> QED  BY <2>1, <3>2 DEF Get
  <2>4. q.sequence < s + 1
    BY <2>2, <2>3
  <2>5. q = Get(p.queries, r.query)
    BY <2>1
  <2> QED  BY <2>2, <2>4, <2>5
<1> QED  BY <1>1, <1>2 DEF ValidRetrievals

LEMMA RequestsStayValid ==
    ASSUME NEW o, NEW p, ValidRequests(o, Inquiry, Context), p.requests = o.requests,
           o.packages \subseteq p.packages, o.protocols \subseteq p.protocols,
           o.reacquisition \subseteq p.reacquisition
    PROVE  ValidRequests(p, Inquiry, Context)
<1>1. \A r \in p.requests : r.package # None => OwnsRoute(p, r)
  BY OwnsRouteInMore DEF ValidRequests
<1> QED  BY <1>1 DEF ValidRequests

LEMMA LinksStayValid ==
    ASSUME NEW o, NEW p, ValidLinks(o), p.links = o.links, o.requests \subseteq p.requests
    PROVE  ValidLinks(p)
BY DEF ValidLinks

LEMMA ObservesInMore ==
    ASSUME NEW o, NEW p, NEW x, ObservesLinkedChild(o, x), SoundlyMeasured(o, x),
           o.requests \subseteq p.requests, o.links \subseteq p.links,
           o.records \subseteq p.records
    PROVE  ObservesLinkedChild(p, x) /\ SoundlyMeasured(p, x)
<1>1. ObservesLinkedChild(p, x)
  BY DEF ObservesLinkedChild
<1>2. SoundlyMeasured(p, x)
  BY DEF SoundlyMeasured, IsChecked
<1> QED  BY <1>1, <1>2

LEMMA ObservationsStayValid ==
    ASSUME NEW o, NEW p, ValidObservations(o), p.observations = o.observations,
           o.requests \subseteq p.requests, o.links \subseteq p.links,
           o.records \subseteq p.records
    PROVE  ValidObservations(p)
<1>1. \A x \in p.observations : ObservesLinkedChild(p, x) /\ SoundlyMeasured(p, x)
  BY ObservesInMore DEF ValidObservations
<1> QED  BY <1>1 DEF ValidObservations

(* A comparison is derived from the observations it names, and those do    *)
(* not change when others join them.                                       *)
LEMMA ComparisonsStayDerived ==
    ASSUME NEW o, NEW p, NEW c, IsDerivedComparison(o, c),
           o.observations \subseteq p.observations, o.records \subseteq p.records,
           \A x \in p.observations \ o.observations : x.id \notin Ids(o.observations)
    PROVE  IsDerivedComparison(p, c)
<1>1. PICK B, R : B = From(o, c.baseline.sources) /\ R = From(o, c.retained.sources)
  OBVIOUS
<1>2. /\ c.baseline.sources \cup c.retained.sources \subseteq Ids(o.observations)
      /\ Derivable("baseline", c.pins, B) /\ Derivable("retained", c.pins, R)
      /\ c.baseline = Frontier(B) /\ c.retained = Frontier(R)
      /\ c = Compared(c.id, c.pins, c.baseline, c.retained, c.check)
      /\ IsChecked(o, c.check, [c EXCEPT !.check = None], c.pins.at)
  BY <1>1 DEF IsDerivedComparison, From
<1>3. B = From(p, c.baseline.sources) /\ R = From(p, c.retained.sources)
  BY <1>1, <1>2 DEF From
<1>4. c.baseline.sources \cup c.retained.sources \subseteq Ids(p.observations)
  BY <1>2 DEF Ids
<1>5. IsChecked(p, c.check, [c EXCEPT !.check = None], c.pins.at)
  BY <1>2 DEF IsChecked
<1> QED  BY <1>2, <1>3, <1>4, <1>5 DEF IsDerivedComparison, From

LEMMA ComparisonsStayValid ==
    ASSUME NEW o, NEW p, ValidComparisons(o), p.comparisons = o.comparisons,
           p.observations = o.observations, p.records = o.records
    PROVE  ValidComparisons(p)
BY ComparisonsStayDerived DEF ValidComparisons

(* A new record of a request, a link, a measurement or a comparison.  The  *)
(* validators of the other records do not read it.                         *)
LEMMA NewIdStaysUnique ==
    ASSUME NEW o, o = [j \in Kinds |-> o[j]], UniqueIds(o), NEW k \in RecoveryKinds,
           NEW r, r.id \notin Ids(o[k]), NEW p, p = Plus(o, k, r)
    PROVE  UniqueIds(p)
<1>1. k \in SetKinds /\ k \in Kinds \ {"policies", "records"} /\ "policies" \in Kinds \ {k}
  BY KindsAre DEF SetKinds, RecoveryKinds
<1>2. p[k] = o[k] \cup {r} /\ \A j \in Kinds \ {k} : p[j] = o[j]
  BY <1>1, FoldWrites
<1>3. \A x \in o[k] : x.id # r.id
  BY DEF Ids
<1>4. ASSUME NEW j \in Kinds \ {"policies", "records"}, NEW x \in p[j], NEW y \in p[j],
             x.id = y.id
      PROVE  x = y
  <2>1. \A a, b \in o[j] : a.id = b.id => a = b
    BY DEF UniqueIds
  <2>2. CASE j = k
    BY <1>2, <1>3, <1>4, <2>1, <2>2
  <2>3. CASE j # k
    BY <1>2, <1>4, <2>1, <2>3
  <2> QED  BY <2>2, <2>3
<1>5. p.policies = o.policies
  BY <1>1, <1>2
<1> HIDE DEF Kinds
<1> QED  BY <1>4, <1>5 DEF UniqueIds

LEMMA FoldKeepsTheRest ==
    ASSUME NEW o, Typed(o), NEW s \in Nat, Valid(o, s, Inquiry, Context),
           NEW k \in RecoveryKinds, NEW r, r.id \notin Ids(o[k]), NEW p, p = Plus(o, k, r)
    PROVE  /\ UniqueIds(p) /\ ValidReferences(p) /\ ValidRegistrations(p)
           /\ ValidPackagePins(p) /\ ValidRetrievals(p, s + 1)
           /\ p[k] = o[k] \cup {r} /\ \A j \in Kinds \ {k} : p[j] = o[j]
<1>1. o = [j \in Kinds |-> o[j]] /\ \A q \in o.queries : q.sequence \in Nat
  BY DEF Typed
<1>2. /\ UniqueIds(o) /\ ValidReferences(o) /\ ValidRegistrations(o)
      /\ ValidPackagePins(o) /\ ValidRetrievals(o, s)
  BY DEF Valid
<1>3. k \in SetKinds
  BY KindsAre DEF SetKinds, RecoveryKinds
<1>4. p[k] = o[k] \cup {r} /\ \A j \in Kinds \ {k} : p[j] = o[j]
  BY <1>1, <1>3, FoldWrites
<1>5. /\ \A j \in MemberKinds : p[j] = o[j]
      /\ p.packages = o.packages /\ p.scaffolds = o.scaffolds /\ p.protocols = o.protocols
      /\ p.records = o.records /\ p.queries = o.queries /\ p.results = o.results
      /\ p.policies = o.policies
  BY <1>4, KindsAre DEF RecoveryKinds
<1>6. UniqueIds(p)
  BY <1>1, <1>2, NewIdStaysUnique
<1>7. ValidReferences(p)
  BY <1>2, <1>5, ReferencesStayValid
<1>8. ValidRegistrations(p) /\ ValidPackagePins(p)
  BY <1>2, <1>5, RegistrationsStayValid
<1>9. ValidRetrievals(p, s + 1)
  BY <1>1, <1>2, <1>5, RetrievalsStayValid
<1> QED  BY <1>4, <1>6, <1>7, <1>8, <1>9

LEMMA RequestFolds ==
    ASSUME NEW o, Typed(o), NEW s \in Nat, Valid(o, s, Inquiry, Context),
           NEW r, MayRequestReacquisition(o, r, Inquiry, Context),
           NEW p, p = Plus(o, "requests", r)
    PROVE  Valid(p, s + 1, Inquiry, Context)
<1>1. /\ r.id \notin Ids(o.requests) /\ \A x \in o.requests : x.child # r.child
      /\ r.parent = Inquiry /\ r.pins.at = Context
      /\ \E x \in o.protocols : PinsOf(x) = r.pins
      /\ r.package # None => OwnsRoute(o, r)
  BY DEF MayRequestReacquisition
<1>2. /\ UniqueIds(p) /\ ValidReferences(p) /\ ValidRegistrations(p)
      /\ ValidPackagePins(p) /\ ValidRetrievals(p, s + 1)
      /\ p.requests = o.requests \cup {r} /\ \A j \in Kinds \ {"requests"} : p[j] = o[j]
  BY <1>1, FoldKeepsTheRest DEF RecoveryKinds
<1>3. /\ p.packages = o.packages /\ p.protocols = o.protocols
      /\ p.reacquisition = o.reacquisition /\ p.records = o.records
      /\ p.links = o.links /\ p.observations = o.observations
      /\ p.comparisons = o.comparisons
  BY <1>2, KindsAre
<1>4. ValidRequests(o, Inquiry, Context) /\ ValidLinks(o) /\ ValidObservations(o)
      /\ ValidComparisons(o)
  BY DEF Valid
<1>5. ValidRequests(p, Inquiry, Context)
  <2>1. \A x \in o.requests : x.package # None => OwnsRoute(p, x)
    BY <1>3, <1>4, OwnsRouteInMore DEF ValidRequests
  <2>2. r.package # None => OwnsRoute(p, r)
    BY <1>1, <1>3, OwnsRouteInMore
  <2>3. \A x, y \in p.requests : x.child = y.child => x = y
    BY <1>1, <1>2, <1>4 DEF ValidRequests
  <2>4. \A x \in p.requests : /\ x.parent = Inquiry /\ x.pins.at = Context
                              /\ \E y \in p.protocols : PinsOf(y) = x.pins
    BY <1>1, <1>2, <1>3, <1>4 DEF ValidRequests
  <2> QED  BY <1>2, <2>1, <2>2, <2>3, <2>4 DEF ValidRequests
<1>6. ValidLinks(p) /\ ValidObservations(p) /\ ValidComparisons(p)
  BY <1>2, <1>3, <1>4, LinksStayValid, ObservationsStayValid, ComparisonsStayValid
<1> QED  BY <1>2, <1>5, <1>6 DEF Valid

LEMMA LinkFolds ==
    ASSUME NEW o, Typed(o), NEW s \in Nat, Valid(o, s, Inquiry, Context),
           NEW l, MayLinkReacquisitionInquiry(o, l), NEW p, p = Plus(o, "links", l)
    PROVE  Valid(p, s + 1, Inquiry, Context)
<1>1. /\ l.id \notin Ids(o.links) /\ \A x \in o.links : x.request # l.request
      /\ \E r \in o.requests : /\ r.id = l.request /\ r.parent = l.parent
                               /\ r.child = l.child /\ r.manifest = l.manifest
  BY DEF MayLinkReacquisitionInquiry
<1>2. /\ UniqueIds(p) /\ ValidReferences(p) /\ ValidRegistrations(p)
      /\ ValidPackagePins(p) /\ ValidRetrievals(p, s + 1)
      /\ p.links = o.links \cup {l} /\ \A j \in Kinds \ {"links"} : p[j] = o[j]
  BY <1>1, FoldKeepsTheRest DEF RecoveryKinds
<1>3. /\ p.packages = o.packages /\ p.protocols = o.protocols
      /\ p.reacquisition = o.reacquisition /\ p.records = o.records
      /\ p.requests = o.requests /\ p.observations = o.observations
      /\ p.comparisons = o.comparisons
  BY <1>2, KindsAre
<1>4. ValidRequests(o, Inquiry, Context) /\ ValidLinks(o) /\ ValidObservations(o)
      /\ ValidComparisons(o)
  BY DEF Valid
<1>5. ValidRequests(p, Inquiry, Context)
  BY <1>3, <1>4, RequestsStayValid
<1>6. ValidLinks(p)
  <2>1. \A x, y \in p.links : x.request = y.request => x = y
    BY <1>1, <1>2, <1>4 DEF ValidLinks
  <2>2. \A x \in p.links : \E r \in p.requests :
           /\ r.id = x.request /\ r.parent = x.parent
           /\ r.child = x.child /\ r.manifest = x.manifest
    BY <1>1, <1>2, <1>3, <1>4 DEF ValidLinks
  <2> QED  BY <2>1, <2>2 DEF ValidLinks
<1>7. ValidObservations(p) /\ ValidComparisons(p)
  BY <1>2, <1>3, <1>4, ObservationsStayValid, ComparisonsStayValid
<1> QED  BY <1>2, <1>5, <1>6, <1>7 DEF Valid

LEMMA ObservationFolds ==
    ASSUME NEW o, Typed(o), NEW s \in Nat, Valid(o, s, Inquiry, Context),
           NEW x, MayRecordRecoveryObservation(o, x), NEW p, p = Plus(o, "observations", x)
    PROVE  Valid(p, s + 1, Inquiry, Context)
<1>1. /\ x.id \notin Ids(o.observations) /\ \A y \in o.observations : y.request # x.request
      /\ ObservesLinkedChild(o, x) /\ SoundlyMeasured(o, x)
  BY DEF MayRecordRecoveryObservation
<1>2. /\ UniqueIds(p) /\ ValidReferences(p) /\ ValidRegistrations(p)
      /\ ValidPackagePins(p) /\ ValidRetrievals(p, s + 1)
      /\ p.observations = o.observations \cup {x}
      /\ \A j \in Kinds \ {"observations"} : p[j] = o[j]
  BY <1>1, FoldKeepsTheRest DEF RecoveryKinds
<1>3. /\ p.packages = o.packages /\ p.protocols = o.protocols
      /\ p.reacquisition = o.reacquisition /\ p.records = o.records
      /\ p.requests = o.requests /\ p.links = o.links
      /\ p.comparisons = o.comparisons
  BY <1>2, KindsAre
<1>4. ValidRequests(o, Inquiry, Context) /\ ValidLinks(o) /\ ValidObservations(o)
      /\ ValidComparisons(o)
  BY DEF Valid
<1>5. ValidRequests(p, Inquiry, Context) /\ ValidLinks(p)
  BY <1>3, <1>4, RequestsStayValid, LinksStayValid
<1>6. ValidObservations(p)
  <2>1. \A y \in o.observations \cup {x} : ObservesLinkedChild(o, y) /\ SoundlyMeasured(o, y)
    BY <1>1, <1>4 DEF ValidObservations
  <2>2. \A y \in p.observations : ObservesLinkedChild(p, y) /\ SoundlyMeasured(p, y)
    BY <1>2, <1>3, <2>1, ObservesInMore
  <2>3. \A y, z \in p.observations : y.request = z.request => y = z
    BY <1>1, <1>2, <1>4 DEF ValidObservations
  <2> QED  BY <2>2, <2>3 DEF ValidObservations
<1>7. ValidComparisons(p)
  <2>1. \A y \in p.observations \ o.observations : y.id \notin Ids(o.observations)
    BY <1>1, <1>2
  <2>2. ASSUME NEW c \in p.comparisons  PROVE IsDerivedComparison(p, c)
    <3>1. IsDerivedComparison(o, c)
      BY <1>3, <1>4 DEF ValidComparisons
    <3> QED  BY <1>2, <1>3, <2>1, <3>1, ComparisonsStayDerived
  <2> QED  BY <2>2 DEF ValidComparisons
<1> QED  BY <1>2, <1>5, <1>6, <1>7 DEF Valid

LEMMA ComparisonFolds ==
    ASSUME NEW o, Typed(o), NEW s \in Nat, Valid(o, s, Inquiry, Context),
           NEW c, MayRecordRecoveryComparison(o, c), NEW p, p = Plus(o, "comparisons", c)
    PROVE  Valid(p, s + 1, Inquiry, Context)
<1>1. c.id \notin Ids(o.comparisons) /\ IsDerivedComparison(o, c)
  BY DEF MayRecordRecoveryComparison
<1>2. /\ UniqueIds(p) /\ ValidReferences(p) /\ ValidRegistrations(p)
      /\ ValidPackagePins(p) /\ ValidRetrievals(p, s + 1)
      /\ p.comparisons = o.comparisons \cup {c}
      /\ \A j \in Kinds \ {"comparisons"} : p[j] = o[j]
  BY <1>1, FoldKeepsTheRest DEF RecoveryKinds
<1>3. /\ p.packages = o.packages /\ p.protocols = o.protocols
      /\ p.reacquisition = o.reacquisition /\ p.records = o.records
      /\ p.requests = o.requests /\ p.links = o.links
      /\ p.observations = o.observations
  BY <1>2, KindsAre
<1>4. ValidRequests(o, Inquiry, Context) /\ ValidLinks(o) /\ ValidObservations(o)
      /\ ValidComparisons(o)
  BY DEF Valid
<1>5. ValidRequests(p, Inquiry, Context) /\ ValidLinks(p) /\ ValidObservations(p)
  BY <1>3, <1>4, RequestsStayValid, LinksStayValid, ObservationsStayValid
<1>6. ValidComparisons(p)
  <2>1. \A x \in o.comparisons \cup {c} : IsDerivedComparison(o, x)
    BY <1>1, <1>4 DEF ValidComparisons
  <2>2. \A x \in p.comparisons : IsDerivedComparison(p, x)
    BY <1>2, <1>3, <2>1, ComparisonsStayDerived
  <2> QED  BY <2>2 DEF ValidComparisons
<1> QED  BY <1>2, <1>5, <1>6 DEF Valid

(* A registration: its package and its members are new, and the package    *)
(* names exactly its members.                                              *)
LEMMA RegistrationFolds ==
    ASSUME NEW o, Typed(o), NEW s \in Nat, Valid(o, s, Inquiry, Context),
           NEW g \in Registrations, MayRegisterRetentionPackage(o, g, Context),
           NEW p, p = WithRegistration(o, g)
    PROVE  Valid(p, s + 1, Inquiry, Context)
<1>0. PICK pkg : pkg = g.package
  OBVIOUS
<1>1. o = [j \in Kinds |-> o[j]] /\ \A q \in o.queries : q.sequence \in Nat
  BY DEF Typed
<1>2. /\ pkg.id \notin Ids(o.packages)
      /\ \A k \in MemberKinds : pkg.ids[k] \cap Ids(o[k]) = {}
      /\ \A ref \in pkg.refs : Resolves(o, ref)
  BY <1>0 DEF MayRegisterRetentionPackage
<1>3. \A k \in MemberKinds :
         /\ Ids(g.members[k]) = pkg.ids[k]
         /\ \A x, y \in g.members[k] : x.id = y.id => x = y
         /\ \A x \in g.members[k] : x.at = pkg.at
  <2>1. IsRegistration(g)
    BY MemoryAssumption
  <2> QED  BY <1>0, <2>1 DEF IsRegistration
<1>4. Registers(o, g, p)
  BY <1>1, RegistrationWrites
<1>5. /\ p.packages = o.packages \cup {pkg}
      /\ \A k \in MemberKinds : p[k] = o[k] \cup g.members[k]
      /\ p.records = o.records /\ p.policies = o.policies
      /\ p.queries = o.queries /\ p.results = o.results
      /\ p.requests = o.requests /\ p.links = o.links
      /\ p.observations = o.observations /\ p.comparisons = o.comparisons
  BY <1>0, <1>4 DEF Registers
<1>6. /\ o.scaffolds \subseteq p.scaffolds /\ o.protocols \subseteq p.protocols
      /\ o.reacquisition \subseteq p.reacquisition /\ o.packages \subseteq p.packages
  BY <1>5, KindsAre
<1>7. /\ UniqueIds(o) /\ ValidReferences(o) /\ ValidRegistrations(o) /\ ValidPackagePins(o)
      /\ ValidRetrievals(o, s) /\ ValidRequests(o, Inquiry, Context) /\ ValidLinks(o)
      /\ ValidObservations(o) /\ ValidComparisons(o)
  BY DEF Valid
<1>8. \A k \in MemberKinds : /\ \A x \in o[k] : x.id \notin pkg.ids[k]
                             /\ \A x \in g.members[k] : x.id \in pkg.ids[k]
  BY <1>2, <1>3 DEF Ids
<1>9. UniqueIds(p)
  <2>1. ASSUME NEW k \in Kinds \ {"policies", "records"}, NEW x \in p[k], NEW y \in p[k],
               x.id = y.id
        PROVE  x = y
    <3>1. \A a, b \in o[k] : a.id = b.id => a = b
      BY <1>7 DEF UniqueIds
    <3>2. CASE k \in MemberKinds
      <4>1. x \in o[k] \cup g.members[k] /\ y \in o[k] \cup g.members[k]
        BY <1>5, <2>1, <3>2
      <4> QED  BY <1>3, <1>8, <2>1, <3>1, <3>2, <4>1
    <3>3. CASE k = "packages"
      <4>1. \A a \in o.packages : a.id # pkg.id
        BY <1>2 DEF Ids
      <4> QED  BY <1>5, <2>1, <3>1, <3>3, <4>1
    <3>4. CASE k \notin MemberKinds /\ k # "packages"
      <4>1. p[k] = o[k]
        BY <1>5, <2>1, <3>4, KindsAre
      <4> QED  BY <2>1, <3>1, <4>1
    <3> QED  BY <3>2, <3>3, <3>4
  <2>2. \A i, j \in DOMAIN p.policies : p.policies[i] = p.policies[j] => i = j
    BY <1>5, <1>7 DEF UniqueIds
  <2> QED  BY <2>1, <2>2 DEF UniqueIds
<1>10. ValidReferences(p)
  <2>1. \A x \in p.packages : \A ref \in x.refs : Resolves(o, ref)
    BY <1>2, <1>5, <1>7 DEF ValidReferences
  <2>2. \A x \in p.packages : \A ref \in x.refs : Resolves(p, ref)
    BY <1>5, <1>6, <2>1, ResolvesInMore
  <2> QED  BY <2>2 DEF ValidReferences
<1>11. \A k \in MemberKinds, x \in o.packages : x.ids[k] \subseteq Ids(o[k])
  BY <1>7 DEF ValidRegistrations
<1>12. ValidRegistrations(p)
  <2>1. ASSUME NEW k \in MemberKinds
        PROVE  /\ \A x, y \in p.packages : x # y => x.ids[k] \cap y.ids[k] = {}
               /\ Ids(p[k]) = UNION {x.ids[k] : x \in p.packages}
    <3>1. /\ \A x, y \in o.packages : x # y => x.ids[k] \cap y.ids[k] = {}
          /\ Ids(o[k]) = UNION {x.ids[k] : x \in o.packages}
      BY <1>7 DEF ValidRegistrations
    <3>2. \A x \in o.packages : x.ids[k] \cap pkg.ids[k] = {}
      BY <1>2, <1>11
    <3>3. \A x, y \in p.packages : x # y => x.ids[k] \cap y.ids[k] = {}
      BY <1>5, <3>1, <3>2
    <3>4. Ids(p[k]) = Ids(o[k]) \cup pkg.ids[k]
      <4>1. p[k] = o[k] \cup g.members[k] /\ Ids(g.members[k]) = pkg.ids[k]
        BY <1>3, <1>5
      <4>2. \A S, T : Ids(S \cup T) = Ids(S) \cup Ids(T)
        BY DEF Ids
      <4> QED  BY <4>1, <4>2
    <3>5. UNION {x.ids[k] : x \in p.packages}
             = (UNION {x.ids[k] : x \in o.packages}) \cup pkg.ids[k]
      BY <1>5
    <3> QED  BY <3>1, <3>3, <3>4, <3>5
  <2> QED  BY <2>1 DEF ValidRegistrations
<1>13. ValidPackagePins(p)
  <2>1. ASSUME NEW x \in p.packages, NEW k \in MemberKinds, NEW m \in p[k], m.id \in x.ids[k]
        PROVE  m.at = x.at
    <3>1. m \in o[k] \cup g.members[k]
      BY <1>5
    <3>2. CASE x \in o.packages
      <4>1. m.id \in Ids(o[k])
        BY <1>11, <2>1, <3>2
      <4>2. m \in o[k]
        BY <1>2, <1>8, <3>1, <4>1
      <4> QED  BY <1>7, <2>1, <3>2, <4>2 DEF ValidPackagePins
    <3>3. CASE x = pkg
      <4>1. m \in g.members[k]
        BY <1>8, <2>1, <3>1, <3>3
      <4> QED  BY <1>3, <3>3, <4>1
    <3> QED  BY <1>5, <3>2, <3>3
  <2> QED  BY <2>1 DEF ValidPackagePins
<1>14. ValidRetrievals(p, s + 1)
  BY <1>1, <1>5, <1>6, <1>7, RetrievalsStayValid
<1>15. ValidRequests(p, Inquiry, Context)
  BY <1>5, <1>6, <1>7, RequestsStayValid
<1>16. ValidLinks(p) /\ ValidObservations(p) /\ ValidComparisons(p)
  BY <1>5, <1>7, LinksStayValid, ObservationsStayValid, ComparisonsStayValid
<1> QED  BY <1>9, <1>10, <1>12, <1>13, <1>14, <1>15, <1>16 DEF Valid

(* The first retrieval: no policy means no query and no result, so that    *)
(* the new ones are the only ones.                                         *)
LEMMA FirstRetrievalFolds ==
    ASSUME NEW o, Typed(o), NEW s \in Nat, Valid(o, s, Inquiry, Context),
           o.policies = <<>>, NEW q, q.sequence \in Nat, MayRunRetrieval(o, q, s),
           NEW p, p = WithRetrieval(o, q)
    PROVE  Valid(p, s + 1, Inquiry, Context)
<1>0. PICK r : r = Retrieved(o, q)
  OBVIOUS
<1>1. o = [j \in Kinds |-> o[j]]
  BY DEF Typed
<1>2. Answers(o, q, r, p)
  BY <1>0, <1>1, RetrievalWrites
<1>3. /\ UniqueIds(o) /\ ValidReferences(o) /\ ValidRegistrations(o) /\ ValidPackagePins(o)
      /\ ValidRetrievals(o, s) /\ ValidRequests(o, Inquiry, Context) /\ ValidLinks(o)
      /\ ValidObservations(o) /\ ValidComparisons(o)
  BY DEF Valid
<1>4. o.queries = {} /\ o.results = {}
  <2>1. {x.policy : x \in o.queries} = {}
    <3>1. {o.policies[i] : i \in DOMAIN o.policies} = {}
      OBVIOUS
    <3> QED  BY <1>3, <3>1 DEF ValidRetrievals
  <2>2. o.queries = {}
    BY <2>1
  <2>3. {x.query : x \in o.results} = {}
    BY <1>3, <2>2 DEF ValidRetrievals, Ids
  <2> QED  BY <2>2, <2>3
<1>5. /\ p.queries = {q} /\ p.results = {r} /\ p.policies = <<q.policy>>
      /\ \A k \in Kinds \ {"policies", "queries", "results"} : p[k] = o[k]
  <2>1. p.policies = Append(<<>>, q.policy)
    BY <1>2 DEF Answers
  <2>2. \A x : Append(<<>>, x) = <<x>>
    OBVIOUS
  <2>3. p.policies = <<q.policy>>
    BY <2>1, <2>2
  <2> QED  BY <1>2, <1>4, <2>3 DEF Answers
<1>6. /\ \A k \in MemberKinds : p[k] = o[k]
      /\ p.packages = o.packages /\ p.records = o.records /\ p.requests = o.requests
      /\ p.links = o.links /\ p.observations = o.observations
      /\ p.comparisons = o.comparisons
  BY <1>5, KindsAre
<1>7. /\ p.scaffolds = o.scaffolds /\ p.protocols = o.protocols
      /\ p.reacquisition = o.reacquisition
  BY <1>6, KindsAre
<1>8. UniqueIds(p)
  <2>1. ASSUME NEW k \in Kinds \ {"policies", "records"}, NEW x \in p[k], NEW y \in p[k],
               x.id = y.id
        PROVE  x = y
    <3>1. CASE k \in {"queries", "results"}
      BY <1>5, <2>1, <3>1
    <3>2. CASE k \notin {"queries", "results"}
      <4>1. p[k] = o[k]
        BY <1>5, <3>2
      <4> QED  BY <1>3, <2>1, <4>1 DEF UniqueIds
    <3> QED  BY <3>1, <3>2
  <2>2. \A i, j \in DOMAIN p.policies : i = j
    BY <1>5
  <2> QED  BY <2>1, <2>2 DEF UniqueIds
<1>9. ValidRetrievals(p, s + 1)
  <2>1. /\ r.query = q.id /\ r.policy = q.policy /\ r.sequence = q.sequence
        /\ r.index = q.index /\ r.hits = {HitOf(x) : x \in Hits(o, q)}
    BY <1>0, ResultIs
  <2>2. {x.query : x \in p.results} = Ids(p.queries)
    BY <1>5, <2>1 DEF Ids
  <2>3. Cardinality(p.results) = Cardinality(p.queries)
    BY <1>5, FS_Singleton
  <2>4. {x.policy : x \in p.queries} = {p.policies[i] : i \in DOMAIN p.policies}
    BY <1>5
  <2>5. Get(p.queries, r.query) = q
    BY <1>5, <2>1 DEF Get
  <2>6. q.sequence < s + 1
    BY DEF MayRunRetrieval
  <2>7. ASSUME NEW h \in r.hits  PROVE \E x \in p.packages : x.id = h.package /\ x = h.content
    <3>1. PICK x \in Hits(o, q) : h = HitOf(x)
      BY <2>1
    <3>2. x \in p.packages
      BY <1>6 DEF Hits
    <3>3. x.id = h.package /\ x = h.content
      BY <3>1 DEF HitOf
    <3> QED  BY <3>2, <3>3
  <2>8. ASSUME NEW x \in p.results
        PROVE  LET y == Get(p.queries, x.query) IN
               /\ x.policy = y.policy /\ x.sequence = y.sequence /\ x.index = y.index
               /\ y.sequence < s + 1
               /\ \A h \in x.hits : \E z \in p.packages : z.id = h.package /\ z = h.content
    <3>1. x = r
      BY <1>5
    <3> QED  BY <2>1, <2>5, <2>6, <2>7, <3>1
  <2> QED  BY <2>2, <2>3, <2>4, <2>8 DEF ValidRetrievals
<1>10. ValidReferences(p) /\ ValidRegistrations(p) /\ ValidPackagePins(p)
  BY <1>3, <1>6, <1>7, ReferencesStayValid, RegistrationsStayValid
<1>11. ValidRequests(p, Inquiry, Context) /\ ValidLinks(p) /\ ValidObservations(p)
       /\ ValidComparisons(p)
  BY <1>3, <1>6, <1>7, RequestsStayValid, LinksStayValid, ObservationsStayValid,
     ComparisonsStayValid
<1> QED  BY <1>8, <1>9, <1>10, <1>11 DEF Valid

(* In every reachable state, whatever decide accepts satisfies all of the  *)
(* validators of the state it folds into, the first retrieval included.    *)
THEOREM AcceptedRecordsAlwaysFold == Spec => []DecideAgreesWithFold
<1>1. ASSUME IInv  PROVE TypeOK
  <2>1. DOMAIN owned = Kinds
    BY <1>1 DEF IInv, Typed
  <2> QED  BY <1>1, <2>1 DEF IInv, Typed, PlanTyped, TypeOK
<1>2. ASSUME IInv  PROVE DecideAgreesWithFold
  <2>0. PICK o, s : o = owned /\ s = sequence
    OBVIOUS
  <2>1. Typed(o) /\ s \in Nat /\ Valid(o, s, Inquiry, Context)
    BY <1>2, <2>0 DEF IInv
  <2>2. \A g \in Registrations : MayRegisterRetentionPackage(o, g, Context) =>
           Valid(WithRegistration(o, g), s + 1, Inquiry, Context)
    BY <2>1, RegistrationFolds
  <2>3. \A r \in Requests : MayRequestReacquisition(o, r, Inquiry, Context) =>
           Valid(Plus(o, "requests", r), s + 1, Inquiry, Context)
    BY <2>1, RequestFolds
  <2>4. \A l \in Links : MayLinkReacquisitionInquiry(o, l) =>
           Valid(Plus(o, "links", l), s + 1, Inquiry, Context)
    BY <2>1, LinkFolds
  <2>5. \A x \in Observations : MayRecordRecoveryObservation(o, x) =>
           Valid(Plus(o, "observations", x), s + 1, Inquiry, Context)
    BY <2>1, ObservationFolds
  <2>6. \A c \in Comparisons : MayRecordRecoveryComparison(o, c) =>
           Valid(Plus(o, "comparisons", c), s + 1, Inquiry, Context)
    BY <2>1, ComparisonFolds
  <2>7. plan # None /\ o.policies = <<>> /\ MayRunRetrieval(o, plan, s) =>
           Valid(WithRetrieval(o, plan), s + 1, Inquiry, Context)
    <3>1. plan # None => plan.sequence \in Nat
      BY <1>2 DEF IInv, PlanTyped
    <3> QED  BY <2>1, <3>1, FirstRetrievalFolds
  <2> DEFINE With(k, Records) == {[owned EXCEPT ![k] = @ \cup {r}] : r \in Records}
             lawful ==
                {WithRegistration(owned, g) :
                    g \in {x \in Registrations :
                              MayRegisterRetentionPackage(owned, x, Context)}}
                \cup With("requests", {r \in Requests :
                            MayRequestReacquisition(owned, r, Inquiry, Context)})
                \cup With("links", {l \in Links : MayLinkReacquisitionInquiry(owned, l)})
                \cup With("observations", {x \in Observations :
                            MayRecordRecoveryObservation(owned, x)})
                \cup With("comparisons", {c \in Comparisons :
                            MayRecordRecoveryComparison(owned, c)})
                \cup {WithRetrieval(owned, q) :
                        q \in {p \in {plan} : /\ p # None /\ owned.policies = <<>>
                                             /\ MayRunRetrieval(owned, p, sequence)}}
  <2>8. ASSUME NEW x \in lawful  PROVE Valid(x, sequence + 1, Inquiry, Context)
    <3>1. \A k, Records : With(k, Records) = {Plus(owned, k, r) : r \in Records}
      BY DEF Plus
    <3> HIDE DEF With
    <3> QED  BY <2>0, <2>2, <2>3, <2>4, <2>5, <2>6, <2>7, <2>8, <3>1
  <2>9. TypeOK
    BY <1>1, <1>2
  <2> HIDE DEF lawful
  <2>10. TypeOK /\ \A x \in lawful : Valid(x, sequence + 1, Inquiry, Context)
    BY <2>8, <2>9
  <2> QED  BY <2>10 DEF lawful, With, DecideAgreesWithFold
<1> QED  BY <1>2, AlwaysIInv, PTL

------------------------------------------------------------------------------
(* The reacquisition saga: its inductive invariant. *)

Manifests == {None, Plain} \cup {ChildManifest(Task[k]) : k \in Clients}
Events == [manifest : Manifests, done : BOOLEAN, work : SUBSET Work]
Holdings == [version : Nat, prefix : Nat, manifest : Manifests, digest : Seq(Events)]

AllRequests == {RequestOf[k] : k \in Clients}
LinkAt(k, h) ==
    [id |-> <<Task[k].parent, Task[k].id>>, request |-> Task[k].id,
     parent |-> Task[k].parent, child |-> Task[k].child,
     manifest |-> h.manifest, prefix |-> h.prefix, digest |-> h.digest]
AllLinks == {LinkAt(k, h) : k \in Clients, h \in Holdings}
ObservationAt(k, n, digest, work) ==
    [id |-> <<Task[k].parent, Task[k].id>>, request |-> Task[k].id,
     branch |-> Task[k].branch, child |-> Task[k].child, package |-> Task[k].package,
     pins |-> Task[k].pins, prefix |-> n, work |-> work, digest |-> digest]
AllObservations ==
    {ObservationAt(k, n, digest, work) :
        k \in Clients, n \in Nat, digest \in Seq(Events), work \in SUBSET Work}
Memories ==
    [requests : SUBSET AllRequests, links : SUBSET AllLinks, observations : SUBSET AllObservations]

(* The streams: only the first event carries a manifest. *)
StreamIsTyped(s) ==
    /\ s \in Seq(Events)
    /\ Len(s) \in {0} \cup 2 .. MaxChildEvents
    /\ \A i \in DOMAIN s : (s[i].manifest # None) <=> i = 1
StreamsTyped == DOMAIN stream = Children /\ \A c \in Children : StreamIsTyped(stream[c])

(* The calls: a call that links has read a child that was started. *)
CallsTyped ==
    /\ pc \in [Clients -> Steps]
    /\ held \in [Clients -> Holdings]
    /\ \A k \in Clients :
          /\ pc[k] = "idle" => held[k] = Nothing
          /\ pc[k] \in {"digest", "decide link", "append link"} => held[k].prefix > 0
    /\ faults \in 0 .. MaxFaults

MemoryTyped == memory \in [Parents -> Memories] /\ version \in [Parents -> Nat]

(* What the validators of the folded state say of requests and links. *)
RequestsAreOwn(p) ==
    /\ \A r \in memory[p].requests : r.parent = p
    /\ \A r, x \in memory[p].requests : r.id = x.id => r = x
LinksAreOwn(p) ==
    /\ \A l, x \in memory[p].links : l.request = x.request => l = x
    /\ \A l \in memory[p].links : IsLink(l)

(* What the append of a link, and of an observation, checked. *)
LinkStands(p, l) ==
    /\ l.prefix <= Len(stream[l.child])
    /\ l.digest = PrefixDigest(stream[l.child], l.prefix)
    /\ \E r \in memory[p].requests :
          /\ r.id = l.request /\ r.child = l.child
          /\ ManifestOf(stream[l.child]) = ChildManifest(r)
ObservationStands(p, x) ==
    /\ x.prefix \in 1 .. Len(stream[x.child])
    /\ x.digest = PrefixDigest(stream[x.child], x.prefix)
    /\ x.work \subseteq Latest(x.digest).work /\ Latest(x.digest).done
    /\ \E l \in memory[p].links : /\ l.request = x.request /\ l.child = x.child
                                  /\ l.digest = PrefixDigest(x.digest, l.prefix)

ParentIsSound(p) ==
    /\ RequestsAreOwn(p)
    /\ LinksAreOwn(p)
    /\ \A l \in memory[p].links : LinkStands(p, l)
    /\ \A x \in memory[p].observations : ObservationStands(p, x)

SagaIInv ==
    /\ StreamsTyped
    /\ CallsTyped
    /\ MemoryTyped
    /\ \A p \in Parents : ParentIsSound(p)

------------------------------------------------------------------------------
(* Prefixes of streams. *)

LEMMA PrefixKept ==
    ASSUME NEW S, NEW s \in Seq(S), NEW x \in S, NEW n \in 1 .. Len(s)
    PROVE  /\ SubSeq(Append(s, x), 1, n) = SubSeq(s, 1, n)
           /\ Append(s, x)[1] = s[1]
           /\ Len(Append(s, x)) = Len(s) + 1
OBVIOUS

LEMMA PrefixOfPrefix ==
    ASSUME NEW S, NEW s \in Seq(S), NEW n \in 1 .. Len(s), NEW m \in 1 .. n
    PROVE  /\ SubSeq(s, 1, n) \in Seq(S)
           /\ Len(SubSeq(s, 1, n)) = n
           /\ SubSeq(s, 1, n)[n] = s[n]
           /\ SubSeq(SubSeq(s, 1, n), 1, m) = SubSeq(s, 1, m)
OBVIOUS

(* The records, by their fields. *)
LEMMA RequestFields ==
    ASSUME NEW k \in Clients
    PROVE  /\ RequestOf[k] \in AllRequests
           /\ RequestOf[k].id = Task[k].id /\ RequestOf[k].parent = Task[k].parent
           /\ RequestOf[k].child = Task[k].child
           /\ RequestOf[k].manifest = ChildManifest(Task[k])
           /\ RequestOf[k].manifest = ChildManifest(RequestOf[k])
           /\ RequestOf[k].manifest \in Manifests /\ RequestOf[k].manifest # None
           /\ Task[k].parent \in Parents /\ Task[k].child \in Children
           /\ Task[k].parent # Task[k].child
<1>1. /\ RequestOf[k].id = Task[k].id /\ RequestOf[k].parent = Task[k].parent
      /\ RequestOf[k].child = Task[k].child
      /\ RequestOf[k].manifest = ChildManifest(Task[k])
  BY TaskAssumption DEF RequestOf
<1>2. RequestOf[k].manifest = ChildManifest(RequestOf[k])
  BY <1>1 DEF ChildManifest
<1>3. RequestOf[k].manifest \in Manifests /\ RequestOf[k].manifest # None
  BY <1>1, StreamAssumption DEF Manifests
<1> QED  BY <1>1, <1>2, <1>3, TaskAssumption DEF AllRequests, IsRequest

LEMMA LinkFields ==
    ASSUME NEW k \in Clients, NEW h \in Holdings
    PROVE  LET l == LinkAt(k, h) IN
           /\ l \in AllLinks
           /\ l.request = Task[k].id /\ l.parent = Task[k].parent /\ l.child = Task[k].child
           /\ l.manifest = h.manifest /\ l.prefix = h.prefix /\ l.digest = h.digest
           /\ l.prefix \in Nat /\ l.child \in Children
<1>1. LinkAt(k, h) \in AllLinks
  BY DEF AllLinks
<1>2. h.prefix \in Nat /\ Task[k].child \in Children
  BY TaskAssumption DEF Holdings
<1> QED  BY <1>1, <1>2 DEF LinkAt

LEMMA AllLinksTyped ==
    ASSUME NEW l \in AllLinks
    PROVE  l.prefix \in Nat /\ l.child \in Children /\ l.digest \in Seq(Events)
<1>1. PICK k \in Clients, h \in Holdings : l = LinkAt(k, h)
  BY DEF AllLinks
<1> QED  BY <1>1, LinkFields DEF Holdings

LEMMA AllObservationsTyped ==
    ASSUME NEW x \in AllObservations
    PROVE  x.prefix \in Nat /\ x.child \in Children
<1>1. PICK k \in Clients, n \in Nat, digest \in Seq(Events), work \in SUBSET Work :
         x = ObservationAt(k, n, digest, work)
  BY DEF AllObservations
<1> QED  BY <1>1, TaskAssumption DEF ObservationAt

------------------------------------------------------------------------------
(* Steps that leave the ledger alone. *)

LEMMA NothingIsTyped == Nothing \in Holdings
BY DEF Nothing, Holdings, Manifests

LEMMA LedgerKept ==
    ASSUME SagaIInv, memory' = memory, version' = version, stream' = stream, CallsTyped'
    PROVE  SagaIInv'
<1>1. StreamsTyped' /\ MemoryTyped'
  BY DEF SagaIInv, StreamsTyped, StreamIsTyped, MemoryTyped
<1>2. ASSUME NEW p \in Parents PROVE ParentIsSound(p)'
  BY DEF SagaIInv, ParentIsSound, RequestsAreOwn, LinksAreOwn, IsLink, LinkStands, ObservationStands
<1> QED  BY <1>1, <1>2 DEF SagaIInv

(* The ways a call goes on. *)
LEMMA GotoTyped ==
    ASSUME CallsTyped, NEW k \in Clients, NEW step \in Steps \ {"idle", "digest", "decide link", "append link"},
           Goto(k, step), faults' \in 0 .. MaxFaults
    PROVE  CallsTyped'
<1>1. pc' = [pc EXCEPT ![k] = step] /\ held' = held
  BY DEF Goto
<1>2. pc' \in [Clients -> Steps] /\ held' \in [Clients -> Holdings]
  BY <1>1 DEF CallsTyped
<1>3. \A j \in Clients : pc'[j] = IF j = k THEN step ELSE pc[j]
  BY <1>1 DEF CallsTyped
<1> QED  BY <1>1, <1>2, <1>3 DEF CallsTyped

LEMMA ReturnTyped ==
    ASSUME CallsTyped, NEW k \in Clients, Return(k), faults' \in 0 .. MaxFaults
    PROVE  CallsTyped'
<1>1. pc' = [pc EXCEPT ![k] = "idle"] /\ held' = [held EXCEPT ![k] = Nothing]
  BY DEF Return
<1>2. pc' \in [Clients -> Steps] /\ held' \in [Clients -> Holdings]
  BY <1>1, NothingIsTyped DEF CallsTyped, Steps
<1>3. \A j \in Clients : /\ pc'[j] = IF j = k THEN "idle" ELSE pc[j]
                         /\ held'[j] = IF j = k THEN Nothing ELSE held[j]
  BY <1>1 DEF CallsTyped
<1> QED  BY <1>2, <1>3 DEF CallsTyped

LEMMA KeepTyped ==
    ASSUME CallsTyped, NEW k \in Clients, NEW step \in Steps \ {"idle"}, NEW h \in Holdings,
           Keep(k, step, h), faults' \in 0 .. MaxFaults,
           step \in {"digest", "decide link", "append link"} => h.prefix > 0
    PROVE  CallsTyped'
<1>1. pc' = [pc EXCEPT ![k] = step] /\ held' = [held EXCEPT ![k] = h]
  BY DEF Keep
<1>2. pc' \in [Clients -> Steps] /\ held' \in [Clients -> Holdings]
  BY <1>1 DEF CallsTyped
<1>3. \A j \in Clients : /\ pc'[j] = IF j = k THEN step ELSE pc[j]
                         /\ held'[j] = IF j = k THEN h ELSE held[j]
  BY <1>1 DEF CallsTyped
<1> QED  BY <1>2, <1>3 DEF CallsTyped

(* The calls up to the decision to append, a refused append and a crash. *)
LEMMA ReadersKeepSagaIInv ==
    ASSUME SagaIInv, NEW k \in Clients,
           \/ Call(k) \/ DecideRequest(k) \/ DecideStart(k) \/ ReadChild(k) \/ ReadDigest(k)
           \/ DecideLink(k) \/ Crash(k)
    PROVE  SagaIInv'
<1>1. CallsTyped /\ faults \in 0 .. MaxFaults /\ held[k] \in Holdings
  BY DEF SagaIInv, CallsTyped
<1>2. memory' = memory /\ version' = version /\ stream' = stream
  BY DEF Call, DecideRequest, DecideStart, ReadChild, ReadDigest, DecideLink, Crash
<1>3. version[Task[k].parent] \in Nat
  BY RequestFields DEF SagaIInv, MemoryTyped
<1>4. StreamIsTyped(stream[Task[k].child])
  BY RequestFields DEF SagaIInv, StreamsTyped
<1>5. CASE Call(k)
  <2>1. PICK step \in Entry[k] : Goto(k, step)
    BY <1>5 DEF Call
  <2>2. step \in {"request", "start", "link"}
    BY TaskAssumption
  <2>3. CallsTyped'
    BY <1>1, <1>5, <2>1, <2>2, GotoTyped DEF Call, Steps
  <2> QED  BY <1>2, <2>3, LedgerKept
<1>6. CASE DecideRequest(k)
  <2> DEFINE h == [Nothing EXCEPT !.version = version[Task[k].parent]]
  <2>1. h \in Holdings
    BY <1>3, NothingIsTyped DEF Holdings
  <2>2. Goto(k, "start") \/ Keep(k, "append request", h) \/ Return(k)
    BY <1>6 DEF DecideRequest
  <2>3. faults' = faults
    BY <1>6 DEF DecideRequest
  <2> HIDE DEF h
  <2>4. CallsTyped'
    BY <1>1, <2>1, <2>2, <2>3, GotoTyped, KeepTyped, ReturnTyped DEF Steps
  <2> QED  BY <1>2, <2>4, LedgerKept
<1>7. CASE DecideStart(k)
  <2>1. Goto(k, "append start") \/ Goto(k, "link") \/ Return(k)
    BY <1>7 DEF DecideStart
  <2>2. CallsTyped'
    BY <1>1, <1>7, <2>1, GotoTyped, ReturnTyped DEF Steps, DecideStart
  <2> QED  BY <1>2, <2>2, LedgerKept
<1>8. CASE ReadChild(k)
  <2> DEFINE s == stream[Task[k].child]
             h == [Nothing EXCEPT !.prefix = Len(s), !.manifest = ManifestOf(s)]
  <2>1. Return(k) \/ (s # <<>> /\ Keep(k, "digest", h))
    BY <1>8 DEF ReadChild
  <2>2. s # <<>> => h \in Holdings /\ h.prefix > 0
    <3>1. s # <<>> => Len(s) \in Nat /\ Len(s) > 0 /\ s[1] \in Events
      BY <1>4 DEF StreamIsTyped
    <3>2. s # <<>> => ManifestOf(s) \in Manifests
      BY <3>1 DEF ManifestOf, Events
    <3> HIDE DEF s
    <3>3. Nothing \in Holdings
      BY NothingIsTyped
    <3> QED  BY <3>1, <3>2, <3>3 DEF Holdings
  <2>3. faults' = faults
    BY <1>8 DEF ReadChild
  <2> HIDE DEF h
  <2>4. CallsTyped'
    BY <1>1, <2>1, <2>2, <2>3, KeepTyped, ReturnTyped DEF Steps
  <2> QED  BY <1>2, <2>4, LedgerKept
<1>9. CASE ReadDigest(k)
  <2> DEFINE s == stream[Task[k].child]
             h == [held[k] EXCEPT !.digest = PrefixDigest(s, Len(s))]
  <2>1. pc[k] = "digest" /\ Keep(k, "decide link", h) /\ faults' = faults
    BY <1>9 DEF ReadDigest
  <2>2. PrefixDigest(s, Len(s)) \in Seq(Events)
    BY <1>4 DEF StreamIsTyped, PrefixDigest
  <2>3. h \in Holdings /\ h.prefix = held[k].prefix /\ held[k].prefix > 0
    BY <1>1, <2>1, <2>2 DEF Holdings, CallsTyped
  <2> HIDE DEF h
  <2>4. CallsTyped'
    BY <1>1, <2>1, <2>3, KeepTyped DEF Steps
  <2> QED  BY <1>2, <2>4, LedgerKept
<1>10. CASE DecideLink(k)
  <2> DEFINE h == [held[k] EXCEPT !.version = version[Task[k].parent]]
  <2>1. pc[k] = "decide link" /\ (Keep(k, "append link", h) \/ Return(k)) /\ faults' = faults
    BY <1>10 DEF DecideLink
  <2>2. h \in Holdings /\ h.prefix = held[k].prefix /\ held[k].prefix > 0
    BY <1>1, <1>3, <2>1 DEF Holdings, CallsTyped
  <2> HIDE DEF h
  <2>3. CallsTyped'
    BY <1>1, <2>1, <2>2, KeepTyped, ReturnTyped DEF Steps
  <2> QED  BY <1>2, <2>3, LedgerKept
<1>11. CASE Crash(k)
  <2>1. Return(k) /\ faults' \in 0 .. MaxFaults
    BY <1>1, <1>11, StreamAssumption DEF Crash
  <2> QED  BY <1>1, <1>2, <2>1, ReturnTyped, LedgerKept
<1> QED  BY <1>5, <1>6, <1>7, <1>8, <1>9, <1>10, <1>11

------------------------------------------------------------------------------
(* Streams only grow, so what was proved of a prefix stays. *)

LEMMA StreamGrows ==
    ASSUME SagaIInv, NEW c \in Children, NEW t, StreamIsTyped(t),
           stream[c] = <<>> \/ \E x \in Events : t = Append(stream[c], x),
           stream' = [stream EXCEPT ![c] = t],
           memory' = memory, version' = version, CallsTyped'
    PROVE  SagaIInv'
<1>1. StreamsTyped /\ (\A b \in Children : StreamIsTyped(stream[b])) /\ StreamIsTyped(stream[c])
  BY DEF SagaIInv, StreamsTyped
<1>2. \A b \in Children : stream'[b] = IF b = c THEN t ELSE stream[b]
  BY <1>1 DEF StreamsTyped
<1>3. StreamsTyped'
  <2>1. DOMAIN stream' = Children
    BY <1>1 DEF StreamsTyped
  <2>2. \A b \in Children : StreamIsTyped(stream'[b])
    BY <1>1, <1>2
  <2>3. \A b \in Children : StreamIsTyped(stream[b])'
    BY <2>2 DEF StreamIsTyped
  <2> QED  BY <2>1, <2>3 DEF StreamsTyped
<1>4. MemoryTyped'
  BY DEF SagaIInv, MemoryTyped
(* A prefix that was there is there, and the first event stays. *)
<1>5. ASSUME NEW b \in Children, NEW n \in 1 .. Len(stream[b])
      PROVE  /\ n <= Len(stream'[b])
             /\ PrefixDigest(stream'[b], n) = PrefixDigest(stream[b], n)
             /\ ManifestOf(stream'[b]) = ManifestOf(stream[b])
  <2>1. CASE b # c
    BY <1>1, <1>2, <2>1 DEF StreamIsTyped
  <2>2. CASE b = c
    <3>1. stream[c] \in Seq(Events) /\ stream[c] # <<>>
      BY <1>1, <2>2 DEF StreamIsTyped
    <3>2. PICK x \in Events : t = Append(stream[c], x)
      BY <3>1
    <3>3. stream'[b] = Append(stream[c], x) /\ n \in 1 .. Len(stream[c])
      BY <1>2, <2>2, <3>2
    <3>4. /\ SubSeq(Append(stream[c], x), 1, n) = SubSeq(stream[c], 1, n)
          /\ Append(stream[c], x)[1] = stream[c][1]
          /\ Len(Append(stream[c], x)) = Len(stream[c]) + 1
      BY <3>1, <3>3, PrefixKept
    <3>5. /\ SubSeq(stream'[b], 1, n) = SubSeq(stream[b], 1, n)
          /\ stream'[b][1] = stream[b][1]
          /\ Len(stream'[b]) = Len(stream[b]) + 1
      BY <2>2, <3>3, <3>4
    <3> QED  BY <2>2, <3>1, <3>5 DEF PrefixDigest, ManifestOf
  <2> QED  BY <2>1, <2>2
<1>6. ASSUME NEW p \in Parents
      PROVE  ParentIsSound(p)'
  <2>1. ParentIsSound(p) /\ memory[p] \in Memories
    BY DEF SagaIInv, MemoryTyped
  <2>2. RequestsAreOwn(p)' /\ LinksAreOwn(p)'
    BY <2>1 DEF ParentIsSound, RequestsAreOwn, LinksAreOwn, IsLink
  <2>3. ASSUME NEW l \in memory[p].links PROVE LinkStands(p, l)'
    <3>1. l.prefix \in Nat /\ l.child \in Children /\ l.prefix > 0 /\ LinkStands(p, l)
      BY <2>1, AllLinksTyped DEF Memories, ParentIsSound, LinksAreOwn, IsLink
    <3>2. l.prefix \in 1 .. Len(stream[l.child])
      BY <1>1, <3>1 DEF LinkStands, StreamIsTyped
    <3>3. /\ l.prefix <= Len(stream'[l.child])
          /\ PrefixDigest(stream'[l.child], l.prefix) = PrefixDigest(stream[l.child], l.prefix)
          /\ ManifestOf(stream'[l.child]) = ManifestOf(stream[l.child])
      BY <1>5, <3>1, <3>2
    <3>4. /\ l.digest = PrefixDigest(stream[l.child], l.prefix)
          /\ \E r \in memory[p].requests :
                /\ r.id = l.request /\ r.child = l.child
                /\ ManifestOf(stream[l.child]) = ChildManifest(r)
      BY <3>1 DEF LinkStands
    <3>5. /\ l.digest = PrefixDigest(stream'[l.child], l.prefix)
          /\ \E r \in memory'[p].requests :
                /\ r.id = l.request /\ r.child = l.child
                /\ ManifestOf(stream'[l.child]) = ChildManifest(r)
      BY <3>3, <3>4
    <3> QED  BY <3>3, <3>5 DEF LinkStands, PrefixDigest, ManifestOf
  <2>4. ASSUME NEW x \in memory[p].observations PROVE ObservationStands(p, x)'
    <3>1. x.child \in Children /\ ObservationStands(p, x)
      BY <2>1, AllObservationsTyped DEF Memories, ParentIsSound
    <3>2. x.prefix \in 1 .. Len(stream[x.child])
      BY <3>1 DEF ObservationStands
    <3>3. /\ x.prefix <= Len(stream'[x.child])
          /\ PrefixDigest(stream'[x.child], x.prefix) = PrefixDigest(stream[x.child], x.prefix)
      BY <1>5, <3>1, <3>2
    <3>4. StreamIsTyped(stream'[x.child])
      BY <1>1, <1>2, <3>1
    <3>5. x.prefix \in 1 .. Len(stream'[x.child])
      BY <1>1, <3>1, <3>2, <3>3, <3>4 DEF StreamIsTyped
    <3>6. x.digest = PrefixDigest(stream'[x.child], x.prefix)
      BY <3>1, <3>3 DEF ObservationStands
    <3> QED  BY <3>1, <3>5, <3>6 DEF ObservationStands, PrefixDigest, Latest
  <2> QED  BY <2>1, <2>2, <2>3, <2>4 DEF ParentIsSound
<1> QED  BY <1>3, <1>4, <1>6 DEF SagaIInv

(* A start of a child, with the manifest of a request or on its own. *)
LEMMA StartedIsTyped ==
    ASSUME NEW manifest \in Manifests, manifest # None
    PROVE  StreamIsTyped(Started(manifest))
<1> DEFINE first == Event(manifest, FALSE, {})
           second == Event(None, FALSE, {})
<1>1. /\ first \in Events /\ second \in Events
      /\ first.manifest = manifest /\ second.manifest = None
  BY DEF Event, Events, Manifests
<1>2. Started(manifest) = <<first, second>>
  BY DEF Started
<1> HIDE DEF first, second
<1> QED  BY <1>1, <1>2, StreamAssumption DEF StreamIsTyped

LEMMA StartsKeepSagaIInv ==
    ASSUME SagaIInv, NEW k \in Clients, AppendStart(k)
    PROVE  SagaIInv'
<1> DEFINE c == Task[k].child
<1>1. CallsTyped /\ faults \in 0 .. MaxFaults /\ c \in Children
  BY RequestFields DEF SagaIInv, CallsTyped
<1>2. memory' = memory /\ version' = version /\ faults' = faults
  BY DEF AppendStart
<1>3. CASE stream' = stream /\ Return(k)
  BY <1>1, <1>2, <1>3, ReturnTyped, LedgerKept
<1>4. CASE /\ stream[c] = <<>>
           /\ stream' = [stream EXCEPT ![c] = Started(RequestOf[k].manifest)]
           /\ Goto(k, "link")
  <2>1. StreamIsTyped(Started(RequestOf[k].manifest))
    BY RequestFields, StartedIsTyped
  <2>2. CallsTyped'
    BY <1>1, <1>2, <1>4, GotoTyped DEF Steps
  <2> QED  BY <1>1, <1>2, <1>4, <2>1, <2>2, StreamGrows
<1> QED  BY <1>3, <1>4 DEF AppendStart

LEMMA ChildrenKeepSagaIInv ==
    ASSUME SagaIInv, NEW c \in Children, StartPlain(c) \/ ChildStep(c)
    PROVE  SagaIInv'
<1>1. /\ memory' = memory /\ version' = version /\ pc' = pc /\ held' = held /\ faults' = faults
  BY DEF StartPlain, ChildStep
<1>2. CallsTyped'
  BY <1>1 DEF SagaIInv, CallsTyped
<1>3. CASE StartPlain(c)
  <2>1. StreamIsTyped(Started(Plain))
    BY StartedIsTyped, StreamAssumption DEF Manifests
  <2> QED  BY <1>1, <1>2, <1>3, <2>1, StreamGrows DEF StartPlain
<1>4. CASE ChildStep(c)
  <2> DEFINE s == stream[c]  last == Latest(s)
  <2>1. StreamIsTyped(s) /\ s # <<>> /\ Len(s) < MaxChildEvents
    BY <1>4 DEF SagaIInv, StreamsTyped, ChildStep
  <2>2. last \in Events
    BY <2>1 DEF StreamIsTyped, Latest
  <2>3. PICK next : /\ \/ next = Event(None, ~ last.done, last.work)
                       \/ \E w \in Work \ last.work :
                             next = Event(None, last.done, last.work \cup {w})
                    /\ stream' = [stream EXCEPT ![c] = Append(stream[c], next)]
    BY <1>4 DEF ChildStep
  <2>4. next \in Events /\ next.manifest = None
    <3>1. last.done \in BOOLEAN /\ (~ last.done) \in BOOLEAN /\ last.work \in SUBSET Work
      BY <2>2 DEF Events
    <3>2. \A b \in BOOLEAN, v \in SUBSET Work :
             Event(None, b, v) \in Events /\ Event(None, b, v).manifest = None
      BY DEF Event, Events, Manifests
    <3> HIDE DEF last
    <3>3. CASE next = Event(None, ~ last.done, last.work)
      BY <3>1, <3>2, <3>3
    <3>4. CASE \E w \in Work \ last.work : next = Event(None, last.done, last.work \cup {w})
      BY <3>1, <3>2, <3>4
    <3> QED  BY <2>3, <3>3, <3>4
  <2> HIDE DEF s, last
  <2>5. StreamIsTyped(Append(s, next))
    BY <2>1, <2>4, StreamAssumption DEF StreamIsTyped
  <2>6. StreamIsTyped(Append(stream[c], next))
    BY <2>5 DEF s
  <2> QED  BY <1>1, <1>2, <2>3, <2>4, <2>6, StreamGrows
<1> QED  BY <1>3, <1>4

------------------------------------------------------------------------------
(* The appends to a parent. *)

(* Another command of a parent, and everything that moves a version alone. *)
LEMMA VersionMoves ==
    ASSUME SagaIInv, memory' = memory, stream' = stream, version' \in [Parents -> Nat], CallsTyped'
    PROVE  SagaIInv'
<1>1. StreamsTyped' /\ MemoryTyped'
  BY DEF SagaIInv, StreamsTyped, StreamIsTyped, MemoryTyped
<1>2. ASSUME NEW p \in Parents PROVE ParentIsSound(p)'
  BY DEF SagaIInv, ParentIsSound, RequestsAreOwn, LinksAreOwn, IsLink, LinkStands, ObservationStands
<1> QED  BY <1>1, <1>2 DEF SagaIInv

(* A parent that gains records: the other parents are as they were. *)
LEMMA ParentGains ==
    ASSUME SagaIInv, NEW p \in Parents, NEW m \in Memories,
           memory' = [memory EXCEPT ![p] = m], stream' = stream,
           version' \in [Parents -> Nat], CallsTyped', ParentIsSound(p)'
    PROVE  SagaIInv'
<1>1. memory \in [Parents -> Memories]
  BY DEF SagaIInv, MemoryTyped
<1>2. StreamsTyped' /\ MemoryTyped'
  BY <1>1 DEF SagaIInv, StreamsTyped, StreamIsTyped, MemoryTyped
<1>3. ASSUME NEW q \in Parents PROVE ParentIsSound(q)'
  <2>1. CASE q = p
    BY <2>1
  <2>2. CASE q # p
    <3>1. memory'[q] = memory[q]
      BY <1>1, <2>2
    <3> QED  BY <3>1 DEF SagaIInv, ParentIsSound, RequestsAreOwn, LinksAreOwn, IsLink, LinkStands,
                         ObservationStands
  <2> QED  BY <2>1, <2>2
<1> QED  BY <1>2, <1>3 DEF SagaIInv

(* The state the validators see. *)
LEMMA StateFields ==
    ASSUME NEW m
    PROVE  /\ StateWith(m).requests = m.requests /\ StateWith(m).links = m.links
           /\ StateWith(m)["requests"] = m.requests
<1>1. DOMAIN Before = Kinds
  BY DEF Before, WithRegistration
<1>2. "requests" \in Kinds /\ "links" \in Kinds
  BY DEF Kinds, RecoveryKinds
<1> QED  BY <1>1, <1>2 DEF StateWith

LEMMA CommitChecks ==
    ASSUME NEW p \in Parents, NEW m,
           UniqueIds(StateWith(m)), ValidRequests(StateWith(m), p, Context), ValidLinks(StateWith(m))
    PROVE  /\ \A r, x \in m.requests : r.id = x.id => r = x
           /\ \A r \in m.requests : r.parent = p
           /\ \A l, x \in m.links : l.request = x.request => l = x
           /\ \A l \in m.links : \E r \in m.requests :
                 r.id = l.request /\ r.child = l.child /\ r.manifest = l.manifest
<1> DEFINE o == StateWith(m)
<1>1. o.requests = m.requests /\ o.links = m.links /\ o["requests"] = m.requests
  BY StateFields
<1>2. "requests" \in Kinds \ {"policies", "records"}
  BY DEF Kinds, RecoveryKinds
<1> HIDE DEF o
<1>3. UniqueIds(o) /\ ValidRequests(o, p, Context) /\ ValidLinks(o)
  BY DEF o
<1>4. \A r, x \in o["requests"] : r.id = x.id => r = x
  BY <1>2, <1>3 DEF UniqueIds
<1>5. \A r \in o.requests : r.parent = p
  BY <1>3 DEF ValidRequests
<1>6. /\ \A l, x \in o.links : l.request = x.request => l = x
      /\ \A l \in o.links : \E r \in o.requests :
            r.id = l.request /\ r.child = l.child /\ r.manifest = l.manifest
  BY <1>3 DEF ValidLinks
<1> QED  BY <1>1, <1>4, <1>5, <1>6

LEMMA AppendRequestKeepsSagaIInv ==
    ASSUME SagaIInv, NEW k \in Clients, AppendRequest(k)
    PROVE  SagaIInv'
<1> DEFINE p == Task[k].parent
           x == RequestOf[k]
           m == [memory[p] EXCEPT !["requests"] = @ \cup {x}]
<1>1. CallsTyped /\ faults \in 0 .. MaxFaults /\ held[k] \in Holdings /\ p \in Parents
  BY RequestFields DEF SagaIInv, CallsTyped
<1>2. stream' = stream /\ faults' = faults
  BY DEF AppendRequest
<1>3. CASE Return(k) /\ UNCHANGED <<memory, version>>
  <2>1. CallsTyped'
    BY <1>1, <1>2, <1>3, ReturnTyped
  <2> QED  BY <1>2, <1>3, <2>1, LedgerKept
<1>4. CASE Commit(p, held[k].version, "requests", x) /\ Keep(k, "start", Nothing)
  <2>1. CallsTyped'
    BY <1>1, <1>2, <1>4, KeepTyped, NothingIsTyped DEF Steps
  <2>2. /\ memory' = [memory EXCEPT ![p] = m]
        /\ version' = [version EXCEPT ![p] = held[k].version + 1]
        /\ UniqueIds(StateWith(m)) /\ ValidRequests(StateWith(m), p, Context)
        /\ ValidLinks(StateWith(m))
    BY <1>4 DEF Commit
  <2>3. memory[p] \in Memories /\ memory \in [Parents -> Memories]
    BY <1>1 DEF SagaIInv, MemoryTyped
  <2>4. /\ m \in Memories /\ m.requests = memory[p].requests \cup {x}
        /\ m.links = memory[p].links /\ m.observations = memory[p].observations
    BY <2>3, RequestFields DEF Memories
  <2> HIDE DEF m
  <2>5. version' \in [Parents -> Nat]
    BY <1>1, <2>2 DEF SagaIInv, MemoryTyped, Holdings
  <2>6. memory'[p] = m
    BY <1>1, <2>2, <2>3
  <2>7. RequestsAreOwn(p)'
    BY <1>1, <2>2, <2>6, CommitChecks DEF RequestsAreOwn
  <2>8. LinksAreOwn(p)'
    BY <1>1, <2>4, <2>6 DEF SagaIInv, ParentIsSound, LinksAreOwn, IsLink
  <2>9. /\ \A l \in memory'[p].links : LinkStands(p, l)'
        /\ \A y \in memory'[p].observations : ObservationStands(p, y)'
    <3>1. ASSUME NEW l \in memory'[p].links PROVE LinkStands(p, l)'
      BY <1>1, <1>2, <2>4, <2>6 DEF SagaIInv, ParentIsSound, LinkStands
    <3>2. ASSUME NEW y \in memory'[p].observations PROVE ObservationStands(p, y)'
      BY <1>1, <1>2, <2>4, <2>6 DEF SagaIInv, ParentIsSound, ObservationStands
    <3> QED  BY <3>1, <3>2
  <2>10. ParentIsSound(p)'
    BY <2>7, <2>8, <2>9 DEF ParentIsSound
  <2> QED  BY <1>1, <1>2, <2>1, <2>2, <2>4, <2>5, <2>10, ParentGains
<1> QED  BY <1>3, <1>4 DEF AppendRequest

LEMMA AppendLinkKeepsSagaIInv ==
    ASSUME SagaIInv, NEW k \in Clients, AppendLink(k)
    PROVE  SagaIInv'
<1> DEFINE p == Task[k].parent
<1>1. /\ CallsTyped /\ faults \in 0 .. MaxFaults /\ held[k] \in Holdings /\ p \in Parents
      /\ Task[k].child \in Children /\ Task[k].parent # Task[k].child
  BY RequestFields DEF SagaIInv, CallsTyped
<1>2. stream' = stream /\ faults' = faults /\ Return(k) /\ pc[k] = "append link"
  BY DEF AppendLink
<1>3. CallsTyped'
  BY <1>1, <1>2, ReturnTyped
<1>4. CASE UNCHANGED <<memory, version>>
  BY <1>2, <1>3, <1>4, LedgerKept
<1>5. CASE ValidatesLink(memory[p], LinkOf(k)) /\ Commit(p, held[k].version, "links", LinkOf(k))
  <2>0. PICK x : x = LinkOf(k)
    OBVIOUS
  <2> DEFINE m == [memory[p] EXCEPT !["links"] = @ \cup {x}]
  <2>1. x = LinkAt(k, held[k]) /\ ValidatesLink(memory[p], x)
    BY <1>5, <2>0 DEF LinkOf, LinkAt
  <2>2. /\ x \in AllLinks /\ x.request = Task[k].id /\ x.parent = p /\ x.child = Task[k].child
        /\ x.manifest = held[k].manifest /\ x.prefix = held[k].prefix
        /\ x.digest = held[k].digest /\ held[k].prefix > 0
    BY <1>1, <1>2, <2>1, LinkFields DEF CallsTyped
  <2>3. /\ memory' = [memory EXCEPT ![p] = m]
        /\ version' = [version EXCEPT ![p] = held[k].version + 1]
        /\ UniqueIds(StateWith(m)) /\ ValidRequests(StateWith(m), p, Context)
        /\ ValidLinks(StateWith(m))
    BY <1>5, <2>0 DEF Commit
  <2>4. memory[p] \in Memories /\ memory \in [Parents -> Memories]
    BY <1>1 DEF SagaIInv, MemoryTyped
  <2>5. /\ m \in Memories /\ m.requests = memory[p].requests
        /\ m.links = memory[p].links \cup {x} /\ m.observations = memory[p].observations
    BY <2>2, <2>4 DEF Memories
  <2> HIDE DEF m
  <2>6. version' \in [Parents -> Nat] /\ memory'[p] = m
    BY <1>1, <2>3, <2>4 DEF SagaIInv, MemoryTyped, Holdings
  <2>7. /\ \A r, y \in m.requests : r.id = y.id => r = y
        /\ \A r \in m.requests : r.parent = p
        /\ \A l, y \in m.links : l.request = y.request => l = y
        /\ \A l \in m.links : \E r \in m.requests :
              r.id = l.request /\ r.child = l.child /\ r.manifest = l.manifest
    BY <1>1, <2>3, CommitChecks
  <2>8. RequestsAreOwn(p)'
    BY <2>6, <2>7 DEF RequestsAreOwn
  <2>9. LinksAreOwn(p)'
    <3>1. IsLink(x)
      BY <1>1, <2>2 DEF IsLink
    <3> QED  BY <1>1, <2>5, <2>6, <2>7, <3>1 DEF SagaIInv, ParentIsSound, LinksAreOwn, IsLink
  <2>10. LinkStands(p, x)'
    <3>1. /\ x.prefix <= Len(stream[x.child])
          /\ x.digest = PrefixDigest(stream[x.child], x.prefix)
      BY <1>1, <2>1, <2>2 DEF ValidatesLink, SagaIInv, StreamsTyped, StreamIsTyped, Holdings
    <3>2. PICK r \in m.requests :
             /\ r.id = x.request
             /\ ManifestOf(stream[x.child]) = r.manifest /\ r.manifest = ChildManifest(r)
      BY <2>1, <2>5 DEF ValidatesLink
    <3>3. r.child = x.child
      BY <2>5, <2>7, <3>2
    <3>4. ManifestOf(stream[x.child]) = ChildManifest(r)
      BY <3>2
    <3> QED  BY <1>2, <2>6, <3>1, <3>2, <3>3, <3>4 DEF LinkStands
  <2>11. \A l \in memory[p].links : LinkStands(p, l)'
    <3>1. \A l \in memory[p].links : LinkStands(p, l)
      BY <1>1 DEF SagaIInv, ParentIsSound
    <3> QED  BY <1>2, <2>5, <2>6, <3>1 DEF LinkStands
  <2>12. \A y \in memory[p].observations : ObservationStands(p, y)'
    <3>1. \A y \in memory[p].observations : ObservationStands(p, y)
      BY <1>1 DEF SagaIInv, ParentIsSound
    <3>2. memory[p].links \subseteq memory'[p].links
      BY <2>5, <2>6
    <3> QED  BY <1>2, <3>1, <3>2 DEF ObservationStands
  <2>13. /\ \A l \in memory'[p].links : LinkStands(p, l)'
         /\ \A y \in memory'[p].observations : ObservationStands(p, y)'
    BY <2>5, <2>6, <2>10, <2>11, <2>12
  <2>14. ParentIsSound(p)'
    BY <2>8, <2>9, <2>13 DEF ParentIsSound
  <2> QED  BY <1>1, <1>2, <1>3, <2>3, <2>5, <2>6, <2>14, ParentGains
<1> QED  BY <1>4, <1>5 DEF AppendLink

(* An observation is of the child its request was linked to: the request   *)
(* of that id is unique in the parent.                                     *)
LEMMA ObservationKeepsSagaIInv ==
    ASSUME SagaIInv, NEW k \in Clients, NEW work \in SUBSET Work,
           NEW n \in DOMAIN stream[Task[k].child], NEW j \in {n, Len(stream[Task[k].child])},
           RecordChildObservation(k, n, j, work)
    PROVE  SagaIInv'
<1> DEFINE p == Task[k].parent
           c == Task[k].child
<1>0. PICK x : x = ObservationOf(k, n, j, work)
  OBVIOUS
<1> DEFINE m == [memory[p] EXCEPT !.observations = @ \cup {x}]
<1>1. p \in Parents /\ c \in Children /\ StreamIsTyped(stream[c]) /\ ParentIsSound(p)
  BY RequestFields DEF SagaIInv, StreamsTyped
<1>2. stream[c] \in Seq(Events) /\ n \in 1 .. Len(stream[c])
  BY <1>1 DEF StreamIsTyped
<1>3. PrefixDigest(stream[c], j) \in Seq(Events)
  BY <1>2 DEF PrefixDigest
<1>4. x = ObservationAt(k, n, PrefixDigest(stream[c], j), work)
  BY <1>0 DEF ObservationOf, ObservationAt
<1>5. x \in AllObservations
  BY <1>2, <1>3, <1>4 DEF AllObservations
<1>6. x.request = Task[k].id /\ x.child = c /\ x.prefix = n /\ x.work = work
  BY <1>0 DEF ObservationOf
<1>7. /\ ObservesLinkedChild(memory[p], x) /\ ValidatesObservation(memory[p], x)
      /\ memory' = [memory EXCEPT ![p].observations = @ \cup {x}]
      /\ version' = [version EXCEPT ![p] = @ + 1]
      /\ stream' = stream /\ pc' = pc /\ held' = held /\ faults' = faults
  BY <1>0 DEF RecordChildObservation
<1>8. memory[p] \in Memories /\ memory \in [Parents -> Memories]
  BY <1>1 DEF SagaIInv, MemoryTyped
<1>9. /\ m \in Memories /\ m.requests = memory[p].requests
      /\ m.links = memory[p].links /\ m.observations = memory[p].observations \cup {x}
  BY <1>5, <1>8 DEF Memories
<1>10. memory' = [memory EXCEPT ![p] = m]
  BY <1>1, <1>7, <1>8
<1> HIDE DEF m
<1>11. memory'[p] = m /\ version' \in [Parents -> Nat]
  BY <1>1, <1>7, <1>8, <1>10 DEF SagaIInv, MemoryTyped
<1>12. ObservationStands(p, x)'
  <2>1. /\ PrefixDigest(stream[c], n) = x.digest
        /\ work \subseteq stream[c][n].work /\ stream[c][n].done
    BY <1>6, <1>7 DEF ValidatesObservation
  <2>2. Len(x.digest) = n /\ x.digest[n] = stream[c][n]
    <3>1. n \in 1 .. n
      BY <1>2
    <3>2. Len(SubSeq(stream[c], 1, n)) = n /\ SubSeq(stream[c], 1, n)[n] = stream[c][n]
      BY <1>2, <3>1, PrefixOfPrefix
    <3> QED  BY <2>1, <3>2 DEF PrefixDigest
  <2>3. Latest(x.digest) = stream[c][n]
    BY <2>2 DEF Latest
  <2>4. PICK r \in memory[p].requests, l \in memory[p].links :
           r.id = x.request /\ l.request = x.request /\ r.child = x.child /\ x.prefix >= l.prefix
    BY <1>7 DEF ObservesLinkedChild
  <2>5. LinkStands(p, l) /\ IsLink(l) /\ l.prefix \in Nat
    BY <1>1, <1>8, AllLinksTyped DEF ParentIsSound, LinksAreOwn, Memories
  <2>6. l.child = c
    BY <1>1, <1>6, <2>4, <2>5 DEF LinkStands, ParentIsSound, RequestsAreOwn
  <2>7. l.prefix \in 1 .. n
    BY <1>2, <1>6, <2>4, <2>5 DEF IsLink
  <2>8. l.digest = SubSeq(stream[c], 1, l.prefix)
    BY <2>5, <2>6 DEF LinkStands, PrefixDigest
  <2>9. l.digest = PrefixDigest(x.digest, l.prefix)
    BY <1>2, <2>1, <2>7, <2>8, PrefixOfPrefix DEF PrefixDigest
  <2>10. x.prefix \in 1 .. Len(stream'[x.child]) /\ x.digest = PrefixDigest(stream'[x.child], x.prefix)
    BY <1>2, <1>6, <1>7, <2>1
  <2>11. x.work \subseteq Latest(x.digest).work /\ Latest(x.digest).done
    BY <1>6, <2>1, <2>3
  <2>12. l \in memory'[p].links /\ l.request = x.request /\ l.child = x.child
    BY <1>6, <1>9, <1>11, <2>4, <2>6
  <2> QED  BY <2>9, <2>10, <2>11, <2>12 DEF ObservationStands, PrefixDigest, Latest
<1>13. RequestsAreOwn(p)' /\ LinksAreOwn(p)'
  BY <1>1, <1>9, <1>11 DEF ParentIsSound, RequestsAreOwn, LinksAreOwn, IsLink
<1>14. \A l \in memory'[p].links : LinkStands(p, l)'
  BY <1>1, <1>7, <1>9, <1>11 DEF ParentIsSound, LinkStands
<1>15. \A y \in memory'[p].observations : ObservationStands(p, y)'
  <2>1. \A y \in memory[p].observations : ObservationStands(p, y)
    BY <1>1 DEF ParentIsSound
  <2>2. \A y \in memory[p].observations : ObservationStands(p, y)'
    BY <1>7, <1>9, <1>11, <2>1 DEF ObservationStands
  <2> QED  BY <1>9, <1>11, <1>12, <2>2
<1>16. ParentIsSound(p)'
  BY <1>13, <1>14, <1>15 DEF ParentIsSound
<1>17. CallsTyped'
  BY <1>7 DEF SagaIInv, CallsTyped
<1> QED  BY <1>1, <1>7, <1>9, <1>10, <1>11, <1>16, <1>17, ParentGains

------------------------------------------------------------------------------
(* The invariant and the theorems. *)

LEMMA InitSagaIInv == SagaInit => SagaIInv
<1> SUFFICES ASSUME SagaInit PROVE SagaIInv
  OBVIOUS
<1>1. StreamsTyped
  BY DEF SagaInit, StreamsTyped, StreamIsTyped
<1>2. CallsTyped
  BY NothingIsTyped, StreamAssumption DEF SagaInit, CallsTyped, Steps
<1>3. MemoryTyped
  BY DEF SagaInit, MemoryTyped, Memories
<1>4. \A p \in Parents : ParentIsSound(p)
  BY DEF SagaInit, ParentIsSound, RequestsAreOwn, LinksAreOwn
<1> QED  BY <1>1, <1>2, <1>3, <1>4 DEF SagaIInv

LEMMA NextSagaIInv == SagaIInv /\ [SagaNext]_sagaVars => SagaIInv'
<1> SUFFICES ASSUME SagaIInv, [SagaNext]_sagaVars PROVE SagaIInv'
  OBVIOUS
<1>1. ASSUME NEW k \in Clients, CallStep(k) \/ Crash(k) PROVE SagaIInv'
  BY <1>1, ReadersKeepSagaIInv, AppendRequestKeepsSagaIInv, StartsKeepSagaIInv, AppendLinkKeepsSagaIInv
     DEF CallStep
<1>2. ASSUME NEW c \in Children, StartPlain(c) \/ ChildStep(c) PROVE SagaIInv'
  BY <1>2, ChildrenKeepSagaIInv
<1>3. ASSUME NEW p \in Parents, OtherCommand(p) PROVE SagaIInv'
  <2>1. /\ memory' = memory /\ stream' = stream /\ pc' = pc /\ held' = held
        /\ faults < MaxFaults /\ faults' = faults + 1
        /\ version' = [version EXCEPT ![p] = @ + 1]
    BY <1>3 DEF OtherCommand
  <2>2. version' \in [Parents -> Nat]
    BY <1>3, <2>1 DEF SagaIInv, MemoryTyped
  <2>3. faults' \in 0 .. MaxFaults
    <3>1. faults \in 0 .. MaxFaults
      BY DEF SagaIInv, CallsTyped
    <3> QED  BY <2>1, <3>1, StreamAssumption
  <2>4. CallsTyped'
    BY <2>1, <2>3 DEF SagaIInv, CallsTyped
  <2> QED  BY <2>1, <2>2, <2>4, VersionMoves
<1>4. ASSUME NEW k \in Clients, NEW work \in SUBSET Work \ {{}},
             NEW n \in DOMAIN stream[Task[k].child],
             NEW m \in {n, Len(stream[Task[k].child])},
             RecordChildObservation(k, n, m, work)
      PROVE  SagaIInv'
  BY <1>4, ObservationKeepsSagaIInv
<1>5. CASE UNCHANGED sagaVars
  <2>1. CallsTyped'
    BY <1>5 DEF SagaIInv, CallsTyped, sagaVars
  <2> QED  BY <1>5, <2>1, LedgerKept DEF sagaVars
<1> QED  BY <1>1, <1>2, <1>3, <1>4, <1>5 DEF SagaNext

LEMMA AlwaysSagaIInv == SagaSpec => []SagaIInv
BY InitSagaIInv, NextSagaIInv, PTL DEF SagaSpec

(* Whatever crashed, raced or was repeated on the way, a link proves a     *)
(* prefix that the child stream still has, of a child started for exactly  *)
(* this parent and request (LinkIsGenuine).                                *)
THEOREM LinksStayGenuine == SagaSpec => []LinkIsGenuine
<1>1. SagaIInv => SagaTypeOK
  <2> SUFFICES ASSUME SagaIInv PROVE SagaTypeOK
    OBVIOUS
  <2>1. ASSUME NEW p \in Parents
        PROVE  /\ version[p] \in Nat
               /\ memory[p].requests \subseteq {RequestOf[k] : k \in Clients}
               /\ \A l \in LinksOf(p) : IsLink(l)
    BY DEF SagaIInv, MemoryTyped, Memories, AllRequests, ParentIsSound, LinksAreOwn, LinksOf
  <2>2. ASSUME NEW c \in Children
        PROVE  /\ Len(stream[c]) \in {0} \cup 2 .. MaxChildEvents
               /\ \A i \in DOMAIN stream[c] : (stream[c][i].manifest # None) <=> i = 1
    BY DEF SagaIInv, StreamsTyped, StreamIsTyped
  <2> QED  BY <2>1, <2>2 DEF SagaIInv, CallsTyped, SagaTypeOK
<1>2. SagaIInv => LinkIsGenuine
  BY <1>1 DEF SagaIInv, ParentIsSound, LinkStands, LinkIsGenuine, LinksOf
<1> QED  BY <1>2, AlwaysSagaIInv, PTL

(* No child is ever linked by two requests (ChildHasOneParent): the        *)
(* manifest it was started with names one parent and one request.          *)
THEOREM ChildAlwaysHasOneParent == SagaSpec => []ChildHasOneParent
<1>1. SagaIInv => ChildHasOneParent
  <2> SUFFICES ASSUME SagaIInv, NEW p \in Parents, NEW q \in Parents,
                      NEW l \in memory[p].links, NEW x \in memory[q].links, l.child = x.child
               PROVE  p = q /\ l = x
    BY DEF ChildHasOneParent, LinksOf
  <2>1. ParentIsSound(p) /\ ParentIsSound(q)
    BY DEF SagaIInv
  <2>2. PICK r \in memory[p].requests :
           r.id = l.request /\ ManifestOf(stream[l.child]) = ChildManifest(r)
    BY <2>1 DEF ParentIsSound, LinkStands
  <2>3. PICK y \in memory[q].requests :
           y.id = x.request /\ ManifestOf(stream[x.child]) = ChildManifest(y)
    BY <2>1 DEF ParentIsSound, LinkStands
  <2>4. <<r.parent, r.id, r.child>> = <<y.parent, y.id, y.child>>
    BY <2>2, <2>3 DEF ChildManifest
  <2>5. r.parent = p /\ y.parent = q
    BY <2>1 DEF ParentIsSound, RequestsAreOwn
  <2>6. p = q /\ l.request = x.request
    BY <2>2, <2>3, <2>4, <2>5
  <2> QED  BY <2>1, <2>6 DEF ParentIsSound, LinksAreOwn
<1> QED  BY <1>1, AlwaysSagaIInv, PTL

(* An observation measures a finished prefix of the linked child that the  *)
(* stream still has, even when the child is reopened or goes on            *)
(* afterwards (ObservationIsOfFinishedPrefix).                             *)
THEOREM ObservationsStayOfFinishedPrefix == SagaSpec => []ObservationIsOfFinishedPrefix
<1>1. SagaIInv => ObservationIsOfFinishedPrefix
  BY DEF SagaIInv, ParentIsSound, ObservationStands, ObservationIsOfFinishedPrefix,
     ObservationsOf, LinksOf
<1> QED  BY <1>1, AlwaysSagaIInv, PTL
=============================================================================
