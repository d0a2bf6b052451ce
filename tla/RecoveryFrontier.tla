--------------------------- MODULE RecoveryFrontier ---------------------------
(***************************************************************************)
(* The exact comparison of measured recovery costs, src/src/rci/memory/    *)
(* recovery.py; the checker of src/src/rci/memory/checks.py computes the   *)
(* same again.                                                             *)
(*                                                                         *)
(* A cost vector maps each axis to a reduced fraction [n, d].  A point is  *)
(* [id, costs].  The code keeps the points of a frontier in a canonical    *)
(* order; here they are a set, and Precedes is that order.                 *)
(***************************************************************************)
EXTENDS Integers, FiniteSets

CONSTANTS
    Axes,               \* the axes of a vector, in the order of their ids
    ObservationOrder    \* observation id -> position in the order of ids

ASSUME OrderAssumption ==
    /\ DOMAIN Axes \subseteq Nat
    /\ \A i, j \in DOMAIN Axes : Axes[i] = Axes[j] => i = j
    /\ \A x \in DOMAIN ObservationOrder : ObservationOrder[x] \in Nat
    /\ \A x, y \in DOMAIN ObservationOrder :
          ObservationOrder[x] = ObservationOrder[y] => x = y

(* CostCoordinate: numerator and denominator have no common divisor. *)
IsCost(c) ==
    /\ c.n \in Nat /\ c.d \in Nat \ {0}
    /\ c.n = 0 => c.d = 1
    /\ \A k \in 2 .. c.d : ~ (c.n % k = 0 /\ c.d % k = 0)
IsCostVector(v) ==
    DOMAIN v = {Axes[i] : i \in DOMAIN Axes} /\ \A x \in DOMAIN v : IsCost(v[x])

(* compare_cost_coordinates: integer cross multiplication. *)
Cheaper(a, b) == a.n * b.d < b.n * a.d
NotCostlier(a, b) == ~ Cheaper(b, a)
WithinBudget(v, budget) == \A x \in DOMAIN v : NotCostlier(v[x], budget[x])

(* compare_cost_vectors: the Pareto relation of left to right. *)
CompareCostVectors(left, right) ==
    LET leftNoWorse == \A x \in DOMAIN left : NotCostlier(left[x], right[x])
        rightNoWorse == \A x \in DOMAIN left : NotCostlier(right[x], left[x]) IN
    CASE leftNoWorse /\ rightNoWorse -> "equal"
      [] leftNoWorse /\ ~ rightNoWorse -> "left_strictly_better"
      [] ~ leftNoWorse /\ rightNoWorse -> "right_strictly_better"
      [] OTHER -> "incomparable"

(* _compare_points: lexicographic by axis, then by observation id. *)
Precedes(p, q) ==
    LET differ == {i \in DOMAIN Axes : CompareCostVectors(
                      [x \in {Axes[i]} |-> p.costs[x]],
                      [x \in {Axes[i]} |-> q.costs[x]]) # "equal"} IN
    IF differ = {} THEN ObservationOrder[p.id] < ObservationOrder[q.id]
    ELSE \E i \in differ : /\ \A j \in differ : i <= j
                           /\ Cheaper(p.costs[Axes[i]], q.costs[Axes[i]])

(* Mutant: failed recoveries count as well. *)
PointsOfFailures(O) ==
    {[id |-> o.id, costs |-> o.costs] :
        o \in {x \in O : \A y \in O :
                  CompareCostVectors(x.costs, y.costs) = "equal"
                     => ObservationOrder[x.id] <= ObservationOrder[y.id]}}

(* Only successful observations count, and of equal vectors the one with   *)
(* the lowest id.                                                          *)
UniquePoints(O) ==
    {[id |-> o.id, costs |-> o.costs] :
        o \in {x \in O : x.competent /\ \A y \in O :
                  y.competent /\ CompareCostVectors(x.costs, y.costs) = "equal"
                     => ObservationOrder[x.id] <= ObservationOrder[y.id]}}

(* derive_recovery_frontier: the points no other point is better than. *)
RecoveryPoints(O) ==
    {p \in UniquePoints(O) : \A q \in UniquePoints(O) :
        CompareCostVectors(q.costs, p.costs) # "left_strictly_better"}

(* The retained points that are no worse than a baseline point, and the    *)
(* first of them in the canonical order: its witness.                      *)
Covering(b, R) ==
    {r \in R : CompareCostVectors(r.costs, b.costs) \in {"left_strictly_better", "equal"}}
Witness(b, R) ==
    CHOOSE r \in Covering(b, R) : \A s \in Covering(b, R) : s = r \/ Precedes(r, s)
StrictlyCovered(b, R) ==
    CompareCostVectors(Witness(b, R).costs, b.costs) = "left_strictly_better"

(* An incomparable retained point is noticed if it comes before the        *)
(* witness, where the search stops.                                        *)
NoticedIncomparable(b, R) ==
    \E r \in R :
        /\ CompareCostVectors(r.costs, b.costs) = "incomparable"
        /\ Covering(b, R) # {} => Precedes(r, Witness(b, R))

(* _evaluate_frontiers *)
ComparisonOutcome(B, R) ==
    LET complete == B # {} /\ \A b \in B : Covering(b, R) # {} IN
    CASE complete /\ (\E b \in B : StrictlyCovered(b, R)) -> "strict_advantage"
      [] ~ (complete /\ \E b \in B : StrictlyCovered(b, R))
         /\ (\E b \in B : NoticedIncomparable(b, R)) -> "incomparable"
      [] OTHER -> "no_advantage"
Coverage(B, R) ==
    IF ComparisonOutcome(B, R) = "strict_advantage"
    THEN {[baseline |-> b.id, retained |-> Witness(b, R).id,
           strict |-> StrictlyCovered(b, R)] : b \in B}
    ELSE {}
=============================================================================
