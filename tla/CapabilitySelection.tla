-------------------------- MODULE CapabilitySelection --------------------------
(***************************************************************************)
(* The pure selection of src/src/rci/project/selection.py: which of a set  *)
(* of capability successor candidates are worth keeping, and which one is  *)
(* tried first.                                                            *)
(*                                                                         *)
(* A candidate is [id, anchor, limitation, preserved, gains,               *)
(* discriminator, reversible, costs]; costs maps each estimated axis to a  *)
(* number or to Unknown.  Identifiers are compared as text in the code;    *)
(* IdOrder is their position in that order.                                *)
(***************************************************************************)
EXTENDS Naturals, FiniteSets

CONSTANTS
    IdOrder,    \* candidate id -> position in the order of identifiers
    Unknown,    \* a cost that was not estimated: None in the code
    None        \* an optional identifier that is absent

ASSUME IdOrderAssumption ==
    /\ \A x \in DOMAIN IdOrder : IdOrder[x] \in Nat
    /\ \A x, y \in DOMAIN IdOrder : IdOrder[x] = IdOrder[y] => x = y
    /\ Unknown \notin Nat /\ None \notin DOMAIN IdOrder

(* The class CapabilitySuccessorCandidate and its validator. *)
IsSuccessorCandidate(c) ==
    /\ c.id \in DOMAIN IdOrder
    /\ c.preserved # {} /\ c.gains # {}
    /\ c.reversible \in BOOLEAN
    /\ DOMAIN c.costs # {}
    /\ \A axis \in DOMAIN c.costs : c.costs[axis] \in Nat \cup {Unknown}

SamePlace(a, b) == a.anchor = b.anchor /\ a.limitation = b.limitation

(* Every axis is estimated, and both estimate the same axes. *)
KnownCosts(c) == \A axis \in DOMAIN c.costs : c.costs[axis] # Unknown
ComparableCosts(a, b) ==
    KnownCosts(a) /\ KnownCosts(b) /\ DOMAIN a.costs = DOMAIN b.costs
NoCostlier(a, b) == \A axis \in DOMAIN a.costs : a.costs[axis] <= b.costs[axis]

(* candidate_dominates: a is no worse in anything and better in something. *)
Dominates(a, b) ==
    /\ SamePlace(a, b)
    /\ ComparableCosts(a, b)
    /\ b.preserved \subseteq a.preserved
    /\ b.gains \subseteq a.gains
    /\ NoCostlier(a, b)
    /\ \/ a.preserved # b.preserved
       \/ a.gains # b.gains
       \/ \E axis \in DOMAIN a.costs : a.costs[axis] < b.costs[axis]

Nondominated(C) == {c \in C : ~ \E d \in C : d.id # c.id /\ Dominates(d, c)}

(* The candidates that can be tried and undone. *)
Selectable(C) ==
    {c \in Nondominated(C) : c.reversible /\ c.discriminator # None}

(* Mutant: the cheapest on some axis will do. *)
SomewhereCheapest(C) ==
    LET S == Selectable(C) IN
    IF \A a, b \in S : ComparableCosts(a, b)
    THEN {c \in S : \A d \in S : \E axis \in DOMAIN c.costs : c.costs[axis] <= d.costs[axis]}
    ELSE {}

(* cost_minima: no costlier than any other on any axis; none at all when   *)
(* the selectable candidates are not comparable.                           *)
CostMinima(C) ==
    LET S == Selectable(C) IN
    IF \A a, b \in S : ComparableCosts(a, b)
    THEN {c \in S : \A d \in S : NoCostlier(c, d)}
    ELSE {}

(* The first of the cheapest in the order of identifiers. *)
Selected(C) ==
    IF CostMinima(C) = {} THEN None
    ELSE (CHOOSE c \in CostMinima(C) :
              \A d \in CostMinima(C) : IdOrder[c.id] <= IdOrder[d.id]).id

(* derive_capability_frontier raises unless the candidates share a place. *)
ShareOnePlace(C) == C # {} /\ \A a, b \in C : SamePlace(a, b)

(* derive_capability_frontier *)
CapabilityFrontier(id, C) ==
    LET place == CHOOSE c \in C : TRUE
        kept == Nondominated(C) IN
    [id |-> id, anchor |-> place.anchor, limitation |-> place.limitation,
     candidates |-> {c.id : c \in C},
     nondominated |-> {c.id : c \in kept},
     incomparable |-> {{p[1].id, p[2].id} :
                         p \in {q \in kept \X kept : /\ q[1] # q[2]
                                                     /\ ~ Dominates(q[1], q[2])
                                                     /\ ~ Dominates(q[2], q[1])}},
     selected |-> Selected(C),
     status |-> IF Selected(C) = None THEN "unknown" ELSE "ready"]
=============================================================================
