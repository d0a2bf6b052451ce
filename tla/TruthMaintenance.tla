--------------------------- MODULE TruthMaintenance ---------------------------
(***************************************************************************)
(* Evidence, checks, warrant decisions, promotion and the active theory of *)
(* one inquiry: src/src/rci/warrant/ and the commands of                   *)
(* src/src/rci/core/transitions.py that record them.                       *)
(*                                                                         *)
(* Everything recorded is immutable.  What may change is standing: guards, *)
(* support routes and nogoods have append-only histories of withdrawals    *)
(* and restorations.  The active theory is not stored: Active derives it   *)
(* from the records and the standings each time it is asked for.           *)
(*                                                                         *)
(* The constants of catalogue kind hold the records that callers submit, a *)
(* record with its id; recording the same record again answers () and      *)
(* another record under a used id raises, and neither changes the state.   *)
(* One inquiry has one scope, binding, universe and policy, and commands   *)
(* with other ones raise, so none of them is part of a record.             *)
(***************************************************************************)
EXTENDS Naturals, Sequences, FiniteSets

CONSTANTS
    Evidence,       \* [id, kind, about, form, universe]
    Verdicts,       \* [id, evidence, checker, verdict, certificate]
    Evaluations,    \* [id, verdict]: the warrant evaluations asked for
    Nogoods,        \* [id, assumptions, check, decision]
    Claims,         \* [id, proposition or "opaque", modal]
    Proposals,      \* the promotions asked for, see Proposal
    Lemmas, Routes, \* lemma version ids; the support routes of Proposals
    Conditions,     \* guard conditions
    Authorized,     \* context.discharge_mechanism_ids
    Current,        \* context.assumption_ids
    ClosedWorld,    \* the scope declares a closed finite universe
    MaxChanges      \* bound on each standing history

Kinds ==
    {"model_output", "reification", "heuristic", "retrieval", "observation",
     "independent_witness", "exhaustive_unsat", "z3_unsat"}
WarrantClasses == {"none", "soft", "solver_trusted", "hard"}
Standings == {"standing", "withdrawn"}
Histories == UNION {[1 .. n -> Standings] : n \in 0 .. MaxChanges}

(* A route names the lemma it concludes, the assumptions of its            *)
(* environment, the lemmas it requires and those it declares open, the     *)
(* decisions it binds, and two checks: its certificate, about the lemma's  *)
(* relation, and the realizability of its environment.                     *)
ASSUME CatalogueAssumption ==
    /\ IsFiniteSet(Lemmas)
    /\ MaxChanges \in Nat
    /\ ClosedWorld \in BOOLEAN
    /\ \A e \in Evidence : e.kind \in Kinds
    /\ \A r \in Routes : /\ r.id \in Nat
                         /\ r.conclusion \in Lemmas
                         /\ r.requires \subseteq Lemmas
                         /\ r.open \subseteq r.requires
    /\ \A q, r \in Routes : q.id = r.id => q = r
    /\ \A p \in Proposals : /\ p.lemma \in Lemmas
                            /\ p.routes \subseteq Routes
                            /\ p.predecessors \subseteq Lemmas \ {p.lemma}

VARIABLES
    evidence, verdicts,     \* the records owned by the aggregate
    decisions,              \* [id, evidence, verdict, class]
    nogoods, claims,
    promoted,               \* accepted proposals, in order
    attacked,               \* propositions with a mandatory attack obligation
    routeChanges,           \* route id -> standing history
    nogoodChanges,          \* nogood id -> standing history
    guardChanges            \* condition -> standing history

vars == <<evidence, verdicts, decisions, nogoods, claims, promoted, attacked,
          routeChanges, nogoodChanges, guardChanges>>

RouteIds == {r.id : r \in Routes}
NogoodIds == {n.id : n \in Nogoods}

(* The state after InquiryStarted. *)
Init ==
    /\ evidence = {} /\ verdicts = {} /\ decisions = {}
    /\ nogoods = {} /\ claims = {} /\ attacked = {}
    /\ promoted = <<>>
    /\ routeChanges = [r \in RouteIds |-> <<>>]
    /\ nogoodChanges = [n \in NogoodIds |-> <<>>]
    /\ guardChanges = [c \in Conditions |-> <<>>]

------------------------------------------------------------------------------
(* Checks and warrant. *)

(* validate_checked_evidence: RecordCheckerVerdict already made the        *)
(* verdict's pins those of its evidence.                                   *)
ValidCheck(e, v, about, form) ==
    /\ v.evidence = e.id
    /\ e.about = about
    /\ e.form = form
    /\ v.checker \in Authorized
    /\ v.verdict = "valid"

(* resolve_check_reference *)
Resolves(check, about, form) ==
    \E e \in evidence, v \in verdicts :
        /\ e.id = check.evidence
        /\ v.id = check.verdict
        /\ ValidCheck(e, v, about, form)

(* Mutant: a solver's word is taken for an exhaustive enumeration. *)
SolverIsHard(e, v) ==
    IF e.kind \in {"model_output", "reification"} \/ ~ ValidCheck(e, v, e.about, e.form)
    THEN "none" ELSE "hard"

(* decide_evidence_warrant, for the evidence's own proposition: for any    *)
(* other the decision record fails the state validators.                   *)
WarrantClass(e, v) ==
    IF e.kind \in {"model_output", "reification"} \/ ~ ValidCheck(e, v, e.about, e.form)
    THEN "none"
    ELSE CASE e.kind = "independent_witness" ->
                IF e.form = "existential" THEN "hard" ELSE "none"
           [] e.kind = "exhaustive_unsat" ->
                IF e.universe = "open" THEN "soft"
                ELSE IF e.universe = "scoped" /\ ClosedWorld THEN "hard" ELSE "none"
           [] e.kind = "z3_unsat" -> "solver_trusted"
           [] OTHER -> "soft"

RecordEvidence(e) ==
    /\ \A x \in evidence : x.id # e.id
    /\ evidence' = evidence \cup {e}
    /\ UNCHANGED <<verdicts, decisions, nogoods, claims, promoted, attacked,
                   routeChanges, nogoodChanges, guardChanges>>

RecordCheckerVerdict(v) ==
    /\ \E e \in evidence : e.id = v.evidence
    /\ \A x \in verdicts : x.id # v.id
    /\ verdicts' = verdicts \cup {v}
    /\ UNCHANGED <<evidence, decisions, nogoods, claims, promoted, attacked,
                   routeChanges, nogoodChanges, guardChanges>>

EvaluateWarrant(c) ==
    /\ \A x \in decisions : x.id # c.id
    /\ \E v \in verdicts, e \in evidence :
          /\ v.id = c.verdict
          /\ e.id = v.evidence
          /\ decisions' = decisions \cup
                {[id |-> c.id, evidence |-> e.id, verdict |-> v.id,
                  class |-> WarrantClass(e, v)]}
    /\ UNCHANGED <<evidence, verdicts, nogoods, claims, promoted, attacked,
                   routeChanges, nogoodChanges, guardChanges>>

(* A decision is exact for a proposition when its evidence is about it. *)
HardDecision(d, about, form) ==
    /\ d.class = "hard"
    /\ \E e \in evidence : e.id = d.evidence /\ e.about = about /\ e.form = form

RecordNogood(n) ==
    /\ \A x \in nogoods : x.id # n.id
    /\ \E d \in decisions :
          /\ d.id = n.decision
          /\ HardDecision(d, n.id, "existential")
          /\ d.evidence = n.check.evidence
          /\ d.verdict = n.check.verdict
    /\ Resolves(n.check, n.id, "existential")
    /\ nogoods' = nogoods \cup {n}
    /\ UNCHANGED <<evidence, verdicts, decisions, claims, promoted, attacked,
                   routeChanges, nogoodChanges, guardChanges>>

------------------------------------------------------------------------------
(* Support. *)

PromotedSet == {promoted[i] : i \in 1 .. Len(promoted)}
PromotedLemmas == {p.lemma : p \in PromotedSet}
ProposalOf(l) == CHOOSE p \in PromotedSet : p.lemma = l
OwnedRoutes == UNION {p.routes : p \in PromotedSet}

(* Standing is the last change; routes and nogoods stand by default, a     *)
(* guard does not.                                                         *)
CurrentStanding(history, default) ==
    IF history = <<>> THEN default ELSE history[Len(history)]

(* Mutant: standing is kept per environment. *)
EnvironmentStands(r) ==
    \A q \in Routes :
        q.assumptions = r.assumptions =>
            CurrentStanding(routeChanges[q.id], "standing") = "standing"

RouteStands(r) == CurrentStanding(routeChanges[r.id], "standing") = "standing"
StandingNogoods ==
    {n \in nogoods : CurrentStanding(nogoodChanges[n.id], "standing") = "standing"}
StandingContext ==
    {c \in Conditions : CurrentStanding(guardChanges[c], "withdrawn") = "standing"}

(* _applicability_stands *)
ApplicabilityStands(p) ==
    /\ p.guard = "always" \/ p.guard \in StandingContext
    /\ p.contexts \subseteq StandingContext

(* The routes by which a conclusion is shown on the fewest assumptions.    *)
(* Among equal environments the first id represents the others.            *)
Minimal(routes) ==
    {r \in routes : ~ \E q \in routes :
        /\ q.assumptions \subseteq r.assumptions
        /\ q.assumptions = r.assumptions => q.id < r.id}

(* support_environment_stands *)
EnvironmentHolds(r, ng) ==
    /\ Resolves(r.realizable, r.environment, "existential")
    /\ r.assumptions \subseteq Current
    /\ \A n \in ng : ~ n.assumptions \subseteq r.assumptions

(* _route_applicable *)
RouteApplicable(r, ng) ==
    LET p == ProposalOf(r.conclusion) IN
    /\ Resolves(r.certificate, p.relation, p.form)
    /\ ApplicabilityStands(p)
    /\ EnvironmentHolds(r, ng)

(* One turn of the loop of grounded_lemma_ids: the lemmas that have one of *)
(* the routes with every required lemma in S.                              *)
Supported(routes, S) ==
    {l \in Lemmas : \E r \in routes : r.conclusion = l /\ r.requires \subseteq S}

(* grounded_lemma_ids: the least set closed under the routes. *)
Grounded(routes) ==
    {l \in Lemmas : \A S \in SUBSET Lemmas :
        Supported(routes, S) \subseteq S => l \in S}

(* Mutant: routes are minimised before they are tested. *)
MinimisedFirst ==
    UNION {{r \in Minimal({q \in p.routes : RouteStands(q)}) :
                RouteApplicable(r, StandingNogoods)} : p \in PromotedSet}

(* The routes select_active_theory may use: current and historical ones    *)
(* that stand and are applicable.                                          *)
LiveRoutes ==
    {r \in OwnedRoutes : RouteStands(r) /\ RouteApplicable(r, StandingNogoods)}

(* select_active_theory for the inquiry's own selector *)
Active == Grounded(LiveRoutes)

(* One pass over the lemmas in the order of their promotion, which sees    *)
(* what it has itself added to S.                                          *)
Pass(routes, S) ==
    LET seen[i \in 0 .. Len(promoted)] ==
            IF i = 0 THEN S
            ELSE IF promoted[i].lemma \in Supported(routes, seen[i - 1])
                 THEN seen[i - 1] \cup {promoted[i].lemma} ELSE seen[i - 1]
    IN  seen[Len(promoted)]

(* Mutant: one pass over the lemmas, without the changed flag. *)
OnePass(routes) == Pass(routes, {})

(* The loop as it is written: passes until one adds nothing (each earlier  *)
(* pass adds a lemma, so there are no more than lemmas).                   *)
GroundedLoop(routes) ==
    LET after[k \in 0 .. Len(promoted)] ==
            IF k = 0 THEN {} ELSE Pass(routes, after[k - 1])
    IN  after[Len(promoted)]

------------------------------------------------------------------------------
(* Promotion. *)

RequiredBy(l, routes) ==
    UNION {r.requires : r \in {q \in routes : q.conclusion = l}}

(* Mutant: cycles are not looked for. *)
AnyGraph(routes, known) == TRUE

(* support_graph_is_acyclic: no set of lemmas in which each requires       *)
(* another of them, edges to lemmas not yet promoted left out.             *)
SupportGraphIsAcyclic(routes, known) ==
    \A S \in SUBSET known :
        S # {} => \E l \in S : RequiredBy(l, routes) \cap S = {}

(* What decide_promotion counts as a grounded dependency: it passes        *)
(* grounded_lemma_ids the current routes of the lemmas, without nogoods    *)
(* and without the standing changes.                                       *)
PromotionGround ==
    Grounded({r \in UNION {Minimal(p.routes) : p \in PromotedSet} :
                  RouteApplicable(r, {})})

(* Mutant: a route's dependencies may be lemmas not yet shown. *)
ClosedByDeclaration(r, p) ==
    /\ r.open = {}
    /\ Resolves(r.certificate, p.relation, p.form)
    /\ Resolves(r.realizable, r.environment, "existential")

ClosedRoute(r, p) ==
    /\ r.open = {}
    /\ r.requires \subseteq PromotionGround
    /\ Resolves(r.certificate, p.relation, p.form)
    /\ Resolves(r.realizable, r.environment, "existential")

(* The validators of LemmaSupport and of the folded state: route ids are   *)
(* used once, every check a route cites is owned, and the certificates of  *)
(* the verdicts it cites are distinct.                                     *)
OwnedCheck(check) ==
    \E e \in evidence, v \in verdicts :
        e.id = check.evidence /\ v.id = check.verdict /\ v.evidence = e.id
CitedVerdicts(p, d) ==
    {v \in verdicts : \/ v.id = d.verdict
                      \/ \E r \in p.routes : v.id \in {r.certificate.verdict,
                                                       r.realizable.verdict}}
SupportIsValid(p, d) ==
    /\ \A r \in p.routes : /\ OwnedCheck(r.certificate)
                           /\ OwnedCheck(r.realizable)
                           /\ \A q \in OwnedRoutes : q.id # r.id
    /\ \A v, w \in CitedVerdicts(p, d) : v.certificate = w.certificate => v = w

UnusedIdentity(p) == p.lemma \notin PromotedLemmas

(* PromoteClaim with decide_promotion, the fold and its validators. *)
PromoteClaim(p) ==
    /\ UnusedIdentity(p)
    /\ p.sources # {}
    /\ \A id \in p.sources : \E c \in claims :
          c.id = id /\ c.proposition \in {p.relation, "opaque"}
    /\ p.predecessors \subseteq PromotedLemmas
    /\ \E d \in decisions :
          /\ d.id = p.decision
          /\ HardDecision(d, p.relation, p.form)
          /\ \A r \in p.routes : d.id \in r.warrants /\ r.conclusion = p.lemma
          /\ SupportIsValid(p, d)
    /\ SupportGraphIsAcyclic(OwnedRoutes \cup p.routes, PromotedLemmas \cup {p.lemma})
    /\ ApplicabilityStands(p)
    /\ \E r \in Minimal(p.routes) : ClosedRoute(r, p)
    /\ promoted' = Append(promoted, p)
    /\ UNCHANGED <<evidence, verdicts, decisions, nogoods, claims, attacked,
                   routeChanges, nogoodChanges, guardChanges>>

(* Mutant: any active lemma closes the attack. *)
AnythingShown(c) == Active # {}

(* _claim_attack_is_exactly_discharged *)
AttackIsDischarged(c) ==
    /\ c.proposition # "opaque"
    /\ \E l \in Active : ProposalOf(l).relation = c.proposition

(* The carrier of a mandatory attack. *)
Carrier(c) == IF c.proposition = "opaque" THEN c.id ELSE c.proposition

(* AdmitClaim, with the attack _derive_claim_consequences opens for a      *)
(* necessity, sufficiency or prerequisite.  Obligations are told apart by  *)
(* carrier.  Conflicts do not touch support and are left out.              *)
AdmitClaim(c) ==
    /\ \A x \in claims : x.id # c.id
    /\ claims' = claims \cup {c}
    /\ attacked' = IF c.modal /\ ~ AttackIsDischarged(c)
                   THEN attacked \cup {Carrier(c)} ELSE attacked
    /\ UNCHANGED <<evidence, verdicts, decisions, nogoods, promoted,
                   routeChanges, nogoodChanges, guardChanges>>

------------------------------------------------------------------------------
(* Standing.  A change names the tail it extends, so that of two changes   *)
(* decided on one tail the second raises; it must change the standing.     *)
ChangeSupportRouteStanding(id, standing) ==
    /\ \E r \in OwnedRoutes : r.id = id
    /\ standing # CurrentStanding(routeChanges[id], "standing")
    /\ Len(routeChanges[id]) < MaxChanges
    /\ routeChanges' = [routeChanges EXCEPT ![id] = Append(@, standing)]
    /\ UNCHANGED <<evidence, verdicts, decisions, nogoods, claims, promoted,
                   attacked, nogoodChanges, guardChanges>>

ChangeNogoodStanding(id, standing) ==
    /\ \E n \in nogoods : n.id = id
    /\ standing # CurrentStanding(nogoodChanges[id], "standing")
    /\ Len(nogoodChanges[id]) < MaxChanges
    /\ nogoodChanges' = [nogoodChanges EXCEPT ![id] = Append(@, standing)]
    /\ UNCHANGED <<evidence, verdicts, decisions, nogoods, claims, promoted,
                   attacked, routeChanges, guardChanges>>

(* The first change of a guard may be either standing. *)
ChangeGuardStanding(c, standing) ==
    /\ guardChanges[c] # <<>> => standing # CurrentStanding(guardChanges[c], "withdrawn")
    /\ Len(guardChanges[c]) < MaxChanges
    /\ guardChanges' = [guardChanges EXCEPT ![c] = Append(@, standing)]
    /\ UNCHANGED <<evidence, verdicts, decisions, nogoods, claims, promoted,
                   attacked, routeChanges, nogoodChanges>>

Next ==
    \/ \E e \in Evidence : RecordEvidence(e)
    \/ \E v \in Verdicts : RecordCheckerVerdict(v)
    \/ \E c \in Evaluations : EvaluateWarrant(c)
    \/ \E n \in Nogoods : RecordNogood(n)
    \/ \E c \in Claims : AdmitClaim(c)
    \/ \E p \in Proposals : PromoteClaim(p)
    \/ \E id \in RouteIds, s \in Standings : ChangeSupportRouteStanding(id, s)
    \/ \E id \in NogoodIds, s \in Standings : ChangeNogoodStanding(id, s)
    \/ \E c \in Conditions, s \in Standings : ChangeGuardStanding(c, s)

Spec == Init /\ [][Next]_vars

------------------------------------------------------------------------------
(* Properties. *)

(* The folded state is well typed. *)
TypeOK ==
    /\ evidence \subseteq Evidence
    /\ verdicts \subseteq Verdicts
    /\ \A d \in decisions : d.class \in WarrantClasses
    /\ nogoods \subseteq Nogoods
    /\ claims \subseteq Claims
    /\ promoted \in Seq(Proposals)
    /\ attacked \subseteq {Carrier(c) : c \in Claims}
    /\ routeChanges \in [RouteIds -> Histories]
    /\ nogoodChanges \in [NogoodIds -> Histories]
    /\ guardChanges \in [Conditions -> Histories]

(* The loop of grounded_lemma_ids, which visits lemmas in the order they   *)
(* were promoted, ends with the least closed set although a route may      *)
(* require a lemma promoted later.                                         *)
LoopFindsActive == GroundedLoop(LiveRoutes) = Active

(* There is one theory to select: no set of lemmas but the active one      *)
(* supports exactly itself.  A positive support cycle would allow a second *)
(* whatever is withdrawn, so promotion must have kept every cycle out.     *)
TheoryIsUnique ==
    \A S \in SUBSET PromotedLemmas : Supported(LiveRoutes, S) = S <=> S = Active

(* Each lemma of the active theory rests on evidence that a checker of the *)
(* binding found valid, a witness of an existential or an enumeration of   *)
(* the closed universe; no model output, retrieval, heuristic or solver    *)
(* claim is enough.                                                        *)
ActiveIsWarranted ==
    \A l \in Active : \E e \in evidence, v \in verdicts :
        /\ e.about = ProposalOf(l).relation
        /\ v.evidence = e.id /\ v.verdict = "valid" /\ v.checker \in Authorized
        /\ \/ e.kind = "independent_witness" /\ e.form = "existential"
           \/ e.kind = "exhaustive_unsat" /\ e.universe = "scoped" /\ ClosedWorld

(* Promotion never relies on a lemma that has no support of its own: were  *)
(* all guards, routes and assumptions to stand and no nogood to exclude    *)
(* anything, every promoted lemma would be active.                         *)
PossibleRoutes ==
    {r \in OwnedRoutes :
        LET p == ProposalOf(r.conclusion) IN
        /\ Resolves(r.certificate, p.relation, p.form)
        /\ Resolves(r.realizable, r.environment, "existential")}
PromotionIsGrounded == PromotedLemmas \subseteq Grounded(PossibleRoutes)

(* A modal claim is without its mandatory attack only if a lemma for the   *)
(* very same proposition has been promoted.                                *)
UnattackedIsDischarged ==
    \A c \in claims : c.modal =>
        \/ Carrier(c) \in attacked
        \/ \E p \in PromotedSet : p.relation = c.proposition

(* No command rewrites a record: lemmas keep their version and support,    *)
(* decisions keep their class, histories only grow.                        *)
KeepsHistory ==
    /\ evidence \subseteq evidence' /\ verdicts \subseteq verdicts'
    /\ decisions \subseteq decisions' /\ nogoods \subseteq nogoods'
    /\ \A l \in PromotedLemmas : ProposalOf(l)' = ProposalOf(l)
    /\ \A id \in RouteIds :
          SubSeq(routeChanges'[id], 1, Len(routeChanges[id])) = routeChanges[id]
HistoryIsKept == [][KeepsHistory]_vars

(* Withdrawing routes or guards, and restoring or recording nogoods, never *)
(* makes a lemma active; the opposite changes never make one inactive.     *)
StandingRoutes ==
    {r \in OwnedRoutes : CurrentStanding(routeChanges[r.id], "standing") = "standing"}
FollowsStanding ==
    promoted' = promoted /\ evidence' = evidence /\ verdicts' = verdicts =>
        /\ (/\ StandingRoutes' \subseteq StandingRoutes
            /\ StandingContext' \subseteq StandingContext
            /\ StandingNogoods \subseteq StandingNogoods') => Active' \subseteq Active
        /\ (/\ StandingRoutes \subseteq StandingRoutes'
            /\ StandingContext \subseteq StandingContext'
            /\ StandingNogoods' \subseteq StandingNogoods) => Active \subseteq Active'
InvalidationOnlyShrinks == [][FollowsStanding]_vars

(* The lemmas whose support can lead back to l. *)
Downstream(l) ==
    {m \in PromotedLemmas : \A S \in SUBSET PromotedLemmas :
        (/\ l \in S
         /\ \A k \in PromotedLemmas : RequiredBy(k, OwnedRoutes) \cap S # {} => k \in S)
        => m \in S}

(* Withdrawing or restoring one route concerns only its conclusion and     *)
(* what is shown from it: other lemmas keep their standing, shared         *)
(* environments included.                                                  *)
ChangesLocally ==
    \A r \in OwnedRoutes : routeChanges'[r.id] # routeChanges[r.id] =>
        (Active \ Active') \cup (Active' \ Active) \subseteq Downstream(r.conclusion)
StandingChangesAreLocal == [][ChangesLocally]_vars
==============================================================================
