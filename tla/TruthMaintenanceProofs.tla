------------------------ MODULE TruthMaintenanceProofs ------------------------
(***************************************************************************)
(* Proofs about warrant and the active theory, for any catalogue of        *)
(* records, any number of lemmas and routes and standing histories of any  *)
(* length.                                                                 *)
(***************************************************************************)
EXTENDS TruthMaintenance, SequenceTheorems, FiniteSetTheorems, WellFoundedInduction, TLAPS

------------------------------------------------------------------------------
(* Least fixed points. *)

(* A larger set of lemmas supports more lemmas, and so do more routes. *)
LEMMA SupportedGrows ==
    ASSUME NEW Q, NEW R, NEW S, NEW T, Q \subseteq R, S \subseteq T
    PROVE  Supported(Q, S) \subseteq Supported(R, T)
BY DEF Supported

(* The grounded lemmas are in every set that is closed under the routes. *)
LEMMA GroundedIsLeast ==
    ASSUME NEW R, NEW S, S \subseteq Lemmas, Supported(R, S) \subseteq S
    PROVE  Grounded(R) \subseteq S
BY DEF Grounded

(* The grounded lemmas support exactly themselves. *)
LEMMA GroundedIsFixed ==
    ASSUME NEW R
    PROVE  Supported(R, Grounded(R)) = Grounded(R)
<1> DEFINE G == Grounded(R)
<1>1. G \subseteq Lemmas
  BY DEF Grounded
<1>2. Supported(R, G) \subseteq G
  <2> SUFFICES ASSUME NEW l \in Supported(R, G), NEW S \in SUBSET Lemmas,
                      Supported(R, S) \subseteq S
               PROVE  l \in S
    BY DEF Grounded, Supported
  <2>1. G \subseteq S
    BY GroundedIsLeast
  <2>2. Supported(R, G) \subseteq Supported(R, S)
    BY <2>1, SupportedGrows
  <2> QED BY <2>2
<1>3. Supported(R, Supported(R, G)) \subseteq Supported(R, G)
  BY <1>2, SupportedGrows
<1>4. Supported(R, G) \subseteq Lemmas
  BY DEF Supported
<1>5. G \subseteq Supported(R, G)
  <2> HIDE DEF G
  <2> DEFINE T == Supported(R, G)
  <2>1. T \subseteq Lemmas /\ Supported(R, T) \subseteq T
    BY <1>3, <1>4
  <2> HIDE DEF T
  <2>2. Grounded(R) \subseteq T
    BY <2>1, GroundedIsLeast
  <2> QED BY <2>2 DEF G, T
<1> QED BY <1>2, <1>5

(* More routes ground more lemmas. *)
LEMMA GroundedGrows ==
    ASSUME NEW Q, NEW R, Q \subseteq R
    PROVE  Grounded(Q) \subseteq Grounded(R)
<1>1. Grounded(R) \subseteq Lemmas
  BY DEF Grounded
<1>2. Supported(Q, Grounded(R)) \subseteq Supported(R, Grounded(R))
  BY SupportedGrows
<1>3. Supported(Q, Grounded(R)) \subseteq Grounded(R)
  BY <1>2, GroundedIsFixed
<1> QED BY <1>1, <1>3, GroundedIsLeast

(* A grounded lemma has a route whose required lemmas are grounded. *)
LEMMA GroundedHasRoute ==
    ASSUME NEW R, NEW l \in Grounded(R)
    PROVE  \E r \in R : r.conclusion = l /\ r.requires \subseteq Grounded(R)
BY GroundedIsFixed DEF Supported

(* Without positive cycles among the lemmas that routes conclude, only the *)
(* grounded set supports exactly itself.                                   *)
LEMMA AcyclicFixpointIsUnique ==
    ASSUME NEW owned, NEW R, R \subseteq owned, NEW known, known \subseteq Lemmas,
           SupportGraphIsAcyclic(owned, known),
           NEW S \in SUBSET known, Supported(R, S) = S
    PROVE  S = Grounded(R)
<1> DEFINE G == Grounded(R)
           D == S \ G
<1>1. G \subseteq S
  BY GroundedIsLeast
<1>2. SUFFICES ASSUME D # {} PROVE FALSE
  BY <1>1
<1>3. PICK l \in D : RequiredBy(l, owned) \cap D = {}
  BY <1>2 DEF SupportGraphIsAcyclic
<1>4. l \in Supported(R, S)
  OBVIOUS
<1>5. PICK r \in R : r.conclusion = l /\ r.requires \subseteq S
  BY <1>4 DEF Supported
<1>6. r.requires \subseteq RequiredBy(l, owned)
  BY <1>5 DEF RequiredBy
<1>7. r.requires \subseteq G
  BY <1>3, <1>5, <1>6
<1>8. l \in Supported(R, G)
  BY <1>5, <1>7 DEF Supported
<1> QED BY <1>8, GroundedIsFixed

------------------------------------------------------------------------------
(* Types. *)

(* The policy knows four classes. *)
LEMMA WarrantClassType ==
    ASSUME NEW e, NEW v
    PROVE  WarrantClass(e, v) \in WarrantClasses
BY DEF WarrantClass, WarrantClasses

(* A standing change lengthens its history by one. *)
LEMMA HistoryAppend ==
    ASSUME NEW h \in Histories, NEW s \in Standings, Len(h) < MaxChanges
    PROVE  Append(h, s) \in Histories /\ SubSeq(Append(h, s), 1, Len(h)) = h
<1>1. MaxChanges \in Nat
  BY CatalogueAssumption
<1>2. PICK n \in 0 .. MaxChanges : h \in [1 .. n -> Standings]
  BY DEF Histories
<1>3. h \in Seq(Standings) /\ Len(h) = n
  BY <1>1, <1>2
<1>4. Append(h, s) \in [1 .. n + 1 -> Standings]
  BY <1>3, AppendProperties, LenProperties
<1>5. n + 1 \in 0 .. MaxChanges
  BY <1>1, <1>3
<1>6. SubSeq(Append(h, s), 1, Len(h)) = h
  BY <1>3
<1> QED BY <1>4, <1>5, <1>6 DEF Histories

(* Every command keeps the folded state well typed. *)
LEMMA TypeStep == TypeOK /\ [Next]_vars => TypeOK'
<1> SUFFICES ASSUME TypeOK, [Next]_vars PROVE TypeOK'
  OBVIOUS
<1> USE DEF TypeOK
<1>1. ASSUME NEW e \in Evidence, RecordEvidence(e) PROVE TypeOK'
  BY <1>1 DEF RecordEvidence
<1>2. ASSUME NEW v \in Verdicts, RecordCheckerVerdict(v) PROVE TypeOK'
  BY <1>2 DEF RecordCheckerVerdict
<1>3. ASSUME NEW c \in Evaluations, EvaluateWarrant(c) PROVE TypeOK'
  <2>1. PICK v \in verdicts, e \in evidence :
            decisions' = decisions \cup
                {[id |-> c.id, evidence |-> e.id, verdict |-> v.id,
                  class |-> WarrantClass(e, v)]}
    BY <1>3 DEF EvaluateWarrant
  <2>2. \A d \in decisions' : d.class \in WarrantClasses
    BY <2>1, WarrantClassType
  <2> QED BY <1>3, <2>2 DEF EvaluateWarrant
<1>4. ASSUME NEW n \in Nogoods, RecordNogood(n) PROVE TypeOK'
  BY <1>4 DEF RecordNogood
<1>5. ASSUME NEW c \in Claims, AdmitClaim(c) PROVE TypeOK'
  BY <1>5 DEF AdmitClaim
<1>6. ASSUME NEW p \in Proposals, PromoteClaim(p) PROVE TypeOK'
  BY <1>6 DEF PromoteClaim
<1>7. ASSUME NEW id \in RouteIds, NEW s \in Standings, ChangeSupportRouteStanding(id, s)
      PROVE  TypeOK'
  <2>1. Append(routeChanges[id], s) \in Histories
    BY <1>7, HistoryAppend DEF ChangeSupportRouteStanding
  <2> QED BY <1>7, <2>1 DEF ChangeSupportRouteStanding
<1>8. ASSUME NEW id \in NogoodIds, NEW s \in Standings, ChangeNogoodStanding(id, s)
      PROVE  TypeOK'
  <2>1. Append(nogoodChanges[id], s) \in Histories
    BY <1>8, HistoryAppend DEF ChangeNogoodStanding
  <2> QED BY <1>8, <2>1 DEF ChangeNogoodStanding
<1>9. ASSUME NEW c \in Conditions, NEW s \in Standings, ChangeGuardStanding(c, s)
      PROVE  TypeOK'
  <2>1. Append(guardChanges[c], s) \in Histories
    BY <1>9, HistoryAppend DEF ChangeGuardStanding
  <2> QED BY <1>9, <2>1 DEF ChangeGuardStanding
<1>10. CASE UNCHANGED vars
  BY <1>10 DEF vars
<1> QED
  BY <1>1, <1>2, <1>3, <1>4, <1>5, <1>6, <1>7, <1>8, <1>9, <1>10 DEF Next

(* The folded state is well typed from the start. *)
LEMMA TypeInit == Init => TypeOK
<1> SUFFICES ASSUME Init PROVE TypeOK
  OBVIOUS
<1>1. <<>> \in Histories
  <2>1. MaxChanges \in Nat /\ <<>> \in [1 .. 0 -> Standings]
    BY CatalogueAssumption
  <2> QED BY <2>1 DEF Histories
<1> QED BY <1>1 DEF Init, TypeOK

(* The folded state is well typed in every reachable state. *)
THEOREM TypeCorrect == Spec => []TypeOK
BY TypeInit, TypeStep, PTL DEF Spec

------------------------------------------------------------------------------
(* What is recorded stays. *)

(* Records are only added, lemmas come from promotions and attacks from    *)
(* admitted claims.                                                        *)
LEMMA Footprint ==
    [Next]_vars =>
        /\ evidence \subseteq evidence' /\ verdicts \subseteq verdicts'
        /\ decisions \subseteq decisions' /\ nogoods \subseteq nogoods'
        /\ promoted' = promoted \/ \E p \in Proposals : PromoteClaim(p)
        /\ \/ claims' = claims /\ attacked' = attacked
           \/ \E c \in Claims : AdmitClaim(c)
BY DEF Next, vars, RecordEvidence, RecordCheckerVerdict, EvaluateWarrant,
       RecordNogood, AdmitClaim, PromoteClaim, ChangeSupportRouteStanding,
       ChangeNogoodStanding, ChangeGuardStanding

(* Evidence and verdict ids name one record, and a decision carries the    *)
(* class the policy gives to the records it cites.                         *)
RecordsInv ==
    /\ \A e, f \in evidence : e.id = f.id => e = f
    /\ \A v, w \in verdicts : v.id = w.id => v = w
    /\ \A d \in decisions : \E e \in evidence, v \in verdicts :
          /\ d.evidence = e.id /\ d.verdict = v.id /\ v.evidence = e.id
          /\ d.class = WarrantClass(e, v)

(* Recording keeps identities and decisions exact. *)
LEMMA RecordsStep == RecordsInv /\ [Next]_vars => RecordsInv'
<1> SUFFICES ASSUME RecordsInv, [Next]_vars PROVE RecordsInv'
  OBVIOUS
<1>1. ASSUME NEW e \in Evidence, RecordEvidence(e) PROVE RecordsInv'
  BY <1>1 DEF RecordEvidence, RecordsInv
<1>2. ASSUME NEW v \in Verdicts, RecordCheckerVerdict(v) PROVE RecordsInv'
  BY <1>2 DEF RecordCheckerVerdict, RecordsInv
<1>3. ASSUME NEW c \in Evaluations, EvaluateWarrant(c) PROVE RecordsInv'
  <2>1. PICK v \in verdicts, e \in evidence :
            /\ e.id = v.evidence
            /\ decisions' = decisions \cup
                {[id |-> c.id, evidence |-> e.id, verdict |-> v.id,
                  class |-> WarrantClass(e, v)]}
    BY <1>3 DEF EvaluateWarrant
  <2> QED BY <1>3, <2>1 DEF EvaluateWarrant, RecordsInv
<1>4. CASE UNCHANGED <<evidence, verdicts, decisions>>
  BY <1>4 DEF RecordsInv
<1> QED
  BY <1>1, <1>2, <1>3, <1>4
     DEF Next, vars, RecordNogood, AdmitClaim, PromoteClaim,
         ChangeSupportRouteStanding, ChangeNogoodStanding, ChangeGuardStanding

(* Evidence that warrants a proposition by itself. *)
Warrants(e, v, about) ==
    /\ e.about = about
    /\ v.evidence = e.id /\ v.verdict = "valid" /\ v.checker \in Authorized
    /\ \/ e.kind = "independent_witness" /\ e.form = "existential"
       \/ e.kind = "exhaustive_unsat" /\ e.universe = "scoped" /\ ClosedWorld

(* Hard is the class of witnesses and of closed enumerations only. *)
LEMMA HardClass ==
    ASSUME NEW e, NEW v, WarrantClass(e, v) = "hard"
    PROVE  Warrants(e, v, e.about)
<1>1. CASE e.kind \in {"model_output", "reification"}
  BY <1>1 DEF WarrantClass
<1>2. CASE ~ ValidCheck(e, v, e.about, e.form)
  BY <1>2 DEF WarrantClass
<1>3. CASE /\ ValidCheck(e, v, e.about, e.form)
           /\ e.kind = "independent_witness"
  BY <1>3 DEF WarrantClass, ValidCheck, Warrants
<1>4. CASE /\ ValidCheck(e, v, e.about, e.form)
           /\ e.kind = "exhaustive_unsat"
  <2>1. e.universe = "scoped" /\ ClosedWorld
    BY <1>4 DEF WarrantClass
  <2> QED BY <1>4, <2>1 DEF ValidCheck, Warrants
<1>5. CASE /\ ValidCheck(e, v, e.about, e.form)
           /\ e.kind \notin {"model_output", "reification",
                             "independent_witness", "exhaustive_unsat"}
  BY <1>5 DEF WarrantClass
<1> QED BY <1>1, <1>2, <1>3, <1>4, <1>5

(* A hard decision about a proposition has evidence that warrants it. *)
LEMMA HardIsWarranted ==
    ASSUME RecordsInv, NEW d \in decisions, NEW about, NEW form,
           HardDecision(d, about, form)
    PROVE  \E e \in evidence, v \in verdicts : Warrants(e, v, about)
<1>1. PICK f \in evidence : f.id = d.evidence /\ f.about = about
  BY DEF HardDecision
<1>2. PICK e \in evidence, v \in verdicts :
          d.evidence = e.id /\ d.class = WarrantClass(e, v)
  BY DEF RecordsInv
<1>3. e = f
  BY <1>1, <1>2 DEF RecordsInv
<1>4. Warrants(e, v, e.about)
  BY <1>2, HardClass DEF HardDecision
<1> QED BY <1>1, <1>3, <1>4

------------------------------------------------------------------------------
(* Promotion. *)

(* A promotion adds one lemma and its routes. *)
LEMMA PromotionAdds ==
    ASSUME TypeOK, NEW p \in Proposals, PromoteClaim(p)
    PROVE  /\ PromotedSet' = PromotedSet \cup {p}
           /\ OwnedRoutes' = OwnedRoutes \cup p.routes
           /\ PromotedLemmas' = PromotedLemmas \cup {p.lemma}
<1>1. promoted \in Seq(Proposals) /\ promoted' = Append(promoted, p)
  BY DEF TypeOK, PromoteClaim
<1>2. /\ Len(promoted) \in Nat /\ Len(promoted') = Len(promoted) + 1
      /\ \A i \in 1 .. Len(promoted) : promoted'[i] = promoted[i]
      /\ promoted'[Len(promoted) + 1] = p
  BY <1>1, AppendProperties, LenProperties
<1>3. 1 .. Len(promoted') = (1 .. Len(promoted)) \cup {Len(promoted) + 1}
  BY <1>2
<1>4. PromotedSet' = PromotedSet \cup {p}
  BY <1>2, <1>3 DEF PromotedSet
<1>5. OwnedRoutes' = UNION {q.routes : q \in PromotedSet'}
  BY DEF OwnedRoutes
<1>6. PromotedLemmas' = {q.lemma : q \in PromotedSet'}
  BY DEF PromotedLemmas
<1> QED BY <1>4, <1>5, <1>6 DEF OwnedRoutes, PromotedLemmas

(* What promotion owes its lemmas: a version has one proposal, its routes  *)
(* conclude it, its relation is warranted, and support has no cycles.      *)
VersionsAreUnique ==
    \A p, q \in PromotedSet : p.lemma = q.lemma => p = q
RoutesConclude ==
    \A p \in PromotedSet : \A r \in p.routes : r.conclusion = p.lemma
LemmasAreWarranted ==
    \A p \in PromotedSet : \E e \in evidence, v \in verdicts : Warrants(e, v, p.relation)
SupportIsAcyclic == SupportGraphIsAcyclic(OwnedRoutes, PromotedLemmas)

IInv ==
    /\ TypeOK
    /\ RecordsInv
    /\ VersionsAreUnique
    /\ RoutesConclude
    /\ LemmasAreWarranted
    /\ SupportIsAcyclic
    /\ PromotionIsGrounded
    /\ UnattackedIsDischarged

(* A promoted lemma's proposal is the one it was promoted by. *)
LEMMA ProposalIsOwn ==
    ASSUME NEW P, \A p, q \in P : p.lemma = q.lemma => p = q, NEW p \in P
    PROVE  (CHOOSE q \in P : q.lemma = p.lemma) = p
OBVIOUS

(* The routes a lemma owns conclude it, and it is a promoted lemma. *)
LEMMA OwnedRoute ==
    ASSUME RoutesConclude, VersionsAreUnique, NEW r \in OwnedRoutes
    PROVE  \E p \in PromotedSet : /\ r \in p.routes /\ r.conclusion = p.lemma
                                  /\ ProposalOf(r.conclusion) = p
<1>1. PICK p \in PromotedSet : r \in p.routes
  BY DEF OwnedRoutes
<1>2. r.conclusion = p.lemma
  BY <1>1 DEF RoutesConclude
<1>3. ProposalOf(p.lemma) = p
  BY ProposalIsOwn DEF ProposalOf, VersionsAreUnique
<1> QED BY <1>1, <1>2, <1>3

(* A lemma grounded by owned routes has been promoted. *)
LEMMA GroundedIsPromoted ==
    ASSUME RoutesConclude, VersionsAreUnique, NEW R \in SUBSET OwnedRoutes,
           NEW l \in Grounded(R)
    PROVE  l \in PromotedLemmas /\ ProposalOf(l) \in PromotedSet
<1>1. PICK r \in R : r.conclusion = l
  BY GroundedHasRoute
<1>2. PICK p \in PromotedSet : r.conclusion = p.lemma /\ ProposalOf(r.conclusion) = p
  BY <1>1, OwnedRoute
<1> QED BY <1>1, <1>2 DEF PromotedLemmas

(* Unused identities and checked graphs keep versions unique, routes with  *)
(* their lemmas and support acyclic; hard decisions keep lemmas warranted. *)
LEMMA PromotionStep ==
    ASSUME IInv, NEW p \in Proposals, PromoteClaim(p)
    PROVE  /\ VersionsAreUnique' /\ RoutesConclude'
           /\ LemmasAreWarranted' /\ SupportIsAcyclic'
<1>1. /\ PromotedSet' = PromotedSet \cup {p}
      /\ OwnedRoutes' = OwnedRoutes \cup p.routes
      /\ PromotedLemmas' = PromotedLemmas \cup {p.lemma}
  BY PromotionAdds DEF IInv
<1>2. VersionsAreUnique'
  <2>1. \A q \in PromotedSet : q.lemma # p.lemma
    BY DEF PromoteClaim, UnusedIdentity, PromotedLemmas
  <2> QED BY <1>1, <2>1 DEF IInv, VersionsAreUnique
<1>3. RoutesConclude'
  BY <1>1 DEF IInv, RoutesConclude, PromoteClaim
<1>4. LemmasAreWarranted'
  <2>1. PICK d \in decisions : HardDecision(d, p.relation, p.form)
    BY DEF PromoteClaim
  <2>2. \E e \in evidence, v \in verdicts : Warrants(e, v, p.relation)
    BY <2>1, HardIsWarranted DEF IInv
  <2>3. UNCHANGED <<evidence, verdicts>>
    BY DEF PromoteClaim
  <2> QED BY <1>1, <2>2, <2>3 DEF IInv, LemmasAreWarranted
<1>5. SupportIsAcyclic'
  <2>1. SupportGraphIsAcyclic(OwnedRoutes \cup p.routes, PromotedLemmas \cup {p.lemma})
    BY DEF PromoteClaim
  <2> QED BY <1>1, <2>1 DEF SupportIsAcyclic
<1> QED BY <1>2, <1>3, <1>4, <1>5

(* A check that resolves keeps resolving. *)
LEMMA ResolvesStays ==
    ASSUME evidence \subseteq evidence', verdicts \subseteq verdicts',
           NEW check, NEW about, NEW form, Resolves(check, about, form)
    PROVE  Resolves(check, about, form)'
BY DEF Resolves, ValidCheck

(* The routes that could carry their conclusion stay. *)
LEMMA PossibleRoutesStay ==
    ASSUME RoutesConclude, VersionsAreUnique, VersionsAreUnique', RoutesConclude',
           evidence \subseteq evidence', verdicts \subseteq verdicts',
           PromotedSet \subseteq PromotedSet'
    PROVE  PossibleRoutes \subseteq PossibleRoutes'
<1> SUFFICES ASSUME NEW r \in PossibleRoutes PROVE r \in PossibleRoutes'
  OBVIOUS
<1>1. r \in OwnedRoutes
  BY DEF PossibleRoutes
<1>2. PICK p \in PromotedSet : /\ r \in p.routes /\ r.conclusion = p.lemma
                               /\ ProposalOf(r.conclusion) = p
  BY <1>1, OwnedRoute
<1>3. p \in PromotedSet'
  BY <1>2
<1>4. r \in OwnedRoutes'
  BY <1>2, <1>3 DEF OwnedRoutes
<1>5. ProposalOf(r.conclusion)' = p
  <2> DEFINE P == PromotedSet'
  <2>1. \A x, y \in P : x.lemma = y.lemma => x = y
    BY DEF VersionsAreUnique
  <2> HIDE DEF P
  <2>2. (CHOOSE q \in P : q.lemma = p.lemma) = p
    BY <1>3, <2>1, ProposalIsOwn DEF P
  <2> QED BY <1>2, <2>2 DEF ProposalOf, P
<1>6. /\ Resolves(r.certificate, p.relation, p.form)
      /\ Resolves(r.realizable, r.environment, "existential")
  BY <1>2 DEF PossibleRoutes
<1>7. /\ Resolves(r.certificate, p.relation, p.form)'
      /\ Resolves(r.realizable, r.environment, "existential")'
  BY <1>6, ResolvesStays
<1> QED BY <1>4, <1>5, <1>7 DEF PossibleRoutes

(* The lemmas promotion counts as dependencies have possible support. *)
LEMMA PromotionGroundIsPossible == PromotionGround \subseteq Grounded(PossibleRoutes)
<1> DEFINE Q == {r \in UNION {Minimal(p.routes) : p \in PromotedSet} :
                     RouteApplicable(r, {})}
<1>1. Q \subseteq PossibleRoutes
  BY DEF PossibleRoutes, RouteApplicable, EnvironmentHolds, Minimal, OwnedRoutes
<1>2. Grounded(Q) \subseteq Grounded(PossibleRoutes)
  <2> HIDE DEF Q
  <2> QED BY <1>1, GroundedGrows
<1> QED BY <1>2 DEF PromotionGround

(* Closed routes keep promotion grounded. *)
LEMMA GroundStep ==
    ASSUME IInv, [Next]_vars, VersionsAreUnique', RoutesConclude'
    PROVE  PromotionIsGrounded'
<1> DEFINE Q == PossibleRoutes
           R == PossibleRoutes'
<1>1. /\ evidence \subseteq evidence' /\ verdicts \subseteq verdicts'
      /\ promoted' = promoted \/ \E p \in Proposals : PromoteClaim(p)
  BY Footprint
<1>2. CASE promoted' = promoted
  <2>1. PromotedSet' = PromotedSet /\ PromotedLemmas' = PromotedLemmas
    BY <1>2 DEF PromotedSet, PromotedLemmas
  <2>2. Q \subseteq R
    BY <1>1, <2>1, PossibleRoutesStay DEF IInv
  <2>3. PromotedLemmas \subseteq Grounded(Q)
    BY DEF IInv, PromotionIsGrounded
  <2> HIDE DEF Q, R
  <2>4. PromotedLemmas \subseteq Grounded(R)
    BY <2>2, <2>3, GroundedGrows
  <2> QED BY <2>1, <2>4 DEF PromotionIsGrounded, R
<1>3. ASSUME NEW p \in Proposals, PromoteClaim(p) PROVE PromotionIsGrounded'
  <2>1. /\ PromotedSet' = PromotedSet \cup {p}
        /\ OwnedRoutes' = OwnedRoutes \cup p.routes
        /\ PromotedLemmas' = PromotedLemmas \cup {p.lemma}
    BY <1>3, PromotionAdds DEF IInv
  <2>2. Q \subseteq R
    BY <1>1, <2>1, PossibleRoutesStay DEF IInv
  <2>3. PICK r \in p.routes : ClosedRoute(r, p)
    BY <1>3 DEF PromoteClaim, Minimal
  <2>4. r.conclusion = p.lemma
    BY <2>1, <2>3 DEF RoutesConclude
  <2>5. r \in R
    <3> DEFINE P == PromotedSet'
    <3>1. p \in P /\ \A x, y \in P : x.lemma = y.lemma => x = y
      BY <2>1 DEF VersionsAreUnique
    <3> HIDE DEF P
    <3>2. (CHOOSE q \in P : q.lemma = p.lemma) = p
      BY <3>1, ProposalIsOwn
    <3>3. ProposalOf(r.conclusion)' = p
      BY <2>4, <3>2 DEF ProposalOf, P
    <3>4. /\ Resolves(r.certificate, p.relation, p.form)'
          /\ Resolves(r.realizable, r.environment, "existential")'
      BY <1>1, <2>3, ResolvesStays DEF ClosedRoute
    <3> QED BY <2>1, <2>3, <3>3, <3>4 DEF PossibleRoutes
  <2>6. r.requires \subseteq Grounded(Q)
    BY <2>3, PromotionGroundIsPossible DEF ClosedRoute
  <2>7. PromotedLemmas \subseteq Grounded(Q)
    BY DEF IInv, PromotionIsGrounded
  <2> HIDE DEF Q, R
  <2>8. Grounded(Q) \subseteq Grounded(R)
    BY <2>2, GroundedGrows
  <2>9. p.lemma \in Supported(R, Grounded(R))
    BY <2>4, <2>5, <2>6, <2>8, CatalogueAssumption DEF Supported
  <2>10. PromotedLemmas \cup {p.lemma} \subseteq Grounded(R)
    BY <2>7, <2>8, <2>9, GroundedIsFixed
  <2> QED BY <2>1, <2>10 DEF PromotionIsGrounded, R
<1> QED BY <1>1, <1>2, <1>3

(* Only an active lemma of its own proposition spares a claim its attack. *)
LEMMA AttackStep ==
    ASSUME IInv, [Next]_vars PROVE UnattackedIsDischarged'
<1>1. PromotedSet \subseteq PromotedSet'
  <2>1. CASE promoted' = promoted
    BY <2>1 DEF PromotedSet
  <2>2. ASSUME NEW p \in Proposals, PromoteClaim(p)
        PROVE  PromotedSet \subseteq PromotedSet'
    BY <2>2, PromotionAdds DEF IInv
  <2> QED BY <2>1, <2>2, Footprint
<1>2. CASE claims' = claims /\ attacked' = attacked
  BY <1>1, <1>2 DEF IInv, UnattackedIsDischarged, Carrier
<1>3. ASSUME NEW c \in Claims, AdmitClaim(c) PROVE UnattackedIsDischarged'
  <2>1. claims' = claims \cup {c} /\ attacked \subseteq attacked'
    BY <1>3 DEF AdmitClaim
  <2>2. CASE c.modal /\ ~ AttackIsDischarged(c)
    <3>1. Carrier(c) \in attacked'
      BY <1>3, <2>2 DEF AdmitClaim
    <3> QED BY <1>1, <2>1, <3>1 DEF IInv, UnattackedIsDischarged, Carrier
  <2>3. CASE AttackIsDischarged(c)
    <3>1. PICK l \in Active : ProposalOf(l).relation = c.proposition
      BY <2>3 DEF AttackIsDischarged
    <3>2. ProposalOf(l) \in PromotedSet
      <4>1. LiveRoutes \in SUBSET OwnedRoutes
        BY DEF LiveRoutes
      <4> QED BY <3>1, <4>1, GroundedIsPromoted DEF IInv, Active
    <3> QED BY <1>1, <2>1, <3>1, <3>2 DEF IInv, UnattackedIsDischarged, Carrier
  <2>4. CASE ~ c.modal
    BY <1>1, <2>1, <2>4 DEF IInv, UnattackedIsDischarged, Carrier
  <2> QED BY <2>2, <2>3, <2>4
<1> QED BY <1>2, <1>3, Footprint

------------------------------------------------------------------------------
(* The inductive invariant and what follows from it. *)

(* An inquiry that has just started satisfies the invariant. *)
LEMMA InvInit == Init => IInv
<1> SUFFICES ASSUME Init PROVE IInv
  OBVIOUS
<1>1. PromotedSet = {}
  BY DEF Init, PromotedSet
<1>2. PromotedLemmas = {} /\ OwnedRoutes = {}
  BY <1>1 DEF PromotedLemmas, OwnedRoutes
<1>3. RecordsInv
  BY DEF Init, RecordsInv
<1>4. VersionsAreUnique /\ RoutesConclude /\ LemmasAreWarranted
  BY <1>1 DEF VersionsAreUnique, RoutesConclude, LemmasAreWarranted
<1>5. SupportIsAcyclic /\ PromotionIsGrounded
  BY <1>2 DEF SupportIsAcyclic, SupportGraphIsAcyclic, PromotionIsGrounded
<1>6. UnattackedIsDischarged
  BY DEF Init, UnattackedIsDischarged
<1> QED BY <1>3, <1>4, <1>5, <1>6, TypeInit DEF IInv

(* Every command preserves the invariant. *)
LEMMA InvStep == IInv /\ [Next]_vars => IInv'
<1> SUFFICES ASSUME IInv, [Next]_vars PROVE IInv'
  OBVIOUS
<1>1. TypeOK' /\ RecordsInv'
  BY TypeStep, RecordsStep DEF IInv
<1>2. VersionsAreUnique' /\ RoutesConclude' /\ LemmasAreWarranted' /\ SupportIsAcyclic'
  <2>1. CASE promoted' = promoted
    <3>1. /\ PromotedSet' = PromotedSet
          /\ OwnedRoutes' = OwnedRoutes
          /\ PromotedLemmas' = PromotedLemmas
      BY <2>1 DEF PromotedSet, OwnedRoutes, PromotedLemmas
    <3>2. evidence \subseteq evidence' /\ verdicts \subseteq verdicts'
      BY Footprint
    <3> QED
      BY <3>1, <3>2 DEF IInv, VersionsAreUnique, RoutesConclude,
                        LemmasAreWarranted, SupportIsAcyclic
  <2> QED BY <2>1, PromotionStep, Footprint
<1>3. PromotionIsGrounded'
  BY <1>2, GroundStep
<1>4. UnattackedIsDischarged'
  BY AttackStep
<1> QED BY <1>1, <1>2, <1>3, <1>4 DEF IInv

(* The invariant holds in every reachable state. *)
THEOREM Invariance == Spec => []IInv
BY InvInit, InvStep, PTL DEF Spec

(* Only warranted lemmas are ever active, whatever is recorded about them. *)
THEOREM ActiveLemmasAreWarranted == Spec => []ActiveIsWarranted
<1>1. IInv => ActiveIsWarranted
  <2> SUFFICES ASSUME IInv, NEW l \in Active
               PROVE  \E e \in evidence, v \in verdicts :
                          Warrants(e, v, ProposalOf(l).relation)
    BY DEF ActiveIsWarranted, Warrants
  <2>1. LiveRoutes \in SUBSET OwnedRoutes
    BY DEF LiveRoutes
  <2>2. ProposalOf(l) \in PromotedSet
    BY <2>1, GroundedIsPromoted DEF IInv, Active
  <2> QED BY <2>2 DEF IInv, LemmasAreWarranted
<1> QED BY <1>1, Invariance, PTL

(* In every reachable state exactly one set of lemmas supports itself. *)
THEOREM OneTheory == Spec => []TheoryIsUnique
<1>1. IInv => TheoryIsUnique
  <2> SUFFICES ASSUME IInv, NEW S \in SUBSET PromotedLemmas
               PROVE  Supported(LiveRoutes, S) = S <=> S = Active
    BY DEF TheoryIsUnique
  <2>1. S = Active => Supported(LiveRoutes, S) = S
    BY GroundedIsFixed DEF Active
  <2>2. LiveRoutes \subseteq OwnedRoutes
    BY DEF LiveRoutes
  <2>3. PromotedLemmas \subseteq Lemmas
    <3>1. PromotedSet \subseteq Proposals
      BY DEF IInv, TypeOK, PromotedSet
    <3> QED BY <3>1, CatalogueAssumption DEF PromotedLemmas
  <2>4. SupportGraphIsAcyclic(OwnedRoutes, PromotedLemmas)
    BY DEF IInv, SupportIsAcyclic
  <2>5. Supported(LiveRoutes, S) = S => S = Active
    BY <2>2, <2>3, <2>4, AcyclicFixpointIsUnique DEF Active
  <2> QED BY <2>1, <2>5
<1> QED BY <1>1, Invariance, PTL

(* No promotion rests on a lemma without support of its own. *)
THEOREM PromotionsAreGrounded == Spec => []PromotionIsGrounded
<1>1. IInv => PromotionIsGrounded
  BY DEF IInv
<1> QED BY <1>1, Invariance, PTL

(* A modal claim without attack has a lemma for its proposition. *)
THEOREM AttacksAreMandatory == Spec => []UnattackedIsDischarged
<1>1. IInv => UnattackedIsDischarged
  BY DEF IInv
<1> QED BY <1>1, Invariance, PTL

------------------------------------------------------------------------------
(* Steps. *)

(* Every command keeps what is recorded. *)
LEMMA HistoryStep == IInv /\ IInv' /\ [Next]_vars => KeepsHistory
<1> SUFFICES ASSUME IInv, IInv', [Next]_vars PROVE KeepsHistory
  OBVIOUS
<1>1. \A l \in PromotedLemmas : ProposalOf(l)' = ProposalOf(l)
  <2> SUFFICES ASSUME NEW l \in PromotedLemmas PROVE ProposalOf(l)' = ProposalOf(l)
    OBVIOUS
  <2>1. CASE promoted' = promoted
    BY <2>1 DEF ProposalOf, PromotedSet
  <2>2. ASSUME NEW p \in Proposals, PromoteClaim(p) PROVE ProposalOf(l)' = ProposalOf(l)
    <3> DEFINE P == PromotedSet'
    <3>1. P = PromotedSet \cup {p}
      BY <2>2, PromotionAdds DEF IInv
    <3>2. PICK q \in PromotedSet : q.lemma = l
      BY DEF PromotedLemmas
    <3>3. /\ \A x, y \in PromotedSet : x.lemma = y.lemma => x = y
          /\ \A x, y \in P : x.lemma = y.lemma => x = y
      BY DEF IInv, VersionsAreUnique
    <3> HIDE DEF P
    <3>4. (CHOOSE x \in PromotedSet : x.lemma = q.lemma) = q
      BY <3>2, <3>3, ProposalIsOwn
    <3>5. (CHOOSE x \in P : x.lemma = q.lemma) = q
      BY <3>1, <3>2, <3>3, ProposalIsOwn
    <3>6. ProposalOf(l) = q
      BY <3>2, <3>4 DEF ProposalOf
    <3>7. ProposalOf(l)' = q
      BY <3>2, <3>5 DEF ProposalOf, P
    <3> QED BY <3>6, <3>7
  <2> QED BY <2>1, <2>2, Footprint
<1>2. ASSUME NEW id \in RouteIds
      PROVE  SubSeq(routeChanges'[id], 1, Len(routeChanges[id])) = routeChanges[id]
  <2>1. routeChanges \in [RouteIds -> Histories]
    BY DEF IInv, TypeOK
  <2>2. CASE routeChanges' = routeChanges
    <3>1. routeChanges[id] \in Seq(Standings)
      <4>1. MaxChanges \in Nat
        BY CatalogueAssumption
      <4>2. PICK n \in 0 .. MaxChanges : routeChanges[id] \in [1 .. n -> Standings]
        BY <1>2, <2>1 DEF Histories
      <4> QED BY <4>1, <4>2
    <3> QED BY <2>2, <3>1
  <2>3. ASSUME NEW jd \in RouteIds, NEW s \in Standings, ChangeSupportRouteStanding(jd, s)
        PROVE  SubSeq(routeChanges'[id], 1, Len(routeChanges[id])) = routeChanges[id]
    <3>1. CASE id = jd
      <4>1. routeChanges'[id] = Append(routeChanges[id], s)
        BY <2>1, <2>3, <3>1 DEF ChangeSupportRouteStanding
      <4>2. routeChanges[id] \in Histories /\ Len(routeChanges[id]) < MaxChanges
        BY <1>2, <2>1, <2>3, <3>1 DEF ChangeSupportRouteStanding
      <4> QED BY <4>1, <4>2, HistoryAppend
    <3>2. CASE id # jd
      <4>1. routeChanges'[id] = routeChanges[id]
        BY <1>2, <2>1, <2>3, <3>2 DEF ChangeSupportRouteStanding
      <4>2. MaxChanges \in Nat
        BY CatalogueAssumption
      <4>3. PICK n \in 0 .. MaxChanges : routeChanges[id] \in [1 .. n -> Standings]
        BY <1>2, <2>1 DEF Histories
      <4>4. routeChanges[id] \in Seq(Standings)
        BY <4>2, <4>3
      <4> QED BY <4>1, <4>4
    <3> QED BY <3>1, <3>2
  <2> QED
    BY <2>2, <2>3 DEF Next, vars, RecordEvidence, RecordCheckerVerdict,
       EvaluateWarrant, RecordNogood, AdmitClaim, PromoteClaim,
       ChangeNogoodStanding, ChangeGuardStanding
<1> QED BY <1>1, <1>2, Footprint DEF KeepsHistory

(* Records, lemmas and route histories are never rewritten. *)
THEOREM RecordsAreKept == Spec => HistoryIsKept
<1>1. IInv /\ IInv' /\ [Next]_vars => [KeepsHistory]_vars
  BY HistoryStep
<1> QED BY <1>1, Invariance, PTL DEF Spec, HistoryIsKept

(* With fewer routes, conditions or more nogoods standing, fewer routes of *)
(* the same lemmas are live.                                               *)
LEMMA FewerStanding ==
    ASSUME promoted' = promoted, evidence' = evidence, verdicts' = verdicts
    PROVE  /\ (/\ StandingRoutes' \subseteq StandingRoutes
               /\ StandingContext' \subseteq StandingContext
               /\ StandingNogoods \subseteq StandingNogoods')
                 => LiveRoutes' \subseteq LiveRoutes
           /\ (/\ StandingRoutes \subseteq StandingRoutes'
               /\ StandingContext \subseteq StandingContext'
               /\ StandingNogoods' \subseteq StandingNogoods)
                 => LiveRoutes \subseteq LiveRoutes'
<1>1. PromotedSet' = PromotedSet
  BY DEF PromotedSet
<1>2. OwnedRoutes' = OwnedRoutes /\ \A l : ProposalOf(l)' = ProposalOf(l)
  BY <1>1 DEF OwnedRoutes, ProposalOf
<1>3. \A check, about, form :
          Resolves(check, about, form)' <=> Resolves(check, about, form)
  BY DEF Resolves, ValidCheck
<1>4. LiveRoutes = {r \in StandingRoutes : RouteApplicable(r, StandingNogoods)}
  BY DEF LiveRoutes, StandingRoutes, RouteStands
<1>5. LiveRoutes' = {r \in StandingRoutes' : RouteApplicable(r, StandingNogoods)'}
  BY <1>4 DEF LiveRoutes, StandingRoutes, RouteStands
<1>6. ASSUME StandingRoutes' \subseteq StandingRoutes,
             StandingContext' \subseteq StandingContext,
             StandingNogoods \subseteq StandingNogoods',
             NEW r \in LiveRoutes'
      PROVE  r \in LiveRoutes
  <2>1. r \in StandingRoutes /\ RouteApplicable(r, StandingNogoods)'
    BY <1>5, <1>6
  <2>2. RouteApplicable(r, StandingNogoods)
    BY <1>2, <1>3, <1>6, <2>1
       DEF RouteApplicable, ApplicabilityStands, EnvironmentHolds
  <2> QED BY <1>4, <2>1, <2>2
<1>7. ASSUME StandingRoutes \subseteq StandingRoutes',
             StandingContext \subseteq StandingContext',
             StandingNogoods' \subseteq StandingNogoods,
             NEW r \in LiveRoutes
      PROVE  r \in LiveRoutes'
  <2>1. r \in StandingRoutes' /\ RouteApplicable(r, StandingNogoods)
    BY <1>4, <1>7
  <2>2. RouteApplicable(r, StandingNogoods)'
    BY <1>2, <1>3, <1>7, <2>1
       DEF RouteApplicable, ApplicabilityStands, EnvironmentHolds
  <2> QED BY <1>5, <2>1, <2>2
<1> QED BY <1>6, <1>7

(* Invalidation only takes lemmas away, restoration only gives them back. *)
THEOREM TheoryFollowsStanding == Spec => InvalidationOnlyShrinks
<1>1. FollowsStanding
  <2> SUFFICES ASSUME promoted' = promoted, evidence' = evidence, verdicts' = verdicts
               PROVE  FollowsStanding
    BY DEF FollowsStanding
  <2> DEFINE Q == LiveRoutes
             R == LiveRoutes'
  <2>1. Active = Grounded(Q) /\ Active' = Grounded(R)
    BY DEF Active
  <2> HIDE DEF Q, R
  <2>2. /\ R \subseteq Q => Active' \subseteq Active
        /\ Q \subseteq R => Active \subseteq Active'
    BY <2>1, GroundedGrows
  <2> QED BY <2>2, FewerStanding DEF FollowsStanding, Q, R
<1> QED BY <1>1, PTL DEF InvalidationOnlyShrinks

(* If two sets of routes agree outside a set of conclusions that no other  *)
(* route requires, they ground the same lemmas outside it.                 *)
LEMMA AgreementOutside ==
    ASSUME NEW Q, NEW R, NEW D \in SUBSET Lemmas,
           \A q \in Q : q.conclusion \notin D => q \in R /\ q.requires \cap D = {}
    PROVE  Grounded(Q) \ D \subseteq Grounded(R)
<1> DEFINE G == Grounded(R)
           S == G \cup D
<1>1. S \subseteq Lemmas
  BY DEF Grounded
<1>2. Supported(Q, S) \subseteq S
  <2> SUFFICES ASSUME NEW l \in Supported(Q, S), l \notin D PROVE l \in G
    OBVIOUS
  <2>1. PICK q \in Q : q.conclusion = l /\ q.requires \subseteq S
    BY DEF Supported
  <2>2. q \in R /\ q.requires \subseteq G
    BY <2>1
  <2>3. l \in Supported(R, G)
    BY <2>1, <2>2 DEF Supported
  <2> QED BY <2>3, GroundedIsFixed
<1> HIDE DEF S
<1>3. Grounded(Q) \subseteq S
  BY <1>1, <1>2, GroundedIsLeast
<1> QED BY <1>3 DEF S

(* What is downstream of a promoted lemma includes it, and everything that *)
(* requires something downstream.                                          *)
LEMMA DownstreamIsClosed ==
    ASSUME NEW c \in PromotedLemmas
    PROVE  /\ c \in Downstream(c)
           /\ \A k \in PromotedLemmas :
                 RequiredBy(k, OwnedRoutes) \cap Downstream(c) # {} => k \in Downstream(c)
<1>1. c \in Downstream(c)
  BY DEF Downstream
<1>2. ASSUME NEW k \in PromotedLemmas, NEW m \in RequiredBy(k, OwnedRoutes) \cap Downstream(c),
             NEW S \in SUBSET PromotedLemmas, c \in S,
             \A j \in PromotedLemmas : RequiredBy(j, OwnedRoutes) \cap S # {} => j \in S
      PROVE  k \in S
  <2>1. m \in S
    BY <1>2 DEF Downstream
  <2> QED BY <1>2, <2>1
<1> QED BY <1>1, <1>2 DEF Downstream

(* The standing of one route decides only about its conclusion and what is *)
(* downstream of it.                                                       *)
LEMMA LocalStep == IInv /\ [Next]_vars => ChangesLocally
<1> SUFFICES ASSUME IInv, [Next]_vars, NEW r \in OwnedRoutes,
                    routeChanges'[r.id] # routeChanges[r.id]
             PROVE  (Active \ Active') \cup (Active' \ Active)
                        \subseteq Downstream(r.conclusion)
  BY DEF ChangesLocally
<1> DEFINE D == Downstream(r.conclusion)
           Q == LiveRoutes
           R == LiveRoutes'
<1>1. PICK id \in RouteIds, s \in Standings : ChangeSupportRouteStanding(id, s)
  BY DEF Next, vars, RecordEvidence, RecordCheckerVerdict, EvaluateWarrant,
         RecordNogood, AdmitClaim, PromoteClaim, ChangeNogoodStanding, ChangeGuardStanding
<1>2. /\ UNCHANGED <<evidence, verdicts, nogoods, promoted, nogoodChanges, guardChanges>>
      /\ \A jd \in RouteIds : jd # id => routeChanges'[jd] = routeChanges[jd]
  BY <1>1 DEF ChangeSupportRouteStanding, IInv, TypeOK
<1>3. PromotedSet' = PromotedSet /\ OwnedRoutes' = OwnedRoutes
  BY <1>2 DEF PromotedSet, OwnedRoutes
<1>4. OwnedRoutes \subseteq Routes
  <2>1. PromotedSet \subseteq Proposals
    BY DEF IInv, TypeOK, PromotedSet
  <2> QED BY <2>1, CatalogueAssumption DEF OwnedRoutes
<1>5. r.id = id
  BY <1>2, <1>4 DEF RouteIds
<1>6. ASSUME NEW q \in OwnedRoutes, q # r
      PROVE  q \in Q <=> q \in R
  <2>1. q.id # r.id
    BY <1>4, <1>6, CatalogueAssumption
  <2>2. routeChanges'[q.id] = routeChanges[q.id]
    BY <1>2, <1>4, <1>5, <2>1 DEF RouteIds
  <2>3. RouteStands(q)' <=> RouteStands(q)
    BY <2>2 DEF RouteStands, CurrentStanding
  <2>4. RouteApplicable(q, StandingNogoods)' <=> RouteApplicable(q, StandingNogoods)
    BY <1>2 DEF RouteApplicable, ApplicabilityStands, EnvironmentHolds, Resolves,
                ValidCheck, ProposalOf, PromotedSet, StandingNogoods, StandingContext,
                CurrentStanding
  <2> QED BY <1>3, <2>3, <2>4 DEF LiveRoutes
<1>7. \A q \in OwnedRoutes : q.conclusion \in PromotedLemmas
  BY OwnedRoute DEF IInv, PromotedLemmas
<1>8. /\ r.conclusion \in D
      /\ \A k \in PromotedLemmas : RequiredBy(k, OwnedRoutes) \cap D # {} => k \in D
  BY <1>7, DownstreamIsClosed
<1>9. D \in SUBSET Lemmas
  <2>1. D \subseteq PromotedLemmas
    BY DEF Downstream
  <2>2. PromotedSet \subseteq Proposals
    BY DEF IInv, TypeOK, PromotedSet
  <2> QED BY <2>1, <2>2, CatalogueAssumption DEF PromotedLemmas
<1>10. \A q \in OwnedRoutes : q.conclusion \notin D => q # r /\ q.requires \cap D = {}
  BY <1>7, <1>8 DEF RequiredBy
<1>11. Q \subseteq OwnedRoutes /\ R \subseteq OwnedRoutes
  BY <1>3 DEF LiveRoutes
<1>12. Active = Grounded(Q) /\ Active' = Grounded(R)
  BY DEF Active
<1> HIDE DEF D, Q, R
<1>13. Grounded(Q) \ D \subseteq Grounded(R)
  BY <1>6, <1>9, <1>10, <1>11, AgreementOutside
<1>14. Grounded(R) \ D \subseteq Grounded(Q)
  BY <1>6, <1>9, <1>10, <1>11, AgreementOutside
<1> QED BY <1>12, <1>13, <1>14 DEF D

(* Losing or regaining one route leaves unrelated lemmas alone. *)
THEOREM ChangesStayLocal == Spec => StandingChangesAreLocal
<1>1. IInv /\ [Next]_vars => [ChangesLocally]_vars
  BY LocalStep
<1> QED BY <1>1, Invariance, PTL DEF Spec, StandingChangesAreLocal

------------------------------------------------------------------------------
(* The loop of grounded_lemma_ids.  Both of its levels are recursive       *)
(* functions; that they exist and what they compute is proved by taking a  *)
(* least counterexample.                                                   *)

(* A set of naturals that has an element has a least one. *)
LEMMA LeastNatural ==
    ASSUME NEW T \in SUBSET Nat, NEW x \in T
    PROVE  \E n \in T : \A m \in T : n <= m
<1> DEFINE R == OpToRel(<, Nat)
<1>1. PICK n \in T : \A m \in T : <<m, n>> \notin R
  <2>1. IsWellFoundedOn(R, Nat)
    BY NatLessThanWellFounded
  <2> HIDE DEF R
  <2> QED  BY <2>1, WFMin
<1>2. \A m \in T : ~ (m < n)
  BY <1>1 DEF OpToRel
<1> QED  BY <1>2

(* Induction up to a bound, for a property given by the numbers that have  *)
(* it.                                                                     *)
LEMMA BoundedInduction ==
    ASSUME NEW bound \in Nat, NEW Good,
           0 \in Good,
           \A n \in Nat : n < bound /\ n \in Good => n + 1 \in Good
    PROVE  \A n \in 0 .. bound : n \in Good
<1> SUFFICES ASSUME NEW x \in 0 .. bound, x \notin Good  PROVE FALSE
  OBVIOUS
<1> DEFINE Bad == {n \in 0 .. bound : n \notin Good}
<1>1. PICK n \in Bad : \A m \in Bad : n <= m
  <2>1. Bad \in SUBSET Nat /\ x \in Bad
    OBVIOUS
  <2> HIDE DEF Bad
  <2> QED  BY <2>1, LeastNatural
<1>2. n - 1 \in Nat /\ n - 1 < bound /\ n = (n - 1) + 1
  BY <1>1
<1>3. n - 1 \in Good
  BY <1>1, <1>2
<1> QED  BY <1>1, <1>2, <1>3

(* What a loop of n turns finds, the i-th of which maps by f[i]. *)
IsTable(a, n, D, x, f) ==
    a \in [0 .. n -> D] /\ a[0] = x /\ \A i \in 1 .. n : a[i] = f[i][a[i - 1]]

(* Every such loop has its table. *)
LEMMA LoopExists ==
    ASSUME NEW n \in Nat, NEW D, NEW x \in D, NEW f \in [Nat -> [D -> D]]
    PROVE  \E a : IsTable(a, n, D, x, f)
<1> DEFINE Table(m) ==
             \E a \in [0 .. m -> D] : a[0] = x /\ \A i \in 1 .. m : a[i] = f[i][a[i - 1]]
           Good == {m \in Nat : Table(m)}
<1>1. 0 \in Good
  <2> DEFINE a == [i \in 0 .. 0 |-> x]
  <2>1. a \in [0 .. 0 -> D] /\ a[0] = x /\ \A i \in 1 .. 0 : FALSE
    OBVIOUS
  <2> HIDE DEF a
  <2> QED  BY <2>1
<1>2. ASSUME NEW m \in Nat, m \in Good  PROVE m + 1 \in Good
  <2>1. PICK a \in [0 .. m -> D] : a[0] = x /\ \A i \in 1 .. m : a[i] = f[i][a[i - 1]]
    BY <1>2
  <2> DEFINE b == [i \in 0 .. (m + 1) |-> IF i = m + 1 THEN f[m + 1][a[m]] ELSE a[i]]
  <2>2. f[m + 1][a[m]] \in D
    OBVIOUS
  <2>3. b \in [0 .. (m + 1) -> D]
    BY <2>2
  <2>4. (\A i \in 0 .. m : b[i] = a[i]) /\ b[m + 1] = f[m + 1][a[m]]
    OBVIOUS
  <2> HIDE DEF b
  <2>5. \A i \in 1 .. (m + 1) : b[i] = f[i][b[i - 1]]
    <3> SUFFICES ASSUME NEW i \in 1 .. (m + 1)  PROVE b[i] = f[i][b[i - 1]]
      OBVIOUS
    <3>1. CASE i = m + 1
      <4>1. i - 1 = m /\ m \in 0 .. m
        BY <3>1
      <4> QED  BY <3>1, <4>1, <2>4
    <3>2. CASE i \in 1 .. m
      <4>1. i - 1 \in 0 .. m /\ i \in 0 .. m
        BY <3>2
      <4> QED  BY <3>2, <4>1, <2>1, <2>4
    <3> QED  BY <3>1, <3>2
  <2>6. b[0] = x
    BY <2>1, <2>4
  <2> QED  BY <2>3, <2>5, <2>6
<1>3. n \in Good
  <2>1. n \in 0 .. n
    OBVIOUS
  <2> HIDE DEF Good
  <2> QED  BY <1>1, <1>2, <2>1, BoundedInduction
<1> QED  BY <1>3 DEF IsTable

(* One turn of a pass: the i-th promoted lemma is added to T if supported. *)
Turn(R, T, i) ==
    IF promoted[i].lemma \in Supported(R, T) THEN T \cup {promoted[i].lemma} ELSE T

(* Pass is what its last turn leaves. *)
LEMMA PassComputes ==
    ASSUME NEW R, NEW S \in SUBSET Lemmas, promoted \in Seq(Proposals)
    PROVE  \E a : /\ a[0] = S
                  /\ \A i \in 1 .. Len(promoted) : a[i] = Turn(R, a[i - 1], i)
                  /\ Pass(R, S) = a[Len(promoted)]
<1> DEFINE n == Len(promoted)
           step == [i \in Nat |-> [T \in SUBSET Lemmas |->
                                     IF i \in 1 .. n THEN Turn(R, T, i) ELSE T]]
           a == CHOOSE a : a = [i \in 0 .. n |-> IF i = 0 THEN S ELSE Turn(R, a[i - 1], i)]
<1>1. n \in Nat
  OBVIOUS
<1>2. \A T \in SUBSET Lemmas : \A i \in Nat : Turn(R, T, i) \in SUBSET Lemmas
  BY DEF Turn, Supported
<1>3. step \in [Nat -> [SUBSET Lemmas -> SUBSET Lemmas]]
  BY <1>2
<1>4. PICK b \in [0 .. n -> SUBSET Lemmas] :
         b[0] = S /\ \A i \in 1 .. n : b[i] = step[i][b[i - 1]]
  <2> DEFINE D == SUBSET Lemmas
  <2>1. S \in D /\ step \in [Nat -> [D -> D]]
    BY <1>3
  <2> HIDE DEF n, step, D
  <2>2. \E b : IsTable(b, n, D, S, step)
    BY <1>1, <2>1, LoopExists
  <2> QED  BY <2>2 DEF D, IsTable
<1>5. \A i \in 1 .. n : b[i] = Turn(R, b[i - 1], i)
  <2> SUFFICES ASSUME NEW i \in 1 .. n  PROVE b[i] = Turn(R, b[i - 1], i)
    OBVIOUS
  <2>1. i - 1 \in 0 .. n /\ i \in Nat
    BY <1>1
  <2>2. b[i - 1] \in SUBSET Lemmas
    BY <2>1, <1>4
  <2> QED  BY <1>4, <2>1, <2>2
<1>6. b = [i \in 0 .. n |-> IF i = 0 THEN S ELSE Turn(R, b[i - 1], i)]
  <2>1. \A i \in 0 .. n : b[i] = IF i = 0 THEN S ELSE Turn(R, b[i - 1], i)
    BY <1>1, <1>4, <1>5
  <2> QED  BY <1>4, <2>1
<1>7. a = [i \in 0 .. n |-> IF i = 0 THEN S ELSE Turn(R, a[i - 1], i)]
  BY <1>6
<1>8. Pass(R, S) = a[n]
  BY DEF Pass, Turn
<1> HIDE DEF a
<1>9. a[0] = S /\ \A i \in 1 .. n : a[i] = Turn(R, a[i - 1], i)
  BY <1>1, <1>7
<1> QED  BY <1>8, <1>9

(* A pass adds only what is grounded if it starts from grounded lemmas,    *)
(* and when it adds nothing no promoted lemma is left to add.              *)
LEMMA PassFinds ==
    ASSUME NEW R, NEW S \in SUBSET Lemmas, promoted \in Seq(Proposals)
    PROVE  /\ Pass(R, S) \in SUBSET Lemmas
           /\ S \subseteq Pass(R, S)
           /\ S \subseteq Grounded(R) => Pass(R, S) \subseteq Grounded(R)
           /\ Pass(R, S) = S => PromotedLemmas \cap Supported(R, S) \subseteq S
<1>1. PICK a : /\ a[0] = S
               /\ \A i \in 1 .. Len(promoted) : a[i] = Turn(R, a[i - 1], i)
               /\ Pass(R, S) = a[Len(promoted)]
  BY PassComputes
<1> DEFINE n == Len(promoted)
           Good == {i \in 0 .. n :
                      /\ a[i] \in SUBSET Lemmas
                      /\ S \subseteq a[i]
                      /\ S \subseteq Grounded(R) => a[i] \subseteq Grounded(R)
                      /\ a[i] = S => \A j \in 1 .. i :
                            promoted[j].lemma \in Supported(R, S) => promoted[j].lemma \in S}
<1>2. n \in Nat
  OBVIOUS
<1>3. 0 \in Good
  BY <1>1, <1>2
<1>4. ASSUME NEW i \in Nat, i < n, i \in Good  PROVE i + 1 \in Good
  <2>1. a[i + 1] = Turn(R, a[i], i + 1) /\ i + 1 \in 0 .. n
    <3>1. i + 1 \in 1 .. n /\ (i + 1) - 1 = i
      BY <1>2, <1>4
    <3> QED  BY <1>1, <3>1
  <2>2. a[i] \subseteq a[i + 1] /\ a[i + 1] \in SUBSET Lemmas
    BY <1>4, <2>1 DEF Turn, Supported
  <2>3. ASSUME S \subseteq Grounded(R)  PROVE a[i + 1] \subseteq Grounded(R)
    <3>1. a[i] \subseteq Grounded(R)
      BY <1>4, <2>3
    <3>2. Supported(R, a[i]) \subseteq Supported(R, Grounded(R))
      BY <3>1, SupportedGrows
    <3>3. Supported(R, a[i]) \subseteq Grounded(R)
      BY <3>2, GroundedIsFixed
    <3> QED  BY <2>1, <3>1, <3>3 DEF Turn
  <2>4. ASSUME a[i + 1] = S, NEW j \in 1 .. (i + 1), promoted[j].lemma \in Supported(R, S)
        PROVE  promoted[j].lemma \in S
    <3>1. a[i] = S
      BY <1>4, <2>2, <2>4
    <3>2. CASE j = i + 1
      BY <2>1, <2>4, <3>1, <3>2 DEF Turn
    <3>3. CASE j \in 1 .. i
      BY <1>4, <2>4, <3>1, <3>3
    <3> QED  BY <3>2, <3>3
  <2> QED  BY <1>4, <2>1, <2>2, <2>3, <2>4
<1>5. n \in Good
  <2>1. n \in 0 .. n
    BY <1>2
  <2> HIDE DEF Good, n
  <2> QED  BY <1>2, <1>3, <1>4, <2>1, BoundedInduction
<1>6. ASSUME Pass(R, S) = S, NEW l \in PromotedLemmas, l \in Supported(R, S)
      PROVE  l \in S
  <2>1. PICK j \in 1 .. n : l = promoted[j].lemma
    BY DEF PromotedLemmas, PromotedSet
  <2>2. a[n] = S
    BY <1>1, <1>6
  <2> QED  BY <1>5, <1>6, <2>1, <2>2
<1> QED  BY <1>1, <1>5, <1>6

(* The loop is what its last pass leaves. *)
LEMMA LoopComputes ==
    ASSUME NEW R, promoted \in Seq(Proposals)
    PROVE  \E a \in [0 .. Len(promoted) -> SUBSET Lemmas] :
              /\ a[0] = {}
              /\ \A k \in 1 .. Len(promoted) : a[k] = Pass(R, a[k - 1])
              /\ GroundedLoop(R) = a[Len(promoted)]
<1> DEFINE n == Len(promoted)
           D == SUBSET Lemmas
           step == [k \in Nat |-> [T \in D |-> Pass(R, T)]]
           Passes(a) == a = [k \in 0 .. n |-> IF k = 0 THEN {} ELSE Pass(R, a[k - 1])]
           a == CHOOSE a : Passes(a)
<1>1. n \in Nat /\ {} \in D
  OBVIOUS
<1>2. \A T \in D : Pass(R, T) \in D
  BY PassFinds
<1>3. step \in [Nat -> [D -> D]]
  BY <1>2
<1>4. PICK b \in [0 .. n -> D] : b[0] = {} /\ \A k \in 1 .. n : b[k] = step[k][b[k - 1]]
  <2> HIDE DEF n, step, D
  <2>1. \E b : IsTable(b, n, D, {}, step)
    BY <1>1, <1>3, LoopExists
  <2> QED  BY <2>1 DEF IsTable
<1>5. \A k \in 1 .. n : b[k] = Pass(R, b[k - 1])
  <2> SUFFICES ASSUME NEW k \in 1 .. n  PROVE b[k] = Pass(R, b[k - 1])
    OBVIOUS
  <2>1. k - 1 \in 0 .. n /\ k \in Nat
    BY <1>1
  <2>2. b[k - 1] \in D
    BY <2>1, <1>4
  <2> QED  BY <1>4, <2>1, <2>2
<1>6. Passes(b)
  <2>1. \A k \in 0 .. n : b[k] = IF k = 0 THEN {} ELSE Pass(R, b[k - 1])
    BY <1>1, <1>4, <1>5
  <2> QED  BY <1>4, <2>1
<1>7. Passes(a)
  BY <1>6
<1>8. GroundedLoop(R) = a[n]
  BY DEF GroundedLoop
<1> HIDE DEF a
<1>9. a[0] = {} /\ \A k \in 1 .. n : a[k] = Pass(R, a[k - 1])
  <2>1. \A k \in 0 .. n : a[k] = IF k = 0 THEN {} ELSE Pass(R, a[k - 1])
    BY <1>7, Zenon
  <2>2. \A k \in 1 .. n : k \in 0 .. n /\ k # 0
    BY <1>1
  <2>3. 0 \in 0 .. n
    BY <1>1
  <2> QED  BY <2>1, <2>2, <2>3
<1>10. \A k \in 0 .. n : a[k] \in D
  <2> DEFINE Good == {k \in 0 .. n : a[k] \in D}
  <2>1. 0 \in Good
    BY <1>1, <1>9
  <2>2. ASSUME NEW k \in Nat, k < n, k \in Good  PROVE k + 1 \in Good
    <3>1. k + 1 \in 1 .. n /\ k + 1 \in 0 .. n /\ (k + 1) - 1 = k
      BY <1>1, <2>2
    <3>2. a[k + 1] = Pass(R, a[k])
      BY <1>9, <3>1
    <3> QED  BY <1>2, <2>2, <3>1, <3>2
  <2>3. \A k \in 0 .. n : k \in Good
    <3> HIDE DEF Good, n
    <3> QED  BY <1>1, <2>1, <2>2, BoundedInduction
  <2> QED  BY <2>3
<1>11. a \in [0 .. n -> D]
  BY <1>7, <1>10
<1> QED  BY <1>8, <1>9, <1>11

(* There are no more promoted lemmas than promotions. *)
LEMMA PromotedAreFew ==
    ASSUME promoted \in Seq(Proposals)
    PROVE  IsFiniteSet(PromotedLemmas) /\ Cardinality(PromotedLemmas) <= Len(promoted)
<1> DEFINE n == Len(promoted)
           f == [i \in 1 .. n |-> promoted[i].lemma]
<1>1. n \in Nat
  OBVIOUS
<1>2. f \in Surjection(1 .. n, PromotedLemmas)
  BY DEF Surjection, PromotedLemmas, PromotedSet
<1>3. IsFiniteSet(1 .. n) /\ Cardinality(1 .. n) = n
  <2>1. n \in Int /\ 1 \in Int
    BY <1>1
  <2> HIDE DEF n
  <2> QED  BY <1>1, <2>1, FS_Interval
<1> HIDE DEF f, n
<1> QED  BY <1>2, <1>3, FS_Surjection DEF n

(* grounded_lemma_ids finds the active theory, in whatever order its       *)
(* lemmas were promoted: its passes add only grounded lemmas, a pass that  *)
(* adds nothing leaves a closed set, and there are as many passes as there *)
(* can be additions.                                                       *)
THEOREM LoopAlwaysFindsActive == Spec => []LoopFindsActive
<1>1. ASSUME IInv  PROVE LoopFindsActive
  <2> DEFINE R == LiveRoutes  G == Grounded(R)  n == Len(promoted)
  <2>1. promoted \in Seq(Proposals) /\ n \in Nat
    BY <1>1 DEF IInv, TypeOK
  <2>2. R \subseteq OwnedRoutes
    BY DEF LiveRoutes
  <2>3. G \subseteq PromotedLemmas /\ G \subseteq Lemmas
    <3>1. R \in SUBSET OwnedRoutes /\ RoutesConclude /\ VersionsAreUnique
      BY <1>1, <2>2 DEF IInv
    <3>2. G \subseteq PromotedLemmas
      <4> HIDE DEF R
      <4> QED  BY <3>1, GroundedIsPromoted
    <3> QED  BY <3>2 DEF Grounded
  <2>4. /\ IsFiniteSet(PromotedLemmas)
        /\ Cardinality(PromotedLemmas) \in Nat /\ Cardinality(PromotedLemmas) <= n
    BY <2>1, PromotedAreFew, FS_CardinalityType
  <2>5. IsFiniteSet(G) /\ Cardinality(G) \in Nat /\ Cardinality(G) <= n
    <3> HIDE DEF G
    <3>1. IsFiniteSet(G) /\ Cardinality(G) <= Cardinality(PromotedLemmas)
      BY <2>3, <2>4, FS_Subset
    <3>2. Cardinality(G) \in Nat
      BY <3>1, FS_CardinalityType
    <3> HIDE DEF n
    <3> QED  BY <2>1, <2>4, <3>1, <3>2
  <2> HIDE DEF R
  <2>6. PICK a \in [0 .. n -> SUBSET Lemmas] :
           /\ a[0] = {}
           /\ \A k \in 1 .. n : a[k] = Pass(R, a[k - 1])
           /\ GroundedLoop(R) = a[n]
    BY <2>1, LoopComputes
  <2>7. ASSUME NEW S \in SUBSET Lemmas, Pass(R, S) = S  PROVE G \subseteq S
    <3>1. PromotedLemmas \cap Supported(R, S) \subseteq S
      BY <2>1, <2>7, PassFinds
    <3>2. Supported(R, S) \subseteq PromotedLemmas
      <4> SUFFICES ASSUME NEW l \in Supported(R, S)  PROVE l \in PromotedLemmas
        OBVIOUS
      <4>1. PICK r \in R : r.conclusion = l
        BY DEF Supported
      <4>2. PICK p \in PromotedSet : r.conclusion = p.lemma
        BY <1>1, <2>2, <4>1, OwnedRoute DEF IInv
      <4> QED  BY <4>1, <4>2 DEF PromotedLemmas
    <3>3. Supported(R, S) \subseteq S
      BY <3>1, <3>2
    <3> QED  BY <3>3, GroundedIsLeast
  <2> HIDE DEF G
  <2> DEFINE Good == {k \in 0 .. n : /\ a[k] \subseteq G
                                     /\ a[k] = G \/ Cardinality(a[k]) >= k}
  <2>8. 0 \in Good
    <3>1. a[0] \subseteq G /\ 0 \in 0 .. n
      BY <2>1, <2>6
    <3>2. Cardinality(a[0]) = 0
      BY <2>6, FS_EmptySet
    <3> QED  BY <3>1, <3>2
  <2>9. ASSUME NEW k \in Nat, k < n, k \in Good  PROVE k + 1 \in Good
    <3> DEFINE S == a[k]  T == a[k + 1]
    <3>1. k \in 0 .. n /\ k + 1 \in 0 .. n /\ k + 1 \in 1 .. n /\ (k + 1) - 1 = k
      BY <2>1, <2>9
    <3>2. T = Pass(R, S) /\ S \in SUBSET Lemmas /\ T \in SUBSET Lemmas
      BY <2>6, <3>1
    <3>3. S \subseteq G /\ (S = G \/ Cardinality(S) >= k)
      BY <2>9
    <3> HIDE DEF S, T
    <3>4. S \subseteq T /\ T \subseteq G
      BY <2>1, <3>2, <3>3, PassFinds DEF G
    <3>5. T = G \/ Cardinality(T) >= k + 1
      <4> SUFFICES ASSUME T # G  PROVE Cardinality(T) >= k + 1
        OBVIOUS
      <4>1. S # T
        BY <2>7, <3>2, <3>4
      <4>2. IsFiniteSet(T)
        BY <2>5, <3>4, FS_Subset
      <4>3. Cardinality(S) <= Cardinality(T) /\ Cardinality(S) # Cardinality(T)
            /\ IsFiniteSet(S)
        BY <3>4, <4>1, <4>2, FS_Subset
      <4>4. Cardinality(S) \in Nat /\ Cardinality(T) \in Nat
        BY <4>2, <4>3, FS_CardinalityType
      <4>5. Cardinality(S) >= k
        BY <3>3, <3>4
      <4> QED  BY <4>3, <4>4, <4>5
    <3> QED  BY <3>1, <3>4, <3>5 DEF T
  <2>10. n \in Good
    <3>1. n \in 0 .. n
      BY <2>1
    <3> HIDE DEF Good, n
    <3> QED  BY <2>1, <2>8, <2>9, <3>1, BoundedInduction
  <2>11. a[n] = G
    <3> DEFINE S == a[n]
    <3>1. S \subseteq G /\ (S = G \/ Cardinality(S) >= n)
      BY <2>10
    <3> HIDE DEF S, n
    <3>2. ASSUME Cardinality(S) >= n  PROVE S = G
      <4>1. IsFiniteSet(S) /\ Cardinality(S) <= Cardinality(G)
        BY <2>5, <3>1, FS_Subset
      <4>2. Cardinality(S) \in Nat
        BY <4>1, FS_CardinalityType
      <4>3. Cardinality(S) = Cardinality(G)
        BY <2>1, <2>5, <3>2, <4>1, <4>2
      <4> QED  BY <2>5, <3>1, <4>3, FS_Subset
    <3> QED  BY <3>1, <3>2 DEF S
  <2> QED  BY <2>6, <2>11 DEF G, R, LoopFindsActive, Active
<1> QED  BY <1>1, Invariance, PTL

=============================================================================
