------------------------ MODULE ProjectRecursionProofs ------------------------
(***************************************************************************)
(* Proofs about the recursive project records, for any records that        *)
(* callers submit.                                                         *)
(*                                                                         *)
(* The folded state is validated after every command, so Valid is part of  *)
(* the inductive invariant for nothing; what the validators leave to       *)
(* decide (Sound) must survive every later command.  It does because       *)
(* records are never rewritten and an identity is used once in its kind:   *)
(* whatever a record pointed at when it was recorded is what it points at  *)
(* for good.                                                               *)
(***************************************************************************)
EXTENDS ProjectRecursion, FiniteSetTheorems, WellFoundedInduction, TLAPS

------------------------------------------------------------------------------
(* The inductive invariant. *)

(* Every collection but the checkpoints is a set that grows. *)
SetKinds == Kinds \ {"checkpoints"}
Grows(o, p) == \A k \in SetKinds : o[k] \subseteq p[k]

(* What decide required of a record when it was recorded and the folded    *)
(* state does not check again.                                             *)
Listed(o, f) == {c \in o.candidates : c.id \in f.candidates}

FrontierSound(o, f) ==
    /\ f.candidates \subseteq Ids(o, "candidates")
    /\ f = CapabilityFrontier(f.id, Listed(o, f))

GoalSound(o, g) ==
    \E f \in o.frontiers :
        f.id = g.frontier /\ f.status = "ready" /\ f.selected = g.candidate

EvidenceSound(o, e) ==
    \E g \in o.goals, n \in o.environments :
        /\ g.id = e.goal /\ n.id = e.environment
        /\ n.base = e.base /\ e.gate \in g.gates

SuccessorSound(o, d) ==
    d.disposition = "replace" =>
        \E g \in o.goals, c \in o.candidates, r \in o.reviews, n \in o.environments :
            /\ c.id = d.candidate /\ r.id = d.review
            /\ g.candidate = c.id /\ n.goal = g.id /\ r.goal = g.id
            /\ r.environment = n.id
            /\ c.preserved \subseteq d.preserved /\ c.gains = d.gains

PromotionSound(o, p) ==
    p.outcome = "merged" =>
        \E d \in o.successors, r \in o.reviews :
            /\ d.id = p.successor /\ r.id = d.review
            /\ d.disposition = "replace" /\ r.outcome = "valid"
            /\ p.commit = r.commit

SourceSound(o, s) ==
    \E q \in o.questions, d \in o.questionDecisions :
        q.id = s.candidate /\ d.id = s.decision /\ d.candidate = s.candidate

Typed(o) ==
    /\ o = [k \in Kinds |-> o[k]]
    /\ \A k \in ProjectKinds \ {"goals", "goalCandidates", "goalDecisions", "checkpoints"} :
          o[k] \subseteq Submitted(k)
    /\ o.checkpoints \in Seq(Submitted("checkpoints"))
    /\ IsFiniteSet(o.candidates)
    /\ \A d \in o.goalDecisions : IsGoalDecision(d)
    /\ \A a \in o.answers : a.source \in o.sources

Sound(o) ==
    /\ \A f \in o.frontiers : FrontierSound(o, f)
    /\ \A g \in o.goals : GoalSound(o, g)
    /\ \A e \in o.evidence : EvidenceSound(o, e)
    /\ \A d \in o.successors : SuccessorSound(o, d)
    /\ \A p \in o.promotions : PromotionSound(o, p)
    /\ \A s \in o.sources : SourceSound(o, s)

IInv == Typed(owned) /\ Valid(owned) /\ Sound(owned)

------------------------------------------------------------------------------
(* One more record. *)

(* A command adds its record to its collection and touches no other.       *)
LEMMA WithSet ==
    ASSUME NEW o, o = [j \in Kinds |-> o[j]], NEW k \in SetKinds, NEW r
    PROVE  /\ With(o, k, r) = [j \in Kinds |-> With(o, k, r)[j]]
           /\ With(o, k, r)[k] = o[k] \cup {r}
           /\ \A j \in Kinds \ {k} : With(o, k, r)[j] = o[j]
<1>1. k \in Kinds /\ k # "checkpoints"
  BY DEF SetKinds
<1> HIDE DEF Kinds
<1>2. With(o, k, r) = [o EXCEPT ![k] = o[k] \cup {r}]
  BY <1>1 DEF With
<1> QED  BY <1>1, <1>2

LEMMA WithCheckpoint ==
    ASSUME NEW o, o = [j \in Kinds |-> o[j]], NEW r
    PROVE  LET p == With(o, "checkpoints", r) IN
           /\ p = [j \in Kinds |-> p[j]]
           /\ p["checkpoints"] = Append(o["checkpoints"], r)
           /\ \A j \in SetKinds : p[j] = o[j]
<1>1. "checkpoints" \in Kinds
  BY DEF Kinds, ProjectKinds
<1>2. With(o, "checkpoints", r) = [o EXCEPT !["checkpoints"] = Append(o["checkpoints"], r)]
  BY <1>1 DEF With
<1> HIDE DEF Kinds
<1> QED  BY <1>1, <1>2 DEF SetKinds

(* The names of the collections. *)
LEMMA KindsAre ==
    SetKinds = {"anchors", "limitations", "questions", "questionDecisions", "methods",
                "methodDecisions", "candidates", "frontiers", "goalCandidates",
                "goalDecisions", "goals", "environments", "evidence", "reviews",
                "successors", "promotions", "stops", "sources", "answers"}
BY DEF SetKinds, Kinds, ProjectKinds

LEMMA IdsAre ==
    ASSUME NEW o, NEW k \in SetKinds
    PROVE  Items(o, k) = o[k] /\ Ids(o, k) = {r.id : r \in o[k]}
BY DEF SetKinds, Items, Ids

LEMMA GrowsSets ==
    ASSUME NEW o, NEW p, Grows(o, p)
    PROVE  /\ o.anchors \subseteq p.anchors /\ o.limitations \subseteq p.limitations
           /\ o.questions \subseteq p.questions
           /\ o.questionDecisions \subseteq p.questionDecisions
           /\ o.methods \subseteq p.methods /\ o.methodDecisions \subseteq p.methodDecisions
           /\ o.candidates \subseteq p.candidates /\ o.frontiers \subseteq p.frontiers
           /\ o.goalCandidates \subseteq p.goalCandidates
           /\ o.goalDecisions \subseteq p.goalDecisions /\ o.goals \subseteq p.goals
           /\ o.environments \subseteq p.environments /\ o.evidence \subseteq p.evidence
           /\ o.reviews \subseteq p.reviews /\ o.successors \subseteq p.successors
           /\ o.promotions \subseteq p.promotions /\ o.stops \subseteq p.stops
           /\ o.sources \subseteq p.sources /\ o.answers \subseteq p.answers
BY KindsAre DEF Grows

LEMMA GrowsIds ==
    ASSUME NEW o, NEW p, Grows(o, p), NEW k \in SetKinds
    PROVE  Ids(o, k) \subseteq Ids(p, k)
BY IdsAre DEF Grows

(* Within a kind an identity names one record. *)
LEMMA SameIdSame ==
    ASSUME NEW o, UniqueIds(o), NEW k \in ProjectKinds \ {"checkpoints"},
           NEW x \in o[k], NEW y \in o[k], x.id = y.id
    PROVE  x = y
BY DEF UniqueIds, Items

LEMMA GetIs ==
    ASSUME NEW o, UniqueIds(o), NEW k \in ProjectKinds \ {"checkpoints"}, NEW x \in o[k]
    PROVE  Get(o, k, x.id) = x
BY SameIdSame DEF Get

LEMMA GetFinds ==
    ASSUME NEW o, UniqueIds(o), NEW k \in ProjectKinds \ {"checkpoints"}, NEW id \in Ids(o, k)
    PROVE  Get(o, k, id) \in o[k] /\ Get(o, k, id).id = id
<1>1. k \in SetKinds
  BY DEF SetKinds, Kinds
<1>2. PICK x \in o[k] : x.id = id
  BY <1>1, IdsAre
<1> QED  BY <1>2, GetIs

------------------------------------------------------------------------------
(* What was sound stays sound. *)

(* The candidates a frontier lists are the same ones for good.             *)
LEMMA ListedStay ==
    ASSUME NEW o, NEW p, Grows(o, p), UniqueIds(p), NEW f,
           f.candidates \subseteq Ids(o, "candidates")
    PROVE  Listed(p, f) = Listed(o, f)
<1>1. o.candidates \subseteq p.candidates
  BY GrowsSets
<1>2. \A x, y \in p.candidates : x.id = y.id => x = y
  BY DEF UniqueIds, Items, ProjectKinds
<1>3. \A id \in f.candidates : \E x \in o.candidates : x.id = id
  BY KindsAre, IdsAre
<1> QED  BY <1>1, <1>2, <1>3 DEF Listed

LEMMA FrontierStays ==
    ASSUME NEW o, NEW p, Grows(o, p), UniqueIds(p), NEW f, FrontierSound(o, f)
    PROVE  FrontierSound(p, f)
<1>1. f.candidates \subseteq Ids(o, "candidates")
  BY DEF FrontierSound
<1>2. Listed(p, f) = Listed(o, f)
  BY <1>1, ListedStay
<1>3. Ids(o, "candidates") \subseteq Ids(p, "candidates")
  BY KindsAre, GrowsIds
<1> QED  BY <1>1, <1>2, <1>3 DEF FrontierSound

LEMMA OthersStay ==
    ASSUME NEW o, NEW p, Grows(o, p), NEW x
    PROVE  /\ GoalSound(o, x) => GoalSound(p, x)
           /\ EvidenceSound(o, x) => EvidenceSound(p, x)
           /\ SuccessorSound(o, x) => SuccessorSound(p, x)
           /\ PromotionSound(o, x) => PromotionSound(p, x)
           /\ SourceSound(o, x) => SourceSound(p, x)
<1>1. o.frontiers \subseteq p.frontiers /\ o.goals \subseteq p.goals
      /\ o.environments \subseteq p.environments /\ o.candidates \subseteq p.candidates
      /\ o.reviews \subseteq p.reviews /\ o.successors \subseteq p.successors
      /\ o.questions \subseteq p.questions
      /\ o.questionDecisions \subseteq p.questionDecisions
  BY GrowsSets
<1>2. GoalSound(o, x) => GoalSound(p, x)
  BY <1>1 DEF GoalSound
<1>3. EvidenceSound(o, x) => EvidenceSound(p, x)
  BY <1>1 DEF EvidenceSound
<1>4. SuccessorSound(o, x) => SuccessorSound(p, x)
  BY <1>1 DEF SuccessorSound
<1>5. PromotionSound(o, x) => PromotionSound(p, x)
  BY <1>1 DEF PromotionSound
<1>6. SourceSound(o, x) => SourceSound(p, x)
  BY <1>1 DEF SourceSound
<1> QED  BY <1>2, <1>3, <1>4, <1>5, <1>6

(* What a record of kind k owes when it is recorded. *)
SubmittedKinds ==
    ProjectKinds \ {"goals", "goalCandidates", "goalDecisions", "checkpoints"}
NewIsTyped(o, k, r) ==
    /\ k \in SubmittedKinds => r \in Submitted(k)
    /\ k = "goalDecisions" => IsGoalDecision(r)
    /\ k = "answers" => r.source \in o.sources
NewIsSound(o, k, r) ==
    /\ k = "frontiers" => FrontierSound(o, r)
    /\ k = "goals" => GoalSound(o, r)
    /\ k = "evidence" => EvidenceSound(o, r)
    /\ k = "successors" => SuccessorSound(o, r)
    /\ k = "promotions" => PromotionSound(o, r)
    /\ k = "sources" => SourceSound(o, r)

LEMMA SetGrows ==
    ASSUME NEW o, o = [j \in Kinds |-> o[j]], NEW k \in SetKinds, NEW r
    PROVE  /\ Grows(o, With(o, k, r))
           /\ \A j \in SetKinds : \A x \in With(o, k, r)[j] : x \in o[j] \/ (j = k /\ x = r)
<1> DEFINE p == With(o, k, r)
<1>1. p[k] = o[k] \cup {r} /\ \A j \in Kinds \ {k} : p[j] = o[j]
  BY WithSet
<1>2. SetKinds \subseteq Kinds
  BY DEF SetKinds
<1> HIDE DEF p
<1>3. Grows(o, p)
  BY <1>1, <1>2 DEF Grows
<1>4. \A j \in SetKinds : \A x \in p[j] : x \in o[j] \/ (j = k /\ x = r)
  BY <1>1, <1>2
<1> QED  BY <1>3, <1>4 DEF p

LEMMA SetKeepsTyped ==
    ASSUME NEW o, Typed(o), NEW k \in SetKinds, NEW r, NewIsTyped(o, k, r)
    PROVE  Typed(With(o, k, r))
<1> DEFINE p == With(o, k, r)
<1>1. o = [j \in Kinds |-> o[j]]
  BY DEF Typed
<1>2. /\ p = [j \in Kinds |-> p[j]]
      /\ p[k] = o[k] \cup {r} /\ \A j \in Kinds \ {k} : p[j] = o[j]
  BY <1>1, WithSet
<1>3. Grows(o, p) /\ \A j \in SetKinds : \A x \in p[j] : x \in o[j] \/ (j = k /\ x = r)
  BY <1>1, SetGrows
<1> HIDE DEF p
<1>4. \A j \in SubmittedKinds : p[j] \subseteq Submitted(j)
  <2>1. SubmittedKinds \subseteq SetKinds
    BY DEF SubmittedKinds, SetKinds, Kinds
  <2> QED  BY <1>3, <2>1 DEF Typed, NewIsTyped, SubmittedKinds
<1>5. p.checkpoints = o.checkpoints
  <2>1. "checkpoints" \in Kinds \ {k}
    BY DEF SetKinds, Kinds, ProjectKinds
  <2> QED  BY <1>2, <2>1
<1>6. IsFiniteSet(p.candidates)
  <2>1. "candidates" \in Kinds
    BY DEF Kinds, ProjectKinds
  <2>2. p.candidates = o.candidates \/ p.candidates = o.candidates \cup {r}
    BY <1>2, <2>1
  <2>3. IsFiniteSet(o.candidates)
    BY DEF Typed
  <2> QED  BY <2>2, <2>3, FS_AddElement
<1>7. \A d \in p.goalDecisions : IsGoalDecision(d)
  <2>1. "goalDecisions" \in SetKinds
    BY KindsAre
  <2> QED  BY <1>3, <2>1 DEF Typed, NewIsTyped
<1>8. \A a \in p.answers : a.source \in p.sources
  <2>1. "answers" \in SetKinds /\ o.sources \subseteq p.sources
    BY <1>3, KindsAre, GrowsSets
  <2> QED  BY <1>3, <2>1 DEF Typed, NewIsTyped
<1>9. p.checkpoints \in Seq(Submitted("checkpoints"))
  BY <1>5 DEF Typed
<1>10. Typed(p)
  BY <1>2, <1>4, <1>6, <1>7, <1>8, <1>9 DEF Typed, SubmittedKinds
<1> QED  BY <1>10 DEF p

LEMMA SetKeepsSound ==
    ASSUME NEW o, Typed(o), Sound(o), NEW k \in SetKinds, NEW r,
           NewIsSound(o, k, r), UniqueIds(With(o, k, r))
    PROVE  Sound(With(o, k, r))
<1> DEFINE p == With(o, k, r)
<1>1. Grows(o, p) /\ \A j \in SetKinds : \A x \in p[j] : x \in o[j] \/ (j = k /\ x = r)
  BY SetGrows DEF Typed
<1>2. UniqueIds(p)
  OBVIOUS
<1> HIDE DEF p
<1>3. \A f \in p.frontiers : FrontierSound(p, f)
  <2>1. \A f \in p.frontiers : FrontierSound(o, f)
    BY <1>1, KindsAre DEF Sound, NewIsSound
  <2> QED  BY <1>1, <1>2, <2>1, FrontierStays
<1>4. \A g \in p.goals : GoalSound(p, g)
  <2>1. \A g \in p.goals : GoalSound(o, g)
    BY <1>1, KindsAre DEF Sound, NewIsSound
  <2> QED  BY <1>1, <2>1, OthersStay
<1>5. \A e \in p.evidence : EvidenceSound(p, e)
  <2>1. \A e \in p.evidence : EvidenceSound(o, e)
    BY <1>1, KindsAre DEF Sound, NewIsSound
  <2> QED  BY <1>1, <2>1, OthersStay
<1>6. \A d \in p.successors : SuccessorSound(p, d)
  <2>1. \A d \in p.successors : SuccessorSound(o, d)
    BY <1>1, KindsAre DEF Sound, NewIsSound
  <2> QED  BY <1>1, <2>1, OthersStay
<1>7. \A x \in p.promotions : PromotionSound(p, x)
  <2>1. \A x \in p.promotions : PromotionSound(o, x)
    BY <1>1, KindsAre DEF Sound, NewIsSound
  <2> QED  BY <1>1, <2>1, OthersStay
<1>8. \A s \in p.sources : SourceSound(p, s)
  <2>1. \A s \in p.sources : SourceSound(o, s)
    BY <1>1, KindsAre DEF Sound, NewIsSound
  <2> QED  BY <1>1, <2>1, OthersStay
<1>9. Sound(p)
  BY <1>3, <1>4, <1>5, <1>6, <1>7, <1>8 DEF Sound
<1> QED  BY <1>9 DEF p

LEMMA CheckpointKeeps ==
    ASSUME NEW o, Typed(o), Sound(o), NEW r \in Submitted("checkpoints"),
           UniqueIds(With(o, "checkpoints", r))
    PROVE  Typed(With(o, "checkpoints", r)) /\ Sound(With(o, "checkpoints", r))
<1> DEFINE p == With(o, "checkpoints", r)
<1>1. /\ p = [j \in Kinds |-> p[j]]
      /\ p["checkpoints"] = Append(o["checkpoints"], r)
      /\ \A j \in SetKinds : p[j] = o[j]
  BY WithCheckpoint DEF Typed
<1>2. UniqueIds(p)
  OBVIOUS
<1> HIDE DEF p
<1>3. Grows(o, p)
  BY <1>1 DEF Grows
<1>4. Typed(p)
  <2>1. p.checkpoints \in Seq(Submitted("checkpoints"))
    <3>1. PICK S : S = Submitted("checkpoints")
      OBVIOUS
    <3>2. o.checkpoints \in Seq(S) /\ r \in S
      BY <3>1 DEF Typed
    <3>3. Append(o.checkpoints, r) \in Seq(S)
      BY <3>2
    <3> QED  BY <1>1, <3>1, <3>3
  <2>2. \A j \in SubmittedKinds : p[j] \subseteq Submitted(j)
    BY <1>1 DEF Typed, SubmittedKinds, SetKinds, Kinds
  <2>3. /\ p.candidates = o.candidates /\ p.goalDecisions = o.goalDecisions
        /\ p.answers = o.answers /\ p.sources = o.sources
    BY <1>1, KindsAre
  <2> QED  BY <1>1, <2>1, <2>2, <2>3 DEF Typed, SubmittedKinds
<1>5. /\ p.frontiers = o.frontiers /\ p.goals = o.goals /\ p.evidence = o.evidence
      /\ p.successors = o.successors /\ p.promotions = o.promotions /\ p.sources = o.sources
  BY <1>1, KindsAre
<1>6. \A f \in p.frontiers : FrontierSound(p, f)
  BY <1>2, <1>3, <1>5, FrontierStays DEF Sound
<1>7. /\ \A x \in p.goals : GoalSound(p, x)
      /\ \A x \in p.evidence : EvidenceSound(p, x)
      /\ \A x \in p.successors : SuccessorSound(p, x)
      /\ \A x \in p.promotions : PromotionSound(p, x)
      /\ \A x \in p.sources : SourceSound(p, x)
  BY <1>3, <1>5, OthersStay DEF Sound
<1>8. Sound(p)
  BY <1>6, <1>7 DEF Sound
<1> QED  BY <1>4, <1>8 DEF p

------------------------------------------------------------------------------
(* The commands. *)

LEMMA SetStep ==
    ASSUME IInv, NEW k \in SetKinds, NEW r, Record(k, r),
           NewIsTyped(owned, k, r), NewIsSound(owned, k, r)
    PROVE  IInv'
<1>1. owned' = With(owned, k, r) /\ Valid(owned')
  BY DEF Record
<1>2. Typed(owned) /\ Sound(owned)
  BY DEF IInv
<1>3. UniqueIds(With(owned, k, r))
  BY <1>1 DEF Valid
<1>4. Typed(With(owned, k, r)) /\ Sound(With(owned, k, r))
  BY <1>2, <1>3, SetKeepsTyped, SetKeepsSound
<1> QED  BY <1>1, <1>4 DEF IInv

(* Records that decide holds to nothing the folded state does not check.   *)
LEMMA PlainStep ==
    ASSUME IInv, NEW k \in {"anchors", "limitations", "questions", "questionDecisions",
                            "methods", "methodDecisions", "candidates", "environments",
                            "reviews", "stops"},
           NEW r \in Submitted(k), Record(k, r)
    PROVE  IInv'
<1>1. k \in SetKinds
  BY KindsAre
<1>2. NewIsTyped(owned, k, r) /\ NewIsSound(owned, k, r)
  BY DEF NewIsTyped, NewIsSound
<1> QED  BY <1>1, <1>2, SetStep

LEMMA FrontierStep ==
    ASSUME IInv, NEW f \in Submitted("frontiers"), RecordCapabilityFrontier(f)
    PROVE  IInv'
<1>1. Record("frontiers", f) /\ MayRecordCapabilityFrontier(owned, f)
  BY DEF RecordCapabilityFrontier
<1>2. FrontierSound(owned, f)
  BY <1>1 DEF MayRecordCapabilityFrontier, FrontierSound, Listed
<1>3. NewIsTyped(owned, "frontiers", f) /\ NewIsSound(owned, "frontiers", f)
  BY <1>2 DEF NewIsTyped, NewIsSound
<1> QED  BY <1>1, <1>3, KindsAre, SetStep

LEMMA GoalCandidateStep ==
    ASSUME IInv, NEW c, RecordImplementationGoalCandidate(c)
    PROVE  IInv'
<1>1. Record("goalCandidates", c)
  BY DEF RecordImplementationGoalCandidate
<1>2. NewIsTyped(owned, "goalCandidates", c) /\ NewIsSound(owned, "goalCandidates", c)
  BY DEF NewIsTyped, NewIsSound, SubmittedKinds
<1> QED  BY <1>1, <1>2, KindsAre, SetStep

(* A compiled goal has a name. *)
LEMMA CandidateIsNamed ==
    ASSUME IInv, NEW c \in owned.goalCandidates
    PROVE  c.goal.id # None
<1>1. PICK f \in owned.frontiers : GoalCompiles(owned, c.answer, f)
                                   /\ c = CompiledCandidate(c.answer, f)
  BY DEF IInv, Valid, ValidGoalCandidates
<1>2. PICK q \in owned.questions, d \in owned.questionDecisions :
         q.id = c.answer.source.candidate /\ d.id = c.answer.source.decision
  BY <1>1 DEF GoalCompiles
<1>3. /\ f \in Submitted("frontiers") /\ q \in Submitted("questions")
      /\ d \in Submitted("questionDecisions")
  BY DEF IInv, Typed, ProjectKinds
<1>4. GoalName[<<q.id, d.id, f.id>>] # None
  BY <1>3, GoalNameAssumption
<1>5. c.goal = CompiledGoal(c.answer, f)
  BY <1>1 DEF CompiledCandidate
<1>6. c.goal.id = GoalName[<<c.answer.source.candidate, c.answer.source.decision, f.id>>]
  BY <1>5 DEF CompiledGoal
<1> QED  BY <1>2, <1>4, <1>6

LEMMA GoalDecisionStep ==
    ASSUME IInv, NEW d \in GoalDecisions, DecideGoalAdmission(d)
    PROVE  IInv'
<1>1. Record("goalDecisions", d)
  BY DEF DecideGoalAdmission
<1>2. PICK c \in owned.goalCandidates, outcome \in Outcomes :
         d = [id |-> c.id, candidate |-> c.id, evidence |-> GoalEvidence(c),
              outcome |-> outcome, goal |-> IF outcome = "admit" THEN c.goal.id ELSE None]
  BY DEF GoalDecisions
<1>3. IsGoalDecision(d)
  BY <1>2, CandidateIsNamed DEF IsGoalDecision
<1>4. NewIsTyped(owned, "goalDecisions", d) /\ NewIsSound(owned, "goalDecisions", d)
  BY <1>3 DEF NewIsTyped, NewIsSound, SubmittedKinds
<1> QED  BY <1>1, <1>4, KindsAre, SetStep

LEMMA GoalStep ==
    ASSUME IInv, NEW g, SealImplementationGoal(g)
    PROVE  IInv'
<1>1. Record("goals", g) /\ MaySealImplementationGoal(owned, g)
  BY DEF SealImplementationGoal
<1>2. GoalSound(owned, g)
  BY <1>1 DEF MaySealImplementationGoal, GoalSound
<1>3. NewIsTyped(owned, "goals", g) /\ NewIsSound(owned, "goals", g)
  BY <1>2 DEF NewIsTyped, NewIsSound, SubmittedKinds
<1> QED  BY <1>1, <1>3, KindsAre, SetStep

LEMMA EvidenceStep ==
    ASSUME IInv, NEW e \in Submitted("evidence"), RecordDevelopmentEvidence(e)
    PROVE  IInv'
<1>1. Record("evidence", e) /\ MayRecordDevelopmentEvidence(owned, e)
  BY DEF RecordDevelopmentEvidence
<1>2. EvidenceSound(owned, e)
  BY <1>1 DEF MayRecordDevelopmentEvidence, EvidenceSound
<1>3. NewIsTyped(owned, "evidence", e) /\ NewIsSound(owned, "evidence", e)
  BY <1>2 DEF NewIsTyped, NewIsSound
<1> QED  BY <1>1, <1>3, KindsAre, SetStep

LEMMA SuccessorStep ==
    ASSUME IInv, NEW d \in Submitted("successors"), DecideProjectSuccessor(d)
    PROVE  IInv'
<1>1. Record("successors", d) /\ MayDecideProjectSuccessor(owned, d)
  BY DEF DecideProjectSuccessor
<1>2. SuccessorSound(owned, d)
  BY <1>1 DEF MayDecideProjectSuccessor, SuccessorSound
<1>3. NewIsTyped(owned, "successors", d) /\ NewIsSound(owned, "successors", d)
  BY <1>2 DEF NewIsTyped, NewIsSound
<1> QED  BY <1>1, <1>3, KindsAre, SetStep

LEMMA PromotionStep ==
    ASSUME IInv, NEW p \in Submitted("promotions"), RecordPromotionDecision(p)
    PROVE  IInv'
<1>1. Record("promotions", p) /\ MayRecordPromotionDecision(owned, p)
  BY DEF RecordPromotionDecision
<1>2. PromotionSound(owned, p)
  BY <1>1 DEF MayRecordPromotionDecision, PromotionSound
<1>3. NewIsTyped(owned, "promotions", p) /\ NewIsSound(owned, "promotions", p)
  BY <1>2 DEF NewIsTyped, NewIsSound
<1> QED  BY <1>1, <1>3, KindsAre, SetStep

LEMMA CheckpointStep ==
    ASSUME IInv, NEW c \in Submitted("checkpoints"), RecordRecursiveCycleCheckpoint(c)
    PROVE  IInv'
<1>1. owned' = With(owned, "checkpoints", c) /\ Valid(owned')
  BY DEF RecordRecursiveCycleCheckpoint, Record
<1>2. UniqueIds(With(owned, "checkpoints", c))
  BY <1>1 DEF Valid
<1>3. /\ Typed(With(owned, "checkpoints", c))
      /\ Sound(With(owned, "checkpoints", c))
  BY <1>2, CheckpointKeeps DEF IInv
<1> QED  BY <1>1, <1>3 DEF IInv

LEMMA SourceStep ==
    ASSUME IInv, NEW s, OpenGeneratedQuestion(s)
    PROVE  IInv'
<1>1. Record("sources", s) /\ MayOpenGeneratedQuestion(s)
  BY DEF OpenGeneratedQuestion
<1>2. SourceSound(owned, s)
  <2>1. PICK q \in owned.questions, d \in owned.questionDecisions :
           q.id = s.candidate /\ d.id = s.decision /\ Registered(owned, q, d)
    BY <1>1 DEF MayOpenGeneratedQuestion
  <2>2. d.candidate = q.id
    BY <2>1 DEF Registered, Compiles, ActiveDecision
  <2> QED  BY <2>1, <2>2 DEF SourceSound
<1>3. NewIsTyped(owned, "sources", s) /\ NewIsSound(owned, "sources", s)
  BY <1>2 DEF NewIsTyped, NewIsSound, SubmittedKinds, ProjectKinds
<1> QED  BY <1>1, <1>3, KindsAre, SetStep

LEMMA AnswerStep ==
    ASSUME IInv, NEW a, SubmitAnswer(a)
    PROVE  IInv'
<1>1. Record("answers", a) /\ a.source \in owned.sources
  BY DEF SubmitAnswer, MaySubmitAnswer
<1>2. NewIsTyped(owned, "answers", a) /\ NewIsSound(owned, "answers", a)
  BY <1>1 DEF NewIsTyped, NewIsSound, SubmittedKinds, ProjectKinds
<1> QED  BY <1>1, <1>2, KindsAre, SetStep

LEMMA InitIInv == Init => IInv
<1> SUFFICES ASSUME Init  PROVE IInv
  OBVIOUS
<1>1. owned = [k \in Kinds |-> owned[k]] /\ \A k \in SetKinds : owned[k] = {}
  BY DEF Init, SetKinds
<1>2. owned.checkpoints = << >>
  BY DEF Init, Kinds, ProjectKinds
<1>3. /\ owned.anchors = {} /\ owned.limitations = {} /\ owned.questions = {}
      /\ owned.questionDecisions = {} /\ owned.methods = {} /\ owned.methodDecisions = {}
      /\ owned.candidates = {} /\ owned.frontiers = {} /\ owned.goalCandidates = {}
      /\ owned.goalDecisions = {} /\ owned.goals = {} /\ owned.environments = {}
      /\ owned.evidence = {} /\ owned.reviews = {} /\ owned.successors = {}
      /\ owned.promotions = {} /\ owned.stops = {} /\ owned.sources = {} /\ owned.answers = {}
  BY <1>1, KindsAre
<1>4. Typed(owned)
  <2>1. << >> \in Seq(Submitted("checkpoints"))
    OBVIOUS
  <2>2. \A k \in SubmittedKinds : owned[k] \subseteq Submitted(k)
    BY <1>1 DEF SubmittedKinds, SetKinds, Kinds
  <2> QED  BY <1>1, <1>2, <1>3, <2>1, <2>2, FS_EmptySet DEF Typed, SubmittedKinds
<1>5. Valid(owned)
  <2>1. \A k \in ProjectKinds : Items(owned, k) = {}
    <3> SUFFICES ASSUME NEW k \in ProjectKinds  PROVE Items(owned, k) = {}
      OBVIOUS
    <3>1. CASE k = "checkpoints"
      <4>1. Len(owned[k]) = 0 /\ 1 .. 0 = {}
        BY <1>2, <3>1
      <4> QED  BY <3>1, <4>1 DEF Items
    <3>2. CASE k # "checkpoints"
      BY <1>1, <3>2 DEF Items, SetKinds, Kinds
    <3> QED  BY <3>1, <3>2
  <2>2. UniqueIds(owned)
    BY <2>1 DEF UniqueIds
  <2>3. ValidCycles(owned)
    BY <1>2, <1>3 DEF ValidCycles
  <2> QED  BY <1>3, <2>2, <2>3 DEF Valid, ValidLimitations, ValidQuestionDecisions,
             ValidMethods, ValidFrontiers, ValidGoalDecisions, ValidGoals, ValidDevelopment,
             ValidReviews, ValidSuccessors, ValidGoalCandidates
<1>6. Sound(owned)
  BY <1>3 DEF Sound
<1> QED  BY <1>4, <1>5, <1>6 DEF IInv

LEMMA NextIInv == IInv /\ [Next]_owned => IInv'
<1> SUFFICES ASSUME IInv, [Next]_owned  PROVE IInv'
  OBVIOUS
<1>1. CASE UNCHANGED owned
  BY <1>1 DEF IInv
<1>2. CASE Next
  <2>1. ASSUME NEW a \in Unrecorded("anchors"), RecordProjectAnchor(a)  PROVE IInv'
    BY <2>1, PlainStep DEF Unrecorded, RecordProjectAnchor
  <2>2. ASSUME NEW l \in Unrecorded("limitations"), RecordCapabilityLimitation(l)
        PROVE  IInv'
    BY <2>2, PlainStep DEF Unrecorded, RecordCapabilityLimitation
  <2>3. ASSUME NEW q \in Unrecorded("questions"), RecordQuestionContractCandidate(q)
        PROVE  IInv'
    BY <2>3, PlainStep DEF Unrecorded, RecordQuestionContractCandidate
  <2>4. ASSUME NEW d \in Unrecorded("questionDecisions"), DecideQuestionRepertoire(d)
        PROVE  IInv'
    BY <2>4, PlainStep DEF Unrecorded, DecideQuestionRepertoire
  <2>5. ASSUME NEW m \in Unrecorded("methods"), RecordMethodBindingCandidate(m)  PROVE IInv'
    BY <2>5, PlainStep DEF Unrecorded, RecordMethodBindingCandidate
  <2>6. ASSUME NEW d \in Unrecorded("methodDecisions"), DecideMethodAdmission(d)  PROVE IInv'
    BY <2>6, PlainStep DEF Unrecorded, DecideMethodAdmission
  <2>7. ASSUME NEW c \in Unrecorded("candidates"), RecordCapabilitySuccessorCandidate(c)
        PROVE  IInv'
    BY <2>7, PlainStep DEF Unrecorded, RecordCapabilitySuccessorCandidate
  <2>8. ASSUME NEW n \in Unrecorded("environments"), RecordCandidateEnvironment(n)
        PROVE  IInv'
    BY <2>8, PlainStep DEF Unrecorded, RecordCandidateEnvironment
  <2>9. ASSUME NEW r \in Unrecorded("reviews"), RecordIndependentReview(r)  PROVE IInv'
    BY <2>9, PlainStep DEF Unrecorded, RecordIndependentReview
  <2>10. ASSUME NEW s \in Unrecorded("stops"), RecordRecursiveStopDisposition(s)  PROVE IInv'
    BY <2>10, PlainStep DEF Unrecorded, RecordRecursiveStopDisposition
  <2>11. ASSUME NEW f \in Unrecorded("frontiers"), RecordCapabilityFrontier(f)  PROVE IInv'
    BY <2>11, FrontierStep DEF Unrecorded
  <2>12. ASSUME NEW e \in Unrecorded("evidence"), RecordDevelopmentEvidence(e)  PROVE IInv'
    BY <2>12, EvidenceStep DEF Unrecorded
  <2>13. ASSUME NEW d \in Unrecorded("successors"), DecideProjectSuccessor(d)  PROVE IInv'
    BY <2>13, SuccessorStep DEF Unrecorded
  <2>14. ASSUME NEW p \in Unrecorded("promotions"), RecordPromotionDecision(p)  PROVE IInv'
    BY <2>14, PromotionStep DEF Unrecorded
  <2>15. ASSUME NEW c \in Unrecorded("checkpoints"), RecordRecursiveCycleCheckpoint(c)
         PROVE  IInv'
    BY <2>15, CheckpointStep DEF Unrecorded
  <2> QED  BY <1>2, <2>1, <2>2, <2>3, <2>4, <2>5, <2>6, <2>7, <2>8, <2>9, <2>10, <2>11, <2>12,
             <2>13, <2>14, <2>15, GoalCandidateStep, GoalDecisionStep, GoalStep, SourceStep,
             AnswerStep DEF Next
<1> QED  BY <1>1, <1>2

LEMMA AlwaysIInv == Spec => []IInv
BY InitIInv, NextIInv, PTL DEF Spec

------------------------------------------------------------------------------
(* Admissions and promotions. *)

(* A valid review is of evidence that passed for one goal, on one commit   *)
(* and in one environment.                                                 *)
LEMMA ReviewIsOwned ==
    ASSUME IInv, NEW r \in owned.reviews
    PROVE  /\ \E g \in owned.goals : g.id = r.goal
           /\ \E n \in owned.environments :
                 n.id = r.environment /\ n.goal = r.goal /\ n.developer # r.reviewer
           /\ \A id \in r.evidence : \E e \in owned.evidence :
                 /\ e.id = id /\ e.goal = r.goal /\ e.environment = r.environment
                 /\ e.commit = r.commit /\ (r.outcome = "valid" => e.outcome = "pass")
<1>1. UniqueIds(owned) /\ ValidReviews(owned)
  BY DEF IInv, Valid
<1>2. r.goal \in Ids(owned, "goals") /\ r.evidence \subseteq Ids(owned, "evidence")
  BY <1>1 DEF ValidReviews
<1>3. \E g \in owned.goals : g.id = r.goal
  BY <1>2, KindsAre, IdsAre
<1>4. \A id \in r.evidence : \E e \in owned.evidence :
         /\ e.id = id /\ e.goal = r.goal /\ e.environment = r.environment
         /\ e.commit = r.commit /\ (r.outcome = "valid" => e.outcome = "pass")
  <2> SUFFICES ASSUME NEW id \in r.evidence
               PROVE  \E e \in owned.evidence :
                 /\ e.id = id /\ e.goal = r.goal /\ e.environment = r.environment
                 /\ e.commit = r.commit /\ (r.outcome = "valid" => e.outcome = "pass")
    OBVIOUS
  <2> DEFINE e == Get(owned, "evidence", id)
  <2>1. e \in owned.evidence /\ e.id = id
    <3>1. "evidence" \in ProjectKinds \ {"checkpoints"} /\ id \in Ids(owned, "evidence")
      BY <1>2 DEF ProjectKinds
    <3> QED  BY <1>1, <3>1, GetFinds
  <2>2. /\ e.goal = r.goal /\ e.environment = r.environment
        /\ e.commit = r.commit /\ (r.outcome = "valid" => e.outcome = "pass")
    BY <1>1 DEF ValidReviews
  <2> HIDE DEF e
  <2> QED  BY <2>1, <2>2
<1>5. \E n \in owned.environments :
         n.id = r.environment /\ n.goal = r.goal /\ n.developer # r.reviewer
  BY <1>1 DEF ValidReviews
<1> QED  BY <1>3, <1>4, <1>5

(* What passes the evidence check of an admission has been reviewed. *)
Reviewed(evidence, limitation) ==
    \E r \in owned.reviews, n \in owned.environments, g \in owned.goals,
       c \in owned.candidates :
        /\ r.outcome = "valid" /\ r.evidence = evidence
        /\ n.id = r.environment /\ n.developer # r.reviewer
        /\ g.id = r.goal /\ c.id = g.candidate /\ c.limitation = limitation
        /\ \A id \in evidence : \E e \in owned.evidence :
              e.id = id /\ e.goal = g.id /\ e.outcome = "pass"

LEMMA AdmissionIsReviewed ==
    ASSUME IInv, NEW evidence, evidence # {}, NEW limitation,
           AdmissionEvidence(owned, evidence, limitation, TRUE)
    PROVE  Reviewed(evidence, limitation)
<1>1. UniqueIds(owned)
  BY DEF IInv, Valid
<1>2. PICK r \in owned.reviews : r.outcome = "valid" /\ r.evidence = evidence
  BY DEF AdmissionEvidence
<1>3. PICK g \in owned.goals : g.id = r.goal
  BY ReviewIsOwned
<1>4. PICK n \in owned.environments : n.id = r.environment /\ n.developer # r.reviewer
  BY ReviewIsOwned
<1>5. \A id \in evidence : \E e \in owned.evidence :
         e.id = id /\ e.goal = g.id /\ e.outcome = "pass"
  BY <1>2, <1>3, ReviewIsOwned
<1>6. PICK id \in evidence : TRUE
  OBVIOUS
<1>7. PICK e \in owned.evidence : e.id = id /\ e.goal = g.id
  BY <1>5
<1>8. Get(owned, "evidence", id) = e
  <2>1. "evidence" \in ProjectKinds \ {"checkpoints"}
    BY DEF ProjectKinds
  <2> QED  BY <1>1, <1>7, <2>1, GetIs
<1>9. PICK h \in owned.goals, c \in owned.candidates :
         h.id = e.goal /\ c.id = h.candidate /\ c.limitation = limitation
  BY <1>8 DEF AdmissionEvidence
<1>10. h = g
  <2>1. "goals" \in ProjectKinds \ {"checkpoints"}
    BY DEF ProjectKinds
  <2> QED  BY <1>1, <1>7, <1>9, <2>1, SameIdSame
<1> QED  BY <1>2, <1>3, <1>4, <1>5, <1>9, <1>10 DEF Reviewed

(* Whatever DecideQuestionRepertoire or DecideMethodAdmission admitted     *)
(* rests, in every later state, on evidence about its own limitation that  *)
(* passed and that one independent review found valid.                     *)
THEOREM AdmittedIsAlwaysReviewed == Spec => []AdmittedIsReviewed
<1>1. ASSUME IInv  PROVE AdmittedIsReviewed
  <2> SUFFICES ASSUME NEW d \in owned.questionDecisions \cup owned.methodDecisions,
                      d.outcome = "admit"
               PROVE  /\ d.evidence # {}
                      /\ AdmissionEvidence(owned, d.evidence, LimitationOf(d), TRUE)
    <3> SUFFICES ASSUME NEW x \in owned.questionDecisions \cup owned.methodDecisions,
                        x.outcome = "admit"
                 PROVE  Reviewed(x.evidence, LimitationOf(x))
      BY Zenon DEF AdmittedIsReviewed, Reviewed
    <3> QED  BY <1>1, AdmissionIsReviewed
  <2>1. UniqueIds(owned) /\ ValidQuestionDecisions(owned) /\ ValidMethods(owned)
    BY <1>1 DEF IInv, Valid
  <2>2. owned.questionDecisions \subseteq Submitted("questionDecisions")
        /\ owned.methodDecisions \subseteq Submitted("methodDecisions")
    BY <1>1 DEF IInv, Typed, ProjectKinds
  <2>3. "questions" \in ProjectKinds \ {"checkpoints"} /\ "methods" \in ProjectKinds \ {"checkpoints"}
    BY DEF ProjectKinds
  <2>4. CASE d \in owned.questionDecisions
    <3>1. PICK q \in owned.questions : /\ q.id = d.candidate
             /\ AdmissionEvidence(owned, d.evidence, q.limitation, d.outcome = "admit")
      BY <2>1, <2>4 DEF ValidQuestionDecisions
    <3>2. Get(owned, "questions", d.candidate) = q
      BY <2>1, <2>3, <3>1, GetIs
    <3>3. LimitationOf(d) = q.limitation
      BY <2>4, <3>2 DEF LimitationOf
    <3>4. d.evidence # {}
      BY <2>2, <2>4, SubmittedAssumption DEF IsQuestionDecision
    <3> QED  BY <3>1, <3>3, <3>4 DEF AdmissionEvidence
  <2>5. CASE d \notin owned.questionDecisions
    <3>1. PICK m \in owned.methods : /\ m.id = d.candidate
             /\ AdmissionEvidence(owned, d.evidence, m.limitation, d.outcome = "admit")
      BY <2>1, <2>5 DEF ValidMethods
    <3>2. Get(owned, "methods", d.candidate) = m
      BY <2>1, <2>3, <3>1, GetIs
    <3>3. LimitationOf(d) = m.limitation
      BY <2>5, <3>2 DEF LimitationOf
    <3>4. d.evidence # {}
      BY <2>2, <2>5, SubmittedAssumption DEF IsMethodDecision
    <3> QED  BY <3>1, <3>3, <3>4 DEF AdmissionEvidence
  <2> QED  BY <2>4, <2>5
<1> QED  BY <1>1, AlwaysIInv, PTL

(* A question obligation keeps the decision open_generated_question opened *)
(* it under, however often the question is decided again.                  *)
THEOREM OpenQuestionAlwaysKeepsItsDecision == Spec => []OpenQuestionKeepsItsDecision
<1>1. ASSUME IInv  PROVE OpenQuestionKeepsItsDecision
  <2> SUFFICES ASSUME NEW s \in owned.sources, NEW q \in owned.questions,
                      NEW d \in owned.questionDecisions,
                      q.id = s.candidate, Registered(owned, q, d)
               PROVE  d.id = s.decision
    BY DEF OpenQuestionKeepsItsDecision
  <2>1. PICK e \in owned.questionDecisions : e.id = s.decision /\ e.candidate = s.candidate
    BY <1>1 DEF IInv, Sound, SourceSound
  <2>2. {x \in owned.questionDecisions : x.candidate = q.id} = {d}
    BY DEF Registered, Compiles, ActiveDecision
  <2> QED  BY <2>1, <2>2
<1> QED  BY <1>1, AlwaysIInv, PTL

(* The decision on what a sealed goal was compiled from, if it was.        *)
LEMMA GoalIsAdmitted ==
    ASSUME IInv, NEW g \in owned.goals, NEW x \in owned.goalCandidates, x.goal.id = g.id
    PROVE  /\ x.goal = g
           /\ {y.outcome : y \in {z \in owned.goalDecisions : z.candidate = x.id}} = {"admit"}
<1>1. AdmittedIfGenerated(owned, g)
  BY DEF IInv, Valid, ValidGoals
<1>2. PICK c \in owned.goalCandidates :
         /\ {y \in owned.goalCandidates : y.goal.id = g.id} = {c}
         /\ c.goal = g
         /\ \E d \in owned.goalDecisions : d.candidate = c.id /\ d.outcome = "admit"
  BY <1>1 DEF AdmittedIfGenerated
<1>3. c = x
  BY <1>2
<1>4. PICK d \in owned.goalDecisions : d.candidate = x.id /\ d.outcome = "admit"
  BY <1>2, <1>3
<1>5. \A z \in owned.goalDecisions : z.candidate = x.id => z = d
  BY <1>4 DEF IInv, Valid, ValidGoalDecisions
<1>6. {z \in owned.goalDecisions : z.candidate = x.id} = {d}
  BY <1>4, <1>5
<1> QED  BY <1>2, <1>3, <1>4, <1>6

(* Promotion p rests on successor decision d, review r, environment n,     *)
(* goal g, frontier f, candidate c and anchor a.                           *)
Earned(p, d, r, n, g, f, c, a) ==
    /\ d.id = p.successor /\ d.disposition = "replace"
    /\ r.id = d.review /\ r.outcome = "valid" /\ r.commit = p.commit
    /\ n.id = r.environment /\ n.developer # r.reviewer
    /\ g.id = n.goal /\ g.id = r.goal
    /\ f.id = g.frontier /\ f.status = "ready" /\ f.selected = c.id
    /\ c.id = g.candidate /\ c.id = d.candidate
    /\ c.preserved \subseteq d.preserved /\ c.gains = d.gains
    /\ a.id = f.anchor /\ a.commit = n.base
    /\ \A x \in owned.goalCandidates : x.goal.id = g.id =>
          /\ x.goal = g
          /\ {y.outcome : y \in {z \in owned.goalDecisions : z.candidate = x.id}} = {"admit"}
    /\ \A id \in r.evidence : \E e \in owned.evidence :
          /\ e.id = id /\ e.outcome = "pass"
          /\ e.commit = p.commit /\ e.base = a.commit /\ e.gate \in g.gates

(* RecordPromotionDecision merges only what was earned: the reviewed       *)
(* commit, with passing evidence under the goal's gates, from the anchor   *)
(* of the frontier that selected the candidate, for an admitted goal; and  *)
(* no later command takes that from it.                                    *)
THEOREM MergedIsAlwaysEarned == Spec => []MergedIsEarned
<1>1. ASSUME IInv  PROVE MergedIsEarned
  <2>1. UniqueIds(owned) /\ Valid(owned) /\ Sound(owned)
    BY <1>1 DEF IInv, Valid
  <2>2. \A k \in {"reviews", "environments", "goals", "frontiers", "candidates"} :
           \A x, y \in owned[k] : x.id = y.id => x = y
    BY <2>1, SameIdSame DEF ProjectKinds
  <2>3. /\ \A x, y \in owned.reviews : x.id = y.id => x = y
        /\ \A x, y \in owned.environments : x.id = y.id => x = y
        /\ \A x, y \in owned.goals : x.id = y.id => x = y
        /\ \A x, y \in owned.frontiers : x.id = y.id => x = y
    BY <2>2
  <2> SUFFICES ASSUME NEW p \in owned.promotions, p.outcome = "merged"
               PROVE \E d \in owned.successors, r \in owned.reviews, n \in owned.environments,
                        g \in owned.goals, f \in owned.frontiers, c \in owned.candidates,
                        a \in owned.anchors : Earned(p, d, r, n, g, f, c, a)
    BY Zenon DEF MergedIsEarned, Earned
  <2>4. PICK d \in owned.successors, r \in owned.reviews :
           /\ d.id = p.successor /\ r.id = d.review
           /\ d.disposition = "replace" /\ r.outcome = "valid" /\ p.commit = r.commit
    BY <2>1 DEF Sound, PromotionSound
  <2>5. SuccessorSound(owned, d)
    BY <2>1 DEF Sound
  <2>6. PICK g \in owned.goals, c \in owned.candidates, r1 \in owned.reviews,
             n \in owned.environments :
           /\ c.id = d.candidate /\ r1.id = d.review
           /\ g.candidate = c.id /\ n.goal = g.id /\ r1.goal = g.id
           /\ r1.environment = n.id
           /\ c.preserved \subseteq d.preserved /\ c.gains = d.gains
    BY <2>4, <2>5 DEF SuccessorSound
  <2>7. r1 = r
    BY <2>3, <2>4, <2>6
  <2>8. n.developer # r.reviewer
    BY <1>1, <2>3, <2>6, <2>7, ReviewIsOwned
  <2>9. PICK f \in owned.frontiers :
           f.id = g.frontier /\ f.status = "ready" /\ f.selected = g.candidate
    BY <2>1 DEF Sound, GoalSound
  <2>10. f.anchor = g.anchor
    <3>1. PICK f1 \in owned.frontiers : f1.id = g.frontier /\ f1.anchor = g.anchor
      BY <2>1 DEF Valid, ValidGoals
    <3> QED  BY <2>3, <2>9, <3>1
  <2>11. PICK a \in owned.anchors : a.id = g.anchor /\ a.commit = n.base
    <3>1. PICK g1 \in owned.goals, a \in owned.anchors :
             g1.id = n.goal /\ a.id = g1.anchor /\ a.commit = n.base
      BY <2>1 DEF Valid, ValidDevelopment
    <3> QED  BY <2>3, <2>6, <3>1
  <2>12. \A x \in owned.goalCandidates : x.goal.id = g.id =>
            /\ x.goal = g
            /\ {y.outcome : y \in {z \in owned.goalDecisions : z.candidate = x.id}} = {"admit"}
    BY <1>1, GoalIsAdmitted
  <2>13. ASSUME NEW id \in r.evidence
         PROVE  \E e \in owned.evidence :
                  /\ e.id = id /\ e.outcome = "pass"
                  /\ e.commit = p.commit /\ e.base = a.commit /\ e.gate \in g.gates
    <3>1. PICK e \in owned.evidence :
             /\ e.id = id /\ e.goal = r.goal /\ e.environment = r.environment
             /\ e.commit = r.commit /\ e.outcome = "pass"
      BY <1>1, <2>4, ReviewIsOwned
    <3>2. PICK g1 \in owned.goals, n1 \in owned.environments :
             /\ g1.id = e.goal /\ n1.id = e.environment
             /\ n1.base = e.base /\ e.gate \in g1.gates
      BY <2>1 DEF Sound, EvidenceSound
    <3>3. g1 = g /\ n1 = n
      BY <2>3, <2>6, <2>7, <3>1, <3>2
    <3> QED  BY <2>4, <2>11, <3>1, <3>2, <3>3
  <2>14. /\ d.id = p.successor /\ d.disposition = "replace"
         /\ r.id = d.review /\ r.outcome = "valid" /\ r.commit = p.commit
         /\ n.id = r.environment /\ n.developer # r.reviewer
         /\ g.id = n.goal /\ g.id = r.goal
         /\ f.id = g.frontier /\ f.status = "ready" /\ f.selected = c.id
         /\ c.id = g.candidate /\ c.id = d.candidate
         /\ c.preserved \subseteq d.preserved /\ c.gains = d.gains
         /\ a.id = f.anchor /\ a.commit = n.base
    BY <2>4, <2>6, <2>7, <2>8, <2>9, <2>10, <2>11
  <2>15. Earned(p, d, r, n, g, f, c, a)
    BY <2>12, <2>13, <2>14 DEF Earned
  <2> QED  BY <2>15, Zenon
<1> QED  BY <1>1, AlwaysIInv, PTL

------------------------------------------------------------------------------
(* Selection. *)

(* Every set of natural numbers that is not empty has a least one. *)
LEMMA LeastNatural ==
    ASSUME NEW T \in SUBSET Nat, NEW x \in T
    PROVE  \E n \in T : \A m \in T : n <= m
<1> DEFINE R == OpToRel(<, Nat)
<1>1. PICK n \in T : \A m \in T : <<m, n>> \notin R
  <2>1. IsWellFoundedOn(R, Nat)
    BY NatLessThanWellFounded
  <2> HIDE DEF R
  <2> QED  BY <2>1, WFMin
<1>2. \A m \in T : ~ (m < n)
  BY <1>1 DEF OpToRel
<1> QED  BY <1>2

(* candidate_dominates compares numbers: a cost that was not estimated     *)
(* makes two candidates incomparable.                                      *)
LEMMA CostsAreNumbers ==
    ASSUME NEW c, IsSuccessorCandidate(c), KnownCosts(c), NEW axis \in DOMAIN c.costs
    PROVE  c.costs[axis] \in Nat
BY DEF IsSuccessorCandidate, KnownCosts

(* Nothing dominates itself. *)
LEMMA DominatesIrreflexive ==
    ASSUME NEW c, IsSuccessorCandidate(c)
    PROVE  ~ Dominates(c, c)
<1> SUFFICES ASSUME Dominates(c, c)  PROVE FALSE
  OBVIOUS
<1>1. KnownCosts(c) /\ \E axis \in DOMAIN c.costs : c.costs[axis] < c.costs[axis]
  BY DEF Dominates, ComparableCosts
<1>2. PICK axis \in DOMAIN c.costs : c.costs[axis] < c.costs[axis]
  BY <1>1
<1>3. c.costs[axis] \in Nat
  BY <1>1, CostsAreNumbers
<1> QED  BY <1>2, <1>3

(* What dominates a dominating candidate dominates what that one does.     *)
LEMMA DominatesTransitive ==
    ASSUME NEW a, NEW b, NEW c, IsSuccessorCandidate(a), IsSuccessorCandidate(b),
           IsSuccessorCandidate(c), Dominates(a, b), Dominates(b, c)
    PROVE  Dominates(a, c)
<1>1. /\ KnownCosts(a) /\ KnownCosts(b) /\ KnownCosts(c)
      /\ DOMAIN a.costs = DOMAIN b.costs /\ DOMAIN b.costs = DOMAIN c.costs
      /\ NoCostlier(a, b) /\ NoCostlier(b, c)
  BY DEF Dominates, ComparableCosts
<1>2. \A axis \in DOMAIN a.costs :
         a.costs[axis] \in Nat /\ b.costs[axis] \in Nat /\ c.costs[axis] \in Nat
  BY <1>1, CostsAreNumbers
<1>3. \A axis \in DOMAIN a.costs :
         a.costs[axis] <= b.costs[axis] /\ b.costs[axis] <= c.costs[axis]
  BY <1>1 DEF NoCostlier
<1>4. NoCostlier(a, c)
  BY <1>2, <1>3 DEF NoCostlier
<1>5. (\E axis \in DOMAIN a.costs : a.costs[axis] < b.costs[axis]) =>
         \E axis \in DOMAIN a.costs : a.costs[axis] < c.costs[axis]
  BY <1>2, <1>3
<1>6. (\E axis \in DOMAIN b.costs : b.costs[axis] < c.costs[axis]) =>
         \E axis \in DOMAIN a.costs : a.costs[axis] < c.costs[axis]
  BY <1>1, <1>2, <1>3
<1>7. SamePlace(a, c) /\ ComparableCosts(a, c)
  BY <1>1 DEF Dominates, SamePlace, ComparableCosts
<1>8. /\ b.preserved \subseteq a.preserved /\ c.preserved \subseteq b.preserved
      /\ b.gains \subseteq a.gains /\ c.gains \subseteq b.gains
  BY DEF Dominates
<1>9. \/ a.preserved # b.preserved \/ a.gains # b.gains
      \/ \E axis \in DOMAIN a.costs : a.costs[axis] < b.costs[axis]
  BY DEF Dominates
<1>10. \/ a.preserved # c.preserved \/ a.gains # c.gains
       \/ \E axis \in DOMAIN a.costs : a.costs[axis] < c.costs[axis]
  BY <1>5, <1>8, <1>9
<1> QED  BY <1>4, <1>7, <1>8, <1>10 DEF Dominates

(* derive_capability_frontier drops a candidate only for one it keeps:     *)
(* among the finitely many candidates, domination does not go round.       *)
LEMMA KeptDominate ==
    ASSUME NEW C, IsFiniteSet(C), \A c \in C : IsSuccessorCandidate(c),
           NEW start \in C \ Nondominated(C)
    PROVE  \E d \in Nondominated(C) : Dominates(d, start)
<1> DEFINE Above(c) == {d \in C : Dominates(d, c)}
           Bad == {c \in C \ Nondominated(C) : ~ \E d \in Nondominated(C) : Dominates(d, c)}
           Sizes == {Cardinality(Above(c)) : c \in Bad}
<1> SUFFICES ASSUME start \in Bad  PROVE FALSE
  OBVIOUS
<1>1. \A c \in C : IsFiniteSet(Above(c)) /\ Cardinality(Above(c)) \in Nat
  BY FS_Subset, FS_CardinalityType
<1>2. Sizes \in SUBSET Nat /\ Cardinality(Above(start)) \in Sizes
  BY <1>1
<1>3. PICK n \in Sizes : \A m \in Sizes : n <= m
  <2> HIDE DEF Sizes
  <2> QED  BY <1>2, LeastNatural
<1>4. PICK c \in Bad : \A x \in Bad : Cardinality(Above(c)) <= Cardinality(Above(x))
  BY <1>3
<1>5. PICK d \in C : Dominates(d, c)
  BY <1>4 DEF Nondominated
<1>6. Above(d) \subseteq Above(c)
  BY <1>4, <1>5, DominatesTransitive
<1>7. d \in Above(c) /\ d \notin Above(d)
  BY <1>5, DominatesIrreflexive
<1>8. Cardinality(Above(d)) < Cardinality(Above(c))
  <2>1. IsFiniteSet(Above(c)) /\ Cardinality(Above(c)) \in Nat
        /\ Cardinality(Above(d)) \in Nat
    BY <1>1, <1>4, <1>5
  <2>2. Above(d) # Above(c)
    BY <1>7
  <2> HIDE DEF Above
  <2>3. Cardinality(Above(d)) <= Cardinality(Above(c))
        /\ Cardinality(Above(d)) # Cardinality(Above(c))
    BY <1>6, <2>1, <2>2, FS_Subset
  <2> QED  BY <2>1, <2>3
<1>9. d \notin Bad
  <2> SUFFICES ASSUME d \in Bad  PROVE FALSE
    OBVIOUS
  <2>1. Cardinality(Above(c)) <= Cardinality(Above(d))
    BY <1>4
  <2>2. Cardinality(Above(c)) \in Nat /\ Cardinality(Above(d)) \in Nat
    BY <1>1, <1>4, <1>5
  <2> HIDE DEF Above
  <2> QED  BY <1>8, <2>1, <2>2
<1>10. d \notin Nondominated(C)
  BY <1>4, <1>5
<1>11. PICK e \in Nondominated(C) : Dominates(e, d)
  BY <1>5, <1>9, <1>10
<1>12. e \in C
  BY <1>11 DEF Nondominated
<1>13. Dominates(e, c)
  BY <1>4, <1>5, <1>11, <1>12, DominatesTransitive
<1> QED  BY <1>4, <1>11, <1>13

(* The selected one is the first of the cheapest, and none is selected     *)
(* only if there is no cheapest one.                                       *)
LEMMA SelectedIs ==
    ASSUME NEW C, \A c \in C : IsSuccessorCandidate(c)
    PROVE  /\ Selected(C) # None =>
                \E c \in CostMinima(C) : c.id = Selected(C)
           /\ Selected(C) = None => CostMinima(C) = {}
<1>1. CostMinima(C) \subseteq C
  BY DEF CostMinima, Selectable, Nondominated
<1>2. CASE CostMinima(C) = {}
  BY <1>2 DEF Selected
<1>3. CASE CostMinima(C) # {}
  <2> DEFINE Places == {IdOrder[c.id] : c \in CostMinima(C)}
  <2>1. \A c \in CostMinima(C) : c.id \in DOMAIN IdOrder
    BY <1>1 DEF IsSuccessorCandidate
  <2>2. PICK x \in CostMinima(C) : TRUE
    BY <1>3
  <2>3. Places \in SUBSET Nat /\ IdOrder[x.id] \in Places
    BY <2>1, IdOrderAssumption
  <2>4. PICK n \in Places : \A m \in Places : n <= m
    <3> HIDE DEF Places
    <3> QED  BY <2>3, LeastNatural
  <2>5. \E c \in CostMinima(C) : \A d \in CostMinima(C) : IdOrder[c.id] <= IdOrder[d.id]
    BY <2>4
  <2>6. PICK c \in CostMinima(C) : Selected(C) = c.id
    BY <1>3, <2>5 DEF Selected
  <2>7. c.id # None
    BY <2>1, IdOrderAssumption
  <2> QED  BY <2>6, <2>7
<1> QED  BY <1>2, <1>3

(* derive_capability_frontier is sound for any candidates: it leaves out   *)
(* only what a kept candidate beats, keeps nothing that a kept one beats,  *)
(* and what it selects is nowhere costlier than what it might have         *)
(* selected instead; later candidates never change what a frontier lists.  *)
THEOREM FrontierIsAlwaysSound == Spec => []FrontierIsSound
<1>1. ASSUME IInv  PROVE FrontierIsSound
  <2> SUFFICES ASSUME NEW f \in owned.frontiers
               PROVE  LET listed == {c \in owned.candidates : c.id \in f.candidates}
                          kept == {c \in listed : c.id \in f.nondominated}
                          tried == {c \in kept : c.reversible /\ c.discriminator # None} IN
                      /\ \A c \in listed \ kept : \E d \in kept : Dominates(d, c)
                      /\ \A c, d \in kept : ~ Dominates(c, d)
                      /\ f.selected # None =>
                            \E c \in tried :
                                /\ c.id = f.selected
                                /\ \A d \in tried : ComparableCosts(c, d) /\ NoCostlier(c, d)
                      /\ f.status = "unknown" =>
                            ~ \E c \in tried :
                                \A d \in tried : ComparableCosts(c, d) /\ NoCostlier(c, d)
    BY DEF FrontierIsSound
  <2> DEFINE C == Listed(owned, f)
             kept == {c \in C : c.id \in f.nondominated}
             tried == {c \in kept : c.reversible /\ c.discriminator # None}
  <2>1. UniqueIds(owned) /\ Typed(owned) /\ FrontierSound(owned, f)
    BY <1>1 DEF IInv, Valid, Sound
  <2>2. \A x, y \in C : x.id = y.id => x = y
    BY <2>1, SameIdSame DEF ProjectKinds, Listed
  <2>3. IsFiniteSet(C)
    BY <2>1, FS_Subset DEF Typed, Listed
  <2>4. \A c \in C : IsSuccessorCandidate(c)
    <3>1. "candidates" \in ProjectKinds \ {"goals", "goalCandidates", "goalDecisions",
                                           "checkpoints"}
      BY DEF ProjectKinds
    <3>2. owned.candidates \subseteq Submitted("candidates")
      BY <2>1, <3>1 DEF Typed
    <3> QED  BY <3>2, SubmittedAssumption DEF Listed
  <2> HIDE DEF C
  <2>5. /\ f.nondominated = {c.id : c \in Nondominated(C)}
        /\ f.selected = Selected(C)
        /\ f.status = IF Selected(C) = None THEN "unknown" ELSE "ready"
    <3>1. f = CapabilityFrontier(f.id, C)
      BY <2>1 DEF FrontierSound, C
    <3>2. PICK x : x = CapabilityFrontier(f.id, C)
      OBVIOUS
    <3>3. /\ x.nondominated = {c.id : c \in Nondominated(C)}
          /\ x.selected = Selected(C)
          /\ x.status = IF Selected(C) = None THEN "unknown" ELSE "ready"
      BY <3>2 DEF CapabilityFrontier
    <3> QED  BY <3>1, <3>2, <3>3
  <2>6. Nondominated(C) \subseteq C
    BY DEF Nondominated
  <2>7. kept = Nondominated(C)
    BY <2>2, <2>5, <2>6
  <2>8. tried = Selectable(C)
    BY <2>7 DEF Selectable
  <2>9. \A c \in C \ kept : \E d \in kept : Dominates(d, c)
    BY <2>3, <2>4, <2>7, KeptDominate
  <2>10. \A c, d \in kept : ~ Dominates(c, d)
    <3> SUFFICES ASSUME NEW c \in kept, NEW d \in kept, Dominates(c, d)  PROVE FALSE
      OBVIOUS
    <3>1. c \in C /\ d \in C /\ d \in Nondominated(C)
      BY <2>6, <2>7
    <3>2. c.id = d.id
      BY <3>1 DEF Nondominated
    <3>3. c = d
      BY <2>2, <3>1, <3>2
    <3> QED  BY <2>4, <3>1, <3>3, DominatesIrreflexive
  <2>11. f.selected # None =>
            \E c \in tried : /\ c.id = f.selected
                             /\ \A d \in tried : ComparableCosts(c, d) /\ NoCostlier(c, d)
    <3> SUFFICES ASSUME f.selected # None
                 PROVE  \E c \in tried :
                            /\ c.id = f.selected
                            /\ \A d \in tried : ComparableCosts(c, d) /\ NoCostlier(c, d)
      OBVIOUS
    <3>1. PICK c \in CostMinima(C) : c.id = f.selected
      BY <2>4, <2>5, SelectedIs
    <3>2. c \in tried /\ \A d \in tried : ComparableCosts(c, d) /\ NoCostlier(c, d)
      <4> HIDE DEF tried
      <4> QED  BY <2>8, <3>1 DEF CostMinima
    <3> QED  BY <3>1, <3>2
  <2>12. f.status = "unknown" =>
            ~ \E c \in tried : \A d \in tried : ComparableCosts(c, d) /\ NoCostlier(c, d)
    <3> SUFFICES ASSUME f.status = "unknown", NEW c \in tried,
                        \A d \in tried : ComparableCosts(c, d) /\ NoCostlier(c, d)
                 PROVE  FALSE
      OBVIOUS
    <3>1. CostMinima(C) = {}
      BY <2>4, <2>5, SelectedIs
    <3> HIDE DEF tried
    <3>2. \A a, b \in tried : ComparableCosts(a, b)
      BY DEF ComparableCosts
    <3>3. c \in CostMinima(C)
      BY <2>8, <3>2 DEF CostMinima
    <3> QED  BY <3>1, <3>3
  <2> QED  BY <2>9, <2>10, <2>11, <2>12, Zenon DEF C, Listed
<1> QED  BY <1>1, AlwaysIInv, PTL

------------------------------------------------------------------------------
(* decide and the validators, as long as no goal candidate is recorded.    *)

(* What the validators require of one record of each kind. *)
QuestionDecisionFolds(o, d) ==
    \E q \in o.questions :
        /\ q.id = d.candidate
        /\ d.outcome = "admit" => q.family = "recursive-project"
        /\ AdmissionEvidence(o, d.evidence, q.limitation, d.outcome = "admit")
MethodDecisionFolds(o, d) ==
    /\ d.goal # None => d.goal \in Ids(o, "goals")
    /\ \E m \in o.methods :
          /\ m.id = d.candidate
          /\ AdmissionEvidence(o, d.evidence, m.limitation, d.outcome = "admit")
          /\ d.outcome = "admit" /\ m.adapter =>
                \E g \in o.goals, c \in o.candidates :
                    g.id = d.goal /\ c.id = g.candidate /\ c.limitation = m.limitation
PlaceFolds(o, x) == x.anchor \in Ids(o, "anchors") /\ x.limitation \in Ids(o, "limitations")
FrontierFolds(o, f) ==
    /\ f.candidates \subseteq Ids(o, "candidates")
    /\ \A c \in o.candidates : c.id \in f.candidates => SamePlace(c, f)
GoalFolds(o, g) ==
    /\ g.anchor \in Ids(o, "anchors") /\ g.candidate \in Ids(o, "candidates")
    /\ \E f \in o.frontiers :
          f.id = g.frontier /\ f.anchor = g.anchor /\ f.selected = g.candidate
EnvironmentFolds(o, n) ==
    \E g \in o.goals, a \in o.anchors : g.id = n.goal /\ a.id = g.anchor /\ a.commit = n.base
EvidenceFolds(o, e) ==
    \E n \in o.environments :
        /\ n.id = e.environment /\ n.goal = e.goal /\ n.base = e.base
        /\ e.goal \in Ids(o, "goals")
Supports(e, r) ==
    /\ e.goal = r.goal /\ e.environment = r.environment
    /\ e.commit = r.commit
    /\ r.outcome = "valid" => e.outcome = "pass"
ReviewFolds(o, r) ==
    /\ r.goal \in Ids(o, "goals")
    /\ r.evidence \subseteq Ids(o, "evidence")
    /\ \E n \in o.environments :
          n.id = r.environment /\ n.goal = r.goal /\ n.developer # r.reviewer
    /\ \A id \in r.evidence : Supports(Get(o, "evidence", id), r)
SuccessorFolds(o, d) ==
    /\ d.goal \in Ids(o, "goals") /\ d.candidate \in Ids(o, "candidates")
    /\ d.environment \in Ids(o, "environments")
    /\ d.evidence \subseteq Ids(o, "evidence")
    /\ \E r \in o.reviews :
          /\ r.id = d.review /\ r.goal = d.goal
          /\ r.environment = d.environment /\ r.evidence = d.evidence

FoldsAs(o, k, x) ==
    /\ k = "limitations" => x.anchor \in Ids(o, "anchors")
    /\ k = "questions" => x.limitation \in Ids(o, "limitations")
    /\ k = "questionDecisions" => QuestionDecisionFolds(o, x)
    /\ k = "methods" => x.limitation \in Ids(o, "limitations")
    /\ k = "methodDecisions" => MethodDecisionFolds(o, x)
    /\ k = "candidates" => PlaceFolds(o, x)
    /\ k = "frontiers" => PlaceFolds(o, x) /\ FrontierFolds(o, x)
    /\ k = "goals" => GoalFolds(o, x)
    /\ k = "environments" => EnvironmentFolds(o, x)
    /\ k = "evidence" => EvidenceFolds(o, x)
    /\ k = "reviews" => ReviewFolds(o, x)
    /\ k = "successors" => SuccessorFolds(o, x)
    /\ k = "promotions" => x.successor \in Ids(o, "successors")
    /\ k = "stops" => x.residuals \subseteq Ids(o, "limitations")
AllFold(o) == \A k \in SetKinds : \A x \in o[k] : FoldsAs(o, k, x)

(* The validators of the checkpoints and of the cycles that stop. *)
StopsFold(o) == \A s \in o.stops : CycleOf(o, s.cycle) # {}
Advances(o, c, earlier) ==
    /\ c.id \notin c.records
    /\ c.records \subseteq UNION {Ids(o, k) : k \in ProjectKinds}
    /\ IF earlier = {} THEN c.predecessor = None
       ELSE \E j \in earlier :
               /\ \A m \in earlier : m <= j
               /\ c.predecessor = o.checkpoints[j].id
               /\ c.phase > o.checkpoints[j].phase
Earlier(o, i) == {j \in CycleOf(o, o.checkpoints[i].cycle) : j < i}
CheckpointsFold(o) ==
    \A i \in 1 .. Len(o.checkpoints) : Advances(o, o.checkpoints[i], Earlier(o, i))

(* Without goal candidates the folded state is valid exactly if identities *)
(* are unique and each record satisfies the validators of its kind.        *)
LEMMA ValidIs ==
    ASSUME NEW o, o.goalCandidates = {}
    PROVE  Valid(o) <=> /\ UniqueIds(o) /\ o.goalDecisions = {}
                        /\ AllFold(o) /\ StopsFold(o) /\ CheckpointsFold(o)
<1>1. AllFold(o) <=>
        /\ \A x \in o.limitations : x.anchor \in Ids(o, "anchors")
        /\ \A x \in o.questions : x.limitation \in Ids(o, "limitations")
        /\ \A x \in o.questionDecisions : QuestionDecisionFolds(o, x)
        /\ \A x \in o.methods : x.limitation \in Ids(o, "limitations")
        /\ \A x \in o.methodDecisions : MethodDecisionFolds(o, x)
        /\ \A x \in o.candidates : PlaceFolds(o, x)
        /\ \A x \in o.frontiers : PlaceFolds(o, x) /\ FrontierFolds(o, x)
        /\ \A x \in o.goals : GoalFolds(o, x)
        /\ \A x \in o.environments : EnvironmentFolds(o, x)
        /\ \A x \in o.evidence : EvidenceFolds(o, x)
        /\ \A x \in o.reviews : ReviewFolds(o, x)
        /\ \A x \in o.successors : SuccessorFolds(o, x)
        /\ \A x \in o.promotions : x.successor \in Ids(o, "successors")
        /\ \A x \in o.stops : x.residuals \subseteq Ids(o, "limitations")
  BY KindsAre DEF AllFold, FoldsAs
<1>2. ValidLimitations(o) <=>
        /\ \A x \in o.limitations : x.anchor \in Ids(o, "anchors")
        /\ \A x \in o.questions : x.limitation \in Ids(o, "limitations")
  BY DEF ValidLimitations
<1>3. ValidQuestionDecisions(o) <=>
        \A x \in o.questionDecisions : QuestionDecisionFolds(o, x)
  BY DEF ValidQuestionDecisions, QuestionDecisionFolds
<1>4. ValidMethods(o) <=>
        /\ \A x \in o.methods : x.limitation \in Ids(o, "limitations")
        /\ \A x \in o.methodDecisions : MethodDecisionFolds(o, x)
  BY DEF ValidMethods, MethodDecisionFolds
<1>5. ValidFrontiers(o) <=>
        /\ \A x \in o.candidates : PlaceFolds(o, x)
        /\ \A x \in o.frontiers : PlaceFolds(o, x) /\ FrontierFolds(o, x)
  BY DEF ValidFrontiers, PlaceFolds, FrontierFolds
<1>6. ValidGoals(o) <=> \A x \in o.goals : GoalFolds(o, x)
  BY DEF ValidGoals, GoalFolds, AdmittedIfGenerated
<1>7. ValidDevelopment(o) <=>
        /\ \A x \in o.environments : EnvironmentFolds(o, x)
        /\ \A x \in o.evidence : EvidenceFolds(o, x)
  BY DEF ValidDevelopment, EnvironmentFolds, EvidenceFolds
<1>8. ValidReviews(o) <=> \A x \in o.reviews : ReviewFolds(o, x)
  BY DEF ValidReviews, ReviewFolds, Supports
<1>9. ValidSuccessors(o) <=>
        /\ \A x \in o.successors : SuccessorFolds(o, x)
        /\ \A x \in o.promotions : x.successor \in Ids(o, "successors")
  BY DEF ValidSuccessors, SuccessorFolds
<1>10. ValidCycles(o) <=>
        /\ CheckpointsFold(o) /\ StopsFold(o)
        /\ \A x \in o.stops : x.residuals \subseteq Ids(o, "limitations")
  BY DEF ValidCycles, CheckpointsFold, StopsFold, Advances, Earlier
<1>11. ValidGoalDecisions(o) <=> o.goalDecisions = {}
  BY DEF ValidGoalDecisions
<1>12. ValidGoalCandidates(o)
  BY DEF ValidGoalCandidates
<1> QED
  BY <1>1, <1>2, <1>3, <1>4, <1>5, <1>6, <1>7, <1>8, <1>9, <1>10, <1>11, <1>12 DEF Valid

(* An identity keeps naming the record it named. *)
LEMMA GetStays ==
    ASSUME NEW o, NEW p, Grows(o, p), UniqueIds(o), UniqueIds(p),
           NEW k \in ProjectKinds \ {"checkpoints"}, NEW id \in Ids(o, k)
    PROVE  Get(p, k, id) = Get(o, k, id) /\ id \in Ids(p, k)
<1>1. k \in SetKinds
  BY DEF SetKinds, Kinds
<1>2. Get(o, k, id) \in o[k] /\ Get(o, k, id).id = id
  BY GetFinds
<1>3. Get(o, k, id) \in p[k]
  BY <1>1, <1>2 DEF Grows
<1>4. Get(p, k, Get(o, k, id).id) = Get(o, k, id)
  BY <1>3, GetIs
<1>5. Ids(o, k) \subseteq Ids(p, k)
  BY <1>1, GrowsIds
<1> QED  BY <1>2, <1>4, <1>5

LEMMA AdmissionStays ==
    ASSUME NEW o, NEW p, Grows(o, p), UniqueIds(o), UniqueIds(p),
           NEW evidence, NEW limitation, NEW admit,
           AdmissionEvidence(o, evidence, limitation, admit)
    PROVE  AdmissionEvidence(p, evidence, limitation, admit)
<1>1. o.goals \subseteq p.goals /\ o.candidates \subseteq p.candidates
      /\ o.reviews \subseteq p.reviews
  BY GrowsSets
<1>2. evidence \subseteq Ids(o, "evidence")
  BY DEF AdmissionEvidence
<1>3. \A id \in evidence :
         Get(p, "evidence", id) = Get(o, "evidence", id) /\ id \in Ids(p, "evidence")
  BY <1>2, GetStays DEF ProjectKinds
<1>4. \A id \in evidence : \E g \in p.goals, c \in p.candidates :
          /\ g.id = Get(p, "evidence", id).goal
          /\ c.id = g.candidate
          /\ c.limitation = limitation
  BY <1>1, <1>3 DEF AdmissionEvidence
<1>5. admit => /\ \A id \in evidence : Get(p, "evidence", id).outcome = "pass"
               /\ \E r \in p.reviews : r.outcome = "valid" /\ r.evidence = evidence
  BY <1>1, <1>3 DEF AdmissionEvidence
<1> QED  BY <1>3, <1>4, <1>5 DEF AdmissionEvidence

(* A record that satisfies the validators satisfies them for good. *)
LEMMA FoldsStay ==
    ASSUME NEW o, NEW p, Grows(o, p), UniqueIds(o), UniqueIds(p),
           NEW k \in SetKinds, NEW x, FoldsAs(o, k, x)
    PROVE  FoldsAs(p, k, x)
<1>1. /\ o.questions \subseteq p.questions /\ o.methods \subseteq p.methods
      /\ o.goals \subseteq p.goals /\ o.candidates \subseteq p.candidates
      /\ o.frontiers \subseteq p.frontiers /\ o.anchors \subseteq p.anchors
      /\ o.environments \subseteq p.environments /\ o.reviews \subseteq p.reviews
  BY GrowsSets
<1>2. /\ Ids(o, "anchors") \subseteq Ids(p, "anchors")
      /\ Ids(o, "limitations") \subseteq Ids(p, "limitations")
      /\ Ids(o, "candidates") \subseteq Ids(p, "candidates")
      /\ Ids(o, "goals") \subseteq Ids(p, "goals")
      /\ Ids(o, "evidence") \subseteq Ids(p, "evidence")
      /\ Ids(o, "environments") \subseteq Ids(p, "environments")
      /\ Ids(o, "successors") \subseteq Ids(p, "successors")
  BY GrowsIds, KindsAre
<1>3. QuestionDecisionFolds(o, x) => QuestionDecisionFolds(p, x)
  BY <1>1, AdmissionStays DEF QuestionDecisionFolds
<1>4. MethodDecisionFolds(o, x) => MethodDecisionFolds(p, x)
  <2> SUFFICES ASSUME MethodDecisionFolds(o, x)  PROVE MethodDecisionFolds(p, x)
    OBVIOUS
  <2>1. PICK m \in o.methods :
          /\ m.id = x.candidate
          /\ AdmissionEvidence(o, x.evidence, m.limitation, x.outcome = "admit")
          /\ x.outcome = "admit" /\ m.adapter =>
                \E g \in o.goals, c \in o.candidates :
                    g.id = x.goal /\ c.id = g.candidate /\ c.limitation = m.limitation
    BY DEF MethodDecisionFolds
  <2>2. AdmissionEvidence(p, x.evidence, m.limitation, x.outcome = "admit")
    BY <2>1, AdmissionStays
  <2>3. x.goal # None => x.goal \in Ids(p, "goals")
    BY <1>2 DEF MethodDecisionFolds
  <2>4. x.outcome = "admit" /\ m.adapter =>
                \E g \in p.goals, c \in p.candidates :
                    g.id = x.goal /\ c.id = g.candidate /\ c.limitation = m.limitation
    BY <1>1, <2>1
  <2> QED  BY <1>1, <2>1, <2>2, <2>3, <2>4 DEF MethodDecisionFolds
<1>5. PlaceFolds(o, x) => PlaceFolds(p, x)
  BY <1>2 DEF PlaceFolds
<1>6. FrontierFolds(o, x) => FrontierFolds(p, x)
  <2> SUFFICES ASSUME FrontierFolds(o, x)  PROVE FrontierFolds(p, x)
    OBVIOUS
  <2>1. x.candidates \subseteq Ids(o, "candidates")
    BY DEF FrontierFolds
  <2>2. Listed(p, x) = Listed(o, x)
    BY <2>1, ListedStay
  <2> QED  BY <1>2, <2>1, <2>2 DEF FrontierFolds, Listed
<1>7. GoalFolds(o, x) => GoalFolds(p, x)
  BY <1>1, <1>2 DEF GoalFolds
<1>8. EnvironmentFolds(o, x) => EnvironmentFolds(p, x)
  BY <1>1 DEF EnvironmentFolds
<1>9. EvidenceFolds(o, x) => EvidenceFolds(p, x)
  BY <1>1, <1>2 DEF EvidenceFolds
<1>10. ReviewFolds(o, x) => ReviewFolds(p, x)
  <2> SUFFICES ASSUME ReviewFolds(o, x)  PROVE ReviewFolds(p, x)
    OBVIOUS
  <2>1. \A id \in x.evidence : Get(p, "evidence", id) = Get(o, "evidence", id)
    BY GetStays DEF ReviewFolds, ProjectKinds
  <2> QED  BY <1>1, <1>2, <2>1 DEF ReviewFolds
<1>11. SuccessorFolds(o, x) => SuccessorFolds(p, x)
  BY <1>1, <1>2 DEF SuccessorFolds
<1> QED
  BY <1>2, <1>3, <1>4, <1>5, <1>6, <1>7, <1>8, <1>9, <1>10, <1>11 DEF FoldsAs

(* A record under a new identity leaves identities unique. *)
LEMMA NewIdUnique ==
    ASSUME NEW o, o = [j \in Kinds |-> o[j]], UniqueIds(o),
           NEW k \in SetKinds, NEW r, r.id \notin Ids(o, k)
    PROVE  UniqueIds(With(o, k, r))
<1> DEFINE p == With(o, k, r)
<1>1. p[k] = o[k] \cup {r} /\ \A j \in Kinds \ {k} : p[j] = o[j]
  BY WithSet
<1>2. \A x \in o[k] : x.id # r.id
  BY IdsAre
<1>3. ProjectKinds \subseteq Kinds
  BY DEF Kinds
<1> HIDE DEF p
<1>4. ASSUME NEW j \in ProjectKinds, NEW x \in Items(p, j), NEW y \in Items(p, j), x.id = y.id
      PROVE  x = y
  <2>1. CASE j = k
    <3>1. Items(p, j) = o[k] \cup {r} /\ Items(o, j) = o[k]
      BY <1>1, <2>1, IdsAre
    <3>2. \A z, w \in o[k] : z.id = w.id => z = w
      BY <3>1 DEF UniqueIds
    <3> QED  BY <1>2, <1>4, <3>1, <3>2
  <2>2. CASE j # k
    <3>1. p[j] = o[j]
      BY <1>1, <1>3, <2>2
    <3>2. Items(p, j) = Items(o, j)
      BY <3>1 DEF Items
    <3> QED  BY <1>4, <3>2 DEF UniqueIds
  <2> QED  BY <2>1, <2>2
<1>5. UniqueIds(p)
  BY <1>4 DEF UniqueIds
<1> QED  BY <1>5 DEF p

(* Checkpoints cite records that stay, and no set command touches them.    *)
LEMMA CheckpointsStay ==
    ASSUME NEW o, NEW p, Grows(o, p), p.checkpoints = o.checkpoints
    PROVE  /\ CheckpointsFold(o) => CheckpointsFold(p)
           /\ \A cycle : CycleOf(p, cycle) = CycleOf(o, cycle)
<1>1. \A cycle : CycleOf(p, cycle) = CycleOf(o, cycle)
  BY DEF CycleOf
<1>2. \A k \in ProjectKinds : Ids(o, k) \subseteq Ids(p, k)
  <2> SUFFICES ASSUME NEW k \in ProjectKinds  PROVE Ids(o, k) \subseteq Ids(p, k)
    OBVIOUS
  <2>1. CASE k = "checkpoints"
    BY <2>1 DEF Ids, Items
  <2>2. CASE k # "checkpoints"
    <3>1. k \in SetKinds
      BY <2>2 DEF SetKinds, Kinds
    <3> QED  BY <3>1, GrowsIds
  <2> QED  BY <2>1, <2>2
<1>3. UNION {Ids(o, k) : k \in ProjectKinds} \subseteq UNION {Ids(p, k) : k \in ProjectKinds}
  BY <1>2
<1>4. ASSUME CheckpointsFold(o), NEW i \in 1 .. Len(p.checkpoints)
      PROVE  Advances(p, p.checkpoints[i], Earlier(p, i))
  <2>1. Earlier(p, i) = Earlier(o, i)
    BY <1>1 DEF Earlier
  <2>2. Advances(o, o.checkpoints[i], Earlier(o, i))
    BY <1>4 DEF CheckpointsFold
  <2> QED  BY <1>3, <2>1, <2>2 DEF Advances
<1> QED  BY <1>1, <1>4 DEF CheckpointsFold

(* A record of a set collection that satisfies its own validator folds.    *)
LEMMA SetFolds ==
    ASSUME Typed(owned), Valid(owned), owned.goalCandidates = {},
           NEW k \in SetKinds \ {"goalCandidates", "goalDecisions"}, NEW r,
           r.id \notin Ids(owned, k), FoldsAs(owned, k, r),
           k = "stops" => CycleOf(owned, r.cycle) # {}
    PROVE  Folds(k, r)
<1> DEFINE p == With(owned, k, r)
<1>1. owned = [j \in Kinds |-> owned[j]]
  BY DEF Typed
<1>2. p[k] = owned[k] \cup {r} /\ \A j \in Kinds \ {k} : p[j] = owned[j]
  BY <1>1, WithSet
<1>3. Grows(owned, p) /\ \A j \in SetKinds : \A x \in p[j] : x \in owned[j] \/ (j = k /\ x = r)
  BY <1>1, SetGrows
<1>4. /\ UniqueIds(owned) /\ owned.goalDecisions = {} /\ AllFold(owned)
      /\ StopsFold(owned) /\ CheckpointsFold(owned)
  BY ValidIs
<1>5. UniqueIds(p)
  BY <1>1, <1>4, NewIdUnique
<1> HIDE DEF p
<1>6. /\ p.checkpoints = owned.checkpoints
      /\ p.goalCandidates = {} /\ p.goalDecisions = {}
  <2>1. {"checkpoints", "goalCandidates", "goalDecisions"} \subseteq Kinds \ {k}
    BY DEF SetKinds, Kinds, ProjectKinds
  <2> QED  BY <1>2, <1>4, <2>1
<1>7. AllFold(p)
  <2>1. \A j \in SetKinds : \A x \in p[j] : FoldsAs(owned, j, x)
    BY <1>3, <1>4 DEF AllFold
  <2> QED  BY <1>3, <1>4, <1>5, <2>1, FoldsStay DEF AllFold
<1>8. CheckpointsFold(p) /\ \A cycle : CycleOf(p, cycle) = CycleOf(owned, cycle)
  BY <1>3, <1>4, <1>6, CheckpointsStay
<1>9. StopsFold(p)
  <2>1. \A s \in p.stops : s \in owned.stops \/ (k = "stops" /\ s = r)
    BY <1>3, KindsAre
  <2> QED  BY <1>4, <1>8, <2>1 DEF StopsFold
<1>10. Valid(p)
  BY <1>5, <1>6, <1>7, <1>8, <1>9, ValidIs
<1> QED  BY <1>10 DEF p, Folds

(* The last checkpoint of a cycle. *)
LEMMA LastOfCycle ==
    ASSUME NEW o, Len(o.checkpoints) \in Nat, NEW cycle, CycleOf(o, cycle) # {}
    PROVE  \E i \in CycleOf(o, cycle) : \A j \in CycleOf(o, cycle) : j <= i
<1> DEFINE S == CycleOf(o, cycle)
           n == Len(o.checkpoints)
           Rest == {n - i : i \in S}
<1>1. S \subseteq 1 .. n
  BY DEF CycleOf
<1>2. PICK x \in S : TRUE
  OBVIOUS
<1> HIDE DEF S, n
<1>3. n \in Nat
  BY DEF n
<1>4. Rest \in SUBSET Nat /\ n - x \in Rest
  BY <1>1, <1>2, <1>3
<1>5. PICK m \in Rest : \A y \in Rest : m <= y
  <2> HIDE DEF Rest
  <2> QED  BY <1>4, LeastNatural
<1>6. PICK i \in S : m = n - i
  BY <1>5
<1>7. \A j \in S : j <= i
  <2> SUFFICES ASSUME NEW j \in S  PROVE j <= i
    OBVIOUS
  <2>1. n - j \in Rest
    OBVIOUS
  <2>2. n - i <= n - j
    BY <1>5, <1>6, <2>1
  <2>3. i \in Int /\ j \in Int
    BY <1>1, <1>3
  <2> QED  BY <1>3, <2>2, <2>3
<1> QED  BY <1>6, <1>7 DEF S

(* A checkpoint that decide accepts, and that does not cite its own        *)
(* identity, folds.                                                        *)
LEMMA CheckpointFolds ==
    ASSUME Typed(owned), Valid(owned), owned.goalCandidates = {},
           NEW c \in Submitted("checkpoints"),
           MayRecordRecursiveCycleCheckpoint(owned, c), c.id \notin c.records
    PROVE  Folds("checkpoints", c)
<1> DEFINE p == With(owned, "checkpoints", c)
           s == owned.checkpoints
<1>1. owned = [j \in Kinds |-> owned[j]] /\ s \in Seq(Submitted("checkpoints"))
  BY DEF Typed
<1>2. p.checkpoints = Append(s, c) /\ \A j \in SetKinds : p[j] = owned[j]
  BY <1>1, WithCheckpoint
<1>3. /\ UniqueIds(owned) /\ owned.goalDecisions = {} /\ AllFold(owned)
      /\ StopsFold(owned) /\ CheckpointsFold(owned)
  BY ValidIs
<1> HIDE DEF p
<1>4. /\ Len(s) \in Nat /\ Len(p.checkpoints) = Len(s) + 1
      /\ p.checkpoints[Len(s) + 1] = c
      /\ \A i \in 1 .. Len(s) : p.checkpoints[i] = s[i]
  BY <1>1, <1>2
<1>5. Grows(owned, p)
  BY <1>2 DEF Grows
<1>6. Items(p, "checkpoints") = Items(owned, "checkpoints") \cup {c}
  <2>1. Items(p, "checkpoints") = {p.checkpoints[i] : i \in 1 .. Len(s) + 1}
    BY <1>4 DEF Items
  <2>2. Items(owned, "checkpoints") = {s[i] : i \in 1 .. Len(s)}
    BY DEF Items
  <2>3. \A i \in 1 .. Len(s) + 1 : i \in 1 .. Len(s) \/ i = Len(s) + 1
    BY <1>4
  <2>4. Len(s) + 1 \in 1 .. Len(s) + 1 /\ \A i \in 1 .. Len(s) : i \in 1 .. Len(s) + 1
    BY <1>4
  <2> HIDE DEF s
  <2> QED  BY <1>4, <2>1, <2>2, <2>3, <2>4
<1>7. \A k \in ProjectKinds \ {"checkpoints"} : Items(p, k) = Items(owned, k)
  BY <1>2 DEF Items, SetKinds, Kinds
<1>8. UniqueIds(p)
  <2>1. \A x \in Items(owned, "checkpoints") : x.id # c.id
    BY DEF MayRecordRecursiveCycleCheckpoint, Ids
  <2> QED  BY <1>3, <1>6, <1>7, <2>1 DEF UniqueIds
<1>9. AllFold(p)
  <2>1. \A j \in SetKinds : \A x \in p[j] : FoldsAs(owned, j, x)
    BY <1>2, <1>3 DEF AllFold
  <2> QED  BY <1>3, <1>5, <1>8, <2>1, FoldsStay DEF AllFold
<1>10. p.goalCandidates = {} /\ p.goalDecisions = {} /\ p.stops = owned.stops
  BY <1>2, <1>3, KindsAre
<1>11. \A cycle : CycleOf(owned, cycle) =
                    {i \in CycleOf(p, cycle) : i < Len(s) + 1}
  <2> SUFFICES ASSUME NEW cycle
               PROVE  CycleOf(owned, cycle) = {i \in CycleOf(p, cycle) : i < Len(s) + 1}
    OBVIOUS
  <2>1. CycleOf(owned, cycle) = {i \in 1 .. Len(s) : s[i].cycle = cycle}
    BY DEF CycleOf
  <2>2. CycleOf(p, cycle) = {i \in 1 .. Len(s) + 1 : p.checkpoints[i].cycle = cycle}
    BY <1>4 DEF CycleOf
  <2>3. \A i : i \in 1 .. Len(s) <=> i \in 1 .. Len(s) + 1 /\ i < Len(s) + 1
    BY <1>4
  <2> HIDE DEF s
  <2> QED  BY <1>4, <2>1, <2>2, <2>3
<1>12. StopsFold(p)
  BY <1>3, <1>10, <1>11 DEF StopsFold
<1>13. UNION {Ids(owned, k) : k \in ProjectKinds} \subseteq UNION {Ids(p, k) : k \in ProjectKinds}
  <2>1. \A k \in ProjectKinds : Items(owned, k) \subseteq Items(p, k)
    BY <1>6, <1>7
  <2>2. \A k \in ProjectKinds : Ids(owned, k) \subseteq Ids(p, k)
    BY <2>1 DEF Ids
  <2> QED  BY <2>2
<1>14. ASSUME NEW i \in 1 .. Len(s)
       PROVE  Advances(p, p.checkpoints[i], Earlier(p, i))
  <2>1. p.checkpoints[i] = s[i]
    BY <1>4
  <2>2. Earlier(p, i) = Earlier(owned, i)
    <3>1. \A j \in CycleOf(p, s[i].cycle) : j < i => j < Len(s) + 1
      <4>1. CycleOf(p, s[i].cycle) \subseteq Nat
        BY <1>4 DEF CycleOf
      <4> QED  BY <1>4, <4>1
    <3>2. Earlier(p, i) = {j \in CycleOf(p, s[i].cycle) : j < i}
      BY <2>1 DEF Earlier
    <3>3. Earlier(owned, i) = {j \in CycleOf(owned, s[i].cycle) : j < i}
      BY DEF Earlier
    <3> QED  BY <1>11, <3>1, <3>2, <3>3
  <2>3. Advances(owned, s[i], Earlier(owned, i))
    BY <1>3 DEF CheckpointsFold
  <2>4. \A j \in Earlier(owned, i) : p.checkpoints[j] = s[j]
    BY <1>4 DEF Earlier, CycleOf
  <2> QED  BY <1>13, <2>1, <2>2, <2>3, <2>4 DEF Advances
<1>15. Advances(p, c, Earlier(p, Len(s) + 1))
  <2> DEFINE E == CycleOf(owned, c.cycle)
  <2>1. Earlier(p, Len(s) + 1) = E
    BY <1>4, <1>11 DEF Earlier
  <2>2. c.records \subseteq UNION {Ids(p, k) : k \in ProjectKinds}
    <3>1. c.records \subseteq UNION {Ids(owned, k) : k \in ProjectKinds}
      BY DEF MayRecordRecursiveCycleCheckpoint, ReferentKinds
    <3> QED  BY <1>13, <3>1
  <2>3. CASE E = {}
    <3>1. c.predecessor = None
      BY <2>3 DEF MayRecordRecursiveCycleCheckpoint
    <3> QED  BY <2>1, <2>2, <2>3, <3>1 DEF Advances
  <2>4. CASE E # {}
    <3>1. \E i \in E : \A j \in E : j <= i
      BY <1>4, <2>4, LastOfCycle
    <3> DEFINE last == CHOOSE i \in E : \A j \in E : j <= i
    <3>2. last \in E /\ \A j \in E : j <= last
      BY <3>1
    <3>3. c.predecessor = s[last].id /\ c.phase > s[last].phase
      BY <2>4 DEF MayRecordRecursiveCycleCheckpoint
    <3> HIDE DEF last
    <3>4. p.checkpoints[last] = s[last]
      BY <1>4, <3>2 DEF CycleOf
    <3> HIDE DEF E, s
    <3> QED  BY <2>1, <2>2, <2>4, <3>2, <3>3, <3>4 DEF Advances
  <2> QED  BY <2>3, <2>4
<1>16. CheckpointsFold(p)
  <2>1. \A i \in 1 .. Len(p.checkpoints) : i \in 1 .. Len(s) \/ i = Len(s) + 1
    BY <1>4
  <2> QED  BY <1>4, <1>14, <1>15, <2>1 DEF CheckpointsFold
<1>17. Valid(p)
  BY <1>8, <1>9, <1>10, <1>12, <1>16, ValidIs
<1> QED  BY <1>17 DEF p, Folds

(* IInv types every collection. *)
LEMMA IInvTypes ==
    ASSUME IInv
    PROVE  TypeOK
<1>1. Typed(owned) /\ Sound(owned)
  BY DEF IInv
<1>2. DOMAIN owned = Kinds
  BY <1>1 DEF Typed
<1>3. \A k \in SubmittedKinds : Items(owned, k) \subseteq Submitted(k)
  BY <1>1 DEF Typed, SubmittedKinds, Items
<1>4. Items(owned, "checkpoints") \subseteq Submitted("checkpoints")
  BY <1>1 DEF Typed, Items
<1>5. \A s \in owned.sources : s.candidate \in Ids(owned, "questions")
  BY <1>1, KindsAre, IdsAre DEF Sound, SourceSound
<1> QED  BY <1>1, <1>2, <1>3, <1>4, <1>5 DEF TypeOK, Typed, SubmittedKinds

(* Each guard of decide implies the validators of the record it admits.    *)
LEMMA GuardsImplyFolds ==
    ASSUME Typed(owned), AllFold(owned), NEW r
    PROVE  /\ MayRecordProjectAnchor(owned, r) =>
                r.id \notin Ids(owned, "anchors") /\ FoldsAs(owned, "anchors", r)
           /\ MayRecordCapabilityLimitation(owned, r) =>
                r.id \notin Ids(owned, "limitations") /\ FoldsAs(owned, "limitations", r)
           /\ MayRecordQuestionContractCandidate(owned, r) =>
                r.id \notin Ids(owned, "questions") /\ FoldsAs(owned, "questions", r)
           /\ MayDecideQuestionRepertoire(owned, r) =>
                /\ r.id \notin Ids(owned, "questionDecisions")
                /\ FoldsAs(owned, "questionDecisions", r)
           /\ MayRecordMethodBindingCandidate(owned, r) =>
                r.id \notin Ids(owned, "methods") /\ FoldsAs(owned, "methods", r)
           /\ MayRecordCapabilitySuccessorCandidate(owned, r) =>
                r.id \notin Ids(owned, "candidates") /\ FoldsAs(owned, "candidates", r)
           /\ MayRecordCapabilityFrontier(owned, r) =>
                r.id \notin Ids(owned, "frontiers") /\ FoldsAs(owned, "frontiers", r)
           /\ MayRecordCandidateEnvironment(owned, r) =>
                r.id \notin Ids(owned, "environments") /\ FoldsAs(owned, "environments", r)
           /\ MayRecordDevelopmentEvidence(owned, r) =>
                r.id \notin Ids(owned, "evidence") /\ FoldsAs(owned, "evidence", r)
           /\ MayRecordIndependentReview(owned, r) =>
                r.id \notin Ids(owned, "reviews") /\ FoldsAs(owned, "reviews", r)
           /\ MayDecideProjectSuccessor(owned, r) =>
                r.id \notin Ids(owned, "successors") /\ FoldsAs(owned, "successors", r)
           /\ MayRecordPromotionDecision(owned, r) =>
                r.id \notin Ids(owned, "promotions") /\ FoldsAs(owned, "promotions", r)
           /\ MayRecordRecursiveStopDisposition(owned, r) =>
                /\ r.id \notin Ids(owned, "stops") /\ FoldsAs(owned, "stops", r)
                /\ CycleOf(owned, r.cycle) # {}
<1>1. \A k \in SetKinds : \A x \in owned[k] : x.id \in Ids(owned, k)
  BY IdsAre
<1>2. /\ \A x \in owned.goals : x.id \in Ids(owned, "goals")
      /\ \A x \in owned.candidates : x.id \in Ids(owned, "candidates")
      /\ \A x \in owned.environments : x.id \in Ids(owned, "environments")
      /\ \A x \in owned.successors : x.id \in Ids(owned, "successors")
  BY <1>1, KindsAre
<1>3. \A x \in owned.candidates : PlaceFolds(owned, x)
  BY KindsAre DEF AllFold, FoldsAs
<1>4. \A x \in owned.environments : EnvironmentFolds(owned, x)
  BY KindsAre DEF AllFold, FoldsAs
<1>5. MayRecordProjectAnchor(owned, r) =>
         r.id \notin Ids(owned, "anchors") /\ FoldsAs(owned, "anchors", r)
  BY DEF MayRecordProjectAnchor, FoldsAs
<1>6. MayRecordCapabilityLimitation(owned, r) =>
         r.id \notin Ids(owned, "limitations") /\ FoldsAs(owned, "limitations", r)
  BY DEF MayRecordCapabilityLimitation, FoldsAs
<1>7. MayRecordQuestionContractCandidate(owned, r) =>
         r.id \notin Ids(owned, "questions") /\ FoldsAs(owned, "questions", r)
  BY DEF MayRecordQuestionContractCandidate, FoldsAs
<1>8. MayDecideQuestionRepertoire(owned, r) =>
         /\ r.id \notin Ids(owned, "questionDecisions")
         /\ FoldsAs(owned, "questionDecisions", r)
  BY DEF MayDecideQuestionRepertoire, FoldsAs, QuestionDecisionFolds
<1>9. MayRecordMethodBindingCandidate(owned, r) =>
         r.id \notin Ids(owned, "methods") /\ FoldsAs(owned, "methods", r)
  BY DEF MayRecordMethodBindingCandidate, FoldsAs
<1>10. MayRecordCapabilitySuccessorCandidate(owned, r) =>
         r.id \notin Ids(owned, "candidates") /\ FoldsAs(owned, "candidates", r)
  BY DEF MayRecordCapabilitySuccessorCandidate, FoldsAs, PlaceFolds
<1>11. MayRecordCapabilityFrontier(owned, r) =>
         r.id \notin Ids(owned, "frontiers") /\ FoldsAs(owned, "frontiers", r)
  <2> SUFFICES ASSUME MayRecordCapabilityFrontier(owned, r)
               PROVE  r.id \notin Ids(owned, "frontiers") /\ FoldsAs(owned, "frontiers", r)
    OBVIOUS
  <2> DEFINE C == {c \in owned.candidates : c.id \in r.candidates}
             place == CHOOSE c \in C : TRUE
  <2>1. /\ r.id \notin Ids(owned, "frontiers")
        /\ r.candidates \subseteq Ids(owned, "candidates")
        /\ ShareOnePlace(C) /\ r = CapabilityFrontier(r.id, C)
    BY DEF MayRecordCapabilityFrontier
  <2>2. place \in C /\ \A c \in C : SamePlace(c, place)
    BY <2>1 DEF ShareOnePlace
  <2> HIDE DEF C, place
  <2>3. r.anchor = place.anchor /\ r.limitation = place.limitation
    <3>1. PICK x : x = CapabilityFrontier(r.id, C)
      OBVIOUS
    <3>2. x.anchor = place.anchor /\ x.limitation = place.limitation
      BY <3>1 DEF CapabilityFrontier, place
    <3> QED  BY <2>1, <3>1, <3>2
  <2>4. PlaceFolds(owned, r)
    BY <1>3, <2>2, <2>3 DEF PlaceFolds, C
  <2>5. FrontierFolds(owned, r)
    BY <2>1, <2>2, <2>3 DEF FrontierFolds, SamePlace, C
  <2> QED  BY <2>1, <2>4, <2>5 DEF FoldsAs
<1>12. MayRecordCandidateEnvironment(owned, r) =>
         r.id \notin Ids(owned, "environments") /\ FoldsAs(owned, "environments", r)
  BY DEF MayRecordCandidateEnvironment, FoldsAs, EnvironmentFolds
<1>13. MayRecordDevelopmentEvidence(owned, r) =>
         r.id \notin Ids(owned, "evidence") /\ FoldsAs(owned, "evidence", r)
  BY <1>2 DEF MayRecordDevelopmentEvidence, FoldsAs, EvidenceFolds
<1>14. MayRecordIndependentReview(owned, r) =>
         r.id \notin Ids(owned, "reviews") /\ FoldsAs(owned, "reviews", r)
  <2> SUFFICES ASSUME MayRecordIndependentReview(owned, r)
               PROVE  r.id \notin Ids(owned, "reviews") /\ FoldsAs(owned, "reviews", r)
    OBVIOUS
  <2>1. PICK n \in owned.environments :
           n.id = r.environment /\ n.goal = r.goal /\ n.developer # r.reviewer
    BY DEF MayRecordIndependentReview
  <2>2. r.goal \in Ids(owned, "goals")
    BY <1>2, <1>4, <2>1 DEF EnvironmentFolds
  <2>3. ReviewFolds(owned, r)
    BY <2>1, <2>2 DEF MayRecordIndependentReview, ReviewFolds, Supports
  <2> QED  BY <2>3 DEF MayRecordIndependentReview, FoldsAs
<1>15. MayDecideProjectSuccessor(owned, r) =>
         r.id \notin Ids(owned, "successors") /\ FoldsAs(owned, "successors", r)
  BY <1>2 DEF MayDecideProjectSuccessor, FoldsAs, SuccessorFolds
<1>16. MayRecordPromotionDecision(owned, r) =>
         r.id \notin Ids(owned, "promotions") /\ FoldsAs(owned, "promotions", r)
  BY <1>2 DEF MayRecordPromotionDecision, FoldsAs
<1>17. MayRecordRecursiveStopDisposition(owned, r) =>
         /\ r.id \notin Ids(owned, "stops") /\ FoldsAs(owned, "stops", r)
         /\ CycleOf(owned, r.cycle) # {}
  BY DEF MayRecordRecursiveStopDisposition, FoldsAs
<1> QED
  BY <1>5, <1>6, <1>7, <1>8, <1>9, <1>10, <1>11, <1>12, <1>13, <1>14, <1>15, <1>16, <1>17

(* decide (transitions.py) and the validators of InquiryState (state.py)   *)
(* agree, however the project got where it is: while no goal candidate is  *)
(* recorded, each command listed that decide accepts folds to a valid      *)
(* state.                                                                  *)
THEOREM DecideAlwaysAgreesWithFold == Spec => []DecideAgreesWithFold
<1>1. ASSUME IInv, owned.goalCandidates = {}, NEW r
      PROVE  /\ MayRecordProjectAnchor(owned, r) => Folds("anchors", r)
             /\ MayRecordCapabilityLimitation(owned, r) => Folds("limitations", r)
             /\ MayRecordQuestionContractCandidate(owned, r) => Folds("questions", r)
             /\ MayDecideQuestionRepertoire(owned, r) => Folds("questionDecisions", r)
             /\ MayRecordMethodBindingCandidate(owned, r) => Folds("methods", r)
             /\ MayRecordCapabilitySuccessorCandidate(owned, r) => Folds("candidates", r)
             /\ MayRecordCapabilityFrontier(owned, r) => Folds("frontiers", r)
             /\ MayRecordCandidateEnvironment(owned, r) => Folds("environments", r)
             /\ MayRecordDevelopmentEvidence(owned, r) => Folds("evidence", r)
             /\ MayRecordIndependentReview(owned, r) => Folds("reviews", r)
             /\ MayDecideProjectSuccessor(owned, r) => Folds("successors", r)
             /\ MayRecordPromotionDecision(owned, r) => Folds("promotions", r)
             /\ MayRecordRecursiveStopDisposition(owned, r) => Folds("stops", r)
  <2>1. Typed(owned) /\ Valid(owned)
    BY <1>1 DEF IInv
  <2>2. AllFold(owned)
    BY <1>1, <2>1, ValidIs
  <2>3. ASSUME NEW k \in SetKinds \ {"goalCandidates", "goalDecisions", "stops"},
               r.id \notin Ids(owned, k), FoldsAs(owned, k, r)
        PROVE  Folds(k, r)
    BY <1>1, <2>1, <2>3, SetFolds
  <2>4. ASSUME r.id \notin Ids(owned, "stops"), FoldsAs(owned, "stops", r),
               CycleOf(owned, r.cycle) # {}
        PROVE  Folds("stops", r)
    <3>1. "stops" \in SetKinds \ {"goalCandidates", "goalDecisions"}
      BY KindsAre
    <3> QED  BY <1>1, <2>1, <2>4, <3>1, SetFolds
  <2>5. {"anchors", "limitations", "questions", "questionDecisions", "methods",
         "candidates", "frontiers", "environments", "evidence", "reviews",
         "successors", "promotions"}
           \subseteq SetKinds \ {"goalCandidates", "goalDecisions", "stops"}
    BY KindsAre
  <2> QED  BY <2>1, <2>2, <2>3, <2>4, <2>5, GuardsImplyFolds
<1>2. ASSUME IInv, owned.goalCandidates = {}, NEW c \in Submitted("checkpoints"),
             MayRecordRecursiveCycleCheckpoint(owned, c), c.id \notin c.records
      PROVE  Folds("checkpoints", c)
  BY <1>2, CheckpointFolds DEF IInv
<1>3. IInv => DecideAgreesWithFold
  BY <1>1, <1>2, IInvTypes DEF DecideAgreesWithFold
<1> QED  BY <1>3, AlwaysIInv, PTL

=============================================================================
