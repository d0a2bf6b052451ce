--------------------------- MODULE ProjectRecursion ---------------------------
(***************************************************************************)
(* The recursive project records of one inquiry: what src/src/rci/project/ *)
(* declares, the commands of src/src/rci/core/transitions.py that record   *)
(* it, the validators every folded state passes (src/src/rci/core/         *)
(* state.py), the questions generated from the records                     *)
(* (src/src/rci/questions/generated.py) and the implementation goals       *)
(* compiled from their answers (src/src/rci/project/goal_synthesis.py).    *)
(*                                                                         *)
(* Records are immutable and every collection only grows.  A command is    *)
(* checked twice, by separately written code: decide refuses it with a     *)
(* typed error (the May... operators), and the folded state refuses it in  *)
(* its validators (Valid).  Recording the same record again answers () and *)
(* another one under a used id raises; neither changes the state.          *)
(*                                                                         *)
(* Submitted(k) holds the records of kind k that callers submit.           *)
(***************************************************************************)
EXTENDS CapabilitySelection, Sequences

CONSTANTS
    Submitted(_),       \* the records of a kind that are submitted
    GoalName,           \* <<question, decision, frontier>> -> derived goal id
    Classes,            \* what a caller may answer to a generated question
    PredecessorGate, ProposedGate,  \* the registered gates
    SynthesisDiscriminator          \* "goal-synthesis-acceptance"

(* The collections of InquiryState, in the order of the commands; the last *)
(* two stand for the obligations opened for generated questions and for    *)
(* their accepted answers.                                                 *)
ProjectKinds ==
    {"anchors", "limitations", "questions", "questionDecisions", "methods",
     "methodDecisions", "candidates", "frontiers", "goalCandidates",
     "goalDecisions", "goals", "environments", "evidence", "reviews",
     "successors", "promotions", "checkpoints", "stops"}
Kinds == ProjectKinds \cup {"sources", "answers"}

Outcomes == {"admit", "reject", "inconclusive"}
Results == {"pass", "fail", "indeterminate", "unsupported"}

(* The classes of project/models.py with their validators. *)
IsQuestionCandidate(q) ==
    /\ q.referents # {} /\ q.safe \in BOOLEAN
    /\ Cardinality({x.state : x \in q.returns}) >= 2
IsQuestionDecision(d) == d.outcome \in Outcomes /\ d.evidence # {}
IsMethodDecision(d) == d.outcome \in Outcomes /\ d.evidence # {}
IsGoalDecision(d) == d.outcome \in Outcomes /\ (d.outcome = "admit" <=> d.goal # None)
IsEvidence(e) == e.outcome \in Results
IsReview(r) == r.outcome \in {"valid", "invalid", "indeterminate"} /\ r.evidence # {}
IsSuccessorDecision(d) ==
    /\ d.disposition \in {"replace", "keep", "frontier", "reject"}
    /\ d.evidence # {} /\ d.preserved # {}
    /\ d.disposition = "replace" => d.gains # {}
IsPromotion(p) ==
    /\ p.outcome \in {"proposed", "merged", "rejected", "revert_required"}
    /\ IF p.outcome = "merged" THEN p.merged # None /\ p.checks = "success"
                               ELSE p.merged = None
IsCheckpoint(c) == c.phase \in 0 .. 11 /\ c.records # {} /\ c.predecessor # c.id
IsStop(s) == s.reason = "no_consequential_residue" => s.residuals = {}

ASSUME SubmittedAssumption ==
    /\ \A q \in Submitted("questions") : IsQuestionCandidate(q)
    /\ \A d \in Submitted("questionDecisions") : IsQuestionDecision(d)
    /\ \A d \in Submitted("methodDecisions") : IsMethodDecision(d)
    /\ \A c \in Submitted("candidates") : IsSuccessorCandidate(c)
    /\ \A e \in Submitted("evidence") : IsEvidence(e)
    /\ \A r \in Submitted("reviews") : IsReview(r)
    /\ \A d \in Submitted("successors") : IsSuccessorDecision(d)
    /\ \A p \in Submitted("promotions") : IsPromotion(p)
    /\ \A c \in Submitted("checkpoints") : IsCheckpoint(c)
    /\ \A s \in Submitted("stops") : IsStop(s)

ASSUME GoalNameAssumption ==
    /\ \A x, y \in DOMAIN GoalName : GoalName[x] = GoalName[y] => x = y
    /\ \A q \in Submitted("questions"), d \in Submitted("questionDecisions"),
          f \in Submitted("frontiers") :
          <<q.id, d.id, f.id>> \in DOMAIN GoalName /\ GoalName[<<q.id, d.id, f.id>>] # None

VARIABLE owned      \* kind -> the records owned; checkpoints is a sequence

Init == owned = [k \in Kinds |-> IF k = "checkpoints" THEN <<>> ELSE {}]

Items(o, k) == IF k = "checkpoints" THEN {o[k][i] : i \in 1 .. Len(o[k])} ELSE o[k]
Ids(o, k) == {r.id : r \in Items(o, k)}
Get(o, k, id) == CHOOSE r \in o[k] : r.id = id
With(o, k, r) ==
    [o EXCEPT ![k] = IF k = "checkpoints" THEN Append(@, r) ELSE @ \cup {r}]

------------------------------------------------------------------------------
(* Generated questions. *)

(* _project_referent_index leaves out the goal candidates and decisions. *)
ReferentKinds == ProjectKinds \ {"goalCandidates", "goalDecisions"}

(* _compile_referents: each referent names one record of one kind. *)
ReferentsResolve(o, q) ==
    /\ q.limitation \in q.referents
    /\ \A id \in q.referents : Cardinality({k \in ReferentKinds : id \in Ids(o, k)}) = 1

(* Mutant: a later decision does not disturb an admission. *)
AnyAdmission(o, q, d) ==
    /\ d \in o.questionDecisions
    /\ d.candidate = q.id
    /\ d.outcome = "admit" /\ d.policy = "current"

(* _active_decision: the candidate's one decision, of any outcome, admits  *)
(* it under the current policy.                                            *)
ActiveDecision(o, q, d) ==
    /\ {x \in o.questionDecisions : x.candidate = q.id} = {d}
    /\ d.outcome = "admit" /\ d.policy = "current"

(* _validate_safe_contract: q.safe stands for the checks of the contract's *)
(* shape, policies, template, consumers and distinct return classes.       *)
SafeContract(q) == q.family = "recursive-project" /\ q.safe

(* compile_admitted_question succeeds, and d is its decision.  Records are *)
(* immutable, so candidate and decision determine the compilation.         *)
Compiles(o, q, d) ==
    /\ q \in o.questions
    /\ ActiveDecision(o, q, d)
    /\ \E l \in o.limitations : l.id = q.limitation /\ l.anchor \in Ids(o, "anchors")
    /\ SafeContract(q)
    /\ ReferentsResolve(o, q)

(* generated_question_registry: those whose contract key is unique. *)
Registered(o, q, d) ==
    /\ Compiles(o, q, d)
    /\ \A p \in o.questions, e \in o.questionDecisions :
          Compiles(o, p, e) /\ p.key = q.key => p = q

(* open_generated_question: the obligation pins candidate and decision.    *)
MayOpenGeneratedQuestion(s) ==
    /\ s \notin owned.sources
    /\ \E q \in owned.questions, d \in owned.questionDecisions :
          q.id = s.candidate /\ d.id = s.decision /\ Registered(owned, q, d)

(* submit_answer to the question of a source obligation: the obligation's  *)
(* contract must still be active (_compiled_question_for_obligation), and  *)
(* the accepted answer, its claim, the satisfied source and the downstream *)
(* obligation are appended as one batch.  An answer that is none of the    *)
(* question's return classes is "unclassified".  A satisfied source is not *)
(* asked again.                                                            *)
MaySubmitAnswer(a) ==
    /\ a.source \in owned.sources
    /\ \A x \in owned.answers : x.source # a.source
    /\ \E q \in owned.questions, d \in owned.questionDecisions :
          /\ q.id = a.source.candidate /\ d.id = a.source.decision
          /\ Registered(owned, q, d)
          /\ \/ \E x \in q.returns : x.class = a.class /\ a.carrier = x.state
             \/ /\ a.class = "unclassified" /\ a.carrier = None
                /\ \E text \in Classes : \A x \in q.returns : x.class # text

------------------------------------------------------------------------------
(* Implementation goals compiled from an answer. *)

(* compile_implementation_goal_candidate returns a candidate rather than   *)
(* Unknown for answer a and frontier f.                                    *)
GoalCompiles(o, a, f) ==
    /\ a \in o.answers /\ f \in o.frontiers
    /\ a.class = "goal-derivation-required"
    /\ \E q \in o.questions, d \in o.questionDecisions :
          /\ q.id = a.source.candidate
          /\ d.id = a.source.decision
          /\ Compiles(o, q, d)
          /\ Cardinality({x \in q.returns : x.class = a.class /\ x.state = a.carrier}) = 1
          /\ f.status = "ready"
          /\ f.limitation = q.limitation
          /\ f.anchor = Get(o, "limitations", q.limitation).anchor
    /\ f.selected \in Ids(o, "candidates")
    /\ LET c == Get(o, "candidates", f.selected) IN
          /\ c.anchor = f.anchor /\ c.limitation = f.limitation
          /\ c.discriminator = SynthesisDiscriminator
    /\ Get(o, "anchors", f.anchor).gate = PredecessorGate

(* The goal and its candidate: identities are fingerprints of what they    *)
(* were compiled from.                                                     *)
CompiledGoal(a, f) ==
    [id |-> GoalName[<<a.source.candidate, a.source.decision, f.id>>],
     anchor |-> f.anchor, frontier |-> f.id, candidate |-> f.selected,
     gates |-> {PredecessorGate, ProposedGate}]
CompiledCandidate(a, f) ==
    [id |-> GoalName[<<a.source.candidate, a.source.decision, f.id>>],
     answer |-> a, frontier |-> f.id, goal |-> CompiledGoal(a, f)]

(* goal_admission_evidence_ids: the records a decision must cite. *)
GoalEvidence(c) ==
    [question |-> c.answer.source.candidate, decision |-> c.answer.source.decision,
     answer |-> c.answer.class, frontier |-> c.frontier, selected |-> c.goal.candidate]

(* A goal that was compiled needs its one candidate, unchanged, and the    *)
(* decision that admits it; decide and the validators say the same.        *)
AdmittedIfGenerated(o, g) ==
    LET generated == {c \in o.goalCandidates : c.goal.id = g.id} IN
    generated # {} =>
        \E c \in generated :
            /\ generated = {c}
            /\ c.goal = g
            /\ \E d \in o.goalDecisions :
                  d.candidate = c.id /\ d.outcome = "admit" /\ d.goal = g.id

------------------------------------------------------------------------------
(* decide: the guards of the commands. *)

(* Mutant: evidence is not traced to the limitation it is about. *)
AnyOwnedEvidence(o, evidence, limitation, admit) ==
    /\ evidence \subseteq Ids(o, "evidence")
    /\ admit => /\ \A id \in evidence : Get(o, "evidence", id).outcome = "pass"
                /\ \E r \in o.reviews : r.outcome = "valid" /\ r.evidence = evidence

(* _require_project_admission_evidence *)
AdmissionEvidence(o, evidence, limitation, admit) ==
    /\ evidence \subseteq Ids(o, "evidence")
    /\ \A id \in evidence : \E g \in o.goals, c \in o.candidates :
          /\ g.id = Get(o, "evidence", id).goal
          /\ c.id = g.candidate
          /\ c.limitation = limitation
    /\ admit => /\ \A id \in evidence : Get(o, "evidence", id).outcome = "pass"
                /\ \E r \in o.reviews : r.outcome = "valid" /\ r.evidence = evidence

MayRecordProjectAnchor(o, a) == a.id \notin Ids(o, "anchors")

MayRecordCapabilityLimitation(o, l) ==
    l.id \notin Ids(o, "limitations") /\ l.anchor \in Ids(o, "anchors")

MayRecordQuestionContractCandidate(o, q) ==
    q.id \notin Ids(o, "questions") /\ q.limitation \in Ids(o, "limitations")

(* A candidate may be decided again under another decision id. *)
MayDecideQuestionRepertoire(o, d) ==
    /\ d.id \notin Ids(o, "questionDecisions")
    /\ \E q \in o.questions :
          /\ q.id = d.candidate
          /\ d.outcome = "admit" => q.family = "recursive-project"
          /\ AdmissionEvidence(o, d.evidence, q.limitation, d.outcome = "admit")

MayRecordMethodBindingCandidate(o, m) ==
    m.id \notin Ids(o, "methods") /\ m.limitation \in Ids(o, "limitations")

(* An adapter that is still to be written needs a sealed goal for it. *)
MayDecideMethodAdmission(o, d) ==
    /\ d.id \notin Ids(o, "methodDecisions")
    /\ \E m \in o.methods :
          /\ m.id = d.candidate
          /\ AdmissionEvidence(o, d.evidence, m.limitation, d.outcome = "admit")
          /\ d.outcome = "admit" /\ m.adapter =>
                \E g \in o.goals, c \in o.candidates :
                    g.id = d.goal /\ c.id = g.candidate /\ c.limitation = m.limitation

MayRecordCapabilitySuccessorCandidate(o, c) ==
    /\ c.id \notin Ids(o, "candidates")
    /\ c.anchor \in Ids(o, "anchors")
    /\ c.limitation \in Ids(o, "limitations")

(* The submitted frontier must be the derived one. *)
MayRecordCapabilityFrontier(o, f) ==
    /\ f.id \notin Ids(o, "frontiers")
    /\ f.candidates \subseteq Ids(o, "candidates")
    /\ LET C == {c \in o.candidates : c.id \in f.candidates} IN
          ShareOnePlace(C) /\ f = CapabilityFrontier(f.id, C)

(* The submitted candidate must be the compiled one. *)
MayRecordImplementationGoalCandidate(o, c) ==
    /\ c.id \notin Ids(o, "goalCandidates")
    /\ \E f \in o.frontiers :
          /\ f.id = c.frontier
          /\ GoalCompiles(o, c.answer, f)
          /\ c = CompiledCandidate(c.answer, f)

(* One total decision for each candidate, about its exact content. *)
MayDecideGoalAdmission(o, d) ==
    /\ \A x \in o.goalDecisions : x.candidate # d.candidate
    /\ \E c \in o.goalCandidates :
          /\ c.id = d.candidate
          /\ d.evidence = GoalEvidence(c)
          /\ d.outcome = "admit" => d.goal = c.goal.id

MaySealImplementationGoal(o, g) ==
    /\ g.id \notin Ids(o, "goals")
    /\ \E f \in o.frontiers :
          f.id = g.frontier /\ f.status = "ready" /\ f.selected = g.candidate
    /\ AdmittedIfGenerated(o, g)

MayRecordCandidateEnvironment(o, e) ==
    /\ e.id \notin Ids(o, "environments")
    /\ \E g \in o.goals, a \in o.anchors :
          g.id = e.goal /\ a.id = g.anchor /\ a.commit = e.base

MayRecordDevelopmentEvidence(o, e) ==
    /\ e.id \notin Ids(o, "evidence")
    /\ \E g \in o.goals, n \in o.environments :
          /\ g.id = e.goal /\ n.id = e.environment
          /\ n.goal = g.id /\ n.base = e.base
          /\ e.gate \in g.gates

MayRecordIndependentReview(o, r) ==
    /\ r.id \notin Ids(o, "reviews")
    /\ r.evidence \subseteq Ids(o, "evidence")
    /\ \E n \in o.environments :
          n.id = r.environment /\ n.goal = r.goal /\ n.developer # r.reviewer
    /\ \A id \in r.evidence : LET e == Get(o, "evidence", id) IN
          /\ e.goal = r.goal /\ e.environment = r.environment
          /\ e.commit = r.commit
          /\ r.outcome = "valid" => e.outcome = "pass"

MayDecideProjectSuccessor(o, d) ==
    /\ d.id \notin Ids(o, "successors")
    /\ d.evidence \subseteq Ids(o, "evidence")
    /\ \E g \in o.goals, c \in o.candidates, r \in o.reviews, n \in o.environments :
          /\ g.id = d.goal /\ c.id = d.candidate
          /\ r.id = d.review /\ n.id = d.environment
          /\ g.candidate = c.id /\ n.goal = g.id /\ r.goal = g.id
          /\ r.environment = n.id
          /\ r.evidence = d.evidence
          /\ d.disposition = "replace" =>
                /\ r.outcome = "valid"
                /\ \A id \in d.evidence : Get(o, "evidence", id).outcome = "pass"
                /\ c.preserved \subseteq d.preserved
                /\ c.gains = d.gains

(* Mutant: what is merged need not be what was reviewed. *)
PromotionOfAnyCommit(o, p) ==
    /\ p.id \notin Ids(o, "promotions")
    /\ \E d \in o.successors, r \in o.reviews :
          /\ d.id = p.successor /\ r.id = d.review
          /\ p.outcome = "merged" => d.disposition = "replace" /\ r.outcome = "valid"

MayRecordPromotionDecision(o, p) ==
    /\ p.id \notin Ids(o, "promotions")
    /\ \E d \in o.successors, r \in o.reviews :
          /\ d.id = p.successor /\ r.id = d.review
          /\ p.outcome = "merged" =>
                /\ d.disposition = "replace" /\ r.outcome = "valid"
                /\ p.commit = r.commit

CycleOf(o, cycle) == {i \in 1 .. Len(o.checkpoints) : o.checkpoints[i].cycle = cycle}

(* Mutant: a checkpoint may repeat the phase of the tail. *)
CheckpointRepeatsPhase(o, c) ==
    /\ c.id \notin Ids(o, "checkpoints")
    /\ IF CycleOf(o, c.cycle) = {} THEN c.predecessor = None
       ELSE LET last == CHOOSE i \in CycleOf(o, c.cycle) :
                            \A j \in CycleOf(o, c.cycle) : j <= i
                tail == o.checkpoints[last] IN
            c.predecessor = tail.id /\ c.phase >= tail.phase
    /\ c.records \subseteq UNION {Ids(o, k) : k \in ReferentKinds}

(* The checkpoint succeeds the last one of its cycle and advances it. *)
MayRecordRecursiveCycleCheckpoint(o, c) ==
    /\ c.id \notin Ids(o, "checkpoints")
    /\ IF CycleOf(o, c.cycle) = {} THEN c.predecessor = None
       ELSE LET last == CHOOSE i \in CycleOf(o, c.cycle) :
                            \A j \in CycleOf(o, c.cycle) : j <= i
                tail == o.checkpoints[last] IN
            c.predecessor = tail.id /\ c.phase > tail.phase
    /\ c.records \subseteq UNION {Ids(o, k) : k \in ReferentKinds}

MayRecordRecursiveStopDisposition(o, s) ==
    /\ s.id \notin Ids(o, "stops")
    /\ CycleOf(o, s.cycle) # {}
    /\ s.residuals \subseteq Ids(o, "limitations")

------------------------------------------------------------------------------
(* The validators of the folded state, written apart from decide. *)

UniqueIds(o) ==
    \A k \in ProjectKinds : \A r, x \in Items(o, k) : r.id = x.id => r = x

ValidLimitations(o) ==
    /\ \A l \in o.limitations : l.anchor \in Ids(o, "anchors")
    /\ \A q \in o.questions : q.limitation \in Ids(o, "limitations")

ValidQuestionDecisions(o) ==
    \A d \in o.questionDecisions : \E q \in o.questions :
        /\ q.id = d.candidate
        /\ d.outcome = "admit" => q.family = "recursive-project"
        /\ AdmissionEvidence(o, d.evidence, q.limitation, d.outcome = "admit")

ValidMethods(o) ==
    /\ \A m \in o.methods : m.limitation \in Ids(o, "limitations")
    /\ \A d \in o.methodDecisions :
          /\ d.goal # None => d.goal \in Ids(o, "goals")
          /\ \E m \in o.methods :
                /\ m.id = d.candidate
                /\ AdmissionEvidence(o, d.evidence, m.limitation, d.outcome = "admit")
                /\ d.outcome = "admit" /\ m.adapter =>
                      \E g \in o.goals, c \in o.candidates :
                          /\ g.id = d.goal /\ c.id = g.candidate
                          /\ c.limitation = m.limitation

ValidFrontiers(o) ==
    /\ \A c \in o.candidates :
          c.anchor \in Ids(o, "anchors") /\ c.limitation \in Ids(o, "limitations")
    /\ \A f \in o.frontiers :
          /\ f.anchor \in Ids(o, "anchors") /\ f.limitation \in Ids(o, "limitations")
          /\ f.candidates \subseteq Ids(o, "candidates")
          /\ \A c \in o.candidates : c.id \in f.candidates => SamePlace(c, f)

(* Every goal candidate is compiled again from the state being folded. *)
ValidGoalCandidates(o) ==
    \A c \in o.goalCandidates : \E f \in o.frontiers :
        /\ f.id = c.frontier
        /\ GoalCompiles(o, c.answer, f)
        /\ c = CompiledCandidate(c.answer, f)

ValidGoalDecisions(o) ==
    /\ \A d, x \in o.goalDecisions : d.candidate = x.candidate => d = x
    /\ \A d \in o.goalDecisions : \E c \in o.goalCandidates :
          /\ c.id = d.candidate
          /\ d.evidence = GoalEvidence(c)
          /\ d.outcome = "admit" => d.goal = c.goal.id

ValidGoals(o) ==
    \A g \in o.goals :
        /\ g.anchor \in Ids(o, "anchors")
        /\ g.candidate \in Ids(o, "candidates")
        /\ \E f \in o.frontiers :
              f.id = g.frontier /\ f.anchor = g.anchor /\ f.selected = g.candidate
        /\ AdmittedIfGenerated(o, g)

ValidDevelopment(o) ==
    /\ \A n \in o.environments : \E g \in o.goals, a \in o.anchors :
          g.id = n.goal /\ a.id = g.anchor /\ a.commit = n.base
    /\ \A e \in o.evidence : \E n \in o.environments :
          /\ n.id = e.environment /\ n.goal = e.goal /\ n.base = e.base
          /\ e.goal \in Ids(o, "goals")

ValidReviews(o) ==
    \A r \in o.reviews :
        /\ r.goal \in Ids(o, "goals")
        /\ r.evidence \subseteq Ids(o, "evidence")
        /\ \E n \in o.environments :
              n.id = r.environment /\ n.goal = r.goal /\ n.developer # r.reviewer
        /\ \A id \in r.evidence : LET e == Get(o, "evidence", id) IN
              /\ e.goal = r.goal /\ e.environment = r.environment
              /\ e.commit = r.commit
              /\ r.outcome = "valid" => e.outcome = "pass"

ValidSuccessors(o) ==
    /\ \A d \in o.successors :
          /\ d.goal \in Ids(o, "goals") /\ d.candidate \in Ids(o, "candidates")
          /\ d.environment \in Ids(o, "environments")
          /\ d.evidence \subseteq Ids(o, "evidence")
          /\ \E r \in o.reviews :
                /\ r.id = d.review /\ r.goal = d.goal
                /\ r.environment = d.environment /\ r.evidence = d.evidence
    /\ \A p \in o.promotions : p.successor \in Ids(o, "successors")

(* The history of each cycle is exact and monotone. *)
ValidCycles(o) ==
    /\ \A i \in 1 .. Len(o.checkpoints) :
          LET c == o.checkpoints[i]
              earlier == {j \in CycleOf(o, c.cycle) : j < i} IN
          /\ c.id \notin c.records
          /\ c.records \subseteq UNION {Ids(o, k) : k \in ProjectKinds}
          /\ IF earlier = {} THEN c.predecessor = None
             ELSE \E j \in earlier :
                     /\ \A m \in earlier : m <= j
                     /\ c.predecessor = o.checkpoints[j].id
                     /\ c.phase > o.checkpoints[j].phase
    /\ \A s \in o.stops :
          /\ CycleOf(o, s.cycle) # {}
          /\ s.residuals \subseteq Ids(o, "limitations")

Valid(o) ==
    /\ UniqueIds(o) /\ ValidLimitations(o) /\ ValidQuestionDecisions(o)
    /\ ValidMethods(o) /\ ValidFrontiers(o) /\ ValidGoalDecisions(o)
    /\ ValidGoals(o) /\ ValidDevelopment(o) /\ ValidReviews(o)
    /\ ValidSuccessors(o) /\ ValidCycles(o)
    /\ ValidGoalCandidates(o)

------------------------------------------------------------------------------
(* The commands.  _require_matching_decision decides the event again and   *)
(* _advance_domain_state validates the state that has the record.          *)

Record(k, r) == owned' = With(owned, k, r) /\ Valid(owned')

RecordProjectAnchor(a) ==
    MayRecordProjectAnchor(owned, a) /\ Record("anchors", a)
RecordCapabilityLimitation(l) ==
    MayRecordCapabilityLimitation(owned, l) /\ Record("limitations", l)
RecordQuestionContractCandidate(q) ==
    MayRecordQuestionContractCandidate(owned, q) /\ Record("questions", q)
DecideQuestionRepertoire(d) ==
    MayDecideQuestionRepertoire(owned, d) /\ Record("questionDecisions", d)
RecordMethodBindingCandidate(m) ==
    MayRecordMethodBindingCandidate(owned, m) /\ Record("methods", m)
DecideMethodAdmission(d) ==
    MayDecideMethodAdmission(owned, d) /\ Record("methodDecisions", d)
RecordCapabilitySuccessorCandidate(c) ==
    MayRecordCapabilitySuccessorCandidate(owned, c) /\ Record("candidates", c)
RecordCapabilityFrontier(f) ==
    MayRecordCapabilityFrontier(owned, f) /\ Record("frontiers", f)
RecordImplementationGoalCandidate(c) ==
    MayRecordImplementationGoalCandidate(owned, c) /\ Record("goalCandidates", c)
DecideGoalAdmission(d) ==
    MayDecideGoalAdmission(owned, d) /\ Record("goalDecisions", d)
SealImplementationGoal(g) ==
    MaySealImplementationGoal(owned, g) /\ Record("goals", g)
RecordCandidateEnvironment(n) ==
    MayRecordCandidateEnvironment(owned, n) /\ Record("environments", n)
RecordDevelopmentEvidence(e) ==
    MayRecordDevelopmentEvidence(owned, e) /\ Record("evidence", e)
RecordIndependentReview(r) ==
    MayRecordIndependentReview(owned, r) /\ Record("reviews", r)
DecideProjectSuccessor(d) ==
    MayDecideProjectSuccessor(owned, d) /\ Record("successors", d)
RecordPromotionDecision(p) ==
    MayRecordPromotionDecision(owned, p) /\ Record("promotions", p)
RecordRecursiveCycleCheckpoint(c) ==
    MayRecordRecursiveCycleCheckpoint(owned, c) /\ Record("checkpoints", c)
RecordRecursiveStopDisposition(s) ==
    MayRecordRecursiveStopDisposition(owned, s) /\ Record("stops", s)
OpenGeneratedQuestion(s) ==
    MayOpenGeneratedQuestion(s) /\ Record("sources", s)
SubmitAnswer(a) == MaySubmitAnswer(a) /\ Record("answers", a)

(* What can be submitted besides the constants: obligations for the owned  *)
(* questions, answers to them, what compiles from the answers (derived but *)
(* perhaps never recorded) and every decision on a recorded candidate.     *)
Sources ==
    {[candidate |-> d.candidate, decision |-> d.id] : d \in owned.questionDecisions}
Answers ==
    UNION {{[source |-> s, class |-> x.class, carrier |-> x.state] :
              x \in UNION {q.returns : q \in {p \in owned.questions : p.id = s.candidate}}}
           \cup {[source |-> s, class |-> "unclassified", carrier |-> None]} :
           s \in owned.sources}
Derivable ==
    {CompiledCandidate(x[1], x[2]) :
        x \in {y \in owned.answers \X owned.frontiers : GoalCompiles(owned, y[1], y[2])}}
GoalDecisions ==
    UNION {{[id |-> c.id, candidate |-> c.id, evidence |-> GoalEvidence(c),
             outcome |-> outcome, goal |-> IF outcome = "admit" THEN c.goal.id ELSE None] :
            outcome \in Outcomes} : c \in owned.goalCandidates}
Goals == Submitted("goals") \cup {c.goal : c \in Derivable}

(* An id is used once: a record under a used id is a repeat or raises. *)
Unrecorded(k) == {r \in Submitted(k) : r.id \notin Ids(owned, k)}

Next ==
    \/ \E a \in Unrecorded("anchors") : RecordProjectAnchor(a)
    \/ \E l \in Unrecorded("limitations") : RecordCapabilityLimitation(l)
    \/ \E q \in Unrecorded("questions") : RecordQuestionContractCandidate(q)
    \/ \E d \in Unrecorded("questionDecisions") : DecideQuestionRepertoire(d)
    \/ \E m \in Unrecorded("methods") : RecordMethodBindingCandidate(m)
    \/ \E d \in Unrecorded("methodDecisions") : DecideMethodAdmission(d)
    \/ \E c \in Unrecorded("candidates") : RecordCapabilitySuccessorCandidate(c)
    \/ \E f \in Unrecorded("frontiers") : RecordCapabilityFrontier(f)
    \/ \E c \in Derivable : RecordImplementationGoalCandidate(c)
    \/ \E d \in GoalDecisions : DecideGoalAdmission(d)
    \/ \E g \in Goals : SealImplementationGoal(g)
    \/ \E n \in Unrecorded("environments") : RecordCandidateEnvironment(n)
    \/ \E e \in Unrecorded("evidence") : RecordDevelopmentEvidence(e)
    \/ \E r \in Unrecorded("reviews") : RecordIndependentReview(r)
    \/ \E d \in Unrecorded("successors") : DecideProjectSuccessor(d)
    \/ \E p \in Unrecorded("promotions") : RecordPromotionDecision(p)
    \/ \E c \in Unrecorded("checkpoints") : RecordRecursiveCycleCheckpoint(c)
    \/ \E s \in Unrecorded("stops") : RecordRecursiveStopDisposition(s)
    \/ \E s \in Sources : OpenGeneratedQuestion(s)
    \/ \E a \in Answers : SubmitAnswer(a)

Spec == Init /\ [][Next]_owned

------------------------------------------------------------------------------
(* Properties. *)

(* Every collection holds records of its own kind. *)
TypeOK ==
    /\ DOMAIN owned = Kinds
    /\ \A k \in ProjectKinds \ {"goals", "goalCandidates", "goalDecisions"} :
          Items(owned, k) \subseteq Submitted(k)
    /\ \A d \in owned.goalDecisions : IsGoalDecision(d)
    /\ \A s \in owned.sources : s.candidate \in Ids(owned, "questions")
    /\ \A a \in owned.answers : a.source \in owned.sources

(* A merged promotion names the commit that somebody other than its        *)
(* developer reviewed as valid, on evidence that all passed on that very   *)
(* commit under the goal's gates, in an environment that started from the  *)
(* anchor of the frontier that selected the candidate; it gives up nothing *)
(* the candidate promised to preserve; and where the goal was derived from *)
(* an answer, the one decision on the derivation admits it, in whichever   *)
(* order goals, candidates and decisions are recorded.  The folded state   *)
(* checks only that a promotion names an owned decision, so the rest must  *)
(* survive every later command.                                            *)
MergedIsEarned ==
    \A p \in owned.promotions : p.outcome = "merged" =>
        \E d \in owned.successors, r \in owned.reviews, n \in owned.environments,
           g \in owned.goals, f \in owned.frontiers, c \in owned.candidates,
           a \in owned.anchors :
            /\ d.id = p.successor /\ d.disposition = "replace"
            /\ r.id = d.review /\ r.outcome = "valid" /\ r.commit = p.commit
            /\ n.id = r.environment /\ n.developer # r.reviewer
            /\ g.id = n.goal /\ g.id = r.goal
            /\ f.id = g.frontier /\ f.status = "ready" /\ f.selected = c.id
            /\ c.id = g.candidate /\ c.id = d.candidate
            /\ c.preserved \subseteq d.preserved /\ c.gains = d.gains
            /\ a.id = f.anchor /\ a.commit = n.base
            /\ \A x \in owned.goalCandidates : x.goal.id = g.id =>
                  /\ x.goal = g
                  /\ {y.outcome : y \in {z \in owned.goalDecisions : z.candidate = x.id}}
                        = {"admit"}
            /\ \A id \in r.evidence : \E e \in owned.evidence :
                  /\ e.id = id /\ e.outcome = "pass"
                  /\ e.commit = p.commit /\ e.base = a.commit /\ e.gate \in g.gates

(* Whatever the repertoire admits rests on evidence about its own          *)
(* limitation: every piece passed for a candidate of that limitation, and  *)
(* one independent review found exactly these pieces valid.                *)
LimitationOf(d) ==
    IF d \in owned.questionDecisions
    THEN Get(owned, "questions", d.candidate).limitation
    ELSE Get(owned, "methods", d.candidate).limitation
AdmittedIsReviewed ==
    \A d \in owned.questionDecisions \cup owned.methodDecisions : d.outcome = "admit" =>
        \E r \in owned.reviews, n \in owned.environments, g \in owned.goals,
           c \in owned.candidates :
            /\ r.outcome = "valid" /\ r.evidence = d.evidence
            /\ n.id = r.environment /\ n.developer # r.reviewer
            /\ g.id = r.goal /\ c.id = g.candidate /\ c.limitation = LimitationOf(d)
            /\ \A id \in d.evidence : \E e \in owned.evidence :
                  e.id = id /\ e.goal = g.id /\ e.outcome = "pass"

(* The frontier of derive_capability_frontier leaves out only what one of  *)
(* the kept candidates beats, keeps nothing that another kept one beats,   *)
(* and selects a reversible candidate with a discriminator that is nowhere *)
(* costlier than any other such candidate it keeps.                        *)
FrontierIsSound ==
    \A f \in owned.frontiers :
        LET listed == {c \in owned.candidates : c.id \in f.candidates}
            kept == {c \in listed : c.id \in f.nondominated}
            tried == {c \in kept : c.reversible /\ c.discriminator # None} IN
        /\ \A c \in listed \ kept : \E d \in kept : Dominates(d, c)
        /\ \A c, d \in kept : ~ Dominates(c, d)
        /\ f.selected # None =>
              \E c \in tried : /\ c.id = f.selected
                               /\ \A d \in tried : ComparableCosts(c, d) /\ NoCostlier(c, d)
        /\ f.status = "unknown" =>
              ~ \E c \in tried : \A d \in tried : ComparableCosts(c, d) /\ NoCostlier(c, d)

(* A question obligation keeps the decision it was opened under: as long   *)
(* as its question is in the registry it is there under that decision, so  *)
(* an answer is never interpreted by another admission than the one asked  *)
(* about, however often the question is decided again.                     *)
OpenQuestionKeepsItsDecision ==
    \A s \in owned.sources :
        \A q \in owned.questions, d \in owned.questionDecisions :
            q.id = s.candidate /\ Registered(owned, q, d) => d.id = s.decision

(* decide and the validators are written apart.  As long as no goal        *)
(* candidate is recorded they agree: each of these commands that decide    *)
(* accepts also folds, so the caller never meets an untyped validation     *)
(* error.  (Sealing a goal and deciding a method are not listed: decide    *)
(* leaves a goal's anchor and a rejecting decision's goal to the           *)
(* validators.  So is a checkpoint that cites a record of its own id:      *)
(* identities are unique within a kind only, and decide does not look.)    *)
(* What the commands folded is well typed in any case.                     *)
Folds(k, r) == Valid(With(owned, k, r))
DecideAgreesWithFold ==
    /\ TypeOK
    /\ owned.goalCandidates = {} =>
        /\ \A a \in Submitted("anchors") :
              MayRecordProjectAnchor(owned, a) => Folds("anchors", a)
        /\ \A l \in Submitted("limitations") :
              MayRecordCapabilityLimitation(owned, l) => Folds("limitations", l)
        /\ \A q \in Submitted("questions") :
              MayRecordQuestionContractCandidate(owned, q) => Folds("questions", q)
        /\ \A d \in Submitted("questionDecisions") :
              MayDecideQuestionRepertoire(owned, d) => Folds("questionDecisions", d)
        /\ \A m \in Submitted("methods") :
              MayRecordMethodBindingCandidate(owned, m) => Folds("methods", m)
        /\ \A c \in Submitted("candidates") :
              MayRecordCapabilitySuccessorCandidate(owned, c) => Folds("candidates", c)
        /\ \A f \in Submitted("frontiers") :
              MayRecordCapabilityFrontier(owned, f) => Folds("frontiers", f)
        /\ \A n \in Submitted("environments") :
              MayRecordCandidateEnvironment(owned, n) => Folds("environments", n)
        /\ \A e \in Submitted("evidence") :
              MayRecordDevelopmentEvidence(owned, e) => Folds("evidence", e)
        /\ \A r \in Submitted("reviews") :
              MayRecordIndependentReview(owned, r) => Folds("reviews", r)
        /\ \A d \in Submitted("successors") :
              MayDecideProjectSuccessor(owned, d) => Folds("successors", d)
        /\ \A p \in Submitted("promotions") :
              MayRecordPromotionDecision(owned, p) => Folds("promotions", p)
        /\ \A c \in Submitted("checkpoints") :
              MayRecordRecursiveCycleCheckpoint(owned, c) /\ c.id \notin c.records
                  => Folds("checkpoints", c)
        /\ \A s \in Submitted("stops") :
              MayRecordRecursiveStopDisposition(owned, s) => Folds("stops", s)
=============================================================================
