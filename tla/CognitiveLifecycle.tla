------------------------- MODULE CognitiveLifecycle -------------------------
(***************************************************************************)
(* Predictions, observations and semantic change around the effects of one *)
(* inquiry: the commands AdmitProbe .. CommitSemanticDelta of src/src/rci/ *)
(* core/transitions.py over the records of src/src/rci/probes/models.py.   *)
(*                                                                         *)
(* The effect commands are those of EffectLifecycle, on the same aggregate *)
(* and the same sequence; nothing in them looks at a cognitive record.  A  *)
(* command arrives with a record a caller wrote (Submitted); the positions *)
(* a record carries must equal its event's position, so they are filled in *)
(* when it is recorded.  Which lemmas are active, and which claims are     *)
(* admitted, is the business of TruthMaintenance: here both just change.   *)
(* Of the effect commands, those that record what a cognitive guard can    *)
(* see are interleaved, on requests already made; MaxEvents bounds what is *)
(* recorded after them.                                                    *)
(***************************************************************************)
EXTENDS Naturals, FiniteSets, Sequences, SequencesExt, Functions

CONSTANTS StepPlans, Requests, Attempts, Dispositions, Decodes, Returns,
          Routes, Stamps, None

CONSTANTS Selects,          \* the obligation each step plan selects
          Scope, Binding,   \* the inquiry's context
          CarrierSchemas,   \* and the schemas its binding may have
          Claims,
          LemmaOf,          \* lemma version -> [relation, scope]
          Submitted,        \* the records callers submit, by kind
          PlanOf,           \* request -> the ready step plan it was made under
          Failures,         \* the kinds of outcome without a return that occur
          Unread,           \* the kinds of decode without a result that occur
          MaxEvents,        \* bound: the length of the stream
          MaxTheoryChanges  \* bound: how often lemmas become active or inactive

VARIABLES inquiry,     \* the effect part of the aggregate
          mind,        \* its cognitive records
          happened     \* history: where an attempt's plan, start and outcome stand

vars == <<inquiry, mind, happened>>

Effects == INSTANCE EffectLifecycle

(* The identities, and None for what is not there.                         *)
ASSUME CognitiveAssumption ==
    /\ IsFiniteSet(Requests)
    /\ PlanOf \in [Requests -> StepPlans]
    /\ Failures \subseteq Effects!FailureKinds
    /\ Unread \subseteq Effects!DecodeKinds
    /\ None \notin Effects!PlanStatus \cup StepPlans \cup Decodes \cup Attempts
    /\ None \notin Effects!AttemptPlan \cup Effects!NoAttempt \cup Effects!Outcome
    /\ None \notin Effects!DecodeOutcome
    /\ None \notin [request : Requests, status : Effects!OutcomeKinds \cup {"running"}]

(* The fields of the records callers submit.                               *)
ASSUME SubmittedAssumption ==
    /\ \A k \in Submitted.plans :
          /\ DOMAIN k = {"id", "obligation", "action", "request", "attempt", "revision", "scope"}
          /\ k.request \in Requests /\ k.attempt \in Attempts \cup {None}
    /\ \A s \in Submitted.predictions : DOMAIN s = {"id", "plan", "action", "scope", "basis"}
    /\ \A x \in Submitted.mismatches : x.decode \in Decodes
    /\ \A r \in Submitted.reconstructions :
          /\ DOMAIN r = {"id", "revision", "ret", "decodes", "claims", "generated", "historical"}
          /\ r.decodes \subseteq Decodes
    /\ \A d \in Submitted.deltas :
          DOMAIN d = {"id", "reconstruction", "changes", "reopened", "retired"}

------------------------------------------------------------------------------
(* What the record classes refuse to construct. *)

IsObservation(o) ==
    o.fresh => o.returns # {} /\ o.exposure = "withheld_until_capture"
IsReconstruction(r) == r.generated \cap r.historical = {}
IsDelta(d) ==
    /\ \A c, e \in d.changes : c.id = e.id => c = e
    /\ d.reopened \cap d.retired = {}

(* A record as it is kept: what was submitted, and its event's position.   *)
At(r, field, n) ==
    [f \in DOMAIN r \cup {field} |-> IF f = field THEN n ELSE r[f]]

Ids(S) == {x.id : x \in S}
Get(S, id) == CHOOSE x \in S : x.id = id

(* Every request has been made under its ready plan. *)
RequestedInquiry ==
    [Effects!StartedInquiry EXCEPT
        !.sequence = 1 + Cardinality(Range(PlanOf)) + Cardinality(Requests),
        !.plans = [p \in StepPlans |-> IF p \in Range(PlanOf) THEN "ready" ELSE None],
        !.requests = PlanOf]

Init ==
    /\ inquiry = RequestedInquiry
    /\ mind = [claims |-> {}, active |-> {}, changes |-> 0, probes |-> {},
               observations |-> <<>>, plans |-> {}, predictions |-> {},
               reconstructions |-> {}, mismatches |-> {}, deltas |-> {}]
    /\ happened = [plan |-> [a \in Attempts |-> 0], start |-> [a \in Attempts |-> 0],
                   outcome |-> [a \in Attempts |-> 0]]

(* evolve of a cognitive event: one more event, one more record. *)
Now == inquiry.sequence + 1
WithinBound == inquiry.sequence < MaxEvents
Evolve(m) ==
    /\ WithinBound
    /\ inquiry' = [inquiry EXCEPT !.sequence = Now]
    /\ mind' = m
    /\ UNCHANGED happened

Captured == {inquiry.outcome[a].ret : a \in {b \in Attempts : Effects!Returned(inquiry, b)}}

------------------------------------------------------------------------------
(* Probes and their traces. *)

MayAdmitProbe(p) ==
    /\ p \notin mind.probes
    /\ p.contract # "learned-recurrent-probe@1.0.0"
    /\ p.binding = Binding
    /\ p.schema \in CarrierSchemas
    /\ p.scope = Scope

AdmitProbe(p) ==
    /\ MayAdmitProbe(p)
    /\ Evolve([mind EXCEPT !.probes = @ \cup {p}])

(* compare_probe_events: the same probe and referents, or a bridge, which  *)
(* may also be the one the earlier event carries.                          *)
SelectedBridge(left, right) ==
    IF right.bridge # None THEN right.bridge ELSE left.bridge
CompareProbeEvents(left, right) ==
    \/ /\ left.probe = right.probe
       /\ left.binding = right.binding
       /\ left.referents = right.referents
    \/ LET b == SelectedBridge(left, right)
       IN  b # None /\ {b.from, b.to} = {left.probe, right.probe}

Trace(m, p) == SelectSeq(m.observations, LAMBDA o : o.probe = p)

(* append_probe_event *)
FollowsTrace(m, o) ==
    LET trace == Trace(m, o.probe)
    IN  trace # <<>> => /\ o.index > Last(trace).index
                        /\ CompareProbeEvents(Last(trace), o)

BridgeStands(b) ==
    /\ b.lemma \in mind.active
    /\ b.proposition = LemmaOf[b.lemma].relation
    /\ b.scope = LemmaOf[b.lemma].scope
    /\ b.scope = Scope

MayRecordProbeObservation(o) ==
    /\ \A i \in DOMAIN mind.observations : mind.observations[i].id # o.id
    /\ o.probe \in mind.probes
    /\ o.binding = Binding
    /\ o.revision <= inquiry.sequence
    /\ o.returns \subseteq Captured
    /\ o.claims \subseteq mind.claims
    /\ o.bridge # None => BridgeStands(o.bridge)
    /\ FollowsTrace(mind, o)

RecordProbeObservation(o) ==
    /\ IsObservation(o) /\ MayRecordProbeObservation(o)
    /\ Evolve([mind EXCEPT !.observations = Append(@, o)])

------------------------------------------------------------------------------
(* Plan, prediction, mismatch. *)

(* A plan names the attempt it is for, or none.  The attempt need not be   *)
(* planned yet, and PlanEffectAttempt never looks at cognitive plans.      *)
MayRecordCognitivePlan(k) ==
    /\ k.id \notin Ids(mind.plans)
    /\ Effects!Requested(inquiry, k.request)
    /\ Selects[inquiry.requests[k.request]] = k.obligation
    /\ k.scope = Scope
    /\ k.revision <= inquiry.sequence
    /\ k.attempt # None /\ inquiry.attempts[k.attempt] # None
           => Effects!AttemptOf(inquiry, k.attempt, k.request)

RecordCognitivePlan(k) ==
    /\ MayRecordCognitivePlan(k)
    /\ Evolve([mind EXCEPT !.plans = @ \cup {At(k, "planned", Now)}])

(* Mutant: decide does not ask whether the attempt has ended.              *)
SealAtAnyTime(s) ==
    /\ s.id \notin Ids(mind.predictions)
    /\ s.plan \in Ids(mind.plans)
    /\ LET k == Get(mind.plans, s.plan)
       IN  s.action = k.action /\ s.scope = k.scope
    /\ s.basis \subseteq mind.claims

MaySealPrediction(s) ==
    /\ s.id \notin Ids(mind.predictions)
    /\ s.plan \in Ids(mind.plans)
    /\ LET k == Get(mind.plans, s.plan)
       IN  /\ s.action = k.action /\ s.scope = k.scope
           /\ k.attempt # None => inquiry.outcome[k.attempt] = None
    /\ s.basis \subseteq mind.claims

SealPrediction(s) ==
    /\ MaySealPrediction(s)
    /\ Evolve([mind EXCEPT !.predictions = @ \cup {At(s, "sealed", Now)}])

(* The attempt the prediction's plan names returned exactly this. *)
ReturnedFromPlan(k, ret) ==
    /\ k.attempt # None
    /\ Effects!Returned(inquiry, k.attempt)
    /\ inquiry.outcome[k.attempt].ret = ret

(* Mutant: decide takes any captured return for the predicted one.         *)
MismatchOfAnyReturn(x) ==
    /\ x.id \notin Ids(mind.mismatches)
    /\ x.prediction \in Ids(mind.predictions)
    /\ x.scope = Get(mind.predictions, x.prediction).scope
    /\ x.difference \in mind.claims
    /\ inquiry.decodes[x.decode] # None
    /\ inquiry.decodes[x.decode].kind = "decoded"
    /\ inquiry.decodes[x.decode].ret = x.ret

MayRecordMismatch(x) ==
    /\ x.id \notin Ids(mind.mismatches)
    /\ x.prediction \in Ids(mind.predictions)
    /\ x.scope = Get(mind.predictions, x.prediction).scope
    /\ x.difference \in mind.claims
    /\ inquiry.decodes[x.decode] # None
    /\ inquiry.decodes[x.decode].kind = "decoded"
    /\ inquiry.decodes[x.decode].ret = x.ret
    /\ ReturnedFromPlan(Get(mind.plans, Get(mind.predictions, x.prediction).plan), x.ret)

RecordMismatch(x) ==
    /\ MayRecordMismatch(x)
    /\ Evolve([mind EXCEPT !.mismatches = @ \cup {x}])

------------------------------------------------------------------------------
(* Reconstruction and semantic change. *)

MayRecordReconstruction(r) ==
    /\ r.id \notin Ids(mind.reconstructions)
    /\ r.ret \in Captured
    /\ \A d \in r.decodes : inquiry.decodes[d] # None /\ inquiry.decodes[d].ret = r.ret
    /\ r.claims \subseteq mind.claims
    /\ r.revision <= inquiry.sequence

RecordReconstruction(r) ==
    /\ IsReconstruction(r) /\ MayRecordReconstruction(r)
    /\ Evolve([mind EXCEPT !.reconstructions = @ \cup {At(r, "reconstructed", Now)}])

OperationOf(d, c) ==
    IF c.id \in d.reopened THEN "reopen" ELSE IF c.id \in d.retired THEN "retire" ELSE "add"

ChangeIsWarranted(d, c) ==
    /\ c.lemma \in mind.active
    /\ LemmaOf[c.lemma] = [relation |-> c.proposition, scope |-> c.scope]
    /\ c.scope = Scope
    /\ c.operation = OperationOf(d, c)

MayCommitSemanticDelta(d) ==
    /\ d.id \notin Ids(mind.deltas)
    /\ d.reconstruction \in Ids(mind.reconstructions)
    /\ Now > Get(mind.reconstructions, d.reconstruction).reconstructed
    /\ \A c \in d.changes : ChangeIsWarranted(d, c)

CommitSemanticDelta(d) ==
    /\ IsDelta(d) /\ MayCommitSemanticDelta(d)
    /\ Evolve([mind EXCEPT !.deltas = @ \cup {At(d, "committed", Now)}])

------------------------------------------------------------------------------
(* The rest of the aggregate. *)

AdmitClaim(c) == c \notin mind.claims /\ Evolve([mind EXCEPT !.claims = @ \cup {c}])

ChangeActiveTheory(active) ==
    /\ active # mind.active
    /\ mind.changes < MaxTheoryChanges
    /\ Evolve([mind EXCEPT !.active = active, !.changes = @ + 1])

(* The effect commands that a cognitive guard can tell from no command:    *)
(* acceptance and no-attempt dispositions only forbid some of them.        *)
EffectCommand ==
    \/ \E a \in Attempts, plan \in Effects!AttemptPlan : Effects!PlanEffectAttempt(a, plan)
    \/ \E a \in Attempts : Effects!StartEffectAttempt(a)
    \/ \E r \in Requests, a \in Attempts :
           \/ \E o \in Effects!ReturnedOutcome : Effects!RecordAttemptOutcome(r, a, o)
           \/ \E o \in [kind : Failures, route : Routes] :
                  Effects!RecordAttemptOutcome(r, a, o)
    \/ \E d \in Decodes, kind \in Unread \cup {"decoded"}, r \in Requests, x \in Returns :
           Effects!RecordDecodeOutcome(d, [request |-> r, ret |-> x, kind |-> kind])

(* happened keeps where the events of an attempt stand in the stream, for  *)
(* the attempts that cognitive plans may name.                             *)
Foreseen == {k.attempt : k \in Submitted.plans}

EffectStep ==
    /\ WithinBound
    /\ EffectCommand
    /\ happened' =
           [plan |-> [a \in Attempts |->
                IF a \in Foreseen /\ inquiry'.attempts[a] # inquiry.attempts[a]
                THEN Now ELSE happened.plan[a]],
            start |-> [a \in Attempts |->
                IF a \in Foreseen /\ a \in inquiry'.started \ inquiry.started
                THEN Now ELSE happened.start[a]],
            outcome |-> [a \in Attempts |->
                IF a \in Foreseen /\ inquiry'.outcome[a] # inquiry.outcome[a]
                THEN Now ELSE happened.outcome[a]]]
    /\ UNCHANGED mind

(* What callers submit while the stream has room. *)
Offered(k) == {r \in Submitted[k] : WithinBound}

Next ==
    \/ EffectStep
    \/ \E c \in Claims : AdmitClaim(c)
    \/ \E active \in SUBSET DOMAIN LemmaOf : ChangeActiveTheory(active)
    \/ \E p \in Offered("probes") : AdmitProbe(p)
    \/ \E o \in Offered("observations") : RecordProbeObservation(o)
    \/ \E k \in Offered("plans") : RecordCognitivePlan(k)
    \/ \E s \in Offered("predictions") : SealPrediction(s)
    \/ \E x \in Offered("mismatches") : RecordMismatch(x)
    \/ \E r \in Offered("reconstructions") : RecordReconstruction(r)
    \/ \E d \in Offered("deltas") : CommitSemanticDelta(d)

Spec == Init /\ [][Next]_vars

------------------------------------------------------------------------------
(* validate_cognitive_lifecycle: the reference check of one lifecycle c,   *)
(* which names a plan and the records said to have come of it.  The        *)
(* sequence of the attempt is where it started.                            *)
Findings(c) ==
    LET k == c.plan
        outcome == IF c.attempt = None THEN None ELSE inquiry.outcome[c.attempt]
        tried == c.disposition = None
        returned == outcome # None /\ outcome.kind = "returned"
        failed == outcome # None /\ outcome.kind # "returned"
    IN  [prediction_plan_mismatch |->
             c.seal # None /\ (c.seal.plan # k.id \/ c.seal.action # k.action),
         prediction_precedes_plan |-> c.seal # None /\ c.seal.sealed < k.planned,
         prediction_not_sealed_before_attempt |->
             /\ c.seal # None /\ c.attempt \in inquiry.started
             /\ c.seal.sealed >= happened.start[c.attempt],
         no_attempt_request_mismatch |->
             ~ tried /\ inquiry.dispositions[c.disposition].request # k.request,
         no_attempt_has_downstream_objects |->
             ~ tried /\ (c.attempt # None \/ c.reconstruction # None \/ c.delta # None),
         no_attempt_has_decode_outcomes |-> ~ tried /\ c.decodes # {},
         no_attempt_references_effect_attempt |-> ~ tried /\ k.attempt # None,
         missing_effect_attempt_plan |-> tried /\ c.attempt = None,
         effect_attempt_plan_mismatch |->
             tried /\ c.attempt # None /\ k.attempt # c.attempt,
         effect_request_mismatch |->
             tried /\ c.attempt # None /\ ~ Effects!AttemptOf(inquiry, c.attempt, k.request),
         missing_attempt_outcome |-> tried /\ outcome = None,
         attempt_outcome_route_mismatch |->
             outcome # None /\ outcome.route # inquiry.attempts[c.attempt].route,
         non_returned_outcome_has_return_pipeline |->
             failed /\ (c.decodes # {} \/ c.reconstruction # None \/ c.delta # None),
         decode_external_return_mismatch |->
             returned /\ \E d \in c.decodes : inquiry.decodes[d].ret # outcome.ret,
         reconstruction_return_mismatch |->
             returned /\ c.reconstruction # None /\ c.reconstruction.ret # outcome.ret,
         reconstruction_decode_set_mismatch |->
             returned /\ c.reconstruction # None /\ c.reconstruction.decodes # c.decodes,
         semantic_delta_without_reconstruction |->
             returned /\ c.reconstruction = None /\ c.delta # None,
         semantic_delta_reconstruction_mismatch |->
             /\ returned /\ c.reconstruction # None /\ c.delta # None
             /\ c.delta.reconstruction # c.reconstruction.id,
         semantic_delta_not_after_reconstruction |->
             /\ returned /\ c.reconstruction # None /\ c.delta # None
             /\ c.delta.committed <= c.reconstruction.reconstructed]
LifecycleViolations(c) == {v \in DOMAIN Findings(c) : Findings(c)[v]}

------------------------------------------------------------------------------
(* Properties. *)

(* The records of the aggregate keep their shape. *)
TypeOK ==
    /\ Effects!TypeOK
    /\ mind.claims \subseteq Claims
    /\ mind.active \subseteq DOMAIN LemmaOf
    /\ mind.probes \subseteq Submitted.probes
    /\ \A k \in mind.plans : k.planned \in 2 .. inquiry.sequence
    /\ \A s \in mind.predictions : s.sealed \in 2 .. inquiry.sequence
    /\ happened \in [{"plan", "start", "outcome"} -> [Attempts -> 0 .. inquiry.sequence]]

DecodesOf(s, r) ==
    IF r # None THEN r.decodes
    ELSE {x.decode : x \in {y \in mind.mismatches : s # None /\ y.prediction = s.id}}

SealedWhileRunning(s, a) == happened.start[a] <= s.sealed /\ s.sealed < happened.outcome[a]
Tolerated(k, s) ==
    (IF happened.plan[k.attempt] > k.planned THEN {"effect_request_mismatch"} ELSE {})
    \cup (IF s # None /\ SealedWhileRunning(s, k.attempt)
          THEN {"prediction_not_sealed_before_attempt"} ELSE {})

(* What the reference check of orchestration/cognitive.py can find wrong   *)
(* with a lifecycle the reducer lets grow, whatever is recorded in         *)
(* whatever order.  A prediction always follows its plan, the decodes of a *)
(* reconstruction read its attempt's return, and a delta follows its       *)
(* reconstruction.  Two things the reducer does let go wrong, and only     *)
(* then: the check wants a prediction sealed before the attempt (so does   *)
(* docs/adr/0003), SealPrediction only before the outcome, so the seals    *)
(* found late are those recorded while the attempt ran; and an attempt     *)
(* planned after the plan that names it may be of another request.         *)
(* (Stated together with the types.)                                       *)
LifecycleIsValid ==
    /\ TypeOK
    /\ \A k \in mind.plans : k.attempt # None /\ inquiry.outcome[k.attempt] # None =>
        \A s \in {None} \cup {p \in mind.predictions : p.plan = k.id},
           r \in {None} \cup {q \in mind.reconstructions : ReturnedFromPlan(k, q.ret)} :
            \A d \in {None} \cup {e \in mind.deltas : r # None /\ e.reconstruction = r.id} :
                LifecycleViolations(
                    [plan |-> k, attempt |-> k.attempt, disposition |-> None, seal |-> s,
                     decodes |-> DecodesOf(s, r), reconstruction |-> r, delta |-> d])
                \subseteq Tolerated(k, s)

(* A mismatch is measured, never constructed after the fact: what it calls *)
(* different was captured by the attempt the plan named, after the         *)
(* prediction was sealed, and was decoded for that attempt's own request;  *)
(* an attempt that timed out, was cancelled or whose capture failed yields *)
(* none.                                                                   *)
MismatchIsForesight ==
    \A x \in mind.mismatches : \E s \in mind.predictions, k \in mind.plans :
        /\ s.id = x.prediction /\ k.id = s.plan
        /\ ReturnedFromPlan(k, x.ret)
        /\ k.planned < s.sealed /\ s.sealed < happened.outcome[k.attempt]
        /\ inquiry.decodes[x.decode].kind = "decoded"
        /\ inquiry.decodes[x.decode].ret = x.ret
        /\ Effects!AttemptOf(inquiry, k.attempt, inquiry.decodes[x.decode].request)
=============================================================================
