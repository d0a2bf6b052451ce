----------------------- MODULE CognitiveLifecycleProofs -----------------------
(***************************************************************************)
(* Proofs about predictions, observations and semantic change.             *)
(*                                                                         *)
(* The effect part of the aggregate keeps the invariant that module        *)
(* EffectLifecycleProofs proves inductive; the cognitive records add where *)
(* in the stream each one stands.  A step records one event, at a position *)
(* after everything that is there, and rewrites nothing: so an outcome     *)
(* recorded after a seal, or an attempt planned after its cognitive plan,  *)
(* stands after it for good.                                               *)
(***************************************************************************)
EXTENDS CognitiveLifecycle, FiniteSetTheorems, TLAPS

P == INSTANCE EffectLifecycleProofs

------------------------------------------------------------------------------
(* The inductive invariant. *)

(* The records as they are kept: what was submitted, and its position. *)
PlanRecords == {At(k, "planned", n) : k \in Submitted.plans, n \in Nat}
PredictionRecords == {At(s, "sealed", n) : s \in Submitted.predictions, n \in Nat}
ReconstructionRecords ==
    {At(r, "reconstructed", n) : r \in Submitted.reconstructions, n \in Nat}
DeltaRecords == {At(d, "committed", n) : d \in Submitted.deltas, n \in Nat}

Minds ==
    [claims : SUBSET Claims, active : SUBSET DOMAIN LemmaOf, changes : Nat,
     probes : SUBSET Submitted.probes, observations : Seq(Submitted.observations),
     plans : SUBSET PlanRecords, predictions : SUBSET PredictionRecords,
     reconstructions : SUBSET ReconstructionRecords,
     mismatches : SUBSET Submitted.mismatches, deltas : SUBSET DeltaRecords]

(* One record per identity. *)
OneEach(S) == \A x, y \in S : x.id = y.id => x = y

EffectsSound ==
    /\ Effects!TypeOK
    /\ Effects!ValidatorsAccept
    /\ inquiry.sequence >= 1
    /\ \A a \in Attempts : inquiry.outcome[a] # None =>
           inquiry.outcome[a].route = inquiry.attempts[a].route

MindTyped ==
    /\ mind \in Minds
    /\ OneEach(mind.plans) /\ OneEach(mind.predictions) /\ OneEach(mind.reconstructions)
    /\ \A k \in mind.plans : k.planned \in 2 .. inquiry.sequence
    /\ \A s \in mind.predictions : s.sealed \in 2 .. inquiry.sequence

Positions == [plan : [Attempts -> Nat], start : [Attempts -> Nat], outcome : [Attempts -> Nat]]

HappenedTyped == happened \in Positions

HappenedPast ==
    \A a \in Attempts :
        /\ happened.plan[a] <= inquiry.sequence
        /\ happened.start[a] <= inquiry.sequence
        /\ happened.outcome[a] <= inquiry.sequence

(* An attempt that stood in the stream before the plan that names it is an *)
(* attempt of the request the plan is for.                                 *)
PlanSound(k) ==
    /\ k.request \in Requests
    /\ k.attempt \in Attempts \cup {None} /\ k.attempt \in Foreseen
    /\ /\ k.attempt # None
       /\ inquiry.attempts[k.attempt] # None
       /\ happened.plan[k.attempt] <= k.planned
       => Effects!AttemptOf(inquiry, k.attempt, k.request)

(* A prediction was sealed under its plan, after the plan and before the   *)
(* outcome of the attempt the plan names.                                  *)
SealSound(s, k) ==
    /\ s.action = k.action
    /\ k.planned < s.sealed
    /\ k.attempt # None /\ inquiry.outcome[k.attempt] # None =>
           s.sealed < happened.outcome[k.attempt]

PredictionSound(s) == \E k \in mind.plans : k.id = s.plan /\ SealSound(s, k)

MismatchSound(x) ==
    /\ x.decode \in Decodes
    /\ \E s \in mind.predictions, k \in mind.plans :
          s.id = x.prediction /\ k.id = s.plan /\ ReturnedFromPlan(k, x.ret)
    /\ inquiry.decodes[x.decode] # None
    /\ inquiry.decodes[x.decode].kind = "decoded"
    /\ inquiry.decodes[x.decode].ret = x.ret

ReconstructionSound(r) ==
    \A d \in r.decodes :
        /\ d \in Decodes
        /\ inquiry.decodes[d] # None /\ inquiry.decodes[d].ret = r.ret

DeltaSound(d) ==
    \E r \in mind.reconstructions :
        d.reconstruction = r.id /\ d.committed > r.reconstructed

IInv ==
    /\ EffectsSound
    /\ MindTyped
    /\ HappenedTyped
    /\ HappenedPast
    /\ \A k \in mind.plans : PlanSound(k)
    /\ \A s \in mind.predictions : PredictionSound(s)
    /\ \A x \in mind.mismatches : MismatchSound(x)
    /\ \A r \in mind.reconstructions : ReconstructionSound(r)
    /\ \A d \in mind.deltas : DeltaSound(d)

------------------------------------------------------------------------------
(* Records with their position. *)

(* The position is a new field; the others are as submitted.               *)
LEMMA PlannedFields ==
    ASSUME NEW k \in Submitted.plans, NEW n
    PROVE  LET r == At(k, "planned", n) IN
           /\ r.planned = n /\ r.id = k.id /\ r.action = k.action
           /\ r.request = k.request /\ r.attempt = k.attempt
BY SubmittedAssumption DEF At

LEMMA SealedFields ==
    ASSUME NEW s \in Submitted.predictions, NEW n
    PROVE  LET r == At(s, "sealed", n) IN
           r.sealed = n /\ r.id = s.id /\ r.plan = s.plan /\ r.action = s.action
BY SubmittedAssumption DEF At

LEMMA ReconstructedFields ==
    ASSUME NEW x \in Submitted.reconstructions, NEW n
    PROVE  LET r == At(x, "reconstructed", n) IN
           r.reconstructed = n /\ r.id = x.id /\ r.ret = x.ret /\ r.decodes = x.decodes
BY SubmittedAssumption DEF At

LEMMA CommittedFields ==
    ASSUME NEW d \in Submitted.deltas, NEW n
    PROVE  LET r == At(d, "committed", n) IN
           r.committed = n /\ r.id = d.id /\ r.reconstruction = d.reconstruction
BY SubmittedAssumption DEF At

(* Among records of different identities, Get finds the one.               *)
LEMMA GetFinds ==
    ASSUME NEW S, OneEach(S), NEW x \in S
    PROVE  Get(S, x.id) = x
BY DEF OneEach, Get

------------------------------------------------------------------------------
(* The effect commands.  Effects and P instantiate the same definitions.   *)

LEMMA SameTypes ==
    /\ P!PlanStatus = Effects!PlanStatus /\ P!AttemptPlan = Effects!AttemptPlan
    /\ P!NoAttempt = Effects!NoAttempt /\ P!Outcome = Effects!Outcome
    /\ P!DecodeOutcome = Effects!DecodeOutcome /\ P!OutcomeKinds = Effects!OutcomeKinds
BY DEF P!PlanStatus, Effects!PlanStatus, P!AttemptPlan, Effects!AttemptPlan,
       P!NoAttempt, Effects!NoAttempt, P!Outcome, Effects!Outcome, P!DecodeOutcome,
       Effects!DecodeOutcome, P!OutcomeKinds, Effects!OutcomeKinds, P!FailureKinds,
       Effects!FailureKinds, P!FailedOutcome, Effects!FailedOutcome, P!ReturnedOutcome,
       Effects!ReturnedOutcome, P!DecodeKinds, Effects!DecodeKinds

LEMMA SameState == P!InquiryState = Effects!InquiryState
BY SameTypes DEF P!InquiryState, Effects!InquiryState

(* The assumption of EffectLifecycle on None. *)
LEMMA NoneIsNoRecord ==
    /\ None \notin P!PlanStatus
    /\ None \notin StepPlans
    /\ None \notin P!AttemptPlan
    /\ None \notin P!NoAttempt
    /\ None \notin P!Outcome
    /\ None \notin P!DecodeOutcome
    /\ None \notin Decodes
    /\ None \notin Attempts
    /\ None \notin [request : Requests, status : P!OutcomeKinds \cup {"running"}]
BY CognitiveAssumption, SameTypes

LEMMA SameNext == P!Next <=> Effects!Next
BY DEF P!PlanStatus, Effects!PlanStatus, P!AttemptPlan, Effects!AttemptPlan,
       P!NoAttempt, Effects!NoAttempt, P!Outcome, Effects!Outcome, P!DecodeOutcome,
       Effects!DecodeOutcome, P!OutcomeKinds, Effects!OutcomeKinds, P!FailureKinds,
       Effects!FailureKinds, P!FailedOutcome, Effects!FailedOutcome, P!ReturnedOutcome,
       Effects!ReturnedOutcome, P!DecodeKinds, Effects!DecodeKinds, P!Next,
       Effects!Next, P!RecordStepPlan, Effects!RecordStepPlan, P!RequestEffect,
       Effects!RequestEffect, P!PlanEffectAttempt, Effects!PlanEffectAttempt,
       P!StartEffectAttempt, Effects!StartEffectAttempt, P!RecordNoAttemptDisposition,
       Effects!RecordNoAttemptDisposition, P!RecordAttemptOutcome,
       Effects!RecordAttemptOutcome, P!RecordDecodeOutcome, Effects!RecordDecodeOutcome,
       P!AcceptEffectResult, Effects!AcceptEffectResult, P!LawfulStepPlan,
       Effects!LawfulStepPlan, P!LawfulRequest, Effects!LawfulRequest,
       P!LawfulPlanAttempt, Effects!LawfulPlanAttempt, P!LawfulStart,
       Effects!LawfulStart, P!LawfulNoAttempt, Effects!LawfulNoAttempt, P!LawfulOutcome,
       Effects!LawfulOutcome, P!LawfulDecode, Effects!LawfulDecode, P!LawfulAccept,
       Effects!LawfulAccept, P!ApplyStepPlan, Effects!ApplyStepPlan, P!ApplyRequest,
       Effects!ApplyRequest, P!ApplyPlanAttempt, Effects!ApplyPlanAttempt, P!ApplyStart,
       Effects!ApplyStart, P!ApplyNoAttempt, Effects!ApplyNoAttempt, P!ApplyOutcome,
       Effects!ApplyOutcome, P!ApplyDecode, Effects!ApplyDecode, P!ApplyAccept,
       Effects!ApplyAccept, P!Requested, Effects!Requested, P!Resolved,
       Effects!Resolved, P!AttemptOf, Effects!AttemptOf, P!Returned, Effects!Returned,
       P!CapturedReturns, Effects!CapturedReturns

LEMMA SameValid ==
    ASSUME NEW s
    PROVE  P!Valid(s) <=> Effects!Valid(s)
BY DEF P!Valid, Effects!Valid, P!RequestsArePlanned, Effects!RequestsArePlanned,
       P!AttemptsAreRequested, Effects!AttemptsAreRequested, P!OutcomesFollowStarts,
       Effects!OutcomesFollowStarts, P!ReturnsAreUnique, Effects!ReturnsAreUnique,
       P!DecodesInterpretOwnReturns, Effects!DecodesInterpretOwnReturns,
       P!AcceptedIsDecoded, Effects!AcceptedIsDecoded, P!Requested, Effects!Requested,
       P!Resolved, Effects!Resolved, P!AttemptOf, Effects!AttemptOf, P!Returned,
       Effects!Returned, P!CapturedReturns, Effects!CapturedReturns

(* An effect command keeps the state typed and valid, and rewrites nothing.   *)
LEMMA AggregateStep ==
    ASSUME inquiry \in Effects!InquiryState, Effects!Valid(inquiry), Effects!Next
    PROVE  inquiry' \in Effects!InquiryState /\ Effects!Valid(inquiry') /\ Effects!HistoryStep
<1>1. P!IInv /\ P!Next
  BY SameState, SameValid, SameNext DEF P!IInv, P!TypeOK, P!ValidatorsAccept
<1>2. P!IInv'
  BY <1>1, P!NextIInv, NoneIsNoRecord, Zenon
<1>3. P!HistoryStep
  BY <1>1, P!NextKeepsHistory, NoneIsNoRecord, Zenon
<1>4. inquiry' \in P!InquiryState /\ P!Valid(inquiry')
  BY <1>2 DEF P!IInv, P!TypeOK, P!ValidatorsAccept
<1>5. Effects!HistoryStep
  BY <1>3 DEF P!HistoryStep, Effects!HistoryStep, P!Kept, Effects!Kept
<1> QED  BY <1>4, <1>5, SameState, SameValid

LEMMA EffectCommandIsNext ==
    ASSUME EffectCommand
    PROVE  Effects!Next
<1>1. Effects!ReturnedOutcome \subseteq Effects!Outcome
  BY DEF Effects!Outcome
<1>2. [kind : Failures, route : Routes] \subseteq Effects!Outcome
  BY CognitiveAssumption DEF Effects!Outcome, Effects!FailedOutcome
<1>3. \A kind \in Unread \cup {"decoded"}, r \in Requests, x \in Returns :
         [request |-> r, ret |-> x, kind |-> kind] \in Effects!DecodeOutcome
  BY CognitiveAssumption DEF Effects!DecodeOutcome, Effects!DecodeKinds
<1> QED  BY <1>1, <1>2, <1>3, Zenon DEF EffectCommand, Effects!Next

(* Only RecordAttemptOutcome gives an attempt an outcome, and it comes     *)
(* over the route of the attempt's plan.                                   *)
LEMMA OutcomeKeepsRoute ==
    ASSUME inquiry \in Effects!InquiryState, EffectCommand,
           NEW a \in Attempts, inquiry'.outcome[a] # inquiry.outcome[a]
    PROVE  inquiry.attempts[a] # None /\ inquiry'.outcome[a].route = inquiry.attempts[a].route
<1>1. ASSUME NEW b \in Attempts, NEW plan \in Effects!AttemptPlan,
             Effects!PlanEffectAttempt(b, plan)
      PROVE  inquiry'.outcome = inquiry.outcome
  BY <1>1 DEF Effects!PlanEffectAttempt, Effects!ApplyPlanAttempt, Effects!InquiryState
<1>2. ASSUME NEW b \in Attempts, Effects!StartEffectAttempt(b)
      PROVE  inquiry'.outcome = inquiry.outcome
  BY <1>2 DEF Effects!StartEffectAttempt, Effects!ApplyStart, Effects!InquiryState
<1>3. ASSUME NEW d \in Decodes, NEW x \in Effects!DecodeOutcome,
             Effects!RecordDecodeOutcome(d, x)
      PROVE  inquiry'.outcome = inquiry.outcome
  BY <1>3 DEF Effects!RecordDecodeOutcome, Effects!ApplyDecode, Effects!InquiryState
<1>4. ASSUME NEW r \in Requests, NEW b \in Attempts, NEW o \in Effects!Outcome,
             Effects!RecordAttemptOutcome(r, b, o)
      PROVE  /\ inquiry.attempts[a] # None
             /\ inquiry'.outcome[a].route = inquiry.attempts[a].route
  <2>1. inquiry'.outcome = [inquiry.outcome EXCEPT ![b] = o]
    BY <1>4 DEF Effects!RecordAttemptOutcome, Effects!ApplyOutcome, Effects!InquiryState
  <2>2. inquiry.outcome \in [Attempts -> Effects!Outcome \cup {None}]
    BY DEF Effects!InquiryState
  <2>3. a = b /\ inquiry'.outcome[a] = o
    BY <2>1, <2>2
  <2> QED  BY <1>4, <2>3 DEF Effects!RecordAttemptOutcome, Effects!LawfulOutcome,
             Effects!AttemptOf
<1>5. Effects!ReturnedOutcome \subseteq Effects!Outcome
  BY DEF Effects!Outcome
<1>6. [kind : Failures, route : Routes] \subseteq Effects!Outcome
  BY CognitiveAssumption DEF Effects!Outcome, Effects!FailedOutcome
<1>7. \A kind \in Unread \cup {"decoded"}, r \in Requests, x \in Returns :
         [request |-> r, ret |-> x, kind |-> kind] \in Effects!DecodeOutcome
  BY CognitiveAssumption DEF Effects!DecodeOutcome, Effects!DecodeKinds
<1> QED  BY <1>1, <1>2, <1>3, <1>4, <1>5, <1>6, <1>7, Zenon DEF EffectCommand

(* A cognitive event only counts: the effect part stays typed and valid.   *)
LEMMA CountingKeepsEffects ==
    ASSUME inquiry \in Effects!InquiryState, Effects!Valid(inquiry), NEW n \in Nat,
           inquiry' = [inquiry EXCEPT !.sequence = n]
    PROVE  /\ inquiry' \in Effects!InquiryState
           /\ Effects!Valid(inquiry')
           /\ inquiry'.sequence = n
           /\ inquiry'.attempts = inquiry.attempts
           /\ inquiry'.outcome = inquiry.outcome
           /\ inquiry'.decodes = inquiry.decodes
<1>1. /\ inquiry' \in Effects!InquiryState
      /\ inquiry'.sequence = n
      /\ inquiry'.plans = inquiry.plans /\ inquiry'.requests = inquiry.requests
      /\ inquiry'.attempts = inquiry.attempts /\ inquiry'.started = inquiry.started
      /\ inquiry'.outcome = inquiry.outcome /\ inquiry'.decodes = inquiry.decodes
      /\ inquiry'.accepted = inquiry.accepted
  BY DEF Effects!InquiryState
<1>2. Effects!Valid(inquiry')
  BY <1>1 DEF Effects!Valid, Effects!RequestsArePlanned, Effects!AttemptsAreRequested,
     Effects!OutcomesFollowStarts, Effects!ReturnsAreUnique,
     Effects!DecodesInterpretOwnReturns, Effects!AcceptedIsDecoded, Effects!Requested,
     Effects!Resolved, Effects!Returned, Effects!AttemptOf, Effects!CapturedReturns
<1> QED  BY <1>1, <1>2

------------------------------------------------------------------------------
(* What every step has in common: one event is recorded after all others,  *)
(* nothing recorded is rewritten, and what happened to an attempt for the  *)
(* first time stands at the new event.                                     *)
StepsForward ==
    /\ inquiry'.sequence = inquiry.sequence + 1
    /\ \A a \in Attempts :
          /\ inquiry.attempts[a] # None => inquiry'.attempts[a] = inquiry.attempts[a]
          /\ inquiry.outcome[a] # None => inquiry'.outcome[a] = inquiry.outcome[a]
    /\ \A d \in Decodes : inquiry.decodes[d] # None => inquiry'.decodes[d] = inquiry.decodes[d]
    /\ happened' \in Positions
    /\ \A a \in Attempts :
          /\ happened'.start[a] \in {Now, happened.start[a]}
          /\ happened'.plan[a] =
                IF a \in Foreseen /\ inquiry'.attempts[a] # inquiry.attempts[a]
                THEN Now ELSE happened.plan[a]
          /\ happened'.outcome[a] =
                IF a \in Foreseen /\ inquiry'.outcome[a] # inquiry.outcome[a]
                THEN Now ELSE happened.outcome[a]

LEMMA PositionsTyped ==
    ASSUME IInv
    PROVE  /\ inquiry.sequence \in Nat /\ inquiry.sequence >= 1 /\ Now \in Nat
           /\ \A k \in mind.plans : k.planned \in Nat /\ k.planned < Now
           /\ \A s \in mind.predictions : s.sealed \in Nat /\ s.sealed < Now
           /\ \A a \in Attempts : /\ happened.plan[a] \in Nat /\ happened.start[a] \in Nat
                                 /\ happened.outcome[a] \in Nat
<1>1. inquiry.sequence \in Nat
  BY DEF IInv, EffectsSound, Effects!TypeOK, Effects!InquiryState
<1>2. inquiry.sequence >= 1
  BY DEF IInv, EffectsSound
<1>3. \A k \in mind.plans : k.planned \in 2 .. inquiry.sequence
  BY DEF IInv, MindTyped
<1>4. \A s \in mind.predictions : s.sealed \in 2 .. inquiry.sequence
  BY DEF IInv, MindTyped
<1>5. \A a \in Attempts : /\ happened.plan[a] \in Nat /\ happened.start[a] \in Nat
                          /\ happened.outcome[a] \in Nat
  BY DEF IInv, HappenedTyped, Positions
<1> QED  BY <1>1, <1>2, <1>3, <1>4, <1>5 DEF Now

(* What was true of the records stays true.                                *)
LEMMA PlansStand ==
    ASSUME IInv, StepsForward, NEW k \in mind.plans
    PROVE  PlanSound(k)'
<1>1. PlanSound(k) /\ k.planned \in Nat /\ k.planned < Now /\ Now \in Nat
  BY PositionsTyped DEF IInv
<1>2. ASSUME k.attempt # None, inquiry'.attempts[k.attempt] # None,
             happened'.plan[k.attempt] <= k.planned
      PROVE  Effects!AttemptOf(inquiry', k.attempt, k.request)
  <2>1. k.attempt \in Attempts /\ k.attempt \in Foreseen
    BY <1>1, <1>2 DEF PlanSound
  <2>2. inquiry'.attempts[k.attempt] = inquiry.attempts[k.attempt]
    BY <1>1, <1>2, <2>1 DEF StepsForward
  <2>3. happened'.plan[k.attempt] = happened.plan[k.attempt]
    BY <2>1, <2>2 DEF StepsForward
  <2> QED  BY <1>1, <1>2, <2>2, <2>3 DEF PlanSound, Effects!AttemptOf
<1> QED  BY <1>1, <1>2 DEF PlanSound

LEMMA SealsStand ==
    ASSUME IInv, StepsForward, NEW s \in mind.predictions, NEW k \in mind.plans,
           SealSound(s, k)
    PROVE  SealSound(s, k)'
<1>1. /\ PlanSound(k) /\ s.sealed \in Nat /\ s.sealed < Now /\ Now \in Nat
  BY PositionsTyped DEF IInv
<1>2. ASSUME k.attempt # None, inquiry'.outcome[k.attempt] # None
      PROVE  s.sealed < happened'.outcome[k.attempt]
  <2>1. k.attempt \in Attempts /\ k.attempt \in Foreseen
    BY <1>1, <1>2 DEF PlanSound
  <2>2. CASE inquiry'.outcome[k.attempt] # inquiry.outcome[k.attempt]
    <3>1. happened'.outcome[k.attempt] = Now
      BY <2>1, <2>2 DEF StepsForward
    <3> QED  BY <1>1, <3>1
  <2>3. CASE inquiry'.outcome[k.attempt] = inquiry.outcome[k.attempt]
    <3>1. happened'.outcome[k.attempt] = happened.outcome[k.attempt]
      BY <2>1, <2>3 DEF StepsForward
    <3> QED  BY <1>2, <2>3, <3>1 DEF SealSound
  <2> QED  BY <2>2, <2>3
<1> QED  BY <1>2 DEF SealSound

LEMMA ReturnsStand ==
    ASSUME IInv, StepsForward, NEW k \in mind.plans, NEW ret, ReturnedFromPlan(k, ret)
    PROVE  ReturnedFromPlan(k, ret)'
<1>1. k.attempt \in Attempts
  BY DEF IInv, PlanSound, ReturnedFromPlan
<1>2. inquiry'.outcome[k.attempt] = inquiry.outcome[k.attempt]
  BY <1>1 DEF StepsForward, ReturnedFromPlan, Effects!Returned
<1> QED  BY <1>2 DEF ReturnedFromPlan, Effects!Returned

LEMMA ReconstructionsStand ==
    ASSUME IInv, StepsForward, NEW r \in mind.reconstructions
    PROVE  ReconstructionSound(r)'
BY DEF IInv, ReconstructionSound, StepsForward

(* The invariant after a step, from what the step adds to the records.     *)
LEMMA StepKeepsIInv ==
    ASSUME IInv, StepsForward, EffectsSound', mind' \in Minds,
           OneEach(mind'.plans), OneEach(mind'.predictions), OneEach(mind'.reconstructions),
           mind.plans \subseteq mind'.plans,
           mind.predictions \subseteq mind'.predictions,
           mind.reconstructions \subseteq mind'.reconstructions,
           \A k \in mind'.plans \ mind.plans : PlanSound(k)' /\ k.planned = Now,
           \A s \in mind'.predictions \ mind.predictions : PredictionSound(s)' /\ s.sealed = Now,
           \A x \in mind'.mismatches \ mind.mismatches : MismatchSound(x)',
           \A r \in mind'.reconstructions \ mind.reconstructions : ReconstructionSound(r)',
           \A d \in mind'.deltas \ mind.deltas : DeltaSound(d)'
    PROVE  IInv'
<1>1. inquiry.sequence \in Nat /\ inquiry.sequence >= 1 /\ inquiry'.sequence = inquiry.sequence + 1
  BY PositionsTyped DEF StepsForward
<1>2. MindTyped'
  <2>1. \A k \in mind'.plans : k.planned \in 2 .. inquiry'.sequence
    <3>1. \A k \in mind.plans : k.planned \in 2 .. inquiry.sequence
      BY DEF IInv, MindTyped
    <3> QED  BY <1>1, <3>1 DEF Now
  <2>2. \A s \in mind'.predictions : s.sealed \in 2 .. inquiry'.sequence
    <3>1. \A s \in mind.predictions : s.sealed \in 2 .. inquiry.sequence
      BY DEF IInv, MindTyped
    <3> QED  BY <1>1, <3>1 DEF Now
  <2> QED  BY <2>1, <2>2 DEF MindTyped
<1>3. HappenedTyped'
  BY DEF StepsForward, HappenedTyped
<1>4. HappenedPast'
  <2>1. \A a \in Attempts : /\ happened.plan[a] \in Nat /\ happened.plan[a] <= inquiry.sequence
                            /\ happened.start[a] \in Nat
                            /\ happened.start[a] <= inquiry.sequence
                            /\ happened.outcome[a] \in Nat
                            /\ happened.outcome[a] <= inquiry.sequence
    BY PositionsTyped DEF IInv, HappenedPast
  <2>2. \A a \in Attempts : /\ happened'.plan[a] \in {Now, happened.plan[a]}
                            /\ happened'.start[a] \in {Now, happened.start[a]}
                            /\ happened'.outcome[a] \in {Now, happened.outcome[a]}
    BY DEF StepsForward
  <2>3. ASSUME NEW a \in Attempts
        PROVE  /\ happened'.plan[a] <= inquiry'.sequence
               /\ happened'.start[a] <= inquiry'.sequence
               /\ happened'.outcome[a] <= inquiry'.sequence
    BY <1>1, <2>1, <2>2 DEF Now
  <2> QED  BY <2>3 DEF HappenedPast
<1>5. \A k \in mind'.plans : PlanSound(k)'
  BY PlansStand
<1>6. \A s \in mind'.predictions : PredictionSound(s)'
  <2>1. ASSUME NEW s \in mind.predictions  PROVE PredictionSound(s)'
    <3>1. PICK k \in mind.plans : k.id = s.plan /\ SealSound(s, k)
      BY DEF IInv, PredictionSound
    <3>2. SealSound(s, k)'
      BY <3>1, SealsStand
    <3> QED  BY <3>1, <3>2 DEF PredictionSound
  <2> QED  BY <2>1
<1>7. \A x \in mind'.mismatches : MismatchSound(x)'
  <2>1. ASSUME NEW x \in mind.mismatches  PROVE MismatchSound(x)'
    <3>1. MismatchSound(x)
      BY DEF IInv
    <3>2. PICK s \in mind.predictions, k \in mind.plans :
              s.id = x.prediction /\ k.id = s.plan /\ ReturnedFromPlan(k, x.ret)
      BY <3>1 DEF MismatchSound
    <3>3. ReturnedFromPlan(k, x.ret)'
      BY <3>2, ReturnsStand
    <3>4. inquiry'.decodes[x.decode] = inquiry.decodes[x.decode]
      BY <3>1 DEF MismatchSound, StepsForward
    <3> QED  BY <3>1, <3>2, <3>3, <3>4 DEF MismatchSound
  <2> QED  BY <2>1
<1>8. \A r \in mind'.reconstructions : ReconstructionSound(r)'
  BY ReconstructionsStand
<1>9. \A d \in mind'.deltas : DeltaSound(d)'
  <2>1. \A d \in mind.deltas : DeltaSound(d)'
    BY DEF IInv, DeltaSound
  <2> QED  BY <2>1
<1> QED  BY <1>2, <1>3, <1>4, <1>5, <1>6, <1>7, <1>8, <1>9 DEF IInv

------------------------------------------------------------------------------
(* The effect commands. *)

LEMMA EffectStepKeepsIInv ==
    ASSUME IInv, EffectStep
    PROVE  IInv'
<1>1. inquiry \in Effects!InquiryState /\ Effects!Valid(inquiry) /\ mind' = mind /\ EffectCommand
  BY DEF IInv, EffectsSound, Effects!TypeOK, Effects!ValidatorsAccept, EffectStep
<1>2. inquiry' \in Effects!InquiryState /\ Effects!Valid(inquiry') /\ Effects!HistoryStep
  BY <1>1, EffectCommandIsNext, AggregateStep
<1>3. /\ DOMAIN inquiry.attempts = Attempts /\ DOMAIN inquiry.outcome = Attempts
      /\ DOMAIN inquiry.decodes = Decodes /\ inquiry.sequence \in Nat
  BY <1>1 DEF Effects!InquiryState
<1>4. StepsForward
  <2>1. /\ inquiry'.sequence = inquiry.sequence + 1
        /\ \A a \in Attempts :
              /\ inquiry.attempts[a] # None => inquiry'.attempts[a] = inquiry.attempts[a]
              /\ inquiry.outcome[a] # None => inquiry'.outcome[a] = inquiry.outcome[a]
        /\ \A d \in Decodes :
              inquiry.decodes[d] # None => inquiry'.decodes[d] = inquiry.decodes[d]
    BY <1>2, <1>3 DEF Effects!HistoryStep, Effects!Kept
  <2>2. /\ Now \in Nat
        /\ \A a \in Attempts : /\ happened.plan[a] \in Nat /\ happened.start[a] \in Nat
                              /\ happened.outcome[a] \in Nat
    BY PositionsTyped
  <2>3. happened' \in Positions
    BY <2>2 DEF EffectStep, Positions
  <2>4. \A a \in Attempts :
          /\ happened'.start[a] \in {Now, happened.start[a]}
          /\ happened'.plan[a] =
                IF a \in Foreseen /\ inquiry'.attempts[a] # inquiry.attempts[a]
                THEN Now ELSE happened.plan[a]
          /\ happened'.outcome[a] =
                IF a \in Foreseen /\ inquiry'.outcome[a] # inquiry.outcome[a]
                THEN Now ELSE happened.outcome[a]
    BY DEF EffectStep
  <2> QED  BY <2>1, <2>3, <2>4 DEF StepsForward
<1>5. ASSUME NEW a \in Attempts, inquiry'.outcome[a] # None
      PROVE  inquiry'.outcome[a].route = inquiry'.attempts[a].route
  <2>1. CASE inquiry'.outcome[a] = inquiry.outcome[a]
    <3>1. inquiry.attempts[a] # None
      BY <1>1, <1>5, <2>1 DEF Effects!Valid, Effects!OutcomesFollowStarts
    <3> QED  BY <1>4, <1>5, <2>1, <3>1 DEF StepsForward, IInv, EffectsSound
  <2>2. CASE inquiry'.outcome[a] # inquiry.outcome[a]
    <3>1. inquiry.attempts[a] # None /\ inquiry'.outcome[a].route = inquiry.attempts[a].route
      BY <1>1, <2>2, OutcomeKeepsRoute
    <3> QED  BY <1>4, <3>1 DEF StepsForward
  <2> QED  BY <2>1, <2>2
<1>6. inquiry'.sequence >= 1
  BY <1>3, <1>4 DEF StepsForward
<1>7. EffectsSound'
  BY <1>2, <1>5, <1>6 DEF EffectsSound, Effects!TypeOK, Effects!ValidatorsAccept
<1>8. mind' \in Minds /\ OneEach(mind'.plans) /\ OneEach(mind'.predictions)
      /\ OneEach(mind'.reconstructions)
  BY <1>1 DEF IInv, MindTyped
<1> QED  BY <1>1, <1>4, <1>7, <1>8, StepKeepsIInv

------------------------------------------------------------------------------
(* The cognitive commands. *)

(* A cognitive event goes forward and leaves the effects alone.            *)
LEMMA EvolveForward ==
    ASSUME IInv, NEW m, Evolve(m)
    PROVE  /\ StepsForward /\ EffectsSound' /\ mind' = m /\ happened' = happened
           /\ inquiry'.sequence = Now
           /\ inquiry'.attempts = inquiry.attempts
           /\ inquiry'.outcome = inquiry.outcome
           /\ inquiry'.decodes = inquiry.decodes
<1>1. inquiry \in Effects!InquiryState /\ Effects!Valid(inquiry)
  BY DEF IInv, EffectsSound, Effects!TypeOK, Effects!ValidatorsAccept
<1>2. Now \in Nat /\ Now >= 1 /\ inquiry.sequence \in Nat
  BY PositionsTyped DEF Now
<1>3. inquiry' = [inquiry EXCEPT !.sequence = Now] /\ mind' = m /\ happened' = happened
  BY DEF Evolve
<1>4. /\ inquiry' \in Effects!InquiryState
      /\ Effects!Valid(inquiry')
      /\ inquiry'.sequence = Now
      /\ inquiry'.attempts = inquiry.attempts
      /\ inquiry'.outcome = inquiry.outcome
      /\ inquiry'.decodes = inquiry.decodes
  BY <1>1, <1>2, <1>3, CountingKeepsEffects
<1>5. StepsForward
  BY <1>3, <1>4 DEF StepsForward, IInv, HappenedTyped, Now
<1>6. EffectsSound'
  BY <1>2, <1>4 DEF IInv, EffectsSound, Effects!TypeOK, Effects!ValidatorsAccept
<1> QED  BY <1>3, <1>4, <1>5, <1>6

(* Adding a record under a new identity.                                   *)
LEMMA OneMore ==
    ASSUME NEW S, OneEach(S), NEW x, x.id \notin Ids(S)
    PROVE  OneEach(S \cup {x})
BY DEF OneEach, Ids

(* Events that record no plan, prediction, mismatch, reconstruction or     *)
(* delta.                                                                  *)
LEMMA OtherEventsKeepIInv ==
    ASSUME IInv, NEW m \in Minds, Evolve(m),
           m.plans = mind.plans, m.predictions = mind.predictions,
           m.mismatches = mind.mismatches, m.reconstructions = mind.reconstructions,
           m.deltas = mind.deltas
    PROVE  IInv'
<1>1. StepsForward /\ EffectsSound' /\ mind' = m
  BY EvolveForward
<1>2. OneEach(m.plans) /\ OneEach(m.predictions) /\ OneEach(m.reconstructions)
  BY DEF IInv, MindTyped
<1> QED  BY <1>1, <1>2, StepKeepsIInv

LEMMA AdmitClaimKeepsIInv ==
    ASSUME IInv, NEW c \in Claims, AdmitClaim(c)
    PROVE  IInv'
<1>1. PICK m : m = [mind EXCEPT !.claims = @ \cup {c}]
  OBVIOUS
<1>2. Evolve(m)
  BY <1>1 DEF AdmitClaim
<1>3. mind \in Minds
  BY DEF IInv, MindTyped
<1>4. /\ m \in Minds /\ m.plans = mind.plans /\ m.predictions = mind.predictions
      /\ m.mismatches = mind.mismatches /\ m.reconstructions = mind.reconstructions
      /\ m.deltas = mind.deltas
  BY <1>1, <1>3 DEF Minds
<1> QED  BY <1>2, <1>4, OtherEventsKeepIInv

LEMMA TheoryKeepsIInv ==
    ASSUME IInv, NEW active \in SUBSET DOMAIN LemmaOf, ChangeActiveTheory(active)
    PROVE  IInv'
<1>1. PICK m : m = [mind EXCEPT !.active = active, !.changes = @ + 1]
  OBVIOUS
<1>2. Evolve(m)
  BY <1>1 DEF ChangeActiveTheory
<1>3. mind \in Minds /\ mind.changes + 1 \in Nat
  BY DEF IInv, MindTyped, Minds
<1>4. /\ m \in Minds /\ m.plans = mind.plans /\ m.predictions = mind.predictions
      /\ m.mismatches = mind.mismatches /\ m.reconstructions = mind.reconstructions
      /\ m.deltas = mind.deltas
  BY <1>1, <1>3 DEF Minds
<1> QED  BY <1>2, <1>4, OtherEventsKeepIInv

LEMMA ProbeKeepsIInv ==
    ASSUME IInv, NEW p \in Submitted.probes, AdmitProbe(p)
    PROVE  IInv'
<1>1. PICK m : m = [mind EXCEPT !.probes = @ \cup {p}]
  OBVIOUS
<1>2. Evolve(m)
  BY <1>1 DEF AdmitProbe
<1>3. mind \in Minds
  BY DEF IInv, MindTyped
<1>4. /\ m \in Minds /\ m.plans = mind.plans /\ m.predictions = mind.predictions
      /\ m.mismatches = mind.mismatches /\ m.reconstructions = mind.reconstructions
      /\ m.deltas = mind.deltas
  BY <1>1, <1>3 DEF Minds
<1> QED  BY <1>2, <1>4, OtherEventsKeepIInv

LEMMA ObservationKeepsIInv ==
    ASSUME IInv, NEW o \in Submitted.observations, RecordProbeObservation(o)
    PROVE  IInv'
<1>1. PICK m : m = [mind EXCEPT !.observations = Append(@, o)]
  OBVIOUS
<1>2. Evolve(m)
  BY <1>1 DEF RecordProbeObservation
<1>3. mind \in Minds /\ Append(mind.observations, o) \in Seq(Submitted.observations)
  BY DEF IInv, MindTyped, Minds
<1>4. /\ m \in Minds /\ m.plans = mind.plans /\ m.predictions = mind.predictions
      /\ m.mismatches = mind.mismatches /\ m.reconstructions = mind.reconstructions
      /\ m.deltas = mind.deltas
  BY <1>1, <1>3 DEF Minds
<1> QED  BY <1>2, <1>4, OtherEventsKeepIInv

LEMMA PlanKeepsIInv ==
    ASSUME IInv, NEW k \in Submitted.plans, RecordCognitivePlan(k)
    PROVE  IInv'
<1>1. PICK x : x = At(k, "planned", Now)
  OBVIOUS
<1>2. PICK m : m = [mind EXCEPT !.plans = @ \cup {x}]
  OBVIOUS
<1>3. Evolve(m) /\ MayRecordCognitivePlan(k)
  BY <1>1, <1>2 DEF RecordCognitivePlan
<1>4. mind \in Minds /\ Now \in Nat
  BY PositionsTyped DEF IInv, MindTyped
<1>5. /\ x.planned = Now /\ x.id = k.id /\ x.request = k.request /\ x.attempt = k.attempt
      /\ x \in PlanRecords
  BY <1>1, <1>4, PlannedFields DEF PlanRecords
<1>6. /\ m \in Minds /\ m.plans = mind.plans \cup {x} /\ m.predictions = mind.predictions
      /\ m.mismatches = mind.mismatches /\ m.reconstructions = mind.reconstructions
      /\ m.deltas = mind.deltas
  BY <1>2, <1>4, <1>5 DEF Minds
<1>7. /\ StepsForward /\ EffectsSound' /\ mind' = m
      /\ inquiry'.attempts = inquiry.attempts
  BY <1>3, EvolveForward
<1>8. OneEach(m.plans) /\ OneEach(m.predictions) /\ OneEach(m.reconstructions)
  <2>1. x.id \notin Ids(mind.plans)
    BY <1>3, <1>5 DEF MayRecordCognitivePlan
  <2> QED  BY <1>6, <2>1, OneMore DEF IInv, MindTyped
<1>9. PlanSound(x)'
  <2>1. x.request \in Requests /\ x.attempt \in Attempts \cup {None}
    BY <1>5, SubmittedAssumption
  <2>2. x.attempt # None /\ inquiry'.attempts[x.attempt] # None
          => Effects!AttemptOf(inquiry', x.attempt, x.request)
    BY <1>3, <1>5, <1>7 DEF MayRecordCognitivePlan, Effects!AttemptOf
  <2>3. x.attempt \in Foreseen
    BY <1>5 DEF Foreseen
  <2> QED  BY <2>1, <2>2, <2>3 DEF PlanSound
<1>10. \A y \in mind'.plans \ mind.plans : PlanSound(y)' /\ y.planned = Now
  BY <1>5, <1>6, <1>7, <1>9
<1> QED  BY <1>6, <1>7, <1>8, <1>10, StepKeepsIInv

LEMMA SealKeepsIInv ==
    ASSUME IInv, NEW s \in Submitted.predictions, SealPrediction(s)
    PROVE  IInv'
<1>1. PICK x : x = At(s, "sealed", Now)
  OBVIOUS
<1>2. PICK m : m = [mind EXCEPT !.predictions = @ \cup {x}]
  OBVIOUS
<1>3. Evolve(m) /\ MaySealPrediction(s)
  BY <1>1, <1>2 DEF SealPrediction
<1>4. mind \in Minds /\ Now \in Nat
  BY PositionsTyped DEF IInv, MindTyped
<1>5. /\ x.sealed = Now /\ x.id = s.id /\ x.plan = s.plan /\ x.action = s.action
      /\ x \in PredictionRecords
  BY <1>1, <1>4, SealedFields DEF PredictionRecords
<1>6. /\ m \in Minds /\ m.plans = mind.plans /\ m.predictions = mind.predictions \cup {x}
      /\ m.mismatches = mind.mismatches /\ m.reconstructions = mind.reconstructions
      /\ m.deltas = mind.deltas
  BY <1>2, <1>4, <1>5 DEF Minds
<1>7. /\ StepsForward /\ EffectsSound' /\ mind' = m
      /\ inquiry'.outcome = inquiry.outcome
  BY <1>3, EvolveForward
<1>8. OneEach(m.plans) /\ OneEach(m.predictions) /\ OneEach(m.reconstructions)
  <2>1. x.id \notin Ids(mind.predictions)
    BY <1>3, <1>5 DEF MaySealPrediction
  <2> QED  BY <1>6, <2>1, OneMore DEF IInv, MindTyped
<1>9. PredictionSound(x)'
  <2>1. PICK k \in mind.plans : k.id = s.plan
    BY <1>3 DEF MaySealPrediction, Ids
  <2>2. Get(mind.plans, s.plan) = k
    BY <2>1, GetFinds DEF IInv, MindTyped
  <2>3. s.action = k.action /\ (k.attempt # None => inquiry.outcome[k.attempt] = None)
    BY <1>3, <2>2 DEF MaySealPrediction
  <2>4. k.planned < x.sealed
    BY <1>5, PositionsTyped
  <2>5. SealSound(x, k)'
    BY <1>5, <1>7, <2>3, <2>4 DEF SealSound
  <2> QED  BY <1>5, <1>6, <1>7, <2>1, <2>5 DEF PredictionSound
<1>10. \A y \in mind'.predictions \ mind.predictions : PredictionSound(y)' /\ y.sealed = Now
  BY <1>5, <1>6, <1>7, <1>9
<1> QED  BY <1>6, <1>7, <1>8, <1>10, StepKeepsIInv

LEMMA MismatchKeepsIInv ==
    ASSUME IInv, NEW x \in Submitted.mismatches, RecordMismatch(x)
    PROVE  IInv'
<1>1. PICK m : m = [mind EXCEPT !.mismatches = @ \cup {x}]
  OBVIOUS
<1>2. Evolve(m) /\ MayRecordMismatch(x)
  BY <1>1 DEF RecordMismatch
<1>3. mind \in Minds
  BY DEF IInv, MindTyped
<1>4. /\ m \in Minds /\ m.plans = mind.plans /\ m.predictions = mind.predictions
      /\ m.mismatches = mind.mismatches \cup {x} /\ m.reconstructions = mind.reconstructions
      /\ m.deltas = mind.deltas
  BY <1>1, <1>3 DEF Minds
<1>5. /\ StepsForward /\ EffectsSound' /\ mind' = m
      /\ inquiry'.decodes = inquiry.decodes /\ inquiry'.outcome = inquiry.outcome
  BY <1>2, EvolveForward
<1>6. OneEach(m.plans) /\ OneEach(m.predictions) /\ OneEach(m.reconstructions)
  BY <1>4 DEF IInv, MindTyped
<1>7. MismatchSound(x)'
  <2>1. PICK s \in mind.predictions : s.id = x.prediction
    BY <1>2 DEF MayRecordMismatch, Ids
  <2>2. Get(mind.predictions, x.prediction) = s
    BY <2>1, GetFinds DEF IInv, MindTyped
  <2>3. PICK k \in mind.plans : k.id = s.plan
    BY DEF IInv, PredictionSound
  <2>4. Get(mind.plans, s.plan) = k
    BY <2>3, GetFinds DEF IInv, MindTyped
  <2>5. ReturnedFromPlan(k, x.ret)
    BY <1>2, <2>2, <2>4 DEF MayRecordMismatch
  <2>6. ReturnedFromPlan(k, x.ret)'
    BY <1>5, <2>5, ReturnsStand
  <2>7. x.decode \in Decodes
    BY SubmittedAssumption
  <2>8. /\ inquiry'.decodes[x.decode] # None
        /\ inquiry'.decodes[x.decode].kind = "decoded"
        /\ inquiry'.decodes[x.decode].ret = x.ret
    BY <1>2, <1>5 DEF MayRecordMismatch
  <2> QED  BY <1>4, <1>5, <2>1, <2>3, <2>6, <2>7, <2>8 DEF MismatchSound
<1>8. \A y \in mind'.mismatches \ mind.mismatches : MismatchSound(y)'
  BY <1>4, <1>5, <1>7
<1> QED  BY <1>4, <1>5, <1>6, <1>8, StepKeepsIInv

LEMMA ReconstructionKeepsIInv ==
    ASSUME IInv, NEW r \in Submitted.reconstructions, RecordReconstruction(r)
    PROVE  IInv'
<1>1. PICK x : x = At(r, "reconstructed", Now)
  OBVIOUS
<1>2. PICK m : m = [mind EXCEPT !.reconstructions = @ \cup {x}]
  OBVIOUS
<1>3. Evolve(m) /\ MayRecordReconstruction(r)
  BY <1>1, <1>2 DEF RecordReconstruction
<1>4. mind \in Minds /\ Now \in Nat
  BY PositionsTyped DEF IInv, MindTyped
<1>5. x.id = r.id /\ x.ret = r.ret /\ x.decodes = r.decodes /\ x \in ReconstructionRecords
  BY <1>1, <1>4, ReconstructedFields DEF ReconstructionRecords
<1>6. /\ m \in Minds /\ m.plans = mind.plans /\ m.predictions = mind.predictions
      /\ m.mismatches = mind.mismatches
      /\ m.reconstructions = mind.reconstructions \cup {x} /\ m.deltas = mind.deltas
  BY <1>2, <1>4, <1>5 DEF Minds
<1>7. /\ StepsForward /\ EffectsSound' /\ mind' = m
      /\ inquiry'.decodes = inquiry.decodes
  BY <1>3, EvolveForward
<1>8. OneEach(m.plans) /\ OneEach(m.predictions) /\ OneEach(m.reconstructions)
  <2>1. x.id \notin Ids(mind.reconstructions)
    BY <1>3, <1>5 DEF MayRecordReconstruction
  <2> QED  BY <1>6, <2>1, OneMore DEF IInv, MindTyped
<1>9. ReconstructionSound(x)'
  BY <1>3, <1>5, <1>7, SubmittedAssumption DEF MayRecordReconstruction, ReconstructionSound
<1>10. \A y \in mind'.reconstructions \ mind.reconstructions : ReconstructionSound(y)'
  BY <1>6, <1>7, <1>9
<1> QED  BY <1>6, <1>7, <1>8, <1>10, StepKeepsIInv

LEMMA DeltaKeepsIInv ==
    ASSUME IInv, NEW d \in Submitted.deltas, CommitSemanticDelta(d)
    PROVE  IInv'
<1>1. PICK x : x = At(d, "committed", Now)
  OBVIOUS
<1>2. PICK m : m = [mind EXCEPT !.deltas = @ \cup {x}]
  OBVIOUS
<1>3. Evolve(m) /\ MayCommitSemanticDelta(d)
  BY <1>1, <1>2 DEF CommitSemanticDelta
<1>4. mind \in Minds /\ Now \in Nat
  BY PositionsTyped DEF IInv, MindTyped
<1>5. x.committed = Now /\ x.reconstruction = d.reconstruction /\ x \in DeltaRecords
  BY <1>1, <1>4, CommittedFields DEF DeltaRecords
<1>6. /\ m \in Minds /\ m.plans = mind.plans /\ m.predictions = mind.predictions
      /\ m.mismatches = mind.mismatches /\ m.reconstructions = mind.reconstructions
      /\ m.deltas = mind.deltas \cup {x}
  BY <1>2, <1>4, <1>5 DEF Minds
<1>7. StepsForward /\ EffectsSound' /\ mind' = m
  BY <1>3, EvolveForward
<1>8. OneEach(m.plans) /\ OneEach(m.predictions) /\ OneEach(m.reconstructions)
  BY <1>6 DEF IInv, MindTyped
<1>9. DeltaSound(x)'
  <2>1. PICK r \in mind.reconstructions : r.id = d.reconstruction
    BY <1>3 DEF MayCommitSemanticDelta, Ids
  <2>2. Get(mind.reconstructions, d.reconstruction) = r
    BY <2>1, GetFinds DEF IInv, MindTyped
  <2>3. Now > r.reconstructed
    BY <1>3, <2>2 DEF MayCommitSemanticDelta
  <2> QED  BY <1>5, <1>6, <1>7, <2>1, <2>3 DEF DeltaSound
<1>10. \A y \in mind'.deltas \ mind.deltas : DeltaSound(y)'
  BY <1>6, <1>7, <1>9
<1> QED  BY <1>6, <1>7, <1>8, <1>10, StepKeepsIInv

------------------------------------------------------------------------------
(* The invariant. *)

LEMMA InitIInv == Init => IInv
<1> SUFFICES ASSUME Init  PROVE IInv
  OBVIOUS
<1> DEFINE n == 1 + Cardinality(Range(PlanOf)) + Cardinality(Requests)
           plans == [p \in StepPlans |-> IF p \in Range(PlanOf) THEN "ready" ELSE None]
<1>1. Cardinality(Range(PlanOf)) \in Nat /\ Cardinality(Requests) \in Nat
  <2>1. IsFiniteSet(Range(PlanOf))
    <3>1. PlanOf \in Surjection(Requests, Range(PlanOf))
      BY CognitiveAssumption DEF Surjection, Range
    <3> QED  BY <3>1, CognitiveAssumption, FS_Surjection
  <2> QED  BY <2>1, CognitiveAssumption, FS_CardinalityType
<1>2. n \in Nat /\ n >= 1
  BY <1>1
<1>3. plans \in [StepPlans -> Effects!PlanStatus \cup {None}]
  BY DEF Effects!PlanStatus
<1>4. PlanOf \in [Requests -> StepPlans \cup {None}]
  BY CognitiveAssumption
<1>5. inquiry = [Effects!StartedInquiry EXCEPT !.sequence = n, !.plans = plans,
                                               !.requests = PlanOf]
  BY DEF Init, RequestedInquiry
<1>6. \A r \in Requests : plans[PlanOf[r]] = "ready"
  BY CognitiveAssumption DEF Range
<1> HIDE DEF n, plans
<1>7. inquiry \in Effects!InquiryState
  BY <1>2, <1>3, <1>4, <1>5 DEF Effects!StartedInquiry, Effects!InquiryState
<1>8. /\ inquiry.sequence = n /\ inquiry.plans = plans /\ inquiry.requests = PlanOf
      /\ inquiry.started = {}
      /\ \A a \in Attempts : inquiry.attempts[a] = None /\ inquiry.outcome[a] = None
      /\ \A d \in Decodes : inquiry.decodes[d] = None
      /\ \A r \in Requests : inquiry.accepted[r] = None
  BY <1>5 DEF Effects!StartedInquiry
<1>9. Effects!Valid(inquiry)
  BY <1>6, <1>8 DEF Effects!Valid, Effects!RequestsArePlanned, Effects!AttemptsAreRequested,
     Effects!OutcomesFollowStarts, Effects!ReturnsAreUnique,
     Effects!DecodesInterpretOwnReturns, Effects!AcceptedIsDecoded, Effects!Requested,
     Effects!Resolved, Effects!Returned
<1>10. EffectsSound
  BY <1>2, <1>7, <1>8, <1>9 DEF EffectsSound, Effects!TypeOK, Effects!ValidatorsAccept
<1>11. MindTyped
  <2>1. << >> \in Seq(Submitted.observations)
    OBVIOUS
  <2> QED  BY <2>1 DEF Init, MindTyped, Minds, OneEach
<1>12. HappenedTyped /\ HappenedPast
  BY <1>2, <1>8 DEF Init, HappenedTyped, HappenedPast, Positions
<1> QED  BY <1>10, <1>11, <1>12 DEF Init, IInv

LEMMA NextIInv == IInv /\ [Next]_vars => IInv'
<1> SUFFICES ASSUME IInv, [Next]_vars  PROVE IInv'
  OBVIOUS
<1>1. \A kind \in DOMAIN Submitted : Offered(kind) \subseteq Submitted[kind]
  BY DEF Offered
<1>2. CASE UNCHANGED vars
  <2>1. EffectsSound'
    BY <1>2 DEF IInv, EffectsSound, vars, Effects!TypeOK, Effects!ValidatorsAccept
  <2>2. MindTyped' /\ HappenedTyped' /\ HappenedPast'
    BY <1>2 DEF IInv, MindTyped, HappenedTyped, HappenedPast, vars
  <2>3. (\A k \in mind.plans : PlanSound(k)) /\ (\A s \in mind.predictions : PredictionSound(s))
    BY DEF IInv
  <2>4. (\A k \in mind'.plans : PlanSound(k)') /\ (\A s \in mind'.predictions : PredictionSound(s)')
    BY <1>2, <2>3 DEF vars, PlanSound, PredictionSound, SealSound
  <2>5. \A x \in mind'.mismatches : MismatchSound(x)'
    BY <1>2 DEF IInv, vars, MismatchSound, ReturnedFromPlan
  <2>6. (\A r \in mind'.reconstructions : ReconstructionSound(r)')
        /\ (\A d \in mind'.deltas : DeltaSound(d)')
    BY <1>2 DEF IInv, vars, ReconstructionSound, DeltaSound
  <2> QED  BY <2>1, <2>2, <2>4, <2>5, <2>6 DEF IInv
<1>3. CASE Next
  BY <1>3, EffectStepKeepsIInv, AdmitClaimKeepsIInv, TheoryKeepsIInv, ProbeKeepsIInv,
     ObservationKeepsIInv, PlanKeepsIInv, SealKeepsIInv, MismatchKeepsIInv,
     ReconstructionKeepsIInv, DeltaKeepsIInv
     DEF Next, Offered
<1> QED  BY <1>2, <1>3

LEMMA AlwaysIInv == Spec => []IInv
BY InitIInv, NextIInv, PTL DEF Spec

------------------------------------------------------------------------------
(* Theorems. *)

(* A mismatch is measured, never constructed after the fact: what          *)
(* RecordMismatch calls different was captured by the attempt the plan     *)
(* named, after SealPrediction recorded the prediction, and was decoded    *)
(* for that attempt's own request, whatever the reducer interleaves.       *)
THEOREM MismatchIsAlwaysForesight == Spec => []MismatchIsForesight
<1>1. ASSUME IInv  PROVE MismatchIsForesight
  <2> SUFFICES ASSUME NEW x \in mind.mismatches
               PROVE  \E s \in mind.predictions, k \in mind.plans :
                        /\ s.id = x.prediction /\ k.id = s.plan
                        /\ ReturnedFromPlan(k, x.ret)
                        /\ k.planned < s.sealed /\ s.sealed < happened.outcome[k.attempt]
                        /\ inquiry.decodes[x.decode].kind = "decoded"
                        /\ inquiry.decodes[x.decode].ret = x.ret
                        /\ Effects!AttemptOf(inquiry, k.attempt,
                                             inquiry.decodes[x.decode].request)
    BY DEF MismatchIsForesight
  <2>1. MismatchSound(x)
    BY <1>1 DEF IInv
  <2>2. PICK s \in mind.predictions, k \in mind.plans :
            s.id = x.prediction /\ k.id = s.plan /\ ReturnedFromPlan(k, x.ret)
    BY <2>1 DEF MismatchSound
  <2>3. PICK q \in mind.plans : q.id = s.plan /\ SealSound(s, q)
    BY <1>1 DEF IInv, PredictionSound
  <2>4. q = k
    BY <1>1, <2>2, <2>3 DEF IInv, MindTyped, OneEach
  <2>5. PlanSound(k)
    BY <1>1 DEF IInv
  <2>6. /\ k.attempt \in Attempts /\ k.attempt # None /\ inquiry.outcome[k.attempt] # None
        /\ Effects!Returned(inquiry, k.attempt) /\ inquiry.outcome[k.attempt].ret = x.ret
    BY <2>2, <2>5 DEF PlanSound, ReturnedFromPlan, Effects!Returned
  <2>7. k.planned < s.sealed /\ s.sealed < happened.outcome[k.attempt]
    BY <2>3, <2>4, <2>6 DEF SealSound
  <2>8. /\ x.decode \in Decodes /\ inquiry.decodes[x.decode] # None
        /\ inquiry.decodes[x.decode].kind = "decoded" /\ inquiry.decodes[x.decode].ret = x.ret
    BY <2>1 DEF MismatchSound
  <2>9. Effects!AttemptOf(inquiry, k.attempt, inquiry.decodes[x.decode].request)
    <3>1. Effects!DecodesInterpretOwnReturns(inquiry) /\ Effects!ReturnsAreUnique(inquiry)
      BY <1>1 DEF IInv, EffectsSound, Effects!ValidatorsAccept, Effects!Valid
    <3>2. PICK a \in Attempts :
             /\ Effects!Returned(inquiry, a)
             /\ inquiry.outcome[a].ret = inquiry.decodes[x.decode].ret
             /\ Effects!AttemptOf(inquiry, a, inquiry.decodes[x.decode].request)
      BY <2>8, <3>1 DEF Effects!DecodesInterpretOwnReturns, Effects!CapturedReturns
    <3>3. a = k.attempt
      BY <2>6, <2>8, <3>1, <3>2 DEF Effects!ReturnsAreUnique
    <3> QED  BY <3>2, <3>3
  <2> QED  BY <2>2, <2>7, <2>8, <2>9
<1> QED  BY <1>1, AlwaysIInv, PTL

(* Nineteen findings the reference check can make of a lifecycle that has  *)
(* an attempt with an outcome; each names what would have to be wrong.     *)
LEMMA NothingFound ==
    ASSUME NEW c, NEW outcome, NEW ok \in BOOLEAN, NEW timely \in BOOLEAN,
           c.attempt # None, c.disposition = None,
           outcome = inquiry.outcome[c.attempt], outcome # None,
           c.seal # None =>
               /\ c.seal.plan = c.plan.id /\ c.seal.action = c.plan.action
               /\ ~ (c.seal.sealed < c.plan.planned)
               /\ timely => ~ (c.seal.sealed >= happened.start[c.attempt]),
           c.plan.attempt = c.attempt,
           ok => Effects!AttemptOf(inquiry, c.attempt, c.plan.request),
           outcome.route = inquiry.attempts[c.attempt].route,
           outcome.kind # "returned" =>
               c.decodes = {} /\ c.reconstruction = None /\ c.delta = None,
           outcome.kind = "returned" => \A d \in c.decodes : inquiry.decodes[d].ret = outcome.ret,
           c.reconstruction # None =>
               c.reconstruction.ret = outcome.ret /\ c.reconstruction.decodes = c.decodes,
           c.delta # None =>
               /\ c.reconstruction # None
               /\ c.delta.reconstruction = c.reconstruction.id
               /\ ~ (c.delta.committed <= c.reconstruction.reconstructed)
    PROVE  LifecycleViolations(c)
           \subseteq (IF ok THEN {} ELSE {"effect_request_mismatch"})
                      \cup (IF timely THEN {} ELSE {"prediction_not_sealed_before_attempt"})
<1> DEFINE f == Findings(c)
<1>1. ~ f.prediction_plan_mismatch
  BY DEF Findings
<1>2. /\ ~ f.prediction_precedes_plan
      /\ timely => ~ f.prediction_not_sealed_before_attempt
  BY DEF Findings
<1>3. /\ ~ f.no_attempt_request_mismatch
      /\ ~ f.no_attempt_has_downstream_objects
      /\ ~ f.no_attempt_has_decode_outcomes
      /\ ~ f.no_attempt_references_effect_attempt
  BY DEF Findings
<1>4. /\ ~ f.missing_effect_attempt_plan
      /\ ~ f.effect_attempt_plan_mismatch
      /\ ~ f.missing_attempt_outcome
  BY DEF Findings
<1>5. ~ f.attempt_outcome_route_mismatch
  BY DEF Findings
<1>6. ~ f.non_returned_outcome_has_return_pipeline
  BY DEF Findings
<1>7. ~ f.decode_external_return_mismatch
  BY DEF Findings
<1>8. /\ ~ f.reconstruction_return_mismatch
      /\ ~ f.reconstruction_decode_set_mismatch
  BY DEF Findings
<1>9. ~ f.semantic_delta_without_reconstruction
  BY DEF Findings
<1>10. /\ ~ f.semantic_delta_reconstruction_mismatch
      /\ ~ f.semantic_delta_not_after_reconstruction
  BY DEF Findings
<1>11. ok => ~ f.effect_request_mismatch
  BY DEF Findings
<1>12. DOMAIN f = {"prediction_plan_mismatch", "prediction_precedes_plan",
          "prediction_not_sealed_before_attempt", "no_attempt_request_mismatch",
          "no_attempt_has_downstream_objects", "no_attempt_has_decode_outcomes",
          "no_attempt_references_effect_attempt", "missing_effect_attempt_plan",
          "effect_attempt_plan_mismatch", "effect_request_mismatch",
          "missing_attempt_outcome", "attempt_outcome_route_mismatch",
          "non_returned_outcome_has_return_pipeline",
          "decode_external_return_mismatch", "reconstruction_return_mismatch",
          "reconstruction_decode_set_mismatch",
          "semantic_delta_without_reconstruction",
          "semantic_delta_reconstruction_mismatch",
          "semantic_delta_not_after_reconstruction"}
  BY DEF Findings
<1> HIDE DEF f
<1>13. \A v \in DOMAIN f : f[v] =>
           \/ v = "effect_request_mismatch" /\ ~ ok
           \/ v = "prediction_not_sealed_before_attempt" /\ ~ timely
  BY <1>1, <1>2, <1>3, <1>4, <1>5, <1>6, <1>7, <1>8, <1>9, <1>10, <1>11, <1>12
<1>14. LifecycleViolations(c) = {v \in DOMAIN f : f[v]}
  BY DEF LifecycleViolations, f
<1> QED  BY <1>13, <1>14

LEMMA TypeCorrect ==
    ASSUME IInv
    PROVE  TypeOK
<1>1. inquiry.sequence \in Nat
  BY PositionsTyped
<1>2. happened \in [{"plan", "start", "outcome"} -> [Attempts -> 0 .. inquiry.sequence]]
  <2>1. \A a \in Attempts : happened.plan[a] \in Nat /\ happened.plan[a] <= inquiry.sequence
    BY DEF IInv, HappenedTyped, HappenedPast, Positions
  <2>2. \A a \in Attempts : happened.outcome[a] \in Nat /\ happened.outcome[a] <= inquiry.sequence
    BY DEF IInv, HappenedTyped, HappenedPast, Positions
  <2>3. happened \in [plan : [Attempts -> Nat], start : [Attempts -> Nat],
                      outcome : [Attempts -> Nat]]
    BY DEF IInv, HappenedTyped, Positions
  <2>4. happened.plan \in [Attempts -> 0 .. inquiry.sequence]
    BY <1>1, <2>1, <2>3
  <2>5. happened.outcome \in [Attempts -> 0 .. inquiry.sequence]
    BY <1>1, <2>2, <2>3
  <2>6. \A a \in Attempts : happened.start[a] \in Nat /\ happened.start[a] <= inquiry.sequence
    BY DEF IInv, HappenedTyped, HappenedPast, Positions
  <2>7. happened.start \in [Attempts -> 0 .. inquiry.sequence]
    BY <1>1, <2>3, <2>6
  <2> QED  BY <2>3, <2>4, <2>5, <2>7
<1>3. /\ mind.claims \subseteq Claims /\ mind.active \subseteq DOMAIN LemmaOf
      /\ mind.probes \subseteq Submitted.probes
  BY DEF IInv, MindTyped, Minds
<1>4. /\ \A k \in mind.plans : k.planned \in 2 .. inquiry.sequence
      /\ \A s \in mind.predictions : s.sealed \in 2 .. inquiry.sequence
  BY DEF IInv, MindTyped
<1>5. Effects!TypeOK
  BY DEF IInv, EffectsSound
<1> QED  BY <1>2, <1>3, <1>4, <1>5 DEF TypeOK

(* validate_cognitive_lifecycle of orchestration/cognitive.py finds every  *)
(* lifecycle the reducer lets grow in order, for any plans, attempts and   *)
(* submitted records and in any order of recording, but for two things:    *)
(* the request may disagree, only when the attempt was planned after the   *)
(* plan that names it, and the seal may be late for the check, only when   *)
(* it was recorded between the attempt's start and its outcome.            *)
THEOREM LifecycleIsAlwaysValid == Spec => []LifecycleIsValid
<1>1. ASSUME IInv  PROVE LifecycleIsValid
  <2> SUFFICES ASSUME NEW k \in mind.plans, k.attempt # None,
                      inquiry.outcome[k.attempt] # None,
                      NEW s \in {None} \cup {p \in mind.predictions : p.plan = k.id},
                      NEW r \in {None} \cup {q \in mind.reconstructions :
                                                 ReturnedFromPlan(k, q.ret)},
                      NEW d \in {None} \cup {e \in mind.deltas :
                                                 r # None /\ e.reconstruction = r.id},
                      NEW c,
                      c = [plan |-> k, attempt |-> k.attempt, disposition |-> None, seal |-> s,
                           decodes |-> DecodesOf(s, r), reconstruction |-> r, delta |-> d]
               PROVE  LifecycleViolations(c) \subseteq Tolerated(k, s)
    BY <1>1, TypeCorrect, Zenon DEF LifecycleIsValid
  <2> DEFINE ok == ~ (happened.plan[k.attempt] > k.planned)
             timely == ~ (s # None /\ SealedWhileRunning(s, k.attempt))
             outcome == inquiry.outcome[k.attempt]
  <2>1. /\ c.plan = k /\ c.attempt = k.attempt /\ c.disposition = None /\ c.seal = s
        /\ c.decodes = DecodesOf(s, r) /\ c.reconstruction = r /\ c.delta = d
    OBVIOUS
  <2>2. PlanSound(k) /\ k.attempt \in Attempts
    BY <1>1 DEF IInv, PlanSound
  <2>3. inquiry.attempts[k.attempt] # None
    BY <1>1, <2>2 DEF IInv, EffectsSound, Effects!ValidatorsAccept, Effects!Valid,
       Effects!OutcomesFollowStarts
  <2>4. ok => Effects!AttemptOf(inquiry, k.attempt, k.request)
    <3>1. happened.plan[k.attempt] \in Nat /\ k.planned \in Nat
      BY <1>1, <2>2, PositionsTyped
    <3> QED  BY <2>2, <2>3, <3>1 DEF PlanSound
  <2>5. outcome.route = inquiry.attempts[k.attempt].route
    BY <1>1, <2>2 DEF IInv, EffectsSound
  <2>6. ASSUME s # None
        PROVE  /\ s \in mind.predictions /\ s.plan = k.id /\ s.action = k.action
               /\ ~ (s.sealed < k.planned)
               /\ timely => ~ (s.sealed >= happened.start[k.attempt])
    <3>1. s \in mind.predictions /\ s.plan = k.id
      BY <2>6
    <3>2. PICK q \in mind.plans : q.id = s.plan /\ SealSound(s, q)
      BY <1>1, <3>1 DEF IInv, PredictionSound
    <3>3. q = k
      BY <1>1, <3>1, <3>2 DEF IInv, MindTyped, OneEach
    <3>4. s.action = k.action /\ k.planned < s.sealed /\ s.sealed < happened.outcome[k.attempt]
      BY <3>2, <3>3 DEF SealSound
    <3>5. /\ s.sealed \in Nat /\ k.planned \in Nat
          /\ happened.start[k.attempt] \in Nat /\ happened.outcome[k.attempt] \in Nat
      BY <1>1, <2>2, <3>1, PositionsTyped
    <3>6. timely => ~ (s.sealed >= happened.start[k.attempt])
      BY <2>6, <3>4, <3>5 DEF SealedWhileRunning
    <3> QED  BY <3>1, <3>4, <3>5, <3>6
  <2>7. ASSUME r # None
        PROVE  /\ r \in mind.reconstructions /\ outcome.kind = "returned"
               /\ r.ret = outcome.ret /\ r.decodes = DecodesOf(s, r)
               /\ \A x \in DecodesOf(s, r) : inquiry.decodes[x].ret = outcome.ret
    <3>1. r \in mind.reconstructions /\ ReturnedFromPlan(k, r.ret)
      BY <2>7
    <3>2. ReconstructionSound(r)
      BY <1>1, <3>1 DEF IInv
    <3> QED  BY <2>7, <3>1, <3>2 DEF ReturnedFromPlan, Effects!Returned, ReconstructionSound,
               DecodesOf
  <2>8. ASSUME r = None, NEW y \in DecodesOf(s, r)
        PROVE  outcome.kind = "returned" /\ inquiry.decodes[y].ret = outcome.ret
    <3>1. PICK x \in mind.mismatches : s # None /\ x.prediction = s.id /\ y = x.decode
      BY <2>8 DEF DecodesOf
    <3>2. MismatchSound(x)
      BY <1>1 DEF IInv
    <3>3. PICK z \in mind.predictions, q \in mind.plans :
             z.id = x.prediction /\ q.id = z.plan /\ ReturnedFromPlan(q, x.ret)
      BY <3>2 DEF MismatchSound
    <3>4. z = s
      BY <1>1, <2>6, <3>1, <3>3 DEF IInv, MindTyped, OneEach
    <3>5. q = k
      BY <1>1, <2>6, <3>1, <3>3, <3>4 DEF IInv, MindTyped, OneEach
    <3> QED  BY <3>1, <3>2, <3>3, <3>5 DEF MismatchSound, ReturnedFromPlan, Effects!Returned
  <2>9. ASSUME d # None
        PROVE  /\ r # None /\ d.reconstruction = r.id
               /\ ~ (d.committed <= r.reconstructed)
    <3>1. d \in mind.deltas /\ r # None /\ d.reconstruction = r.id
      BY <2>9
    <3>2. PICK q \in mind.reconstructions :
             d.reconstruction = q.id /\ d.committed > q.reconstructed
      BY <1>1, <3>1 DEF IInv, DeltaSound
    <3>3. q = r
      BY <1>1, <2>7, <3>1, <3>2 DEF IInv, MindTyped, OneEach
    <3>4. mind \in Minds
      BY <1>1 DEF IInv, MindTyped
    <3>5. PICK dd \in Submitted.deltas, n \in Nat : d = At(dd, "committed", n)
      BY <3>1, <3>4 DEF Minds, DeltaRecords
    <3>6. r \in ReconstructionRecords
      BY <2>7, <3>1, <3>4 DEF Minds
    <3>7. PICK rr \in Submitted.reconstructions, m \in Nat : r = At(rr, "reconstructed", m)
      BY <3>6 DEF ReconstructionRecords
    <3>8. d.committed \in Nat /\ r.reconstructed \in Nat
      BY <3>5, <3>7, CommittedFields, ReconstructedFields
    <3> QED  BY <3>1, <3>2, <3>3, <3>8
  <2>10. outcome.kind # "returned" =>
             c.decodes = {} /\ c.reconstruction = None /\ c.delta = None
    BY <2>1, <2>7, <2>8, <2>9
  <2>11. outcome.kind = "returned" => \A x \in c.decodes : inquiry.decodes[x].ret = outcome.ret
    BY <2>1, <2>7, <2>8
  <2>12. c.reconstruction # None =>
             c.reconstruction.ret = outcome.ret /\ c.reconstruction.decodes = c.decodes
    BY <2>1, <2>7
  <2>13. c.delta # None =>
             /\ c.reconstruction # None
             /\ c.delta.reconstruction = c.reconstruction.id
             /\ ~ (c.delta.committed <= c.reconstruction.reconstructed)
    BY <2>1, <2>9
  <2>14. c.seal # None =>
             /\ c.seal.plan = c.plan.id /\ c.seal.action = c.plan.action
             /\ ~ (c.seal.sealed < c.plan.planned)
             /\ timely => ~ (c.seal.sealed >= happened.start[c.attempt])
    BY <2>1, <2>6
  <2>15. /\ c.attempt # None /\ outcome = inquiry.outcome[c.attempt] /\ outcome # None
         /\ c.plan.attempt = c.attempt /\ ok \in BOOLEAN /\ timely \in BOOLEAN
         /\ ok => Effects!AttemptOf(inquiry, c.attempt, c.plan.request)
         /\ outcome.route = inquiry.attempts[c.attempt].route
    BY <2>1, <2>4, <2>5
  <2> HIDE DEF ok, timely, outcome
  <2>16. LifecycleViolations(c)
         \subseteq (IF ok THEN {} ELSE {"effect_request_mismatch"})
                    \cup (IF timely THEN {} ELSE {"prediction_not_sealed_before_attempt"})
    BY <2>1, <2>10, <2>11, <2>12, <2>13, <2>14, <2>15, NothingFound
  <2> QED  BY <2>16 DEF ok, timely, Tolerated
<1> QED  BY <1>1, AlwaysIInv, PTL

=============================================================================
