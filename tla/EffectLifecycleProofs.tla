------------------------ MODULE EffectLifecycleProofs ------------------------
(***************************************************************************)
(* Proofs about the effect part of an inquiry aggregate, for any number of *)
(* step plans, requests, attempts, returns and decodes.  The inductive     *)
(* invariant is TypeOK together with ValidatorsAccept: what the Pydantic   *)
(* validators re-check after every evolve is exactly what decide needs to  *)
(* keep itself true.                                                       *)
(***************************************************************************)
EXTENDS EffectLifecycle, TLAPS

------------------------------------------------------------------------------
(* What each command writes.  Everything below reads a step through these  *)
(* lemmas, never through the EXCEPT expressions of ApplyX.                 *)

Shape(A, B, C, D, E, F, G, H, I) ==
    [sequence : A, plans : B, requests : C, attempts : D, started : E,
     dispositions : F, outcome : G, decodes : H, accepted : I]

(* evolve's copy-with-update of the state, for fields of any type. *)
LEMMA RecordUpdate ==
    ASSUME NEW A, NEW B, NEW C, NEW D, NEW E, NEW F, NEW G, NEW H, NEW I,
           NEW s \in Shape(A, B, C, D, E, F, G, H, I), NEW n \in A
    PROVE  LET S == Shape(A, B, C, D, E, F, G, H, I) IN
           /\ \A x \in B : [s EXCEPT !.sequence = n, !.plans = x] \in S
           /\ \A x \in C : [s EXCEPT !.sequence = n, !.requests = x] \in S
           /\ \A x \in D : [s EXCEPT !.sequence = n, !.attempts = x] \in S
           /\ \A x \in E : [s EXCEPT !.sequence = n, !.started = x] \in S
           /\ \A x \in F : [s EXCEPT !.sequence = n, !.dispositions = x] \in S
           /\ \A x \in G : [s EXCEPT !.sequence = n, !.outcome = x] \in S
           /\ \A x \in H : [s EXCEPT !.sequence = n, !.decodes = x] \in S
           /\ \A x \in I : [s EXCEPT !.sequence = n, !.accepted = x] \in S
BY DEF Shape

(* A command counts one event and leaves every other field as it is. *)
Rest(s, t, field) ==
    /\ t.sequence = s.sequence + 1
    /\ field # "plans" => t.plans = s.plans
    /\ field # "requests" => t.requests = s.requests
    /\ field # "attempts" => t.attempts = s.attempts
    /\ field # "started" => t.started = s.started
    /\ field # "dispositions" => t.dispositions = s.dispositions
    /\ field # "outcome" => t.outcome = s.outcome
    /\ field # "decodes" => t.decodes = s.decodes
    /\ field # "accepted" => t.accepted = s.accepted

(* RecordStepPlan writes one plan and nothing else. *)
LEMMA StepPlanWrites ==
    ASSUME NEW s \in InquiryState, NEW p \in StepPlans, NEW status \in PlanStatus
    PROVE  LET t == ApplyStepPlan(s, p, status) IN
           /\ t \in InquiryState
           /\ t.plans = [s.plans EXCEPT ![p] = status]
           /\ Rest(s, t, "plans")
<1> DEFINE x == [s.plans EXCEPT ![p] = status]
           t == [s EXCEPT !.sequence = s.sequence + 1, !.plans = x]
<1>1. x \in [StepPlans -> PlanStatus \cup {None}] /\ s.sequence + 1 \in Nat
  BY DEF InquiryState
<1>2. ApplyStepPlan(s, p, status) = t
  BY DEF ApplyStepPlan, InquiryState
<1>3. t.plans = x /\ Rest(s, t, "plans")
  BY DEF InquiryState, Rest
<1> HIDE DEF x
<1>4. t \in InquiryState
  BY <1>1, RecordUpdate, Zenon DEF InquiryState, Shape
<1> QED  BY <1>2, <1>3, <1>4 DEF x

(* RequestEffect writes one request and nothing else. *)
LEMMA RequestWrites ==
    ASSUME NEW s \in InquiryState, NEW r \in Requests, NEW p \in StepPlans
    PROVE  LET t == ApplyRequest(s, r, p) IN
           /\ t \in InquiryState
           /\ t.requests = [s.requests EXCEPT ![r] = p]
           /\ Rest(s, t, "requests")
<1> DEFINE x == [s.requests EXCEPT ![r] = p]
           t == [s EXCEPT !.sequence = s.sequence + 1, !.requests = x]
<1>1. x \in [Requests -> StepPlans \cup {None}] /\ s.sequence + 1 \in Nat
  BY DEF InquiryState
<1>2. ApplyRequest(s, r, p) = t
  BY DEF ApplyRequest, InquiryState
<1>3. t.requests = x /\ Rest(s, t, "requests")
  BY DEF InquiryState, Rest
<1> HIDE DEF x
<1>4. t \in InquiryState
  BY <1>1, RecordUpdate, Zenon DEF InquiryState, Shape
<1> QED  BY <1>2, <1>3, <1>4 DEF x

(* PlanEffectAttempt writes one attempt plan and nothing else. *)
LEMMA PlanAttemptWrites ==
    ASSUME NEW s \in InquiryState, NEW a \in Attempts, NEW plan \in AttemptPlan
    PROVE  LET t == ApplyPlanAttempt(s, a, plan) IN
           /\ t \in InquiryState
           /\ t.attempts = [s.attempts EXCEPT ![a] = plan]
           /\ Rest(s, t, "attempts")
<1> DEFINE x == [s.attempts EXCEPT ![a] = plan]
           t == [s EXCEPT !.sequence = s.sequence + 1, !.attempts = x]
<1>1. x \in [Attempts -> AttemptPlan \cup {None}] /\ s.sequence + 1 \in Nat
  BY DEF InquiryState
<1>2. ApplyPlanAttempt(s, a, plan) = t
  BY DEF ApplyPlanAttempt, InquiryState
<1>3. t.attempts = x /\ Rest(s, t, "attempts")
  BY DEF InquiryState, Rest
<1> HIDE DEF x
<1>4. t \in InquiryState
  BY <1>1, RecordUpdate, Zenon DEF InquiryState, Shape
<1> QED  BY <1>2, <1>3, <1>4 DEF x

(* StartEffectAttempt adds one started attempt and nothing else. *)
LEMMA StartWrites ==
    ASSUME NEW s \in InquiryState, NEW a \in Attempts
    PROVE  LET t == ApplyStart(s, a) IN
           /\ t \in InquiryState
           /\ t.started = s.started \cup {a}
           /\ Rest(s, t, "started")
<1> DEFINE x == s.started \cup {a}
           t == [s EXCEPT !.sequence = s.sequence + 1, !.started = x]
<1>1. x \in SUBSET Attempts /\ s.sequence + 1 \in Nat
  BY DEF InquiryState
<1>2. ApplyStart(s, a) = t
  BY DEF ApplyStart, InquiryState
<1>3. t.started = x /\ Rest(s, t, "started")
  BY DEF InquiryState, Rest
<1> HIDE DEF x
<1>4. t \in InquiryState
  BY <1>1, RecordUpdate, Zenon DEF InquiryState, Shape
<1> QED  BY <1>2, <1>3, <1>4 DEF x

(* RecordNoAttemptDisposition writes one disposition and nothing else. *)
LEMMA NoAttemptWrites ==
    ASSUME NEW s \in InquiryState, NEW n \in Dispositions, NEW nd \in NoAttempt
    PROVE  LET t == ApplyNoAttempt(s, n, nd) IN
           /\ t \in InquiryState
           /\ t.dispositions = [s.dispositions EXCEPT ![n] = nd]
           /\ Rest(s, t, "dispositions")
<1> DEFINE x == [s.dispositions EXCEPT ![n] = nd]
           t == [s EXCEPT !.sequence = s.sequence + 1, !.dispositions = x]
<1>1. x \in [Dispositions -> NoAttempt \cup {None}] /\ s.sequence + 1 \in Nat
  BY DEF InquiryState
<1>2. ApplyNoAttempt(s, n, nd) = t
  BY DEF ApplyNoAttempt, InquiryState
<1>3. t.dispositions = x /\ Rest(s, t, "dispositions")
  BY DEF InquiryState, Rest
<1> HIDE DEF x
<1>4. t \in InquiryState
  BY <1>1, RecordUpdate, Zenon DEF InquiryState, Shape
<1> QED  BY <1>2, <1>3, <1>4 DEF x

(* RecordAttemptOutcome writes one outcome and nothing else. *)
LEMMA OutcomeWrites ==
    ASSUME NEW s \in InquiryState, NEW a \in Attempts, NEW o \in Outcome
    PROVE  LET t == ApplyOutcome(s, a, o) IN
           /\ t \in InquiryState
           /\ t.outcome = [s.outcome EXCEPT ![a] = o]
           /\ Rest(s, t, "outcome")
<1> DEFINE x == [s.outcome EXCEPT ![a] = o]
           t == [s EXCEPT !.sequence = s.sequence + 1, !.outcome = x]
<1>1. x \in [Attempts -> Outcome \cup {None}] /\ s.sequence + 1 \in Nat
  BY DEF InquiryState
<1>2. ApplyOutcome(s, a, o) = t
  BY DEF ApplyOutcome, InquiryState
<1>3. t.outcome = x /\ Rest(s, t, "outcome")
  BY DEF InquiryState, Rest
<1> HIDE DEF x
<1>4. t \in InquiryState
  BY <1>1, RecordUpdate, Zenon DEF InquiryState, Shape
<1> QED  BY <1>2, <1>3, <1>4 DEF x

(* RecordDecodeOutcome writes one decode and nothing else. *)
LEMMA DecodeWrites ==
    ASSUME NEW s \in InquiryState, NEW d \in Decodes, NEW decode \in DecodeOutcome
    PROVE  LET t == ApplyDecode(s, d, decode) IN
           /\ t \in InquiryState
           /\ t.decodes = [s.decodes EXCEPT ![d] = decode]
           /\ Rest(s, t, "decodes")
<1> DEFINE x == [s.decodes EXCEPT ![d] = decode]
           t == [s EXCEPT !.sequence = s.sequence + 1, !.decodes = x]
<1>1. x \in [Decodes -> DecodeOutcome \cup {None}] /\ s.sequence + 1 \in Nat
  BY DEF InquiryState
<1>2. ApplyDecode(s, d, decode) = t
  BY DEF ApplyDecode, InquiryState
<1>3. t.decodes = x /\ Rest(s, t, "decodes")
  BY DEF InquiryState, Rest
<1> HIDE DEF x
<1>4. t \in InquiryState
  BY <1>1, RecordUpdate, Zenon DEF InquiryState, Shape
<1> QED  BY <1>2, <1>3, <1>4 DEF x

(* AcceptEffectResult writes one acceptance and nothing else. *)
LEMMA AcceptWrites ==
    ASSUME NEW s \in InquiryState, NEW r \in Requests, NEW d \in Decodes
    PROVE  LET t == ApplyAccept(s, r, d) IN
           /\ t \in InquiryState
           /\ t.accepted = [s.accepted EXCEPT ![r] = d]
           /\ Rest(s, t, "accepted")
<1> DEFINE x == [s.accepted EXCEPT ![r] = d]
           t == [s EXCEPT !.sequence = s.sequence + 1, !.accepted = x]
<1>1. x \in [Requests -> Decodes \cup {None}] /\ s.sequence + 1 \in Nat
  BY DEF InquiryState
<1>2. ApplyAccept(s, r, d) = t
  BY DEF ApplyAccept, InquiryState
<1>3. t.accepted = x /\ Rest(s, t, "accepted")
  BY DEF InquiryState, Rest
<1> HIDE DEF x
<1>4. t \in InquiryState
  BY <1>1, RecordUpdate, Zenon DEF InquiryState, Shape
<1> QED  BY <1>2, <1>3, <1>4 DEF x

------------------------------------------------------------------------------
(* The validators accept every reachable state. *)

IInv == TypeOK /\ ValidatorsAccept

(* The state after InquiryStarted is accepted. *)
LEMMA InitIInv == Init => IInv
<1> SUFFICES ASSUME Init PROVE IInv
  OBVIOUS
<1>1. TypeOK
  BY DEF Init, StartedInquiry, TypeOK, InquiryState
<1>2. ValidatorsAccept
  BY DEF Init, StartedInquiry, ValidatorsAccept, Valid, RequestsArePlanned,
         AttemptsAreRequested, OutcomesFollowStarts, ReturnsAreUnique,
         DecodesInterpretOwnReturns, AcceptedIsDecoded, Requested, Resolved, Returned
<1> QED  BY <1>1, <1>2 DEF IInv

(* A plan is recorded once, so a plan that authorised work stays ready. *)
LEMMA StepPlanKeepsIInv ==
    ASSUME IInv, NEW p \in StepPlans, NEW status \in PlanStatus, RecordStepPlan(p, status)
    PROVE  IInv'
<1>1. /\ TypeOK'
      /\ inquiry'.plans = [inquiry.plans EXCEPT ![p] = status]
      /\ Rest(inquiry, inquiry', "plans")
  BY StepPlanWrites DEF IInv, TypeOK, RecordStepPlan
<1>2. RequestsArePlanned(inquiry)'
  BY <1>1, NoneAssumption DEF IInv, TypeOK, InquiryState, ValidatorsAccept, Valid, RequestsArePlanned, Requested,
       RecordStepPlan, LawfulStepPlan, Rest, PlanStatus
<1>3. /\ AttemptsAreRequested(inquiry)'
      /\ OutcomesFollowStarts(inquiry)'
      /\ ReturnsAreUnique(inquiry)'
      /\ DecodesInterpretOwnReturns(inquiry)'
      /\ AcceptedIsDecoded(inquiry)'
  BY <1>1 DEF IInv, ValidatorsAccept, Valid, Rest, AttemptsAreRequested,
       OutcomesFollowStarts, ReturnsAreUnique, DecodesInterpretOwnReturns,
       AcceptedIsDecoded, Requested, Resolved, Returned, AttemptOf, CapturedReturns
<1> QED  BY <1>1, <1>2, <1>3 DEF IInv, ValidatorsAccept, Valid

(* A request names a plan that is ready when it is made. *)
LEMMA RequestKeepsIInv ==
    ASSUME IInv, NEW r \in Requests, NEW p \in StepPlans, RequestEffect(r, p)
    PROVE  IInv'
<1>1. /\ TypeOK'
      /\ inquiry'.requests = [inquiry.requests EXCEPT ![r] = p]
      /\ Rest(inquiry, inquiry', "requests")
  BY RequestWrites DEF IInv, TypeOK, RequestEffect
<1>2. RequestsArePlanned(inquiry)'
  BY <1>1 DEF IInv, TypeOK, InquiryState, ValidatorsAccept, Valid, RequestsArePlanned,
       Requested, RequestEffect, LawfulRequest, Rest
<1>3. AttemptsAreRequested(inquiry)'
  BY <1>1, NoneAssumption DEF IInv, TypeOK, InquiryState, ValidatorsAccept, Valid,
       AttemptsAreRequested, AttemptPlan, Requested, Rest
<1>4. /\ OutcomesFollowStarts(inquiry)'
      /\ ReturnsAreUnique(inquiry)'
      /\ DecodesInterpretOwnReturns(inquiry)'
      /\ AcceptedIsDecoded(inquiry)'
  BY <1>1 DEF IInv, ValidatorsAccept, Valid, Rest, OutcomesFollowStarts, ReturnsAreUnique,
       DecodesInterpretOwnReturns, AcceptedIsDecoded, Resolved, Returned, AttemptOf,
       CapturedReturns
<1> QED  BY <1>1, <1>2, <1>3, <1>4 DEF IInv, ValidatorsAccept, Valid

(* An attempt is planned once, before it has an outcome. *)
LEMMA PlanAttemptKeepsIInv ==
    ASSUME IInv, NEW a \in Attempts, NEW plan \in AttemptPlan, PlanEffectAttempt(a, plan)
    PROVE  IInv'
<1>1. /\ TypeOK'
      /\ inquiry'.attempts = [inquiry.attempts EXCEPT ![a] = plan]
      /\ Rest(inquiry, inquiry', "attempts")
  BY PlanAttemptWrites DEF IInv, TypeOK, PlanEffectAttempt
<1>2. inquiry.outcome[a] = None
  BY DEF IInv, ValidatorsAccept, Valid, OutcomesFollowStarts, PlanEffectAttempt, LawfulPlanAttempt
<1>3. AttemptsAreRequested(inquiry)' /\ OutcomesFollowStarts(inquiry)'
  BY <1>1, NoneAssumption DEF IInv, TypeOK, InquiryState, ValidatorsAccept, Valid,
       AttemptsAreRequested, OutcomesFollowStarts, Requested, Rest,
       PlanEffectAttempt, LawfulPlanAttempt
<1>4. ASSUME NEW q \in Requests
      PROVE  CapturedReturns(inquiry, q)' = CapturedReturns(inquiry, q)
  BY <1>1, <1>2 DEF IInv, TypeOK, InquiryState, CapturedReturns, Returned, AttemptOf, Rest
<1>5. DecodesInterpretOwnReturns(inquiry)'
  BY <1>1, <1>4 DEF IInv, TypeOK, InquiryState, ValidatorsAccept, Valid,
       DecodesInterpretOwnReturns, DecodeOutcome, Rest
<1>6. RequestsArePlanned(inquiry)' /\ ReturnsAreUnique(inquiry)' /\ AcceptedIsDecoded(inquiry)'
  BY <1>1 DEF IInv, ValidatorsAccept, Valid, Rest, RequestsArePlanned, ReturnsAreUnique,
       AcceptedIsDecoded, Requested, Resolved, Returned
<1> QED  BY <1>1, <1>3, <1>5, <1>6 DEF IInv, ValidatorsAccept, Valid

(* Only a planned attempt starts. *)
LEMMA StartKeepsIInv ==
    ASSUME IInv, NEW a \in Attempts, StartEffectAttempt(a)
    PROVE  IInv'
<1>1. /\ TypeOK'
      /\ inquiry'.started = inquiry.started \cup {a}
      /\ Rest(inquiry, inquiry', "started")
  BY StartWrites DEF IInv, TypeOK, StartEffectAttempt
<1>2. OutcomesFollowStarts(inquiry)'
  BY <1>1 DEF IInv, ValidatorsAccept, Valid, OutcomesFollowStarts, StartEffectAttempt,
       LawfulStart, Rest
<1>3. /\ RequestsArePlanned(inquiry)'
      /\ AttemptsAreRequested(inquiry)'
      /\ ReturnsAreUnique(inquiry)'
      /\ DecodesInterpretOwnReturns(inquiry)'
      /\ AcceptedIsDecoded(inquiry)'
  BY <1>1 DEF IInv, ValidatorsAccept, Valid, Rest, RequestsArePlanned, AttemptsAreRequested,
       ReturnsAreUnique, DecodesInterpretOwnReturns, AcceptedIsDecoded, Requested,
       Resolved, Returned, AttemptOf, CapturedReturns
<1> QED  BY <1>1, <1>2, <1>3 DEF IInv, ValidatorsAccept, Valid

(* A no-attempt disposition touches nothing the validators relate. *)
LEMMA NoAttemptKeepsIInv ==
    ASSUME IInv, NEW n \in Dispositions, NEW nd \in NoAttempt,
           RecordNoAttemptDisposition(n, nd)
    PROVE  IInv'
<1>1. TypeOK' /\ Rest(inquiry, inquiry', "dispositions")
  BY NoAttemptWrites DEF IInv, TypeOK, RecordNoAttemptDisposition
<1>2. ValidatorsAccept'
  BY <1>1 DEF IInv, ValidatorsAccept, Valid, Rest, RequestsArePlanned, AttemptsAreRequested,
       OutcomesFollowStarts, ReturnsAreUnique, DecodesInterpretOwnReturns,
       AcceptedIsDecoded, Requested, Resolved, Returned, AttemptOf, CapturedReturns
<1> QED  BY <1>1, <1>2 DEF IInv

(* A return is recorded once in the inquiry, for a started attempt that    *)
(* has no outcome yet, so captured returns only accumulate.                *)
LEMMA OutcomeKeepsIInv ==
    ASSUME IInv, NEW r \in Requests, NEW a \in Attempts, NEW o \in Outcome,
           RecordAttemptOutcome(r, a, o)
    PROVE  IInv'
<1>1. /\ TypeOK'
      /\ inquiry'.outcome = [inquiry.outcome EXCEPT ![a] = o]
      /\ Rest(inquiry, inquiry', "outcome")
  BY OutcomeWrites DEF IInv, TypeOK, RecordAttemptOutcome
<1>2. /\ a \in inquiry.started
      /\ inquiry.outcome[a] = None
      /\ o.kind = "returned" =>
             \A b \in Attempts : Returned(inquiry, b) => inquiry.outcome[b].ret # o.ret
  BY DEF RecordAttemptOutcome, LawfulOutcome
<1>3. OutcomesFollowStarts(inquiry)'
  BY <1>1, <1>2 DEF IInv, TypeOK, InquiryState, ValidatorsAccept, Valid,
       OutcomesFollowStarts, Rest
<1>4. ASSUME NEW b \in Attempts, b # a
      PROVE  /\ inquiry'.outcome[b] = inquiry.outcome[b]
             /\ Returned(inquiry, b)' <=> Returned(inquiry, b)
  BY <1>1, <1>4 DEF IInv, TypeOK, InquiryState, Returned
<1>5. ReturnsAreUnique(inquiry)'
  BY <1>1, <1>2, <1>4 DEF IInv, TypeOK, InquiryState, ValidatorsAccept, Valid,
       ReturnsAreUnique, Returned
<1>6. ASSUME NEW q \in Requests
      PROVE  CapturedReturns(inquiry, q) \subseteq CapturedReturns(inquiry, q)'
  BY <1>1, <1>2, <1>4 DEF CapturedReturns, Returned, AttemptOf, Rest
<1>7. DecodesInterpretOwnReturns(inquiry)'
  BY <1>1, <1>6 DEF IInv, TypeOK, InquiryState, ValidatorsAccept, Valid,
       DecodesInterpretOwnReturns, DecodeOutcome, Rest
<1>8. RequestsArePlanned(inquiry)' /\ AttemptsAreRequested(inquiry)' /\ AcceptedIsDecoded(inquiry)'
  BY <1>1 DEF IInv, ValidatorsAccept, Valid, Rest, RequestsArePlanned, AttemptsAreRequested,
       AcceptedIsDecoded, Requested, Resolved
<1> QED  BY <1>1, <1>3, <1>5, <1>7, <1>8 DEF IInv, ValidatorsAccept, Valid

(* A decode is recorded once and reads a return of its own request. *)
LEMMA DecodeKeepsIInv ==
    ASSUME IInv, NEW d \in Decodes, NEW decode \in DecodeOutcome,
           RecordDecodeOutcome(d, decode)
    PROVE  IInv'
<1>1. /\ TypeOK'
      /\ inquiry'.decodes = [inquiry.decodes EXCEPT ![d] = decode]
      /\ Rest(inquiry, inquiry', "decodes")
  BY DecodeWrites DEF IInv, TypeOK, RecordDecodeOutcome
<1>2. \A q \in Requests : CapturedReturns(inquiry, q)' = CapturedReturns(inquiry, q)
  BY <1>1 DEF CapturedReturns, Returned, AttemptOf, Rest
<1>3. DecodesInterpretOwnReturns(inquiry)'
  BY <1>1, <1>2 DEF IInv, TypeOK, InquiryState, ValidatorsAccept, Valid, DecodeOutcome,
       DecodesInterpretOwnReturns, RecordDecodeOutcome, LawfulDecode
<1>4. AcceptedIsDecoded(inquiry)'
  BY <1>1, NoneAssumption DEF IInv, TypeOK, InquiryState, ValidatorsAccept, Valid, AcceptedIsDecoded,
       Resolved, RecordDecodeOutcome, LawfulDecode, Rest
<1>5. /\ RequestsArePlanned(inquiry)'
      /\ AttemptsAreRequested(inquiry)'
      /\ OutcomesFollowStarts(inquiry)'
      /\ ReturnsAreUnique(inquiry)'
  BY <1>1 DEF IInv, ValidatorsAccept, Valid, Rest, RequestsArePlanned, AttemptsAreRequested,
       OutcomesFollowStarts, ReturnsAreUnique, Requested, Returned
<1> QED  BY <1>1, <1>3, <1>4, <1>5 DEF IInv, ValidatorsAccept, Valid

(* What is accepted is a decoded decode of the request. *)
LEMMA AcceptKeepsIInv ==
    ASSUME IInv, NEW r \in Requests, NEW d \in Decodes, AcceptEffectResult(r, d)
    PROVE  IInv'
<1>1. /\ TypeOK'
      /\ inquiry'.accepted = [inquiry.accepted EXCEPT ![r] = d]
      /\ Rest(inquiry, inquiry', "accepted")
  BY AcceptWrites DEF IInv, TypeOK, AcceptEffectResult
<1>2. AcceptedIsDecoded(inquiry)'
  BY <1>1 DEF IInv, TypeOK, InquiryState, ValidatorsAccept, Valid, AcceptedIsDecoded,
       Resolved, AcceptEffectResult, LawfulAccept, Rest
<1>3. /\ RequestsArePlanned(inquiry)'
      /\ AttemptsAreRequested(inquiry)'
      /\ OutcomesFollowStarts(inquiry)'
      /\ ReturnsAreUnique(inquiry)'
      /\ DecodesInterpretOwnReturns(inquiry)'
  BY <1>1 DEF IInv, ValidatorsAccept, Valid, Rest, RequestsArePlanned, AttemptsAreRequested,
       OutcomesFollowStarts, ReturnsAreUnique, DecodesInterpretOwnReturns, Requested,
       Returned, AttemptOf, CapturedReturns
<1> QED  BY <1>1, <1>2, <1>3 DEF IInv, ValidatorsAccept, Valid

(* Every command keeps the invariant. *)
LEMMA NextIInv == IInv /\ [Next]_vars => IInv'
<1> SUFFICES ASSUME IInv, [Next]_vars PROVE IInv'
  OBVIOUS
<1>1. ASSUME NEW p \in StepPlans, NEW status \in PlanStatus, RecordStepPlan(p, status)
      PROVE  IInv'
  BY <1>1, StepPlanKeepsIInv
<1>2. ASSUME NEW r \in Requests, NEW p \in StepPlans, RequestEffect(r, p)
      PROVE  IInv'
  BY <1>2, RequestKeepsIInv
<1>3. ASSUME NEW a \in Attempts, NEW plan \in AttemptPlan, PlanEffectAttempt(a, plan)
      PROVE  IInv'
  BY <1>3, PlanAttemptKeepsIInv
<1>4. ASSUME NEW a \in Attempts, StartEffectAttempt(a)
      PROVE  IInv'
  BY <1>4, StartKeepsIInv
<1>5. ASSUME NEW n \in Dispositions, NEW nd \in NoAttempt,
             RecordNoAttemptDisposition(n, nd)
      PROVE  IInv'
  BY <1>5, NoAttemptKeepsIInv
<1>6. ASSUME NEW r \in Requests, NEW a \in Attempts, NEW o \in Outcome,
             RecordAttemptOutcome(r, a, o)
      PROVE  IInv'
  BY <1>6, OutcomeKeepsIInv
<1>7. ASSUME NEW d \in Decodes, NEW decode \in DecodeOutcome,
             RecordDecodeOutcome(d, decode)
      PROVE  IInv'
  BY <1>7, DecodeKeepsIInv
<1>8. ASSUME NEW r \in Requests, NEW d \in Decodes, AcceptEffectResult(r, d)
      PROVE  IInv'
  BY <1>8, AcceptKeepsIInv
<1>9. CASE UNCHANGED vars
  <2> USE <1>9 DEF vars
  <2>1. TypeOK'
    BY DEF IInv, TypeOK
  <2>2. ValidatorsAccept'
    BY DEF IInv, ValidatorsAccept, Valid, RequestsArePlanned, AttemptsAreRequested,
       OutcomesFollowStarts, ReturnsAreUnique, DecodesInterpretOwnReturns,
       AcceptedIsDecoded, Requested, Resolved, Returned, AttemptOf, CapturedReturns
  <2> QED  BY <2>1, <2>2 DEF IInv
<1> QED
  BY <1>1, <1>2, <1>3, <1>4, <1>5, <1>6, <1>7, <1>8, <1>9 DEF Next

(* Every state decided commands lead to satisfies the invariant. *)
LEMMA AlwaysIInv == Spec => []IInv
BY InitIInv, NextIInv, PTL DEF Spec

(* The aggregate holds what InquiryState declares, whatever commands it is *)
(* given (TypeOK).                                                         *)
THEOREM TypeCorrect == Spec => []TypeOK
<1>1. IInv => TypeOK
  BY DEF IInv
<1> QED  BY <1>1, AlwaysIInv, PTL

(* No sequence of decided commands leads evolve to a state its validators  *)
(* reject (ValidatorsAccept).                                              *)
THEOREM ValidatorsNeverReject == Spec => []ValidatorsAccept
<1>1. IInv => ValidatorsAccept
  BY DEF IInv
<1> QED  BY <1>1, AlwaysIInv, PTL

------------------------------------------------------------------------------
(* Provenance: it follows from the invariant alone.  The return behind an  *)
(* accepted result was captured for the request itself, and uniqueness of  *)
(* returns leaves only one attempt it can have come from.                  *)

(* The attempt an accepted result was read from. *)
LEMMA UniqueSource ==
    ASSUME NEW s \in InquiryState, Valid(s), NEW r \in Requests, Resolved(s, r)
    PROVE  \E a \in Attempts :
               /\ SourceOf(s, r) = {a}
               /\ Returned(s, a)
               /\ AttemptOf(s, a, r)
<1> DEFINE d == s.accepted[r]
<1>1. /\ d \in Decodes
      /\ s.decodes[d] # None
      /\ s.decodes[d].request = r
  BY DEF InquiryState, Valid, AcceptedIsDecoded, Resolved
<1>2. s.decodes[d].ret \in CapturedReturns(s, r)
  BY <1>1 DEF Valid, DecodesInterpretOwnReturns
<1>3. PICK a \in Attempts : /\ AttemptOf(s, a, r)
                            /\ Returned(s, a)
                            /\ s.outcome[a].ret = s.decodes[d].ret
  BY <1>2 DEF CapturedReturns
<1>4. SourceOf(s, r) = {a}
  BY <1>3 DEF SourceOf, Valid, ReturnsAreUnique
<1> QED  BY <1>3, <1>4

(* The validators together already fix where an acceptance comes from.     *)
LEMMA IInvImpliesProvenance == IInv => AcceptanceProvenance
<1> SUFFICES ASSUME IInv, NEW r \in Requests, Resolved(inquiry, r)
             PROVE  \E a \in Attempts :
                        /\ SourceOf(inquiry, r) = {a}
                        /\ a \in inquiry.started
                        /\ AttemptOf(inquiry, a, r)
                        /\ inquiry.plans[inquiry.requests[r]] = "ready"
                        /\ \A q \in Requests \ {r} :
                               Resolved(inquiry, q) => a \notin SourceOf(inquiry, q)
  BY DEF AcceptanceProvenance
<1>1. PICK a \in Attempts : /\ SourceOf(inquiry, r) = {a}
                            /\ Returned(inquiry, a)
                            /\ AttemptOf(inquiry, a, r)
  BY UniqueSource DEF IInv, TypeOK, ValidatorsAccept
<1>2. a \in inquiry.started
  BY <1>1 DEF IInv, ValidatorsAccept, Valid, OutcomesFollowStarts, Returned
<1>3. inquiry.plans[inquiry.requests[r]] = "ready"
  BY <1>1 DEF IInv, ValidatorsAccept, Valid, AttemptsAreRequested, RequestsArePlanned, AttemptOf
<1>4. ASSUME NEW q \in Requests \ {r}, Resolved(inquiry, q)
      PROVE  a \notin SourceOf(inquiry, q)
  <2>1. PICK b \in Attempts : SourceOf(inquiry, q) = {b} /\ AttemptOf(inquiry, b, q)
    BY <1>4, UniqueSource DEF IInv, TypeOK, ValidatorsAccept
  <2> QED  BY <1>1, <2>1 DEF AttemptOf
<1> QED  BY <1>1, <1>2, <1>3, <1>4

(* An accepted result goes back to exactly one started attempt of its own  *)
(* request, authorised by a ready plan, and to no other request's result   *)
(* (AcceptanceProvenance).                                                 *)
THEOREM EveryAcceptanceHasProvenance == Spec => []AcceptanceProvenance
BY AlwaysIInv, IInvImpliesProvenance, PTL

------------------------------------------------------------------------------
(* Nothing recorded is rewritten. *)

(* decide refuses every command whose identity is taken with other         *)
(* content, so evolve only fills empty places.                             *)
LEMMA NextKeepsHistory ==
    ASSUME IInv, Next
    PROVE  HistoryStep
<1>1. ASSUME NEW p \in StepPlans, NEW status \in PlanStatus, RecordStepPlan(p, status)
      PROVE  HistoryStep
  <2>1. /\ inquiry'.plans = [inquiry.plans EXCEPT ![p] = status]
        /\ Rest(inquiry, inquiry', "plans")
    BY <1>1, StepPlanWrites DEF IInv, TypeOK, RecordStepPlan
  <2>2. inquiry.plans[p] = None
    BY <1>1 DEF RecordStepPlan, LawfulStepPlan
  <2>3. Kept(inquiry.plans, inquiry'.plans)
    BY <2>1, <2>2 DEF IInv, TypeOK, InquiryState, Kept
  <2> QED  BY <2>1, <2>3 DEF HistoryStep, Kept, Rest
<1>2. ASSUME NEW r \in Requests, NEW p \in StepPlans, RequestEffect(r, p)
      PROVE  HistoryStep
  <2>1. /\ inquiry'.requests = [inquiry.requests EXCEPT ![r] = p]
        /\ Rest(inquiry, inquiry', "requests")
    BY <1>2, RequestWrites DEF IInv, TypeOK, RequestEffect
  <2>2. inquiry.requests[r] = None
    BY <1>2 DEF RequestEffect, LawfulRequest, Requested
  <2>3. Kept(inquiry.requests, inquiry'.requests)
    BY <2>1, <2>2 DEF IInv, TypeOK, InquiryState, Kept
  <2> QED  BY <2>1, <2>3 DEF HistoryStep, Kept, Rest
<1>3. ASSUME NEW a \in Attempts, NEW plan \in AttemptPlan, PlanEffectAttempt(a, plan)
      PROVE  HistoryStep
  <2>1. /\ inquiry'.attempts = [inquiry.attempts EXCEPT ![a] = plan]
        /\ Rest(inquiry, inquiry', "attempts")
    BY <1>3, PlanAttemptWrites DEF IInv, TypeOK, PlanEffectAttempt
  <2>2. inquiry.attempts[a] = None
    BY <1>3 DEF PlanEffectAttempt, LawfulPlanAttempt
  <2>3. Kept(inquiry.attempts, inquiry'.attempts)
    BY <2>1, <2>2 DEF IInv, TypeOK, InquiryState, Kept
  <2> QED  BY <2>1, <2>3 DEF HistoryStep, Kept, Rest
<1>4. ASSUME NEW a \in Attempts, StartEffectAttempt(a)
      PROVE  HistoryStep
  <2>1. inquiry'.started = inquiry.started \cup {a} /\ Rest(inquiry, inquiry', "started")
    BY <1>4, StartWrites DEF IInv, TypeOK, StartEffectAttempt
  <2> QED  BY <2>1 DEF HistoryStep, Kept, Rest
<1>5. ASSUME NEW n \in Dispositions, NEW nd \in NoAttempt, RecordNoAttemptDisposition(n, nd)
      PROVE  HistoryStep
  <2>1. /\ inquiry'.dispositions = [inquiry.dispositions EXCEPT ![n] = nd]
        /\ Rest(inquiry, inquiry', "dispositions")
    BY <1>5, NoAttemptWrites DEF IInv, TypeOK, RecordNoAttemptDisposition
  <2>2. inquiry.dispositions[n] = None
    BY <1>5 DEF RecordNoAttemptDisposition, LawfulNoAttempt
  <2>3. Kept(inquiry.dispositions, inquiry'.dispositions)
    BY <2>1, <2>2 DEF IInv, TypeOK, InquiryState, Kept
  <2> QED  BY <2>1, <2>3 DEF HistoryStep, Kept, Rest
<1>6. ASSUME NEW r \in Requests, NEW a \in Attempts, NEW o \in Outcome, RecordAttemptOutcome(r, a, o)
      PROVE  HistoryStep
  <2>1. /\ inquiry'.outcome = [inquiry.outcome EXCEPT ![a] = o]
        /\ Rest(inquiry, inquiry', "outcome")
    BY <1>6, OutcomeWrites DEF IInv, TypeOK, RecordAttemptOutcome
  <2>2. inquiry.outcome[a] = None
    BY <1>6 DEF RecordAttemptOutcome, LawfulOutcome
  <2>3. Kept(inquiry.outcome, inquiry'.outcome)
    BY <2>1, <2>2 DEF IInv, TypeOK, InquiryState, Kept
  <2> QED  BY <2>1, <2>3 DEF HistoryStep, Kept, Rest
<1>7. ASSUME NEW d \in Decodes, NEW decode \in DecodeOutcome, RecordDecodeOutcome(d, decode)
      PROVE  HistoryStep
  <2>1. /\ inquiry'.decodes = [inquiry.decodes EXCEPT ![d] = decode]
        /\ Rest(inquiry, inquiry', "decodes")
    BY <1>7, DecodeWrites DEF IInv, TypeOK, RecordDecodeOutcome
  <2>2. inquiry.decodes[d] = None
    BY <1>7 DEF RecordDecodeOutcome, LawfulDecode
  <2>3. Kept(inquiry.decodes, inquiry'.decodes)
    BY <2>1, <2>2 DEF IInv, TypeOK, InquiryState, Kept
  <2> QED  BY <2>1, <2>3 DEF HistoryStep, Kept, Rest
<1>8. ASSUME NEW r \in Requests, NEW d \in Decodes, AcceptEffectResult(r, d)
      PROVE  HistoryStep
  <2>1. /\ inquiry'.accepted = [inquiry.accepted EXCEPT ![r] = d]
        /\ Rest(inquiry, inquiry', "accepted")
    BY <1>8, AcceptWrites DEF IInv, TypeOK, AcceptEffectResult
  <2>2. inquiry.accepted[r] = None
    BY <1>8 DEF AcceptEffectResult, LawfulAccept, Resolved
  <2>3. Kept(inquiry.accepted, inquiry'.accepted)
    BY <2>1, <2>2 DEF IInv, TypeOK, InquiryState, Kept
  <2> QED  BY <2>1, <2>3 DEF HistoryStep, Kept, Rest
<1> QED
  BY <1>1, <1>2, <1>3, <1>4, <1>5, <1>6, <1>7, <1>8 DEF Next

(* A step of the aggregate records one event and rewrites nothing that was *)
(* recorded (HistoryIsKept).                                               *)
THEOREM HistoryIsNeverRewritten == Spec => HistoryIsKept
<1>1. IInv /\ [Next]_vars => [HistoryStep]_vars
  BY NextKeepsHistory
<1> QED  BY <1>1, AlwaysIInv, PTL DEF Spec, HistoryIsKept

------------------------------------------------------------------------------
(* A resolved request stays resolved, and quiet. *)

(* The commands that could add to a resolved request (PlanEffectAttempt,   *)
(* StartEffectAttempt, RecordNoAttemptDisposition, AcceptEffectResult) all *)
(* refuse it.                                                              *)
LEMMA NextKeepsResolution ==
    ASSUME IInv, Next
    PROVE  ResolutionStep
<1> SUFFICES ASSUME NEW q \in Requests, Resolved(inquiry, q)
             PROVE  ResolvedStep(q)
  BY DEF ResolutionStep
<1>1. ASSUME NEW p \in StepPlans, NEW status \in PlanStatus, RecordStepPlan(p, status)
      PROVE  ResolvedStep(q)
  <2>1. Rest(inquiry, inquiry', "plans")
    BY <1>1, StepPlanWrites DEF IInv, TypeOK, RecordStepPlan
  <2> QED  BY <2>1 DEF ResolvedStep, AttemptOf, Rest
<1>2. ASSUME NEW r \in Requests, NEW p \in StepPlans, RequestEffect(r, p)
      PROVE  ResolvedStep(q)
  <2>1. Rest(inquiry, inquiry', "requests")
    BY <1>2, RequestWrites DEF IInv, TypeOK, RequestEffect
  <2> QED  BY <2>1 DEF ResolvedStep, AttemptOf, Rest
<1>3. ASSUME NEW a \in Attempts, NEW plan \in AttemptPlan, PlanEffectAttempt(a, plan)
      PROVE  ResolvedStep(q)
  <2>1. /\ inquiry'.attempts = [inquiry.attempts EXCEPT ![a] = plan]
        /\ Rest(inquiry, inquiry', "attempts")
    BY <1>3, PlanAttemptWrites DEF IInv, TypeOK, PlanEffectAttempt
  <2>2. inquiry.attempts[a] = None /\ plan.request # q
    BY <1>3 DEF PlanEffectAttempt, LawfulPlanAttempt, Resolved
  <2> QED
    BY <2>1, <2>2 DEF IInv, TypeOK, InquiryState, ResolvedStep, AttemptOf, Rest
<1>4. ASSUME NEW a \in Attempts, StartEffectAttempt(a)
      PROVE  ResolvedStep(q)
  <2>1. /\ inquiry'.started = inquiry.started \cup {a}
        /\ Rest(inquiry, inquiry', "started")
    BY <1>4, StartWrites DEF IInv, TypeOK, StartEffectAttempt
  <2>2. inquiry.attempts[a] # None /\ inquiry.attempts[a].request # q
    BY <1>4 DEF StartEffectAttempt, LawfulStart, Resolved
  <2> QED
    BY <2>1, <2>2 DEF IInv, TypeOK, InquiryState, ResolvedStep, AttemptOf, Rest
<1>5. ASSUME NEW n \in Dispositions, NEW nd \in NoAttempt, RecordNoAttemptDisposition(n, nd)
      PROVE  ResolvedStep(q)
  <2>1. /\ inquiry'.dispositions = [inquiry.dispositions EXCEPT ![n] = nd]
        /\ Rest(inquiry, inquiry', "dispositions")
    BY <1>5, NoAttemptWrites DEF IInv, TypeOK, RecordNoAttemptDisposition
  <2>2. inquiry.dispositions[n] = None /\ nd.request # q
    BY <1>5 DEF RecordNoAttemptDisposition, LawfulNoAttempt, Resolved
  <2> QED
    BY <2>1, <2>2 DEF IInv, TypeOK, InquiryState, ResolvedStep, AttemptOf, Rest
<1>6. ASSUME NEW r \in Requests, NEW a \in Attempts, NEW o \in Outcome, RecordAttemptOutcome(r, a, o)
      PROVE  ResolvedStep(q)
  <2>1. Rest(inquiry, inquiry', "outcome")
    BY <1>6, OutcomeWrites DEF IInv, TypeOK, RecordAttemptOutcome
  <2> QED  BY <2>1 DEF ResolvedStep, AttemptOf, Rest
<1>7. ASSUME NEW d \in Decodes, NEW decode \in DecodeOutcome, RecordDecodeOutcome(d, decode)
      PROVE  ResolvedStep(q)
  <2>1. Rest(inquiry, inquiry', "decodes")
    BY <1>7, DecodeWrites DEF IInv, TypeOK, RecordDecodeOutcome
  <2> QED  BY <2>1 DEF ResolvedStep, AttemptOf, Rest
<1>8. ASSUME NEW r \in Requests, NEW d \in Decodes, AcceptEffectResult(r, d)
      PROVE  ResolvedStep(q)
  <2>1. /\ inquiry'.accepted = [inquiry.accepted EXCEPT ![r] = d]
        /\ Rest(inquiry, inquiry', "accepted")
    BY <1>8, AcceptWrites DEF IInv, TypeOK, AcceptEffectResult
  <2>2. r # q
    BY <1>8 DEF AcceptEffectResult, LawfulAccept, Resolved
  <2> QED
    BY <2>1, <2>2 DEF IInv, TypeOK, InquiryState, ResolvedStep, AttemptOf, Rest
<1> QED
  BY <1>1, <1>2, <1>3, <1>4, <1>5, <1>6, <1>7, <1>8 DEF Next

(* Once a result is accepted the request gains no attempt, start or        *)
(* disposition and keeps its result (ResolutionIsFinal).                   *)
THEOREM ResolutionsAreFinal == Spec => ResolutionIsFinal
<1>1. IInv /\ [Next]_vars => [ResolutionStep]_vars
  BY NextKeepsResolution
<1> QED  BY <1>1, AlwaysIInv, PTL DEF Spec, ResolutionIsFinal

------------------------------------------------------------------------------
(* Refinement: the aggregate implements EffectPromise.  Starting an        *)
(* attempt begins its delivery, recording its outcome finishes it, and     *)
(* accepting a result resolves the request; every other command is a       *)
(* stuttering step of the promise.                                         *)

(* A step changes the promise only through starts, outcomes and sources. *)
LEMMA Stutters ==
    ASSUME \A a \in Attempts : DeliveryOf(inquiry, a)' = DeliveryOf(inquiry, a),
           \A r \in Requests : ResolutionOf(inquiry, r)' = ResolutionOf(inquiry, r)
    PROVE  UNCHANGED Promise!vars
BY DEF Promise!vars

(* A step that leaves acceptances alone and keeps the sources of accepted  *)
(* results resolves nothing.                                               *)
LEMMA SameResolution ==
    ASSUME inquiry'.accepted = inquiry.accepted,
           \A r \in Requests : Resolved(inquiry, r) =>
               SourceOf(inquiry, r)' = SourceOf(inquiry, r)
    PROVE  \A r \in Requests : ResolutionOf(inquiry, r)' = ResolutionOf(inquiry, r)
BY DEF ResolutionOf, Resolved

(* Plans, requests and dispositions are not part of the promise. *)
LEMMA OthersStutter ==
    ASSUME inquiry'.attempts = inquiry.attempts, inquiry'.started = inquiry.started,
           inquiry'.outcome = inquiry.outcome, inquiry'.decodes = inquiry.decodes,
           inquiry'.accepted = inquiry.accepted
    PROVE  UNCHANGED Promise!vars
<1>1. \A a \in Attempts : DeliveryOf(inquiry, a)' = DeliveryOf(inquiry, a)
  BY DEF DeliveryOf
<1>2. \A r \in Requests : SourceOf(inquiry, r)' = SourceOf(inquiry, r)
  BY DEF SourceOf, Returned
<1> QED  BY <1>1, <1>2, SameResolution, Stutters

(* Planning an attempt is not yet a delivery. *)
LEMMA PlanAttemptStutters ==
    ASSUME IInv, NEW a \in Attempts, NEW plan \in AttemptPlan, PlanEffectAttempt(a, plan)
    PROVE  UNCHANGED Promise!vars
<1>1. /\ inquiry'.attempts = [inquiry.attempts EXCEPT ![a] = plan]
      /\ Rest(inquiry, inquiry', "attempts")
  BY PlanAttemptWrites DEF IInv, TypeOK, PlanEffectAttempt
<1>2. a \notin inquiry.started
  BY DEF IInv, ValidatorsAccept, Valid, OutcomesFollowStarts, PlanEffectAttempt,
         LawfulPlanAttempt
<1>3. \A b \in Attempts : DeliveryOf(inquiry, b)' = DeliveryOf(inquiry, b)
  BY <1>1, <1>2 DEF IInv, TypeOK, InquiryState, DeliveryOf, Rest
<1>4. \A r \in Requests : SourceOf(inquiry, r)' = SourceOf(inquiry, r)
  BY <1>1 DEF SourceOf, Returned, Rest
<1>5. inquiry'.accepted = inquiry.accepted
  BY <1>1 DEF Rest
<1> QED  BY <1>3, <1>4, <1>5, SameResolution, Stutters

(* A decode becomes visible in the promise only when it is accepted. *)
LEMMA DecodeStutters ==
    ASSUME IInv, NEW d \in Decodes, NEW decode \in DecodeOutcome,
           RecordDecodeOutcome(d, decode)
    PROVE  UNCHANGED Promise!vars
<1>1. /\ inquiry'.decodes = [inquiry.decodes EXCEPT ![d] = decode]
      /\ Rest(inquiry, inquiry', "decodes")
  BY DecodeWrites DEF IInv, TypeOK, RecordDecodeOutcome
<1>2. inquiry.decodes[d] = None
  BY DEF RecordDecodeOutcome, LawfulDecode
<1>3. \A b \in Attempts : DeliveryOf(inquiry, b)' = DeliveryOf(inquiry, b)
  BY <1>1 DEF DeliveryOf, Rest
<1>4. ASSUME NEW r \in Requests, Resolved(inquiry, r)
      PROVE  SourceOf(inquiry, r)' = SourceOf(inquiry, r)
  <2>1. inquiry.accepted[r] \in Decodes /\ inquiry.accepted[r] # d
    BY <1>2, <1>4 DEF IInv, TypeOK, InquiryState, ValidatorsAccept, Valid,
         AcceptedIsDecoded, Resolved
  <2>2. inquiry'.decodes[inquiry'.accepted[r]] = inquiry.decodes[inquiry.accepted[r]]
    BY <1>1, <2>1 DEF IInv, TypeOK, InquiryState, Rest
  <2> QED  BY <1>1, <2>2 DEF SourceOf, Returned, Rest
<1>5. inquiry'.accepted = inquiry.accepted
  BY <1>1 DEF Rest
<1> QED  BY <1>3, <1>4, <1>5, SameResolution, Stutters

(* Starting an attempt of an unresolved request begins its delivery. *)
LEMMA StartBegins ==
    ASSUME IInv, NEW a \in Attempts, StartEffectAttempt(a)
    PROVE  Promise!Next
<1> DEFINE r == inquiry.attempts[a].request
<1>1. /\ inquiry'.started = inquiry.started \cup {a}
      /\ Rest(inquiry, inquiry', "started")
  BY StartWrites DEF IInv, TypeOK, StartEffectAttempt
<1>2. /\ a \notin inquiry.started
      /\ ~ Resolved(inquiry, r)
      /\ inquiry.outcome[a] = None
      /\ r \in Requests
  BY DEF IInv, TypeOK, InquiryState, AttemptPlan, StartEffectAttempt, LawfulStart
<1>3. /\ DeliveryOf(inquiry, a) = None
      /\ DeliveryOf(inquiry, a)' = [request |-> r, status |-> "running"]
      /\ \A b \in Attempts \ {a} : DeliveryOf(inquiry, b)' = DeliveryOf(inquiry, b)
  BY <1>1, <1>2 DEF DeliveryOf, Rest
<1>4. \A q \in Requests : SourceOf(inquiry, q)' = SourceOf(inquiry, q)
  BY <1>1 DEF SourceOf, Returned, Rest
<1>5. \A q \in Requests : ResolutionOf(inquiry, q)' = ResolutionOf(inquiry, q)
  BY <1>1, <1>4, SameResolution DEF Rest
<1>6. ResolutionOf(inquiry, r) = None
  BY <1>2 DEF ResolutionOf
<1>7. Promise!Begin(a, r)
  BY <1>2, <1>3, <1>5, <1>6 DEF Promise!Begin
<1> QED  BY <1>2, <1>7 DEF Promise!Next

(* Recording an outcome finishes the delivery, also after the request was  *)
(* resolved, and takes no part in what resolved it.                        *)
LEMMA OutcomeFinishes ==
    ASSUME IInv, NEW r \in Requests, NEW a \in Attempts, NEW o \in Outcome,
           RecordAttemptOutcome(r, a, o)
    PROVE  Promise!Next
<1>1. /\ inquiry'.outcome = [inquiry.outcome EXCEPT ![a] = o]
      /\ Rest(inquiry, inquiry', "outcome")
  BY OutcomeWrites DEF IInv, TypeOK, RecordAttemptOutcome
<1>2. /\ a \in inquiry.started
      /\ inquiry.outcome[a] = None
      /\ o.kind = "returned" =>
             \A b \in Attempts : Returned(inquiry, b) => inquiry.outcome[b].ret # o.ret
  BY DEF RecordAttemptOutcome, LawfulOutcome
<1>3. o # None /\ o.kind \in OutcomeKinds
  BY NoneAssumption DEF Outcome, FailedOutcome, ReturnedOutcome, OutcomeKinds
<1>4. inquiry'.outcome[a] = o /\ \A b \in Attempts \ {a} : inquiry'.outcome[b] = inquiry.outcome[b]
  BY <1>1 DEF IInv, TypeOK, InquiryState
<1>5. /\ DeliveryOf(inquiry, a) =
             [request |-> inquiry.attempts[a].request, status |-> "running"]
      /\ DeliveryOf(inquiry, a)' =
             [request |-> inquiry.attempts[a].request, status |-> o.kind]
      /\ \A b \in Attempts \ {a} : DeliveryOf(inquiry, b)' = DeliveryOf(inquiry, b)
  BY <1>1, <1>2, <1>3, <1>4 DEF DeliveryOf, Rest
<1>6. ASSUME NEW q \in Requests, Resolved(inquiry, q)
      PROVE  SourceOf(inquiry, q)' = SourceOf(inquiry, q)
  <2>1. PICK b \in Attempts : SourceOf(inquiry, q) = {b} /\ Returned(inquiry, b)
    BY <1>6, UniqueSource DEF IInv, TypeOK, ValidatorsAccept
  <2>2. inquiry.outcome[b].ret = inquiry.decodes[inquiry.accepted[q]].ret
    BY <2>1 DEF SourceOf
  <2>3. o.kind = "returned" => o.ret # inquiry.decodes[inquiry.accepted[q]].ret
    BY <1>2, <2>1, <2>2
  <2>4. ~ Returned(inquiry, a)
    BY <1>2 DEF Returned
  <2> QED  BY <1>1, <1>4, <2>3, <2>4 DEF SourceOf, Returned, Rest
<1>7. \A q \in Requests : ResolutionOf(inquiry, q)' = ResolutionOf(inquiry, q)
  BY <1>1, <1>6, SameResolution DEF Rest
<1>8. [request |-> inquiry.attempts[a].request, status |-> "running"] # None
  <2>1. inquiry.attempts[a].request \in Requests
    BY <1>2 DEF IInv, TypeOK, InquiryState, ValidatorsAccept, Valid,
         OutcomesFollowStarts, AttemptPlan
  <2> QED  BY <2>1, NoneAssumption
<1>9. Promise!Finish(a, o.kind)
  <2> DEFINE D == [b \in Attempts |-> DeliveryOf(inquiry, b)]
             running == [request |-> inquiry.attempts[a].request, status |-> "running"]
             ended == [request |-> inquiry.attempts[a].request, status |-> o.kind]
  <2>1. D[a] = running
    BY <1>5
  <2>2. ended = [request |-> D[a].request, status |-> o.kind] /\ D[a].status = "running"
    BY <2>1
  <2> HIDE DEF ended
  <2>3. D' = [D EXCEPT ![a] = ended]
    BY <1>5 DEF ended
  <2>4. UNCHANGED [q \in Requests |-> ResolutionOf(inquiry, q)]
    BY <1>7
  <2> QED  BY <1>8, <2>1, <2>2, <2>3, <2>4 DEF Promise!Finish
<1> QED  BY <1>3, <1>9 DEF Promise!Next

(* Accepting a result resolves the request with the attempt it came from,  *)
(* which has returned.                                                     *)
LEMMA AcceptResolves ==
    ASSUME IInv, NEW r \in Requests, NEW d \in Decodes, AcceptEffectResult(r, d)
    PROVE  Promise!Next
<1>1. /\ inquiry' \in InquiryState
      /\ inquiry'.accepted = [inquiry.accepted EXCEPT ![r] = d]
      /\ Rest(inquiry, inquiry', "accepted")
  BY AcceptWrites DEF IInv, TypeOK, AcceptEffectResult
<1>2. Valid(inquiry')
  BY AcceptKeepsIInv DEF IInv, ValidatorsAccept
<1>3. ~ Resolved(inquiry, r) /\ Resolved(inquiry', r)
  BY <1>1, NoneAssumption DEF IInv, TypeOK, InquiryState, Resolved,
       AcceptEffectResult, LawfulAccept
<1>4. PICK a \in Attempts : /\ SourceOf(inquiry', r) = {a}
                            /\ Returned(inquiry', a)
                            /\ AttemptOf(inquiry', a, r)
  BY <1>1, <1>2, <1>3, UniqueSource
<1>5. DeliveryOf(inquiry, a) = [request |-> r, status |-> "returned"]
  BY <1>1, <1>4 DEF IInv, ValidatorsAccept, Valid, OutcomesFollowStarts, DeliveryOf,
       Returned, AttemptOf, Rest
<1>6. \A b \in Attempts : DeliveryOf(inquiry, b)' = DeliveryOf(inquiry, b)
  BY <1>1 DEF DeliveryOf, Rest
<1>7. ResolutionOf(inquiry, r) = None /\ ResolutionOf(inquiry, r)' = a
  BY <1>3, <1>4 DEF ResolutionOf, TheOne
<1>8. ASSUME NEW q \in Requests \ {r}
      PROVE  ResolutionOf(inquiry, q)' = ResolutionOf(inquiry, q)
  <2>1. inquiry'.accepted[q] = inquiry.accepted[q]
    BY <1>1 DEF IInv, TypeOK, InquiryState
  <2>2. SourceOf(inquiry, q)' = SourceOf(inquiry, q)
    BY <1>1, <2>1 DEF SourceOf, Returned, Rest
  <2> QED  BY <2>1, <2>2 DEF ResolutionOf, Resolved
<1>9. Promise!Resolve(r, a)
  BY <1>5, <1>6, <1>7, <1>8 DEF Promise!Resolve
<1> QED  BY <1>9 DEF Promise!Next

(* The initial state promises nothing yet. *)
LEMMA InitMaps == Init => Promise!Init
BY DEF Init, StartedInquiry, Promise!Init, DeliveryOf, ResolutionOf, Resolved

(* Every command is a step of the promise or leaves it alone. *)
LEMMA NextMaps == IInv /\ [Next]_vars => [Promise!Next]_(Promise!vars)
<1> SUFFICES ASSUME IInv, [Next]_vars PROVE Promise!Next \/ UNCHANGED Promise!vars
  OBVIOUS
<1>1. ASSUME NEW p \in StepPlans, NEW status \in PlanStatus, RecordStepPlan(p, status)
      PROVE  UNCHANGED Promise!vars
  BY <1>1, StepPlanWrites, OthersStutter DEF IInv, TypeOK, RecordStepPlan, Rest
<1>2. ASSUME NEW r \in Requests, NEW p \in StepPlans, RequestEffect(r, p)
      PROVE  UNCHANGED Promise!vars
  BY <1>2, RequestWrites, OthersStutter DEF IInv, TypeOK, RequestEffect, Rest
<1>3. ASSUME NEW a \in Attempts, NEW plan \in AttemptPlan, PlanEffectAttempt(a, plan)
      PROVE  UNCHANGED Promise!vars
  BY <1>3, PlanAttemptStutters
<1>4. ASSUME NEW a \in Attempts, StartEffectAttempt(a)
      PROVE  Promise!Next
  BY <1>4, StartBegins
<1>5. ASSUME NEW n \in Dispositions, NEW nd \in NoAttempt,
             RecordNoAttemptDisposition(n, nd)
      PROVE  UNCHANGED Promise!vars
  BY <1>5, NoAttemptWrites, OthersStutter DEF IInv, TypeOK,
       RecordNoAttemptDisposition, Rest
<1>6. ASSUME NEW r \in Requests, NEW a \in Attempts, NEW o \in Outcome,
             RecordAttemptOutcome(r, a, o)
      PROVE  Promise!Next
  BY <1>6, OutcomeFinishes
<1>7. ASSUME NEW d \in Decodes, NEW decode \in DecodeOutcome,
             RecordDecodeOutcome(d, decode)
      PROVE  UNCHANGED Promise!vars
  BY <1>7, DecodeStutters
<1>8. ASSUME NEW r \in Requests, NEW d \in Decodes, AcceptEffectResult(r, d)
      PROVE  Promise!Next
  BY <1>8, AcceptResolves
<1>9. CASE UNCHANGED vars
  BY <1>9, OthersStutter DEF vars
<1> QED
  BY <1>1, <1>2, <1>3, <1>4, <1>5, <1>6, <1>7, <1>8, <1>9 DEF Next

(* The command surface of an inquiry implements the delivery promise of    *)
(* EffectPromise: one resolution per request, by the return of one of its  *)
(* own deliveries, for good (KeepsPromise).                                *)
THEOREM AggregateKeepsPromise == Spec => KeepsPromise
BY AlwaysIInv, InitMaps, NextMaps, PTL DEF Spec, KeepsPromise, Promise!Spec
=============================================================================
