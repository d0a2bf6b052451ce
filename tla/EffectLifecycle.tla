--------------------------- MODULE EffectLifecycle ---------------------------
(***************************************************************************)
(* The effect part of one inquiry aggregate: src/src/rci/core/transitions. *)
(* py (decide/evolve) over the records of src/src/rci/core/effects.py.     *)
(*                                                                         *)
(* A command is decided against the folded InquiryState.  decide answers   *)
(* in one of three ways: it returns the event that records the command, it *)
(* returns () because the very same record is already there, or it raises. *)
(* Each command X below is therefore three operators on a folded state s:  *)
(* RepeatsX (the () answer), LawfulX (decide returns the event) and ApplyX *)
(* (evolve).  Raising is the case that is neither.  They are operators of  *)
(* a state, not only actions, because the callers decide on a state they   *)
(* read earlier (module EffectExecutor).                                   *)
(*                                                                         *)
(* An identity maps to the content it was recorded with, or to None.       *)
(* Artifacts, timestamps of events and diagnostics are left out; the time  *)
(* a return was captured is kept (stamp), since it takes part in the       *)
(* equality test between two outcomes of one attempt.                      *)
(***************************************************************************)
EXTENDS Naturals

CONSTANTS StepPlans, Requests, Attempts, Dispositions, Decodes, Returns,
          Routes, Stamps, None

(* Kinds of step plan, of attempt outcome and of decode outcome.  Only     *)
(* "ready" plans carry work, only "returned" outcomes own a return, only   *)
(* "decoded" decodes can be accepted.                                      *)
PlanStatus == {"ready", "satisfied", "unknown"}
FailureKinds ==
    {"not_presented", "presentation_unknown", "capture_failed", "cancelled"}
OutcomeKinds == FailureKinds \cup {"returned"}
DecodeKinds == {"decoded", "malformed", "unsupported", "failed"}

AttemptPlan == [request : Requests, route : Routes]
NoAttempt == [request : Requests, plan : StepPlans]
FailedOutcome == [kind : FailureKinds, route : Routes]
ReturnedOutcome ==
    [kind : {"returned"}, route : Routes, ret : Returns, stamp : Stamps]
Outcome == FailedOutcome \cup ReturnedOutcome
DecodeOutcome == [request : Requests, ret : Returns, kind : DecodeKinds]

(* None stands for "nothing recorded under this identity". *)
ASSUME NoneAssumption ==
    /\ None \notin PlanStatus
    /\ None \notin StepPlans
    /\ None \notin AttemptPlan
    /\ None \notin NoAttempt
    /\ None \notin Outcome
    /\ None \notin DecodeOutcome
    /\ None \notin Decodes
    /\ None \notin Attempts
    /\ None \notin [request : Requests, status : OutcomeKinds \cup {"running"}]

(* The folded state: what evolve keeps of the events recorded so far. *)
InquiryState ==
    [sequence : Nat,
     plans : [StepPlans -> PlanStatus \cup {None}],
     requests : [Requests -> StepPlans \cup {None}],
     attempts : [Attempts -> AttemptPlan \cup {None}],
     started : SUBSET Attempts,
     dispositions : [Dispositions -> NoAttempt \cup {None}],
     outcome : [Attempts -> Outcome \cup {None}],
     decodes : [Decodes -> DecodeOutcome \cup {None}],
     accepted : [Requests -> Decodes \cup {None}]]

(* Replay of the first event, InquiryStarted, alone. *)
StartedInquiry ==
    [sequence |-> 1,
     plans |-> [p \in StepPlans |-> None],
     requests |-> [r \in Requests |-> None],
     attempts |-> [a \in Attempts |-> None],
     started |-> {},
     dispositions |-> [n \in Dispositions |-> None],
     outcome |-> [a \in Attempts |-> None],
     decodes |-> [d \in Decodes |-> None],
     accepted |-> [r \in Requests |-> None]]

------------------------------------------------------------------------------
(* Accessors. *)

Requested(s, r) == s.requests[r] # None
Resolved(s, r) == s.accepted[r] # None
AttemptOf(s, a, r) == s.attempts[a] # None /\ s.attempts[a].request = r
Returned(s, a) == s.outcome[a] # None /\ s.outcome[a].kind = "returned"

(* Mutant: decide searches the captured returns of the whole inquiry.      *)
AnyCapturedReturn(s, r) ==
    {s.outcome[a].ret : a \in {b \in Attempts : Returned(s, b)}}

CapturedReturns(s, r) ==
    {s.outcome[a].ret : a \in {b \in Attempts : AttemptOf(s, b, r) /\ Returned(s, b)}}

------------------------------------------------------------------------------
(* RecordStepPlan.  That a ready plan selects an open obligation is the    *)
(* business of module ManualInquiry; here any plan may be recorded once.   *)
LawfulStepPlan(s, p) == s.plans[p] = None
ApplyStepPlan(s, p, status) ==
    [s EXCEPT !.sequence = @ + 1, !.plans[p] = status]

(* RequestEffect: external work needs a persisted ready plan. *)
LawfulRequest(s, r, p) == ~ Requested(s, r) /\ s.plans[p] = "ready"
ApplyRequest(s, r, p) ==
    [s EXCEPT !.sequence = @ + 1, !.requests[r] = p]

(* PlanEffectAttempt: attempt ids are unique in the inquiry, and a         *)
(* resolved request plans no further delivery.                             *)
LawfulPlanAttempt(s, a, plan) ==
    /\ Requested(s, plan.request)
    /\ s.attempts[a] = None
    /\ ~ Resolved(s, plan.request)
ApplyPlanAttempt(s, a, plan) ==
    [s EXCEPT !.sequence = @ + 1, !.attempts[a] = plan]

(* StartEffectAttempt. *)
RepeatsStart(s, a) == a \in s.started

(* Mutant: decide lets a retry start although another attempt resolved the *)
(* request.                                                                *)
StartAfterResolution(s, a) ==
    /\ s.attempts[a] # None
    /\ a \notin s.started
    /\ s.outcome[a] = None

LawfulStart(s, a) ==
    /\ s.attempts[a] # None
    /\ a \notin s.started
    /\ ~ Resolved(s, s.attempts[a].request)
    /\ s.outcome[a] = None
ApplyStart(s, a) ==
    [s EXCEPT !.sequence = @ + 1, !.started = @ \cup {a}]

(* RecordNoAttemptDisposition.  Nothing is asked of the attempts of the    *)
(* request: they may have been planned, started or even have returned.     *)
RepeatsNoAttempt(s, n, disposition) == s.dispositions[n] = disposition
LawfulNoAttempt(s, n, disposition) ==
    /\ Requested(s, disposition.request)
    /\ s.requests[disposition.request] = disposition.plan
    /\ s.dispositions[n] = None
    /\ ~ Resolved(s, disposition.request)
ApplyNoAttempt(s, n, disposition) ==
    [s EXCEPT !.sequence = @ + 1, !.dispositions[n] = disposition]

(* RecordAttemptOutcome: one terminal outcome per started attempt, also    *)
(* after the request was resolved by another attempt (a late delivery).    *)
RepeatsOutcome(s, r, a, o) ==
    /\ AttemptOf(s, a, r)
    /\ a \in s.started
    /\ s.attempts[a].route = o.route
    /\ s.outcome[a] = o

(* Mutant: decide forgets that a return id may belong to another attempt.  *)
OutcomeWithoutReturnCheck(s, r, a, o) ==
    /\ Requested(s, r)
    /\ AttemptOf(s, a, r)
    /\ a \in s.started
    /\ s.attempts[a].route = o.route
    /\ s.outcome[a] = None

LawfulOutcome(s, r, a, o) ==
    /\ Requested(s, r)
    /\ AttemptOf(s, a, r)
    /\ a \in s.started
    /\ s.attempts[a].route = o.route
    /\ s.outcome[a] = None
    /\ o.kind = "returned" =>
           \A b \in Attempts : Returned(s, b) => s.outcome[b].ret # o.ret
ApplyOutcome(s, a, o) ==
    [s EXCEPT !.sequence = @ + 1, !.outcome[a] = o]

(* RecordDecodeOutcome: interprets a captured return of this request. *)
RepeatsDecode(s, d, decode) ==
    /\ Requested(s, decode.request)
    /\ s.decodes[d] # None
    /\ s.decodes[d].ret = decode.ret
    /\ s.decodes[d].kind = decode.kind
LawfulDecode(s, d, decode) ==
    /\ Requested(s, decode.request)
    /\ s.decodes[d] = None
    /\ decode.ret \in CapturedReturns(s, decode.request)
ApplyDecode(s, d, decode) ==
    [s EXCEPT !.sequence = @ + 1, !.decodes[d] = decode]

(* AcceptEffectResult: the first acceptance wins for good. *)
RepeatsAccept(s, r, d) == s.accepted[r] = d

(* Mutant: decide looks the decode up among all decodes, not this          *)
(* request's.                                                              *)
AcceptAnyDecode(s, r, d) ==
    /\ Requested(s, r)
    /\ ~ Resolved(s, r)
    /\ s.decodes[d] # None
    /\ s.decodes[d].kind = "decoded"

LawfulAccept(s, r, d) ==
    /\ Requested(s, r)
    /\ ~ Resolved(s, r)
    /\ s.decodes[d] # None
    /\ s.decodes[d].request = r
    /\ s.decodes[d].kind = "decoded"

ApplyAccept(s, r, d) ==
    [s EXCEPT !.sequence = @ + 1, !.accepted[r] = d]

------------------------------------------------------------------------------
(* The aggregate as a state machine: every command, from any caller, in    *)
(* any order.                                                              *)
VARIABLE inquiry

vars == <<inquiry>>

RecordStepPlan(p, status) ==
    /\ LawfulStepPlan(inquiry, p)
    /\ inquiry' = ApplyStepPlan(inquiry, p, status)

RequestEffect(r, p) ==
    /\ LawfulRequest(inquiry, r, p)
    /\ inquiry' = ApplyRequest(inquiry, r, p)

PlanEffectAttempt(a, plan) ==
    /\ LawfulPlanAttempt(inquiry, a, plan)
    /\ inquiry' = ApplyPlanAttempt(inquiry, a, plan)

StartEffectAttempt(a) ==
    /\ LawfulStart(inquiry, a)
    /\ inquiry' = ApplyStart(inquiry, a)

RecordNoAttemptDisposition(n, disposition) ==
    /\ LawfulNoAttempt(inquiry, n, disposition)
    /\ inquiry' = ApplyNoAttempt(inquiry, n, disposition)

RecordAttemptOutcome(r, a, o) ==
    /\ LawfulOutcome(inquiry, r, a, o)
    /\ inquiry' = ApplyOutcome(inquiry, a, o)

RecordDecodeOutcome(d, decode) ==
    /\ LawfulDecode(inquiry, d, decode)
    /\ inquiry' = ApplyDecode(inquiry, d, decode)

AcceptEffectResult(r, d) ==
    /\ LawfulAccept(inquiry, r, d)
    /\ inquiry' = ApplyAccept(inquiry, r, d)

Init == inquiry = StartedInquiry

Next ==
    \/ \E p \in StepPlans, status \in PlanStatus : RecordStepPlan(p, status)
    \/ \E r \in Requests, p \in StepPlans : RequestEffect(r, p)
    \/ \E a \in Attempts, plan \in AttemptPlan : PlanEffectAttempt(a, plan)
    \/ \E a \in Attempts : StartEffectAttempt(a)
    \/ \E n \in Dispositions, disposition \in NoAttempt :
           RecordNoAttemptDisposition(n, disposition)
    \/ \E r \in Requests, a \in Attempts, o \in Outcome :
           RecordAttemptOutcome(r, a, o)
    \/ \E d \in Decodes, decode \in DecodeOutcome : RecordDecodeOutcome(d, decode)
    \/ \E r \in Requests, d \in Decodes : AcceptEffectResult(r, d)

Spec == Init /\ [][Next]_vars

------------------------------------------------------------------------------
(* Properties. *)

(* The aggregate holds what InquiryState declares. *)
TypeOK == inquiry \in InquiryState

(* The model validators of the folded state (EffectRequestState.           *)
(* validate_cardinalities, AttemptState.validate_lifecycle and the effect  *)
(* part of InquiryState.validate_lifecycle), which run after every evolve  *)
(* and whose failure would be an untyped ValidationError out of evolve,    *)
(* accept every state that decided commands lead to.                       *)
RequestsArePlanned(s) ==
    \A r \in Requests : Requested(s, r) => s.plans[s.requests[r]] = "ready"
AttemptsAreRequested(s) ==
    \A a \in Attempts : s.attempts[a] # None => Requested(s, s.attempts[a].request)
OutcomesFollowStarts(s) ==
    \A a \in Attempts :
        /\ a \in s.started => s.attempts[a] # None
        /\ s.outcome[a] # None => a \in s.started
ReturnsAreUnique(s) ==
    \A a, b \in Attempts :
        Returned(s, a) /\ Returned(s, b) /\ s.outcome[a].ret = s.outcome[b].ret => a = b
DecodesInterpretOwnReturns(s) ==
    \A d \in Decodes : s.decodes[d] # None =>
        s.decodes[d].ret \in CapturedReturns(s, s.decodes[d].request)
AcceptedIsDecoded(s) ==
    \A r \in Requests : Resolved(s, r) =>
        /\ s.decodes[s.accepted[r]] # None
        /\ s.decodes[s.accepted[r]].request = r
        /\ s.decodes[s.accepted[r]].kind = "decoded"

Valid(s) ==
    /\ RequestsArePlanned(s)
    /\ AttemptsAreRequested(s)
    /\ OutcomesFollowStarts(s)
    /\ ReturnsAreUnique(s)
    /\ DecodesInterpretOwnReturns(s)
    /\ AcceptedIsDecoded(s)

ValidatorsAccept == Valid(inquiry)

(* Provenance of an acceptance, end to end: an accepted result was read    *)
(* from the return of exactly one attempt, that attempt was started for    *)
(* this very request on the authority of a ready plan, and no other        *)
(* request's result goes back to the same return.                          *)
SourceOf(s, r) ==
    {a \in Attempts : Returned(s, a) /\ s.outcome[a].ret = s.decodes[s.accepted[r]].ret}

AcceptanceProvenance ==
    \A r \in Requests : Resolved(inquiry, r) =>
        \E a \in Attempts :
            /\ SourceOf(inquiry, r) = {a}
            /\ a \in inquiry.started
            /\ AttemptOf(inquiry, a, r)
            /\ inquiry.plans[inquiry.requests[r]] = "ready"
            /\ \A q \in Requests \ {r} :
                   Resolved(inquiry, q) => a \notin SourceOf(inquiry, q)

(* Once a result is accepted, the request gains no attempt, no start and   *)
(* no no-attempt disposition, and the acceptance is never replaced; a late *)
(* delivery may still add its outcome and decodes (docs/adr/0003: "cannot  *)
(* replace that acceptance").                                              *)
ResolvedStep(r) ==
    /\ inquiry'.accepted[r] = inquiry.accepted[r]
    /\ \A a \in Attempts : AttemptOf(inquiry', a, r) =>
           /\ AttemptOf(inquiry, a, r)
           /\ a \in inquiry'.started => a \in inquiry.started
    /\ \A n \in Dispositions :
           inquiry'.dispositions[n] # None /\ inquiry'.dispositions[n].request = r
               => inquiry.dispositions[n] = inquiry'.dispositions[n]

ResolutionStep == \A r \in Requests : Resolved(inquiry, r) => ResolvedStep(r)

ResolutionIsFinal == [][ResolutionStep]_vars

(* Nothing recorded is ever rewritten: whatever is recorded under an       *)
(* identity stays, and a step records exactly one event.                   *)
Kept(old, new) == \A i \in DOMAIN old : old[i] # None => new[i] = old[i]

HistoryStep ==
    /\ inquiry'.sequence = inquiry.sequence + 1
    /\ Kept(inquiry.plans, inquiry'.plans)
    /\ Kept(inquiry.requests, inquiry'.requests)
    /\ Kept(inquiry.attempts, inquiry'.attempts)
    /\ inquiry.started \subseteq inquiry'.started
    /\ Kept(inquiry.dispositions, inquiry'.dispositions)
    /\ Kept(inquiry.outcome, inquiry'.outcome)
    /\ Kept(inquiry.decodes, inquiry'.decodes)
    /\ Kept(inquiry.accepted, inquiry'.accepted)

HistoryIsKept == [][HistoryStep]_vars

(* Refinement: the aggregate keeps the promise of EffectPromise.  An       *)
(* attempt is a delivery once it started; the resolution of a request is   *)
(* the attempt that the accepted result was read from.                     *)
DeliveryOf(s, a) ==
    IF a \notin s.started THEN None
    ELSE [request |-> s.attempts[a].request,
          status |-> IF s.outcome[a] = None THEN "running" ELSE s.outcome[a].kind]
TheOne(S) == CHOOSE a \in Attempts : a \in S
ResolutionOf(s, r) == IF Resolved(s, r) THEN TheOne(SourceOf(s, r)) ELSE None

Promise == INSTANCE EffectPromise WITH
    delivery <- [a \in Attempts |-> DeliveryOf(inquiry, a)],
    resolution <- [r \in Requests |-> ResolutionOf(inquiry, r)]

(* Every behaviour of the aggregate is one the promise allows. *)
KeepsPromise == Promise!Spec
=============================================================================
