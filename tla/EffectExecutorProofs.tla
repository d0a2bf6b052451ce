------------------------ MODULE EffectExecutorProofs ------------------------
(***************************************************************************)
(* Proofs about the persisted effect executor, for any number of           *)
(* executors, attempts, requests and payloads, and any number of calls,    *)
(* crashes and lost races.                                                 *)
(*                                                                         *)
(* A call decides on a view that may be stale.  The argument: a view is    *)
(* always an earlier state of the inquiry (Behind), nothing recorded is    *)
(* ever rewritten, and a state with the sequence of the inquiry is the     *)
(* inquiry.  So what a call saw recorded still is, and an append at the    *)
(* expected sequence was decided on the current state: every durable step  *)
(* is a step of the aggregate, and the theorems of EffectLifecycleProofs   *)
(* apply to it.                                                            *)
(***************************************************************************)
EXTENDS EffectExecutor, FiniteSetTheorems, TLAPS

P == INSTANCE EffectLifecycleProofs WITH
         Dispositions <- Attempts, Returns <- ReturnIds, Decodes <- ReturnIds

------------------------------------------------------------------------------
(* The aggregate's proofs, for the identities the executor derives.  L and *)
(* P instantiate the same definitions.                                     *)

LEMMA SameTypes ==
    /\ P!PlanStatus = L!PlanStatus /\ P!AttemptPlan = L!AttemptPlan
    /\ P!NoAttempt = L!NoAttempt /\ P!Outcome = L!Outcome
    /\ P!DecodeOutcome = L!DecodeOutcome /\ P!OutcomeKinds = L!OutcomeKinds
BY DEF P!PlanStatus, L!PlanStatus, P!AttemptPlan, L!AttemptPlan, P!NoAttempt, L!NoAttempt,
       P!Outcome, L!Outcome, P!DecodeOutcome, L!DecodeOutcome, P!OutcomeKinds,
       L!OutcomeKinds, P!FailureKinds, L!FailureKinds, P!FailedOutcome, L!FailedOutcome,
       P!ReturnedOutcome, L!ReturnedOutcome, P!DecodeKinds, L!DecodeKinds

LEMMA SameState == P!InquiryState = L!InquiryState
BY SameTypes DEF P!InquiryState, L!InquiryState

(* The assumption of EffectLifecycle on None. *)
LEMMA NoneIsNoRecord ==
    /\ None \notin P!PlanStatus
    /\ None \notin StepPlans
    /\ None \notin P!AttemptPlan
    /\ None \notin P!NoAttempt
    /\ None \notin P!Outcome
    /\ None \notin P!DecodeOutcome
    /\ None \notin ReturnIds
    /\ None \notin Attempts
    /\ None \notin [request : Requests, status : P!OutcomeKinds \cup {"running"}]
BY PlannedAssumption, SameTypes

LEMMA SameApply ==
    ASSUME NEW s, NEW a, NEW r, NEW x
    PROVE  /\ P!ApplyStart(s, a) = L!ApplyStart(s, a)
           /\ P!ApplyNoAttempt(s, a, x) = L!ApplyNoAttempt(s, a, x)
           /\ P!ApplyOutcome(s, a, x) = L!ApplyOutcome(s, a, x)
           /\ P!ApplyDecode(s, a, x) = L!ApplyDecode(s, a, x)
           /\ P!ApplyAccept(s, r, x) = L!ApplyAccept(s, r, x)
BY Zenon DEF P!ApplyStart, L!ApplyStart, P!ApplyNoAttempt, L!ApplyNoAttempt,
       P!ApplyOutcome, L!ApplyOutcome, P!ApplyDecode, L!ApplyDecode, P!ApplyAccept,
       L!ApplyAccept

LEMMA SameNext == P!Next <=> L!Next
BY DEF P!PlanStatus, L!PlanStatus, P!AttemptPlan, L!AttemptPlan, P!NoAttempt, L!NoAttempt,
       P!Outcome, L!Outcome, P!DecodeOutcome, L!DecodeOutcome, P!OutcomeKinds,
       L!OutcomeKinds, P!FailureKinds, L!FailureKinds, P!FailedOutcome, L!FailedOutcome,
       P!ReturnedOutcome, L!ReturnedOutcome, P!DecodeKinds, L!DecodeKinds, P!Next, L!Next,
       P!RecordStepPlan, L!RecordStepPlan, P!RequestEffect, L!RequestEffect,
       P!PlanEffectAttempt, L!PlanEffectAttempt, P!StartEffectAttempt,
       L!StartEffectAttempt, P!RecordNoAttemptDisposition, L!RecordNoAttemptDisposition,
       P!RecordAttemptOutcome, L!RecordAttemptOutcome, P!RecordDecodeOutcome,
       L!RecordDecodeOutcome, P!AcceptEffectResult, L!AcceptEffectResult,
       P!LawfulStepPlan, L!LawfulStepPlan, P!LawfulRequest, L!LawfulRequest,
       P!LawfulPlanAttempt, L!LawfulPlanAttempt, P!LawfulStart, L!LawfulStart,
       P!LawfulNoAttempt, L!LawfulNoAttempt, P!LawfulOutcome, L!LawfulOutcome,
       P!LawfulDecode, L!LawfulDecode, P!LawfulAccept, L!LawfulAccept, P!ApplyStepPlan,
       L!ApplyStepPlan, P!ApplyRequest, L!ApplyRequest, P!ApplyPlanAttempt,
       L!ApplyPlanAttempt, P!ApplyStart, L!ApplyStart, P!ApplyNoAttempt, L!ApplyNoAttempt,
       P!ApplyOutcome, L!ApplyOutcome, P!ApplyDecode, L!ApplyDecode, P!ApplyAccept,
       L!ApplyAccept, P!Requested, L!Requested, P!Resolved, L!Resolved, P!AttemptOf,
       L!AttemptOf, P!Returned, L!Returned, P!CapturedReturns, L!CapturedReturns

LEMMA SameValid ==
    ASSUME NEW s
    PROVE  P!Valid(s) <=> L!Valid(s)
BY DEF P!Valid, L!Valid, P!RequestsArePlanned, L!RequestsArePlanned,
       P!AttemptsAreRequested, L!AttemptsAreRequested, P!OutcomesFollowStarts,
       L!OutcomesFollowStarts, P!ReturnsAreUnique, L!ReturnsAreUnique,
       P!DecodesInterpretOwnReturns, L!DecodesInterpretOwnReturns, P!AcceptedIsDecoded,
       L!AcceptedIsDecoded, P!Requested, L!Requested, P!Resolved, L!Resolved, P!AttemptOf,
       L!AttemptOf, P!Returned, L!Returned, P!CapturedReturns, L!CapturedReturns

(* A durable step keeps the state typed and valid, and rewrites nothing.   *)
LEMMA AggregateStep ==
    ASSUME inquiry \in L!InquiryState, L!Valid(inquiry), L!Next
    PROVE  inquiry' \in L!InquiryState /\ L!Valid(inquiry') /\ L!HistoryStep
<1>1. P!IInv /\ P!Next
  BY SameState, SameValid, SameNext DEF P!IInv, P!TypeOK, P!ValidatorsAccept
<1>2. P!IInv'
  BY <1>1, P!NextIInv, NoneIsNoRecord, Zenon
<1>3. P!HistoryStep
  BY <1>1, P!NextKeepsHistory, NoneIsNoRecord, Zenon
<1>4. inquiry' \in P!InquiryState /\ P!Valid(inquiry')
  BY <1>2 DEF P!IInv, P!TypeOK, P!ValidatorsAccept
<1>5. L!HistoryStep
  BY <1>3 DEF P!HistoryStep, L!HistoryStep, P!Kept, L!Kept
<1> QED  BY <1>4, <1>5, SameState, SameValid

------------------------------------------------------------------------------
(* The inductive invariant. *)

(* v is an earlier state of the inquiry than s, or s itself. *)
Behind(v, s) ==
    /\ v.sequence <= s.sequence
    /\ v.sequence = s.sequence => v = s
    /\ L!Kept(v.requests, s.requests)
    /\ L!Kept(v.attempts, s.attempts)
    /\ v.started \subseteq s.started
    /\ L!Kept(v.dispositions, s.dispositions)
    /\ L!Kept(v.outcome, s.outcome)
    /\ L!Kept(v.decodes, s.decodes)
    /\ L!Kept(v.accepted, s.accepted)

(* Every view, and the state every call starts from, is an earlier state   *)
(* of the inquiry that the validators accepted.                            *)
ViewsAreBehind ==
    /\ L!Valid(inquiry)
    /\ Behind(PlannedInquiry, inquiry)
    /\ \A e \in Executors : /\ L!Valid(view[e])
                            /\ Behind(view[e], inquiry)
                            /\ Behind(PlannedInquiry, view[e])

(* What is recorded was returned, stored and decoded as it says. *)
ReturnIsGenuine(a) ==
    L!Returned(inquiry, a) =>
        LET ret == inquiry.outcome[a].ret IN
        /\ ret[1] = a
        /\ ret \in performed
        /\ <<"raw", ret[2]>> \in artifacts
DecodeIsGenuine(d) ==
    inquiry.decodes[d] # None =>
        /\ inquiry.decodes[d].ret = d
        /\ inquiry.decodes[d].kind = DecodeKindOf[d[2]]
        /\ inquiry.decodes[d].kind = "decoded" => <<"semantic", d[2]>> \in artifacts
LedgerIsGenuine ==
    /\ \A a \in Attempts : ReturnIsGenuine(a)
    /\ \A d \in ReturnIds : DecodeIsGenuine(d)

(* What a call knows at each of its steps. *)
Appending(e) == pc[e] \in {"version", "rows", "commit"}

HasTarget(e) ==
    /\ pc[e] \notin {"idle", "raised"} => target[e] \in Attempts
    /\ pc[e] \in {"enter", "preflight"} => stage[e] = "enter"
    /\ pc[e] = "commit" => stage[e] # "enter"
HasStarted(e) ==
    pc[e] \in {"perform", "capture"} => target[e] \in view[e].started
HoldsReturn(e) ==
    /\ pc[e] = "capture" => held[e] \in Payloads /\ <<target[e], held[e]>> \in performed
    /\ Appending(e) /\ stage[e] = "outcome" =>
           /\ held[e] \in L!Outcome
           /\ held[e].kind = "returned" => held[e].ret \in performed /\ held[e].ret[1] = target[e]
KnowsReturn(e) ==
    pc[e] = "decode" \/ (Appending(e) /\ stage[e] \in {"decoded", "accept"}) =>
        L!Returned(view[e], target[e])
LateOnlyFinishes(e) ==
    late[e] /\ Running(e) =>
        /\ pc[e] \notin {"preflight", "perform", "capture"}
        /\ stage[e] \in {"enter", "decoded", "accept"}
        /\ inquiry.outcome[target[e]] # None
        /\ pc[e] = "enter" => view[e].outcome[target[e]] # None
IsSettled(e) ==
    pc[e] = "returned" =>
        LET a == target[e] IN
        /\ \/ inquiry.outcome[a] # None
           \/ inquiry.dispositions[a] # None
           \/ L!Resolved(inquiry, RequestOf[a])
        /\ stage[e] # "no_attempt" /\ L!Returned(view[e], a)
               /\ DecodeKindOf[Payload(view[e], a)] = "decoded"
               => L!Resolved(inquiry, RequestOf[a])

CallIsSound(e) ==
    /\ HasTarget(e)
    /\ HasStarted(e)
    /\ HoldsReturn(e)
    /\ KnowsReturn(e)
    /\ LateOnlyFinishes(e)
    /\ IsSettled(e)

IInv ==
    /\ TypeOK
    /\ ViewsAreBehind
    /\ LedgerIsGenuine
    /\ \A e \in Executors : CallIsSound(e)

------------------------------------------------------------------------------
(* Earlier states of the inquiry. *)

LEMMA BehindReflexive ==
    ASSUME NEW s \in L!InquiryState
    PROVE  Behind(s, s)
BY DEF Behind, L!Kept, L!InquiryState

LEMMA BehindTransitive ==
    ASSUME NEW s \in L!InquiryState, NEW t \in L!InquiryState, NEW u \in L!InquiryState,
           Behind(s, t), Behind(t, u)
    PROVE  Behind(s, u)
<1>1. s.sequence \in Nat /\ t.sequence \in Nat /\ u.sequence \in Nat
  BY DEF L!InquiryState
<1>2. s.sequence <= u.sequence /\ (s.sequence = u.sequence => s = u)
  BY <1>1 DEF Behind
<1>3. L!Kept(s.requests, u.requests) /\ L!Kept(s.attempts, u.attempts)
  BY DEF Behind, L!Kept, L!InquiryState
<1>4. L!Kept(s.dispositions, u.dispositions) /\ L!Kept(s.outcome, u.outcome)
  BY DEF Behind, L!Kept, L!InquiryState
<1>5. L!Kept(s.decodes, u.decodes) /\ L!Kept(s.accepted, u.accepted)
  BY DEF Behind, L!Kept, L!InquiryState
<1>6. s.started \subseteq u.started
  BY DEF Behind
<1> QED  BY <1>2, <1>3, <1>4, <1>5, <1>6 DEF Behind

LEMMA HistoryStepIsForward ==
    ASSUME inquiry \in L!InquiryState, L!HistoryStep
    PROVE  Behind(inquiry, inquiry')
<1>1. inquiry.sequence \in Nat /\ inquiry'.sequence = inquiry.sequence + 1
  BY DEF L!InquiryState, L!HistoryStep
<1> QED  BY <1>1 DEF Behind, L!HistoryStep

(* What an earlier state recorded, in the fields a call looks at. *)
LEMMA BehindRecords ==
    ASSUME NEW v \in L!InquiryState, NEW s \in L!InquiryState, Behind(v, s)
    PROVE  /\ \A a \in Attempts : v.outcome[a] # None => s.outcome[a] = v.outcome[a]
           /\ \A a \in Attempts : L!Returned(v, a) => L!Returned(s, a)
           /\ \A a \in Attempts : v.dispositions[a] # None => s.dispositions[a] = v.dispositions[a]
           /\ \A d \in ReturnIds : v.decodes[d] # None => s.decodes[d] = v.decodes[d]
           /\ \A r \in Requests : L!Resolved(v, r) => L!Resolved(s, r)
           /\ v.started \subseteq s.started
<1>1. \A a \in Attempts : v.outcome[a] # None => s.outcome[a] = v.outcome[a]
  BY DEF Behind, L!Kept, L!InquiryState
<1>2. \A a \in Attempts : v.dispositions[a] # None => s.dispositions[a] = v.dispositions[a]
  BY DEF Behind, L!Kept, L!InquiryState
<1>3. \A d \in ReturnIds : v.decodes[d] # None => s.decodes[d] = v.decodes[d]
  BY DEF Behind, L!Kept, L!InquiryState
<1>4. \A r \in Requests : L!Resolved(v, r) => L!Resolved(s, r)
  BY DEF Behind, L!Kept, L!InquiryState, L!Resolved
<1>5. \A a \in Attempts : L!Returned(v, a) => L!Returned(s, a)
  BY <1>1 DEF L!Returned
<1> QED  BY <1>1, <1>2, <1>3, <1>4, <1>5 DEF Behind

(* The durable state the calls find: typed, valid, every request planned   *)
(* and every attempt planned for its request.                              *)
LEMMA PlannedIsState ==
    /\ PlannedInquiry \in L!InquiryState
    /\ L!Valid(PlannedInquiry)
    /\ \A r \in Requests : PlannedInquiry.requests[r] \in StepPlans
    /\ \A a \in Attempts : /\ PlannedInquiry.attempts[a] \in L!AttemptPlan
                           /\ PlannedInquiry.attempts[a].request = RequestOf[a]
<1> DEFINE n == 1 + Cardinality(StepPlans) + Cardinality(Requests) + Cardinality(Attempts)
           plan == CHOOSE p \in StepPlans : TRUE
           route == CHOOSE u \in Routes : TRUE
           record == [sequence |-> n,
                      plans |-> [p \in StepPlans |-> "ready"],
                      requests |-> [r \in Requests |-> plan],
                      attempts |-> [a \in Attempts |-> [request |-> RequestOf[a], route |-> route]],
                      started |-> {},
                      dispositions |-> [a \in Attempts |-> None],
                      outcome |-> [a \in Attempts |-> None],
                      decodes |-> [d \in ReturnIds |-> None],
                      accepted |-> [r \in Requests |-> None]]
<1>1. PlannedInquiry = record
  BY DEF PlannedInquiry
<1>2. n \in Nat
  BY PlannedAssumption, FS_CardinalityType
<1>3. plan \in StepPlans /\ route \in Routes
  BY PlannedAssumption
<1> HIDE DEF n, plan, route
<1>4. \A a \in Attempts : [request |-> RequestOf[a], route |-> route] \in L!AttemptPlan
  BY <1>3, ExecutorAssumption DEF L!AttemptPlan
<1>5. record \in L!InquiryState
  BY <1>2, <1>3, <1>4 DEF L!InquiryState, L!PlanStatus
<1>6. L!Valid(record)
  BY <1>3, <1>4, PlannedAssumption, ExecutorAssumption
     DEF L!Valid, L!RequestsArePlanned, L!AttemptsAreRequested, L!OutcomesFollowStarts,
         L!ReturnsAreUnique, L!DecodesInterpretOwnReturns, L!AcceptedIsDecoded, L!Requested,
         L!Resolved, L!Returned
<1> QED  BY <1>1, <1>3, <1>4, <1>5, <1>6

LEMMA PlansStay ==
    ASSUME NEW s \in L!InquiryState, Behind(PlannedInquiry, s)
    PROVE  /\ \A r \in Requests : s.requests[r] \in StepPlans
           /\ \A a \in Attempts : /\ s.attempts[a] \in L!AttemptPlan
                                  /\ s.attempts[a].request = RequestOf[a]
<1>1. DOMAIN PlannedInquiry.requests = Requests /\ DOMAIN PlannedInquiry.attempts = Attempts
  BY PlannedIsState DEF L!InquiryState
<1>2. \A r \in Requests : s.requests[r] = PlannedInquiry.requests[r]
  BY <1>1, PlannedIsState, PlannedAssumption DEF Behind, L!Kept
<1>3. \A a \in Attempts : s.attempts[a] = PlannedInquiry.attempts[a]
  BY <1>1, PlannedIsState, PlannedAssumption DEF Behind, L!Kept
<1> QED  BY <1>2, <1>3, PlannedIsState

------------------------------------------------------------------------------
(* What a step of one call leaves to the others. *)

LocalsKept(d) ==
    /\ pc'[d] = pc[d] /\ stage'[d] = stage[d] /\ target'[d] = target[d]
    /\ view'[d] = view[d] /\ held'[d] = held[d] /\ late'[d] = late[d]

(* The durable state may move on, but only forward. *)
Forward ==
    /\ inquiry' \in L!InquiryState
    /\ Behind(inquiry, inquiry')
    /\ artifacts \subseteq artifacts'
    /\ performed \subseteq performed'

LEMMA OthersStaySound ==
    ASSUME TypeOK, Forward, NEW d \in Executors, LocalsKept(d), CallIsSound(d)
    PROVE  CallIsSound(d)'
<1>1. inquiry \in L!InquiryState /\ inquiry' \in L!InquiryState /\ Behind(inquiry, inquiry')
  BY DEF TypeOK, Forward
<1>2. /\ \A a \in Attempts : inquiry.outcome[a] # None => inquiry'.outcome[a] # None
      /\ \A a \in Attempts : inquiry.dispositions[a] # None => inquiry'.dispositions[a] # None
      /\ \A r \in Requests : L!Resolved(inquiry, r) => L!Resolved(inquiry', r)
  BY <1>1, BehindRecords
<1>3. target[d] \in Attempts => RequestOf[target[d]] \in Requests
  BY ExecutorAssumption
<1>4. HasTarget(d)' /\ HasStarted(d)'
  BY DEF CallIsSound, HasTarget, HasStarted, LocalsKept
<1>5. HoldsReturn(d)'
  BY DEF CallIsSound, HoldsReturn, Appending, LocalsKept, Forward
<1>6. KnowsReturn(d)'
  BY DEF CallIsSound, KnowsReturn, Appending, LocalsKept
<1>7. LateOnlyFinishes(d)'
  BY <1>2 DEF CallIsSound, LateOnlyFinishes, HasTarget, Running, LocalsKept
<1>8. IsSettled(d)'
  BY <1>2, <1>3 DEF CallIsSound, IsSettled, HasTarget, LocalsKept
<1> QED  BY <1>4, <1>5, <1>6, <1>7, <1>8 DEF CallIsSound

(* A step that appends nothing keeps the invariant when its call stays     *)
(* sound; a view is only ever replaced by the inquiry or forgotten.        *)
LEMMA LocalStep ==
    ASSUME IInv, NEW e \in Executors, TypeOK', inquiry' = inquiry,
           artifacts \subseteq artifacts', performed \subseteq performed',
           \A d \in Executors \ {e} : LocalsKept(d),
           view'[e] \in {view[e], inquiry, PlannedInquiry},
           CallIsSound(e)'
    PROVE  IInv'
<1>1. TypeOK /\ ViewsAreBehind /\ LedgerIsGenuine /\ inquiry \in L!InquiryState
  BY DEF IInv, TypeOK
<1>2. Forward
  BY <1>1, BehindReflexive DEF Forward
<1>3. \A d \in Executors : CallIsSound(d)'
  BY <1>1, <1>2, OthersStaySound DEF IInv
<1>4. LedgerIsGenuine'
  <2>1. \A a \in Attempts : ReturnIsGenuine(a)'
    BY <1>1 DEF LedgerIsGenuine, ReturnIsGenuine
  <2>2. \A d \in ReturnIds : DecodeIsGenuine(d)'
    BY <1>1 DEF LedgerIsGenuine, DecodeIsGenuine
  <2> QED  BY <2>1, <2>2 DEF LedgerIsGenuine
<1>5. ViewsAreBehind'
  <2>1. L!Valid(inquiry) /\ Behind(PlannedInquiry, inquiry) /\ Behind(inquiry, inquiry)
    BY <1>1, BehindReflexive DEF ViewsAreBehind
  <2>2. L!Valid(PlannedInquiry) /\ Behind(PlannedInquiry, PlannedInquiry)
    BY PlannedIsState, BehindReflexive
  <2>3. \A d \in Executors : /\ L!Valid(view'[d])
                              /\ Behind(view'[d], inquiry)
                              /\ Behind(PlannedInquiry, view'[d])
    <3> SUFFICES ASSUME NEW d \in Executors
                 PROVE  /\ L!Valid(view'[d])
                        /\ Behind(view'[d], inquiry)
                        /\ Behind(PlannedInquiry, view'[d])
      OBVIOUS
    <3>1. view'[d] \in {view[d], inquiry, PlannedInquiry}
      BY DEF LocalsKept
    <3>2. L!Valid(view[d]) /\ Behind(view[d], inquiry) /\ Behind(PlannedInquiry, view[d])
      BY <1>1 DEF ViewsAreBehind
    <3> QED  BY <2>1, <2>2, <3>1, <3>2, Zenon
  <2>4. L!Valid(inquiry') /\ Behind(PlannedInquiry, inquiry')
    BY <2>1, Zenon
  <2>5. \A d \in Executors : /\ L!Valid(view'[d])
                              /\ Behind(view'[d], inquiry')
                              /\ Behind(PlannedInquiry, view'[d])
    BY <2>3, Zenon
  <2> QED  BY <2>4, <2>5, Zenon DEF ViewsAreBehind
<1> QED  BY <1>3, <1>4, <1>5 DEF IInv

------------------------------------------------------------------------------
(* The steps that append nothing. *)

(* TypeOK, in its two parts. *)
CallsTyped ==
    /\ pc \in [Executors -> Steps]
    /\ stage \in [Executors -> Stages]
    /\ target \in [Executors -> Attempts \cup {None}]
    /\ view \in [Executors -> L!InquiryState]
    /\ seen \in [Executors -> Nat]
    /\ tries \in [Executors -> 0..(RaceLimit - 1)]
    /\ held \in [Executors -> {None} \cup Payloads \cup L!Outcome]

RestTyped ==
    /\ inquiry \in L!InquiryState
    /\ artifacts \subseteq ({"raw", "semantic"} \X Payloads)
    /\ calls \in 0..MaxCalls
    /\ performed \subseteq ReturnIds
    /\ late \in [Executors -> BOOLEAN]

LEMMA TypeParts ==
    /\ TypeOK <=> CallsTyped /\ RestTyped
    /\ TypeOK' <=> CallsTyped' /\ RestTyped'
BY DEF TypeOK, CallsTyped, RestTyped

(* An exception or a crash: the call is over and its locals are gone. *)
LEMMA ForgetKeepsIInv ==
    ASSUME IInv, NEW e \in Executors, NEW step \in {"idle", "raised"},
           Goto(e, step), Forget(e), UNCHANGED <<ledger, history>>
    PROVE  IInv'
<1>1. TypeOK /\ CallsTyped /\ RestTyped
  BY TypeParts DEF IInv
<1>2. inquiry' = inquiry /\ artifacts' = artifacts /\ calls' = calls
      /\ performed' = performed /\ late' = late
  BY DEF ledger, history
<1>3. CallsTyped'
  BY <1>1, PlannedIsState DEF CallsTyped, Forget, Goto, Steps, Stages, RaceLimit
<1>4. TypeOK'
  BY <1>1, <1>2, <1>3, TypeParts DEF RestTyped
<1>5. \A d \in Executors \ {e} : LocalsKept(d)
  BY <1>1, <1>2 DEF CallsTyped, Forget, Goto, LocalsKept
<1>6. pc'[e] = step /\ stage'[e] = "enter" /\ view'[e] = PlannedInquiry
  BY <1>1 DEF CallsTyped, Forget, Goto
<1>7. CallIsSound(e)'
  BY <1>6 DEF CallIsSound, HasTarget, HasStarted, HoldsReturn, KnowsReturn, Appending,
             LateOnlyFinishes, Running, IsSettled
<1> QED  BY <1>2, <1>4, <1>5, <1>6, <1>7, LocalStep

LEMMA BeginKeepsIInv ==
    ASSUME IInv, NEW e \in Executors, NEW a \in Attempts, Begin(e, a)
    PROVE  IInv'
<1>1. TypeOK /\ CallsTyped /\ RestTyped
  BY TypeParts DEF IInv
<1>2. /\ inquiry' = inquiry /\ artifacts' = artifacts /\ performed' = performed
      /\ calls' = calls + 1 /\ calls < MaxCalls /\ view' = view /\ seen' = seen
      /\ late' = [late EXCEPT ![e] = inquiry.outcome[a] # None]
      /\ target' = [target EXCEPT ![e] = a] /\ held' = [held EXCEPT ![e] = None]
      /\ pc' = [pc EXCEPT ![e] = "version"] /\ stage' = [stage EXCEPT ![e] = "enter"]
      /\ tries' = [tries EXCEPT ![e] = 0]
  BY DEF Begin, BeginRebuild, Goto, ledger
<1>3. CallsTyped'
  BY <1>1, <1>2 DEF CallsTyped, Steps, Stages, RaceLimit
<1>4. RestTyped'
  <2>1. late' \in [Executors -> BOOLEAN]
    BY <1>1, <1>2 DEF RestTyped
  <2>2. calls' \in 0..MaxCalls
    BY <1>1, <1>2, ExecutorAssumption DEF RestTyped
  <2> QED  BY <1>1, <1>2, <2>1, <2>2 DEF RestTyped
<1>5. \A d \in Executors \ {e} : LocalsKept(d)
  BY <1>1, <1>2 DEF CallsTyped, RestTyped, LocalsKept
<1>6. /\ pc'[e] = "version" /\ stage'[e] = "enter" /\ view'[e] = view[e] /\ target'[e] = a
      /\ late'[e] = (inquiry.outcome[a] # None)
  BY <1>1, <1>2 DEF CallsTyped, RestTyped
<1>7. CallIsSound(e)'
  BY <1>2, <1>6 DEF CallIsSound, HasTarget, HasStarted, HoldsReturn, KnowsReturn, Appending,
             LateOnlyFinishes, Running, IsSettled
<1> QED  BY <1>2, <1>3, <1>4, <1>5, <1>6, <1>7, LocalStep, TypeParts

LEMMA SelectVersionKeepsIInv ==
    ASSUME IInv, NEW e \in Executors, SelectVersion(e)
    PROVE  IInv'
<1>1. TypeOK /\ CallsTyped /\ RestTyped /\ CallIsSound(e)
  BY TypeParts DEF IInv
<1>2. /\ inquiry' = inquiry /\ artifacts' = artifacts /\ performed' = performed
      /\ calls' = calls /\ late' = late /\ view' = view /\ stage' = stage
      /\ target' = target /\ tries' = tries /\ held' = held
      /\ pc' = [pc EXCEPT ![e] = "rows"] /\ pc[e] = "version"
      /\ seen' = [seen EXCEPT ![e] = inquiry.sequence]
  BY DEF SelectVersion, Goto, ledger, history
<1>3. CallsTyped' /\ RestTyped'
  BY <1>1, <1>2 DEF CallsTyped, RestTyped, Steps, L!InquiryState
<1>4. \A d \in Executors \ {e} : LocalsKept(d)
  BY <1>1, <1>2 DEF CallsTyped, LocalsKept
<1>5. pc'[e] = "rows"
  BY <1>1, <1>2 DEF CallsTyped
<1>6. CallIsSound(e)'
  BY <1>1, <1>2, <1>5 DEF CallIsSound, HasTarget, HasStarted, HoldsReturn, KnowsReturn,
             Appending, LateOnlyFinishes, Running, IsSettled
<1> QED  BY <1>2, <1>3, <1>4, <1>6, LocalStep, TypeParts

(* The view becomes the inquiry: what the call knew from an earlier view   *)
(* it still knows.                                                         *)
LEMMA SelectRowsKeepsIInv ==
    ASSUME IInv, NEW e \in Executors, SelectRows(e)
    PROVE  IInv'
<1>1. TypeOK /\ CallsTyped /\ RestTyped /\ CallIsSound(e)
  BY TypeParts DEF IInv
<1>2. UNCHANGED <<ledger, history>> /\ pc[e] = "rows"
  BY DEF SelectRows
<1>3. CASE Raise(e)
  BY <1>2, <1>3, ForgetKeepsIInv DEF Raise
<1>4. CASE /\ view' = [view EXCEPT ![e] = inquiry]
           /\ seen' = [seen EXCEPT ![e] = 0]
           /\ Goto(e, IF stage[e] = "enter" THEN "enter" ELSE "commit")
           /\ UNCHANGED <<stage, target, tries, held>>
  <2>1. /\ inquiry' = inquiry /\ artifacts' = artifacts /\ performed' = performed
        /\ calls' = calls /\ late' = late
    BY <1>2 DEF ledger, history
  <2>2. CallsTyped' /\ RestTyped'
    BY <1>1, <1>4, <2>1 DEF CallsTyped, RestTyped, Goto, Steps
  <2>3. \A d \in Executors \ {e} : LocalsKept(d)
    BY <1>1, <1>4, <2>1 DEF CallsTyped, LocalsKept, Goto
  <2>4. /\ pc'[e] = IF stage[e] = "enter" THEN "enter" ELSE "commit"
        /\ view'[e] = inquiry /\ stage'[e] = stage[e] /\ target'[e] = target[e]
        /\ held'[e] = held[e] /\ late'[e] = late[e]
    BY <1>1, <1>4, <2>1 DEF CallsTyped, Goto
  <2>5. HasTarget(e)' /\ HasStarted(e)' /\ IsSettled(e)'
    BY <1>1, <1>2, <2>4 DEF CallIsSound, HasTarget, HasStarted, IsSettled
  <2>6. HoldsReturn(e)' /\ LateOnlyFinishes(e)'
    BY <1>1, <1>2, <2>1, <2>4 DEF CallIsSound, HoldsReturn, Appending, LateOnlyFinishes, Running
  <2>7. KnowsReturn(e)'
    <3>1. view[e] \in L!InquiryState /\ inquiry \in L!InquiryState /\ Behind(view[e], inquiry)
      BY <1>1 DEF IInv, TypeOK, ViewsAreBehind
    <3>2. target[e] \in Attempts
      BY <1>1, <1>2 DEF CallIsSound, HasTarget
    <3>3. L!Returned(view[e], target[e]) => L!Returned(inquiry, target[e])
      BY <3>1, <3>2, BehindRecords
    <3> QED  BY <1>1, <1>2, <2>4, <3>3 DEF CallIsSound, KnowsReturn, Appending
  <2>8. CallIsSound(e)'
    BY <2>5, <2>6, <2>7 DEF CallIsSound
  <2> QED  BY <2>1, <2>2, <2>3, <2>4, <2>8, LocalStep, TypeParts
<1> QED  BY <1>3, <1>4 DEF SelectRows

(* A recorded return is typed. *)
LEMMA ReturnedHasReturn ==
    ASSUME NEW s \in L!InquiryState, NEW a \in Attempts, L!Returned(s, a)
    PROVE  s.outcome[a] \in L!ReturnedOutcome /\ s.outcome[a].ret \in ReturnIds
<1>1. s.outcome[a] \in L!Outcome
  BY DEF L!InquiryState, L!Returned
<1> QED  BY <1>1 DEF L!Returned, L!Outcome, L!FailedOutcome, L!ReturnedOutcome, L!FailureKinds

(* The four ways on from a started attempt. *)
LEMMA ContinueCases ==
    ASSUME NEW e \in Executors, NEW s, Continue(e, s)
    PROVE  LET a == target[e]
               Go(step) == pc' = [pc EXCEPT ![e] = step] /\ stage' = stage /\ tries' = tries IN
           \/ s.outcome[a] = None /\ Go("perform")
           \/ s.outcome[a] # None /\ ~ L!Returned(s, a) /\ Go("returned")
           \/ L!Returned(s, a) /\ Go("decode")
           \/ /\ L!Returned(s, a)
              /\ pc' = [pc EXCEPT ![e] = "version"]
              /\ stage' = [stage EXCEPT ![e] = "accept"]
              /\ tries' = [tries EXCEPT ![e] = 0]
           \/ /\ L!Returned(s, a)
              /\ s.decodes[s.outcome[a].ret] # None
              /\ s.decodes[s.outcome[a].ret].kind # "decoded"
              /\ Go("returned")
<1> DEFINE a == target[e]  d == s.decodes[s.outcome[a].ret]
<1>1. CASE s.outcome[a] = None
  BY <1>1 DEF Continue, Goto, L!Returned
<1>2. CASE s.outcome[a] # None /\ ~ L!Returned(s, a)
  BY <1>2 DEF Continue, Goto
<1>3. CASE L!Returned(s, a) /\ d = None
  <2>1. s.outcome[a] # None
    BY <1>3 DEF L!Returned
  <2> QED  BY <1>3, <2>1 DEF Continue, Goto
<1>4. CASE L!Returned(s, a) /\ d # None /\ d.kind = "decoded"
  <2>1. s.outcome[a] # None
    BY <1>4 DEF L!Returned
  <2> QED  BY <1>4, <2>1 DEF Continue, BeginRebuild, Goto
<1>5. CASE L!Returned(s, a) /\ d # None /\ d.kind # "decoded"
  <2>1. s.outcome[a] # None
    BY <1>5 DEF L!Returned
  <2> QED  BY <1>5, <2>1 DEF Continue, BeginRebuild, Goto
<1> QED  BY <1>1, <1>2, <1>3, <1>4, <1>5

(* Going on from a state s that is behind the (next) inquiry keeps a call  *)
(* sound: it performs only when s has no outcome, and returns only when    *)
(* the work is settled.                                                    *)
LEMMA ContinueIsSound ==
    ASSUME CallsTyped, RestTyped', NEW e \in Executors, NEW s \in L!InquiryState,
           target[e] \in Attempts, target' = target, late' = late, view'[e] = s,
           Behind(s, inquiry'), \A d \in ReturnIds : DecodeIsGenuine(d)',
           stage[e] # "no_attempt",
           s.outcome[target[e]] = None => target[e] \in s.started,
           late[e] => /\ s.outcome[target[e]] # None
                      /\ stage[e] \in {"enter", "decoded", "accept"},
           Continue(e, s)
    PROVE  /\ pc' \in [Executors -> Steps]
           /\ stage' \in [Executors -> Stages]
           /\ tries' \in [Executors -> 0..(RaceLimit - 1)]
           /\ \A d \in Executors \ {e} : pc'[d] = pc[d] /\ stage'[d] = stage[d]
           /\ CallIsSound(e)'
<1> DEFINE a == target[e]
<1>1. inquiry' \in L!InquiryState /\ RequestOf[a] \in Requests
  BY ExecutorAssumption DEF RestTyped
<1>2. /\ s.outcome[a] # None => inquiry'.outcome[a] = s.outcome[a]
      /\ \A d \in ReturnIds : s.decodes[d] # None => inquiry'.decodes[d] = s.decodes[d]
  BY <1>1, BehindRecords
<1>3. late[e] => inquiry'.outcome[a] # None
  BY <1>2
<1>4. L!Returned(s, a) => s.outcome[a] # None /\ s.outcome[a].ret \in ReturnIds
  BY ReturnedHasReturn DEF L!Returned
<1>5. CASE /\ s.outcome[a] = None
           /\ pc' = [pc EXCEPT ![e] = "perform"] /\ stage' = stage /\ tries' = tries
  <2>1. pc'[e] = "perform" /\ ~ late[e] /\ target'[e] \in view'[e].started
    BY <1>5 DEF CallsTyped
  <2>2. CallIsSound(e)'
    BY <2>1 DEF CallIsSound, HasTarget, HasStarted, HoldsReturn, KnowsReturn, Appending,
                LateOnlyFinishes, IsSettled
  <2> QED  BY <1>5, <2>2 DEF CallsTyped, Steps
<1>6. CASE /\ s.outcome[a] # None /\ ~ L!Returned(s, a)
           /\ pc' = [pc EXCEPT ![e] = "returned"] /\ stage' = stage /\ tries' = tries
  <2>1. pc'[e] = "returned" /\ inquiry'.outcome[a] # None /\ ~ L!Returned(view'[e], a)
    BY <1>2, <1>6 DEF CallsTyped
  <2>2. CallIsSound(e)'
    BY <2>1 DEF CallIsSound, HasTarget, HasStarted, HoldsReturn, KnowsReturn, Appending,
                LateOnlyFinishes, Running, IsSettled
  <2> QED  BY <1>6, <2>2 DEF CallsTyped, Steps
<1>7. CASE /\ L!Returned(s, a)
           /\ pc' = [pc EXCEPT ![e] = "decode"] /\ stage' = stage /\ tries' = tries
  <2>1. pc'[e] = "decode" /\ L!Returned(view'[e], target'[e]) /\ stage'[e] = stage[e]
    BY <1>7 DEF CallsTyped
  <2>2. CallIsSound(e)'
    BY <1>3, <2>1 DEF CallIsSound, HasTarget, HasStarted, HoldsReturn, KnowsReturn, Appending,
                LateOnlyFinishes, IsSettled
  <2> QED  BY <1>7, <2>2 DEF CallsTyped, Steps
<1>8. CASE /\ L!Returned(s, a)
           /\ pc' = [pc EXCEPT ![e] = "version"]
           /\ stage' = [stage EXCEPT ![e] = "accept"]
           /\ tries' = [tries EXCEPT ![e] = 0]
  <2>1. pc'[e] = "version" /\ L!Returned(view'[e], target'[e]) /\ stage'[e] = "accept"
    BY <1>8 DEF CallsTyped
  <2>2. CallIsSound(e)'
    BY <1>3, <2>1 DEF CallIsSound, HasTarget, HasStarted, HoldsReturn, KnowsReturn, Appending,
                LateOnlyFinishes, IsSettled
  <2> QED  BY <1>8, <2>2 DEF CallsTyped, Steps, Stages, RaceLimit
<1>9. CASE /\ L!Returned(s, a)
           /\ s.decodes[s.outcome[a].ret] # None
           /\ s.decodes[s.outcome[a].ret].kind # "decoded"
           /\ pc' = [pc EXCEPT ![e] = "returned"] /\ stage' = stage /\ tries' = tries
  <2>1. pc'[e] = "returned" /\ inquiry'.outcome[a] # None
    BY <1>2, <1>4, <1>9 DEF CallsTyped
  <2>2. DecodeKindOf[Payload(s, a)] # "decoded"
    <3> DEFINE ret == s.outcome[a].ret
    <3>1. ret \in ReturnIds /\ inquiry'.decodes[ret] = s.decodes[ret]
      BY <1>2, <1>4, <1>9
    <3>2. inquiry'.decodes[ret].kind = DecodeKindOf[ret[2]]
      BY <1>9, <3>1 DEF DecodeIsGenuine
    <3> QED  BY <1>9, <3>1, <3>2 DEF Payload
  <2>3. CallIsSound(e)'
    BY <2>1, <2>2 DEF CallIsSound, HasTarget, HasStarted, HoldsReturn, KnowsReturn, Appending,
                LateOnlyFinishes, Running, IsSettled
  <2> QED  BY <1>9, <2>3 DEF CallsTyped, Steps
<1> QED  BY <1>5, <1>6, <1>7, <1>8, <1>9, ContinueCases

LEMMA EnterKeepsIInv ==
    ASSUME IInv, NEW e \in Executors, Enter(e)
    PROVE  IInv'
<1> DEFINE a == target[e]  s == view[e]
<1>1. TypeOK /\ CallsTyped /\ RestTyped /\ CallIsSound(e)
  BY TypeParts DEF IInv
<1>2. /\ inquiry' = inquiry /\ artifacts' = artifacts /\ performed' = performed
      /\ calls' = calls /\ late' = late /\ view' = view /\ target' = target
      /\ seen' = seen /\ held' = held /\ pc[e] = "enter"
  BY DEF Enter, ledger, history
<1>3. /\ a \in Attempts /\ RequestOf[a] \in Requests /\ stage[e] = "enter"
      /\ s \in L!InquiryState /\ L!Valid(s) /\ Behind(s, inquiry)
      /\ inquiry \in L!InquiryState
  BY <1>1, <1>2, ExecutorAssumption
     DEF CallIsSound, HasTarget, IInv, ViewsAreBehind, CallsTyped, RestTyped
<1>4. RestTyped'
  BY <1>1, <1>2 DEF RestTyped
<1>5. late[e] => s.outcome[a] # None /\ inquiry.outcome[a] # None
  BY <1>1, <1>2 DEF CallIsSound, LateOnlyFinishes, Running
<1>6. /\ pc' \in [Executors -> Steps]
      /\ stage' \in [Executors -> Stages]
      /\ tries' \in [Executors -> 0..(RaceLimit - 1)]
      /\ \A d \in Executors \ {e} : pc'[d] = pc[d] /\ stage'[d] = stage[d]
      /\ CallIsSound(e)'
  <2>1. CASE L!Resolved(s, RequestOf[a])
    <3>1. /\ pc' = [pc EXCEPT ![e] = "returned"] /\ stage' = stage /\ tries' = tries
          /\ pc'[e] = "returned"
      BY <1>1, <2>1 DEF Enter, Goto, CallsTyped
    <3>2. L!Resolved(inquiry', RequestOf[a])
      BY <1>2, <1>3, <2>1, BehindRecords
    <3>3. CallIsSound(e)'
      BY <1>2, <1>3, <3>1, <3>2
         DEF CallIsSound, HasTarget, HasStarted, HoldsReturn, KnowsReturn, Appending,
             LateOnlyFinishes, Running, IsSettled
    <3> QED  BY <1>1, <3>1, <3>3 DEF CallsTyped, Steps
  <2>2. CASE ~ L!Resolved(s, RequestOf[a]) /\ a \notin s.started
    <3>1. /\ pc' = [pc EXCEPT ![e] = "preflight"] /\ stage' = stage /\ tries' = tries
          /\ pc'[e] = "preflight"
      BY <1>1, <2>2 DEF Enter, Goto, CallsTyped
    <3>2. ~ late[e]
      BY <1>3, <1>5, <2>2 DEF L!Valid, L!OutcomesFollowStarts
    <3>3. CallIsSound(e)'
      BY <1>2, <1>3, <3>1, <3>2
         DEF CallIsSound, HasTarget, HasStarted, HoldsReturn, KnowsReturn, Appending,
             LateOnlyFinishes, Running, IsSettled
    <3> QED  BY <1>1, <3>1, <3>3 DEF CallsTyped, Steps
  <2>3. CASE ~ L!Resolved(s, RequestOf[a]) /\ a \in s.started
    <3>1. Continue(e, s)
      BY <2>3 DEF Enter
    <3>2. \A d \in ReturnIds : DecodeIsGenuine(d)'
      BY <1>2 DEF IInv, LedgerIsGenuine, DecodeIsGenuine
    <3>3. view'[e] = s /\ Behind(s, inquiry')
      BY <1>2, <1>3, Zenon
    <3>4. stage[e] # "no_attempt" /\ stage[e] \in {"enter", "decoded", "accept"}
      BY <1>3
    <3>5. a \in s.started
      BY <2>3
    <3> HIDE DEF s
    <3> QED  BY <1>1, <1>2, <1>3, <1>4, <1>5, <3>1, <3>2, <3>3, <3>4, <3>5, ContinueIsSound
  <2> QED  BY <2>1, <2>2, <2>3
<1>7. CallsTyped'
  BY <1>1, <1>2, <1>6 DEF CallsTyped
<1>8. \A d \in Executors \ {e} : LocalsKept(d)
  BY <1>2, <1>6 DEF LocalsKept
<1> QED  BY <1>2, <1>4, <1>6, <1>7, <1>8, LocalStep, TypeParts

LEMMA PreflightKeepsIInv ==
    ASSUME IInv, NEW e \in Executors, Preflight(e)
    PROVE  IInv'
<1>1. TypeOK /\ CallsTyped /\ RestTyped /\ CallIsSound(e)
  BY TypeParts DEF IInv
<1>2. /\ inquiry' = inquiry /\ artifacts' = artifacts /\ performed' = performed
      /\ calls' = calls /\ late' = late /\ view' = view /\ target' = target
      /\ seen' = seen /\ held' = held /\ pc[e] = "preflight"
  BY DEF Preflight, ledger, history
<1>3. PICK st \in {"start", "no_attempt"} :
         /\ pc' = [pc EXCEPT ![e] = "version"]
         /\ stage' = [stage EXCEPT ![e] = st]
         /\ tries' = [tries EXCEPT ![e] = 0]
  BY DEF Preflight, BeginRebuild, Goto
<1>4. CallsTyped' /\ RestTyped'
  BY <1>1, <1>2, <1>3 DEF CallsTyped, RestTyped, Steps, Stages, RaceLimit
<1>5. \A d \in Executors \ {e} : LocalsKept(d)
  BY <1>1, <1>2, <1>3 DEF CallsTyped, LocalsKept
<1>6. pc'[e] = "version" /\ stage'[e] = st
  BY <1>1, <1>3 DEF CallsTyped
<1>7. CallIsSound(e)'
  BY <1>1, <1>2, <1>6 DEF CallIsSound, HasTarget, HasStarted, HoldsReturn, KnowsReturn,
             Appending, LateOnlyFinishes, Running, IsSettled
<1> QED  BY <1>2, <1>4, <1>5, <1>7, LocalStep, TypeParts

LEMMA PerformReturnsKeepsIInv ==
    ASSUME IInv, NEW e \in Executors, NEW p \in Payloads, PerformReturns(e, p)
    PROVE  IInv'
<1>1. TypeOK /\ CallsTyped /\ RestTyped /\ CallIsSound(e)
  BY TypeParts DEF IInv
<1>2. /\ inquiry' = inquiry /\ artifacts' = artifacts
      /\ performed' = performed \cup {<<target[e], p>>}
      /\ calls' = calls /\ late' = late /\ view' = view /\ target' = target
      /\ seen' = seen /\ stage' = stage /\ tries' = tries /\ pc[e] = "perform"
      /\ held' = [held EXCEPT ![e] = p] /\ pc' = [pc EXCEPT ![e] = "capture"]
  BY DEF PerformReturns, Goto, ledger
<1>3. target[e] \in Attempts
  BY <1>1, <1>2 DEF CallIsSound, HasTarget
<1>4. CallsTyped' /\ RestTyped'
  BY <1>1, <1>2, <1>3 DEF CallsTyped, RestTyped, Steps, ReturnIds
<1>5. \A d \in Executors \ {e} : LocalsKept(d)
  BY <1>1, <1>2 DEF CallsTyped, LocalsKept
<1>6. pc'[e] = "capture" /\ held'[e] = p
  BY <1>1, <1>2 DEF CallsTyped
<1>7. CallIsSound(e)'
  BY <1>1, <1>2, <1>3, <1>6 DEF CallIsSound, HasTarget, HasStarted, HoldsReturn, KnowsReturn,
             Appending, LateOnlyFinishes, Running, IsSettled
<1> QED  BY <1>2, <1>4, <1>5, <1>7, LocalStep, TypeParts

LEMMA PerformFailsKeepsIInv ==
    ASSUME IInv, NEW e \in Executors, NEW kind \in AdapterFailures, PerformFails(e, kind)
    PROVE  IInv'
<1> DEFINE o == [kind |-> kind, route |-> view[e].attempts[target[e]].route]
<1>1. TypeOK /\ CallsTyped /\ RestTyped /\ CallIsSound(e)
  BY TypeParts DEF IInv
<1>2. /\ inquiry' = inquiry /\ artifacts' = artifacts /\ performed' = performed
      /\ calls' = calls /\ late' = late /\ view' = view /\ target' = target
      /\ seen' = seen /\ pc[e] = "perform" /\ held' = [held EXCEPT ![e] = o]
      /\ pc' = [pc EXCEPT ![e] = "version"]
      /\ stage' = [stage EXCEPT ![e] = "outcome"]
      /\ tries' = [tries EXCEPT ![e] = 0]
  BY DEF PerformFails, BeginRebuild, Goto, ledger, history
<1>3. o \in L!Outcome /\ o.kind # "returned"
  <2>1. target[e] \in Attempts
    BY <1>1, <1>2 DEF CallIsSound, HasTarget
  <2>2. view[e].attempts[target[e]].route \in Routes
    BY <1>1, <2>1, PlansStay DEF IInv, ViewsAreBehind, CallsTyped, L!AttemptPlan
  <2>3. kind \in L!FailureKinds
    BY ExecutorAssumption
  <2> QED  BY <2>2, <2>3 DEF L!Outcome, L!FailedOutcome, L!FailureKinds
<1> HIDE DEF o
<1>4. CallsTyped' /\ RestTyped'
  BY <1>1, <1>2, <1>3 DEF CallsTyped, RestTyped, Steps, Stages, RaceLimit
<1>5. \A d \in Executors \ {e} : LocalsKept(d)
  BY <1>1, <1>2 DEF CallsTyped, LocalsKept
<1>6. pc'[e] = "version" /\ held'[e] = o /\ stage'[e] = "outcome"
  BY <1>1, <1>2 DEF CallsTyped
<1>7. CallIsSound(e)'
  BY <1>1, <1>2, <1>3, <1>6 DEF CallIsSound, HasTarget, HasStarted, HoldsReturn, KnowsReturn,
             Appending, LateOnlyFinishes, Running, IsSettled
<1> QED  BY <1>2, <1>4, <1>5, <1>7, LocalStep, TypeParts

LEMMA CaptureKeepsIInv ==
    ASSUME IInv, NEW e \in Executors, NEW stamp \in Stamps, Capture(e, stamp)
    PROVE  IInv'
<1> DEFINE ret == <<target[e], held[e]>>
           o == [kind |-> "returned", route |-> view[e].attempts[target[e]].route,
                 ret |-> ret, stamp |-> stamp]
<1>1. TypeOK /\ CallsTyped /\ RestTyped /\ CallIsSound(e)
  BY TypeParts DEF IInv
<1>2. /\ inquiry' = inquiry /\ artifacts' = artifacts \cup {<<"raw", held[e]>>}
      /\ performed' = performed
      /\ calls' = calls /\ late' = late /\ view' = view /\ target' = target
      /\ seen' = seen /\ pc[e] = "capture" /\ held' = [held EXCEPT ![e] = o]
      /\ pc' = [pc EXCEPT ![e] = "version"]
      /\ stage' = [stage EXCEPT ![e] = "outcome"]
      /\ tries' = [tries EXCEPT ![e] = 0]
  BY DEF Capture, BeginRebuild, Goto, history
<1>3. target[e] \in Attempts /\ held[e] \in Payloads /\ ret \in performed
  BY <1>1, <1>2 DEF CallIsSound, HasTarget, HoldsReturn
<1>4. o \in L!Outcome /\ o.ret = ret /\ ret[1] = target[e]
  <2>1. view[e].attempts[target[e]].route \in Routes
    BY <1>1, <1>3, PlansStay DEF IInv, ViewsAreBehind, CallsTyped, L!AttemptPlan
  <2>2. ret \in ReturnIds
    BY <1>3 DEF ReturnIds
  <2>3. o \in L!ReturnedOutcome
    BY <2>1, <2>2 DEF L!ReturnedOutcome
  <2> QED  BY <2>3 DEF L!Outcome
<1>5. artifacts' \subseteq ({"raw", "semantic"} \X Payloads)
  BY <1>1, <1>2, <1>3 DEF RestTyped
<1> HIDE DEF o, ret
<1>6. CallsTyped' /\ RestTyped'
  BY <1>1, <1>2, <1>4, <1>5 DEF CallsTyped, RestTyped, Steps, Stages, RaceLimit
<1>7. \A d \in Executors \ {e} : LocalsKept(d)
  BY <1>1, <1>2 DEF CallsTyped, LocalsKept
<1>8. pc'[e] = "version" /\ held'[e] = o /\ stage'[e] = "outcome"
  BY <1>1, <1>2 DEF CallsTyped
<1>9. CallIsSound(e)'
  BY <1>1, <1>2, <1>3, <1>4, <1>8 DEF CallIsSound, HasTarget, HasStarted, HoldsReturn,
             KnowsReturn, Appending, LateOnlyFinishes, Running, IsSettled
<1> QED  BY <1>2, <1>6, <1>7, <1>9, LocalStep, TypeParts

LEMMA DecodeKeepsIInv ==
    ASSUME IInv, NEW e \in Executors, Decode(e)
    PROVE  IInv'
<1> DEFINE p == Payload(view[e], target[e])
<1>1. TypeOK /\ CallsTyped /\ RestTyped /\ CallIsSound(e)
  BY TypeParts DEF IInv
<1>2. inquiry' = inquiry /\ UNCHANGED history /\ pc[e] = "decode"
  BY DEF Decode
<1>3. CASE <<"raw", p>> \notin artifacts
  <2>1. Raise(e) /\ artifacts' = artifacts
    BY <1>3 DEF Decode
  <2> QED  BY <1>2, <2>1, ForgetKeepsIInv DEF Raise, ledger
<1>4. CASE <<"raw", p>> \in artifacts
  <2>1. /\ artifacts' = artifacts \/ artifacts' = artifacts \cup {<<"semantic", p>>}
        /\ pc' = [pc EXCEPT ![e] = "version"]
        /\ stage' = [stage EXCEPT ![e] = "decoded"]
        /\ tries' = [tries EXCEPT ![e] = 0]
        /\ target' = target /\ view' = view /\ seen' = seen /\ held' = held
        /\ calls' = calls /\ performed' = performed /\ late' = late
    BY <1>2, <1>4 DEF Decode, BeginRebuild, Goto, history
  <2>2. p \in Payloads
    BY <1>1, <1>4 DEF RestTyped
  <2> HIDE DEF p
  <2>3. CallsTyped' /\ RestTyped'
    BY <1>1, <1>2, <2>1, <2>2 DEF CallsTyped, RestTyped, Steps, Stages, RaceLimit
  <2>4. \A d \in Executors \ {e} : LocalsKept(d)
    BY <1>1, <2>1 DEF CallsTyped, LocalsKept
  <2>5. pc'[e] = "version" /\ stage'[e] = "decoded"
    BY <1>1, <2>1 DEF CallsTyped
  <2>6. CallIsSound(e)'
    BY <1>1, <1>2, <2>1, <2>5 DEF CallIsSound, HasTarget, HasStarted, HoldsReturn,
             KnowsReturn, Appending, LateOnlyFinishes, Running, IsSettled
  <2>7. artifacts \subseteq artifacts' /\ performed \subseteq performed'
        /\ view'[e] \in {view[e], inquiry, PlannedInquiry}
    BY <2>1
  <2> QED  BY <1>2, <2>3, <2>4, <2>6, <2>7, LocalStep, TypeParts
<1> QED  BY <1>3, <1>4

LEMMA LoseRaceKeepsIInv ==
    ASSUME IInv, NEW e \in Executors, LoseRace(e)
    PROVE  IInv'
<1>1. TypeOK /\ CallsTyped /\ RestTyped /\ CallIsSound(e)
  BY TypeParts DEF IInv
<1>2. UNCHANGED <<ledger, history>> /\ pc[e] = "commit"
  BY DEF LoseRace
<1>3. CASE Raise(e)
  BY <1>2, <1>3, ForgetKeepsIInv DEF Raise
<1>4. CASE /\ tries[e] + 1 < RaceLimit
           /\ tries' = [tries EXCEPT ![e] = tries[e] + 1]
           /\ Goto(e, "version")
           /\ UNCHANGED <<stage, target, view, seen, held>>
  <2>1. /\ inquiry' = inquiry /\ artifacts' = artifacts /\ performed' = performed
        /\ calls' = calls /\ late' = late
    BY <1>2 DEF ledger, history
  <2>2. tries' \in [Executors -> 0..(RaceLimit - 1)]
    BY <1>1, <1>4 DEF CallsTyped, RaceLimit
  <2>3. CallsTyped' /\ RestTyped'
    BY <1>1, <1>4, <2>1, <2>2 DEF CallsTyped, RestTyped, Goto, Steps
  <2>4. \A d \in Executors \ {e} : LocalsKept(d)
    BY <1>1, <1>4, <2>1 DEF CallsTyped, LocalsKept, Goto
  <2>5. pc'[e] = "version"
    BY <1>1, <1>4 DEF CallsTyped, Goto
  <2>6. CallIsSound(e)'
    BY <1>1, <1>2, <1>4, <2>1, <2>5 DEF CallIsSound, HasTarget, HasStarted, HoldsReturn,
             KnowsReturn, Appending, LateOnlyFinishes, Running, IsSettled
  <2> QED  BY <1>4, <2>1, <2>3, <2>4, <2>6, LocalStep, TypeParts
<1>5. tries[e] + 1 < RaceLimit =>
          [tries EXCEPT ![e] = @ + 1] = [tries EXCEPT ![e] = tries[e] + 1]
  BY <1>1 DEF CallsTyped
<1> QED  BY <1>3, <1>4, <1>5 DEF LoseRace

------------------------------------------------------------------------------
(* The call goes on with the state its command led to. *)

(* What the call may assume of the state s that its command, repeated or   *)
(* applied, led to.                                                        *)
LedTo(e, s) ==
    LET a == target[e] IN
    /\ stage[e] = "start" => a \in s.started
    /\ stage[e] = "no_attempt" => s.dispositions[a] # None
    /\ stage[e] \in {"outcome", "decoded"} => s.outcome[a] # None
    /\ stage[e] = "accept" => L!Resolved(s, RequestOf[a])

LEMMA SettleIsSound ==
    ASSUME NEW e \in Executors, CallsTyped, RestTyped', CallIsSound(e), pc[e] = "commit",
           NEW s \in L!InquiryState, Behind(s, inquiry'),
           \A d \in ReturnIds : DecodeIsGenuine(d)',
           LedTo(e, s), Settle(e, s)
    PROVE  CallsTyped' /\ (\A d \in Executors \ {e} : LocalsKept(d)) /\ CallIsSound(e)'
<1> DEFINE a == target[e]
<1>1. /\ a \in Attempts /\ RequestOf[a] \in Requests
      /\ stage[e] \in {"start", "no_attempt", "outcome", "decoded", "accept"}
  BY ExecutorAssumption DEF CallIsSound, HasTarget, CallsTyped, Stages
<1>2. /\ view' = [view EXCEPT ![e] = s] /\ target' = target /\ seen' = seen
      /\ held' = held /\ late' = late /\ view'[e] = s
  BY DEF Settle, history, CallsTyped
<1>3. inquiry' \in L!InquiryState /\ view[e] \in L!InquiryState
  BY DEF RestTyped, CallsTyped
<1>4. /\ pc' \in [Executors -> Steps]
      /\ stage' \in [Executors -> Stages]
      /\ tries' \in [Executors -> 0..(RaceLimit - 1)]
      /\ \A d \in Executors \ {e} : pc'[d] = pc[d] /\ stage'[d] = stage[d]
      /\ CallIsSound(e)'
  <2>1. CASE stage[e] \in {"no_attempt", "accept"}
    <3>1. /\ pc' = [pc EXCEPT ![e] = "returned"] /\ stage' = stage /\ tries' = tries
          /\ pc'[e] = "returned"
      BY <2>1 DEF Settle, Goto, CallsTyped
    <3>2. /\ stage[e] = "no_attempt" => inquiry'.dispositions[a] # None
          /\ stage[e] = "accept" => L!Resolved(inquiry', RequestOf[a])
      BY <1>1, <1>3, BehindRecords DEF LedTo
    <3>3. CallIsSound(e)'
      BY <1>1, <1>2, <2>1, <3>1, <3>2
         DEF CallIsSound, HasTarget, HasStarted, HoldsReturn, KnowsReturn, Appending,
             LateOnlyFinishes, Running, IsSettled
    <3> QED  BY <3>1, <3>3 DEF CallsTyped, Steps
  <2>2. CASE stage[e] \notin {"no_attempt", "accept"}
    <3>1. Continue(e, s)
      BY <2>2 DEF Settle
    <3>2. stage[e] # "no_attempt"
      BY <2>2
    <3>3. s.outcome[a] = None => a \in s.started
      BY <1>1, <2>2 DEF LedTo
    <3>4. late[e] => s.outcome[a] # None /\ stage[e] \in {"enter", "decoded", "accept"}
      BY <1>1, <2>2 DEF CallIsSound, LateOnlyFinishes, Running, LedTo
    <3> QED  BY <1>1, <1>2, <3>1, <3>2, <3>3, <3>4, ContinueIsSound
  <2> QED  BY <2>1, <2>2
<1>5. CallsTyped'
  BY <1>2, <1>4 DEF CallsTyped
<1>6. \A d \in Executors \ {e} : LocalsKept(d)
  BY <1>2, <1>4 DEF LocalsKept, CallsTyped
<1> QED  BY <1>4, <1>5, <1>6

------------------------------------------------------------------------------
(* The commands that calls append. *)

(* The command a call is about to decide, on the view it rebuilt. *)
LEMMA CommandIsTyped ==
    ASSUME IInv, NEW e \in Executors, pc[e] = "commit"
    PROVE  LET s == view[e]  a == target[e] IN
           /\ s \in L!InquiryState /\ a \in Attempts /\ RequestOf[a] \in Requests
           /\ stage[e] \in {"start", "no_attempt", "outcome", "decoded", "accept"}
           /\ Disposition(s, a) \in L!NoAttempt
           /\ stage[e] = "outcome" => held[e] \in L!Outcome
           /\ stage[e] \in {"decoded", "accept"} =>
                  /\ L!Returned(s, a)
                  /\ s.outcome[a].ret \in ReturnIds
                  /\ DecodeRecord(s, a) \in L!DecodeOutcome
<1> DEFINE s == view[e]  a == target[e]
<1>1. TypeOK /\ CallIsSound(e) /\ ViewsAreBehind
  BY DEF IInv
<1>2. s \in L!InquiryState /\ a \in Attempts /\ RequestOf[a] \in Requests
  BY <1>1, ExecutorAssumption DEF TypeOK, CallIsSound, HasTarget
<1>3. stage[e] \in {"start", "no_attempt", "outcome", "decoded", "accept"}
  BY <1>1 DEF TypeOK, CallIsSound, HasTarget, Stages
<1>4. Disposition(s, a) \in L!NoAttempt
  <2>1. s.requests[RequestOf[a]] \in StepPlans
    BY <1>1, <1>2, PlansStay DEF ViewsAreBehind
  <2> QED  BY <1>2, <2>1 DEF Disposition, L!NoAttempt
<1>5. stage[e] = "outcome" => held[e] \in L!Outcome
  BY <1>1 DEF CallIsSound, HoldsReturn, Appending
<1>6. ASSUME stage[e] \in {"decoded", "accept"}
      PROVE  /\ L!Returned(s, a)
             /\ s.outcome[a].ret \in ReturnIds
             /\ DecodeRecord(s, a) \in L!DecodeOutcome
  <2>1. L!Returned(s, a)
    BY <1>1, <1>6 DEF CallIsSound, KnowsReturn, Appending
  <2>2. s.outcome[a].ret \in ReturnIds
    BY <1>2, <2>1, ReturnedHasReturn
  <2>3. DecodeKindOf[Payload(s, a)] \in L!DecodeKinds
    BY <2>2, ExecutorAssumption DEF Payload, ReturnIds
  <2> QED  BY <1>2, <2>1, <2>2, <2>3 DEF DecodeRecord, L!DecodeOutcome
<1> QED  BY <1>2, <1>3, <1>4, <1>5, <1>6

(* A repeated command found its record in the view. *)
LEMMA RepeatLedTo ==
    ASSUME IInv, NEW e \in Executors, pc[e] = "commit", Repeats(e, view[e])
    PROVE  LedTo(e, view[e])
<1> DEFINE s == view[e]  a == target[e]
<1>1. /\ stage[e] \in {"start", "no_attempt", "outcome", "decoded", "accept"}
      /\ Disposition(s, a) \in L!NoAttempt
      /\ stage[e] = "outcome" => held[e] \in L!Outcome
      /\ stage[e] \in {"decoded", "accept"} => L!Returned(s, a) /\ s.outcome[a].ret \in ReturnIds
  BY CommandIsTyped
<1>2. CASE stage[e] = "start"
  BY <1>2 DEF Repeats, L!RepeatsStart, LedTo
<1>3. CASE stage[e] = "no_attempt"
  <2>1. s.dispositions[a] = Disposition(s, a)
    BY <1>3 DEF Repeats, L!RepeatsNoAttempt
  <2> QED  BY <1>1, <1>3, <2>1, PlannedAssumption DEF LedTo
<1>4. CASE stage[e] = "outcome"
  <2>1. s.outcome[a] = held[e]
    BY <1>4 DEF Repeats, L!RepeatsOutcome
  <2> QED  BY <1>1, <1>4, <2>1, PlannedAssumption DEF LedTo
<1>5. CASE stage[e] = "decoded"
  BY <1>1, <1>5 DEF LedTo, L!Returned
<1>6. CASE stage[e] = "accept"
  <2>1. s.accepted[RequestOf[a]] = s.outcome[a].ret
    BY <1>6 DEF Repeats, L!RepeatsAccept
  <2> QED  BY <1>1, <1>6, <2>1, PlannedAssumption DEF LedTo, L!Resolved
<1> QED  BY <1>1, <1>2, <1>3, <1>4, <1>5, <1>6

LEMMA CommitRepeatsKeepsIInv ==
    ASSUME IInv, NEW e \in Executors, CommitRepeats(e)
    PROVE  IInv'
<1>1. TypeOK /\ CallsTyped /\ RestTyped /\ CallIsSound(e)
  BY TypeParts DEF IInv
<1>2. pc[e] = "commit" /\ Repeats(e, view[e]) /\ Settle(e, view[e]) /\ inquiry' = inquiry
  BY DEF CommitRepeats
<1>3. LedTo(e, view[e])
  BY <1>2, RepeatLedTo
<1>4. artifacts' = artifacts /\ performed' = performed /\ calls' = calls /\ late' = late
  BY <1>2 DEF Settle, history
<1>5. view[e] \in L!InquiryState /\ Behind(view[e], inquiry)
  BY <1>1 DEF IInv, ViewsAreBehind, CallsTyped
<1>6. Behind(view[e], inquiry')
  BY <1>2, <1>5, Zenon
<1>7. \A d \in ReturnIds : DecodeIsGenuine(d)'
  BY <1>2, <1>4 DEF IInv, LedgerIsGenuine, DecodeIsGenuine
<1>8. RestTyped'
  BY <1>1, <1>2, <1>4 DEF RestTyped
<1>9. CallsTyped' /\ (\A d \in Executors \ {e} : LocalsKept(d)) /\ CallIsSound(e)'
  BY <1>1, <1>2, <1>3, <1>5, <1>6, <1>7, <1>8, SettleIsSound
<1>10. view'[e] = view[e]
  BY <1>1, <1>2 DEF Settle, CallsTyped
<1> QED  BY <1>2, <1>4, <1>8, <1>9, <1>10, LocalStep, TypeParts

LEMMA RejectKeepsIInv ==
    ASSUME IInv, NEW e \in Executors, Reject(e)
    PROVE  IInv'
BY ForgetKeepsIInv DEF Reject, Raise

LEMMA CrashKeepsIInv ==
    ASSUME IInv, NEW e \in Executors, Crash(e)
    PROVE  IInv'
BY ForgetKeepsIInv DEF Crash

(* What an append writes, for each command. *)
LEMMA StartAppends ==
    ASSUME NEW s \in L!InquiryState, NEW a \in Attempts
    PROVE  LET t == L!ApplyStart(s, a) IN
           /\ t \in L!InquiryState /\ t.started = s.started \cup {a}
           /\ t.outcome = s.outcome /\ t.decodes = s.decodes
<1> DEFINE t == P!ApplyStart(s, a)
<1>1. s \in P!InquiryState
  BY SameState
<1>2. /\ t \in P!InquiryState /\ t.started = s.started \cup {a}
      /\ P!Rest(s, t, "started")
  BY <1>1, P!StartWrites, NoneIsNoRecord, Zenon
<1>3. t = L!ApplyStart(s, a)
  BY SameApply, Zenon
<1> HIDE DEF t
<1> QED  BY <1>2, <1>3, SameState DEF P!Rest

LEMMA NoAttemptAppends ==
    ASSUME NEW s \in L!InquiryState, NEW a \in Attempts, NEW x \in L!NoAttempt
    PROVE  LET t == L!ApplyNoAttempt(s, a, x) IN
           /\ t \in L!InquiryState /\ t.dispositions[a] = x
           /\ t.outcome = s.outcome /\ t.decodes = s.decodes
<1> DEFINE t == P!ApplyNoAttempt(s, a, x)
<1>1. s \in P!InquiryState /\ x \in P!NoAttempt
  BY SameState, SameTypes
<1>2. /\ t \in P!InquiryState /\ t.dispositions = [s.dispositions EXCEPT ![a] = x]
      /\ P!Rest(s, t, "dispositions")
  BY <1>1, P!NoAttemptWrites, NoneIsNoRecord, Zenon
<1>3. t = L!ApplyNoAttempt(s, a, x)
  BY SameApply, Zenon
<1> HIDE DEF t
<1> QED  BY <1>2, <1>3, SameState DEF P!Rest, L!InquiryState

LEMMA OutcomeAppends ==
    ASSUME NEW s \in L!InquiryState, NEW a \in Attempts, NEW x \in L!Outcome
    PROVE  LET t == L!ApplyOutcome(s, a, x) IN
           /\ t \in L!InquiryState /\ t.outcome = [s.outcome EXCEPT ![a] = x]
           /\ t.decodes = s.decodes
<1> DEFINE t == P!ApplyOutcome(s, a, x)
<1>1. s \in P!InquiryState /\ x \in P!Outcome
  BY SameState, SameTypes
<1>2. /\ t \in P!InquiryState /\ t.outcome = [s.outcome EXCEPT ![a] = x]
      /\ P!Rest(s, t, "outcome")
  BY <1>1, P!OutcomeWrites, NoneIsNoRecord, Zenon
<1>3. t = L!ApplyOutcome(s, a, x)
  BY SameApply, Zenon
<1> HIDE DEF t
<1> QED  BY <1>2, <1>3, SameState DEF P!Rest

LEMMA DecodeAppends ==
    ASSUME NEW s \in L!InquiryState, NEW d \in ReturnIds, NEW x \in L!DecodeOutcome
    PROVE  LET t == L!ApplyDecode(s, d, x) IN
           /\ t \in L!InquiryState /\ t.decodes = [s.decodes EXCEPT ![d] = x]
           /\ t.outcome = s.outcome
<1> DEFINE t == P!ApplyDecode(s, d, x)
<1>1. s \in P!InquiryState /\ x \in P!DecodeOutcome
  BY SameState, SameTypes
<1>2. /\ t \in P!InquiryState /\ t.decodes = [s.decodes EXCEPT ![d] = x]
      /\ P!Rest(s, t, "decodes")
  BY <1>1, P!DecodeWrites, NoneIsNoRecord, Zenon
<1>3. t = L!ApplyDecode(s, d, x)
  BY SameApply, Zenon
<1> HIDE DEF t
<1> QED  BY <1>2, <1>3, SameState DEF P!Rest

LEMMA AcceptAppends ==
    ASSUME NEW s \in L!InquiryState, NEW r \in Requests, NEW d \in ReturnIds
    PROVE  LET t == L!ApplyAccept(s, r, d) IN
           /\ t \in L!InquiryState /\ t.accepted[r] = d
           /\ t.outcome = s.outcome /\ t.decodes = s.decodes
<1> DEFINE t == P!ApplyAccept(s, r, d)
<1>1. s \in P!InquiryState
  BY SameState
<1>2. /\ t \in P!InquiryState /\ t.accepted = [s.accepted EXCEPT ![r] = d]
      /\ P!Rest(s, t, "accepted")
  BY <1>1, P!AcceptWrites, NoneIsNoRecord, Zenon
<1>3. t = L!ApplyAccept(s, r, d)
  BY SameApply, Zenon
<1> HIDE DEF t
<1> QED  BY <1>2, <1>3, SameState DEF P!Rest, L!InquiryState

(* The state a command of a call leads to: typed, with the command's       *)
(* record in it, and with genuine returns and decodes only.                *)
LEMMA AppendLeadsTo ==
    ASSUME IInv, NEW e \in Executors, pc[e] = "commit", Committable(e), view[e] = inquiry,
           inquiry' = Applied(e, inquiry), artifacts' = artifacts, performed' = performed
    PROVE  inquiry' \in L!InquiryState /\ LedTo(e, inquiry') /\ LedgerIsGenuine' /\ L!Next
<1> DEFINE s == inquiry  a == target[e]  t == inquiry'
<1>1. /\ s \in L!InquiryState /\ a \in Attempts /\ RequestOf[a] \in Requests
      /\ stage[e] \in {"start", "no_attempt", "outcome", "decoded", "accept"}
      /\ Disposition(s, a) \in L!NoAttempt
      /\ stage[e] = "outcome" => held[e] \in L!Outcome
      /\ stage[e] \in {"decoded", "accept"} =>
             /\ L!Returned(s, a)
             /\ s.outcome[a].ret \in ReturnIds
             /\ DecodeRecord(s, a) \in L!DecodeOutcome
  BY CommandIsTyped
<1>2. Lawful(e, s) /\ References(e, s) \subseteq artifacts
  BY DEF Committable
<1>3. /\ \A b \in Attempts : ReturnIsGenuine(b)
      /\ \A d \in ReturnIds : DecodeIsGenuine(d)
  BY DEF IInv, LedgerIsGenuine
<1>4. ASSUME t.outcome = s.outcome, t.decodes = s.decodes
      PROVE  LedgerIsGenuine'
  <2>1. \A b \in Attempts : ReturnIsGenuine(b)'
    BY <1>3, <1>4 DEF ReturnIsGenuine, L!Returned
  <2>2. \A d \in ReturnIds : DecodeIsGenuine(d)'
    BY <1>3, <1>4 DEF DecodeIsGenuine
  <2> QED  BY <2>1, <2>2 DEF LedgerIsGenuine
<1>5. CASE stage[e] = "start"
  <2>1. t = L!ApplyStart(s, a) /\ L!LawfulStart(s, a)
    BY <1>2, <1>5 DEF Applied, Lawful
  <2>2. /\ t \in L!InquiryState /\ t.started = s.started \cup {a}
        /\ t.outcome = s.outcome /\ t.decodes = s.decodes
    BY <1>1, <2>1, StartAppends
  <2>3. LedTo(e, t)
    BY <1>5, <2>2 DEF LedTo
  <2>4. L!Next
    BY <1>1, <2>1 DEF L!Next, L!StartEffectAttempt
  <2> QED  BY <1>4, <2>2, <2>3, <2>4
<1>6. CASE stage[e] = "no_attempt"
  <2>1. t = L!ApplyNoAttempt(s, a, Disposition(s, a)) /\ L!LawfulNoAttempt(s, a, Disposition(s, a))
    BY <1>2, <1>6 DEF Applied, Lawful
  <2>2. /\ t \in L!InquiryState /\ t.dispositions[a] = Disposition(s, a)
        /\ t.outcome = s.outcome /\ t.decodes = s.decodes
    BY <1>1, <2>1, NoAttemptAppends
  <2>3. LedTo(e, t)
    BY <1>1, <1>6, <2>2, PlannedAssumption DEF LedTo
  <2>4. L!Next
    BY <1>1, <2>1, Zenon DEF L!Next, L!RecordNoAttemptDisposition
  <2> QED  BY <1>4, <2>2, <2>3, <2>4
<1>7. CASE stage[e] = "outcome"
  <2>1. t = L!ApplyOutcome(s, a, held[e]) /\ L!LawfulOutcome(s, RequestOf[a], a, held[e])
    BY <1>2, <1>7 DEF Applied, Lawful
  <2>2. /\ t \in L!InquiryState /\ t.outcome = [s.outcome EXCEPT ![a] = held[e]]
        /\ t.decodes = s.decodes
    BY <1>1, <1>7, <2>1, OutcomeAppends
  <2>3. \A b \in Attempts : t.outcome[b] = IF b = a THEN held[e] ELSE s.outcome[b]
    BY <1>1, <2>2 DEF L!InquiryState
  <2>4. LedTo(e, t)
    BY <1>1, <1>7, <2>3, PlannedAssumption DEF LedTo
  <2>5. L!Next
    BY <1>1, <1>7, <2>1, Zenon DEF L!Next, L!RecordAttemptOutcome
  <2>6. held[e].kind = "returned" =>
            /\ held[e].ret[1] = a /\ held[e].ret \in performed
            /\ <<"raw", held[e].ret[2]>> \in artifacts
    <3>1. held[e].kind = "returned" => held[e].ret[1] = a /\ held[e].ret \in performed
      BY <1>7 DEF IInv, CallIsSound, HoldsReturn, Appending
    <3> QED  BY <1>2, <1>7, <3>1 DEF References
  <2>7. \A b \in Attempts : ReturnIsGenuine(b)'
    BY <1>3, <2>3, <2>6 DEF ReturnIsGenuine, L!Returned
  <2>8. \A d \in ReturnIds : DecodeIsGenuine(d)'
    BY <1>3, <2>2 DEF DecodeIsGenuine
  <2> QED  BY <2>2, <2>4, <2>5, <2>7, <2>8 DEF LedgerIsGenuine
<1>8. CASE stage[e] = "decoded"
  <2> DEFINE ret == s.outcome[a].ret
  <2>1. t = L!ApplyDecode(s, ret, DecodeRecord(s, a)) /\ L!LawfulDecode(s, ret, DecodeRecord(s, a))
    BY <1>2, <1>8 DEF Applied, Lawful
  <2>2. ret \in ReturnIds /\ DecodeRecord(s, a) \in L!DecodeOutcome /\ s.outcome[a] # None
    BY <1>1, <1>8 DEF L!Returned
  <2>3. /\ t \in L!InquiryState /\ t.decodes = [s.decodes EXCEPT ![ret] = DecodeRecord(s, a)]
        /\ t.outcome = s.outcome
    BY <1>1, <2>1, <2>2, DecodeAppends
  <2>4. LedTo(e, t)
    BY <1>8, <2>2, <2>3 DEF LedTo
  <2>5. L!Next
    BY <2>1, <2>2, Zenon DEF L!Next, L!RecordDecodeOutcome
  <2>6. \A d \in ReturnIds : t.decodes[d] = IF d = ret THEN DecodeRecord(s, a) ELSE s.decodes[d]
    BY <2>2, <2>3, <1>1 DEF L!InquiryState
  <2>7. /\ DecodeRecord(s, a).ret = ret
        /\ DecodeRecord(s, a).kind = DecodeKindOf[ret[2]]
        /\ DecodeKindOf[ret[2]] = "decoded" => <<"semantic", ret[2]>> \in artifacts
    BY <1>2, <1>8 DEF DecodeRecord, Payload, References
  <2>8. \A b \in Attempts : ReturnIsGenuine(b)'
    BY <1>3, <2>3 DEF ReturnIsGenuine, L!Returned
  <2> HIDE DEF ret
  <2>9. \A d \in ReturnIds : DecodeIsGenuine(d)'
    BY <1>3, <2>6, <2>7 DEF DecodeIsGenuine
  <2> QED  BY <2>3, <2>4, <2>5, <2>8, <2>9 DEF LedgerIsGenuine
<1>9. CASE stage[e] = "accept"
  <2> DEFINE r == RequestOf[a]  ret == s.outcome[a].ret
  <2>1. t = L!ApplyAccept(s, r, ret) /\ L!LawfulAccept(s, r, ret)
    BY <1>2, <1>9 DEF Applied, Lawful
  <2>2. ret \in ReturnIds
    BY <1>1, <1>9
  <2>3. /\ t \in L!InquiryState /\ t.accepted[r] = ret
        /\ t.outcome = s.outcome /\ t.decodes = s.decodes
    BY <1>1, <2>1, <2>2, AcceptAppends
  <2>4. LedTo(e, t)
    BY <1>9, <2>2, <2>3, PlannedAssumption DEF LedTo, L!Resolved
  <2>5. L!Next
    BY <1>1, <2>1, <2>2, Zenon DEF L!Next, L!AcceptEffectResult
  <2> QED  BY <1>4, <2>3, <2>4, <2>5
<1> QED  BY <1>1, <1>5, <1>6, <1>7, <1>8, <1>9

(* A durable step of one writer, for everybody else. *)
LEMMA DurableStep ==
    ASSUME IInv, L!Next, TypeOK', LedgerIsGenuine',
           artifacts' = artifacts, performed' = performed,
           \A d \in Executors : \/ LocalsKept(d)
                                \/ CallIsSound(d)' /\ view'[d] = inquiry'
    PROVE  IInv'
<1>1. TypeOK /\ inquiry \in L!InquiryState /\ inquiry' \in L!InquiryState /\ L!Valid(inquiry)
  BY DEF IInv, TypeOK, ViewsAreBehind
<1>2. L!Valid(inquiry') /\ Behind(inquiry, inquiry')
  BY <1>1, AggregateStep, HistoryStepIsForward
<1>3. Forward
  BY <1>1, <1>2 DEF Forward
<1>4. \A d \in Executors : CallIsSound(d)'
  BY <1>1, <1>3, OthersStaySound DEF IInv
<1>5. Behind(PlannedInquiry, inquiry')
  BY <1>1, <1>2, PlannedIsState, BehindTransitive DEF IInv, ViewsAreBehind
<1>6. ASSUME NEW d \in Executors
      PROVE  /\ L!Valid(view'[d])
             /\ Behind(view'[d], inquiry')
             /\ Behind(PlannedInquiry, view'[d])
  <2>1. CASE LocalsKept(d)
    <3>1. view'[d] = view[d] /\ view[d] \in L!InquiryState
      BY <1>1, <2>1 DEF LocalsKept, TypeOK
    <3>2. L!Valid(view[d]) /\ Behind(view[d], inquiry) /\ Behind(PlannedInquiry, view[d])
      BY DEF IInv, ViewsAreBehind
    <3>3. Behind(view[d], inquiry')
      BY <1>1, <1>2, <3>1, <3>2, BehindTransitive
    <3> QED  BY <3>1, <3>2, <3>3, Zenon
  <2>2. CASE view'[d] = inquiry'
    <3>1. Behind(inquiry', inquiry')
      BY <1>1, BehindReflexive
    <3> QED  BY <1>2, <1>5, <2>2, <3>1, Zenon
  <2> QED  BY <2>1, <2>2
<1>7. ViewsAreBehind'
  BY <1>2, <1>5, <1>6, Zenon DEF ViewsAreBehind
<1> QED  BY <1>4, <1>7 DEF IInv

(* An append at the expected sequence was decided on the current state. *)
LEMMA CommitIsDecidedNow ==
    ASSUME IInv, NEW e \in Executors, Commit(e)
    PROVE  /\ view[e] = inquiry /\ pc[e] = "commit" /\ Committable(e)
           /\ inquiry' = Applied(e, inquiry) /\ Settle(e, inquiry')
           /\ artifacts' = artifacts /\ performed' = performed
<1>1. view[e].sequence = inquiry.sequence /\ Behind(view[e], inquiry)
  BY DEF IInv, ViewsAreBehind, Commit, ExpectedSequence
<1>2. view[e] = inquiry
  BY <1>1 DEF Behind
<1>3. inquiry' = Applied(e, view[e]) /\ Settle(e, Applied(e, view[e]))
  BY DEF Commit
<1>4. inquiry' = Applied(e, inquiry) /\ Settle(e, inquiry')
  BY <1>2, <1>3, Zenon
<1>5. pc[e] = "commit" /\ Committable(e)
  BY DEF Commit
<1>6. artifacts' = artifacts /\ performed' = performed
  BY <1>4 DEF Settle, history
<1> QED  BY <1>2, <1>4, <1>5, <1>6

LEMMA CommitKeepsIInv ==
    ASSUME IInv, NEW e \in Executors, Commit(e)
    PROVE  IInv' /\ L!Next
<1>1. TypeOK /\ CallsTyped /\ RestTyped /\ CallIsSound(e)
  BY TypeParts DEF IInv
<1>2. /\ view[e] = inquiry /\ pc[e] = "commit" /\ Committable(e)
      /\ inquiry' = Applied(e, inquiry) /\ Settle(e, inquiry')
      /\ artifacts' = artifacts /\ performed' = performed
  BY CommitIsDecidedNow
<1>3. inquiry' \in L!InquiryState /\ LedTo(e, inquiry') /\ LedgerIsGenuine' /\ L!Next
  BY <1>2, AppendLeadsTo
<1>4. calls' = calls /\ late' = late
  BY <1>2 DEF Settle, history
<1>5. RestTyped'
  BY <1>1, <1>2, <1>3, <1>4 DEF RestTyped
<1>6. Behind(inquiry', inquiry') /\ (\A d \in ReturnIds : DecodeIsGenuine(d)')
  BY <1>3, BehindReflexive DEF LedgerIsGenuine
<1>7. CallsTyped' /\ (\A d \in Executors \ {e} : LocalsKept(d)) /\ CallIsSound(e)'
  BY <1>1, <1>2, <1>3, <1>5, <1>6, SettleIsSound
<1>8. view'[e] = inquiry'
  BY <1>1, <1>2 DEF Settle, CallsTyped
<1> QED  BY <1>2, <1>3, <1>5, <1>7, <1>8, DurableStep, TypeParts

(* The operator's cancellation is decided on the current state by the SDK. *)
LEMMA CancelKeepsIInv ==
    ASSUME IInv, NEW a \in Attempts, Cancel(a)
    PROVE  IInv' /\ L!Next
<1> DEFINE o == [kind |-> "cancelled", route |-> inquiry.attempts[a].route]
<1>1. TypeOK /\ CallsTyped /\ RestTyped /\ inquiry \in L!InquiryState
  BY TypeParts DEF IInv, TypeOK
<1>2. /\ L!RecordAttemptOutcome(RequestOf[a], a, o)
      /\ artifacts' = artifacts /\ performed' = performed /\ calls' = calls /\ late' = late
      /\ pc' = pc /\ stage' = stage /\ target' = target /\ view' = view /\ seen' = seen
      /\ tries' = tries /\ held' = held
  BY DEF Cancel, local, history
<1>3. o \in L!Outcome /\ o.kind # "returned" /\ RequestOf[a] \in Requests
  <2>1. inquiry.attempts[a].route \in Routes
    BY <1>1, PlansStay DEF IInv, ViewsAreBehind, L!AttemptPlan
  <2> QED  BY <2>1, ExecutorAssumption DEF L!Outcome, L!FailedOutcome, L!FailureKinds
<1> HIDE DEF o
<1>4. L!Next
  BY <1>2, <1>3, Zenon DEF L!Next
<1>5. inquiry' = L!ApplyOutcome(inquiry, a, o)
  BY <1>2, Zenon DEF L!RecordAttemptOutcome
<1>6. /\ inquiry' \in L!InquiryState /\ inquiry'.outcome = [inquiry.outcome EXCEPT ![a] = o]
      /\ inquiry'.decodes = inquiry.decodes
  BY <1>1, <1>3, <1>5, OutcomeAppends, Zenon
<1>7. \A b \in Attempts : inquiry'.outcome[b] = IF b = a THEN o ELSE inquiry.outcome[b]
  BY <1>1, <1>6 DEF L!InquiryState
<1>8. \A b \in Attempts : ReturnIsGenuine(b)'
  BY <1>2, <1>3, <1>7 DEF IInv, LedgerIsGenuine, ReturnIsGenuine, L!Returned
<1>9. \A d \in ReturnIds : DecodeIsGenuine(d)'
  BY <1>2, <1>6 DEF IInv, LedgerIsGenuine, DecodeIsGenuine
<1>10. LedgerIsGenuine' /\ (\A d \in Executors : LocalsKept(d))
  BY <1>2, <1>8, <1>9 DEF LedgerIsGenuine, LocalsKept
<1>11. TypeOK'
  BY <1>1, <1>2, <1>6, TypeParts DEF CallsTyped, RestTyped
<1> QED  BY <1>2, <1>4, <1>10, <1>11, DurableStep

------------------------------------------------------------------------------
(* The invariant. *)

LEMMA InitIInv == Init => IInv
<1> SUFFICES ASSUME Init PROVE IInv
  OBVIOUS
<1> DEFINE s == PlannedInquiry
<1>1. s \in L!InquiryState /\ L!Valid(s) /\ Behind(s, s)
  BY PlannedIsState, BehindReflexive
<1>2. inquiry = s /\ (\A e \in Executors : view[e] = s /\ pc[e] = "idle" /\ ~ late[e])
  BY DEF Init
<1>3. TypeOK
  <2>1. /\ pc \in [Executors -> Steps] /\ stage \in [Executors -> Stages]
        /\ target \in [Executors -> Attempts \cup {None}] /\ seen \in [Executors -> Nat]
    BY DEF Init, Steps, Stages
  <2>2. /\ tries \in [Executors -> 0..(RaceLimit - 1)]
        /\ held \in [Executors -> {None} \cup Payloads \cup L!Outcome]
        /\ calls \in 0..MaxCalls /\ late \in [Executors -> BOOLEAN]
    BY ExecutorAssumption DEF Init, RaceLimit
  <2>3. view \in [Executors -> L!InquiryState] /\ inquiry \in L!InquiryState
    BY <1>1 DEF Init
  <2> QED  BY <2>1, <2>2, <2>3 DEF Init, TypeOK
<1>4. ViewsAreBehind
  BY <1>1, <1>2, Zenon DEF ViewsAreBehind
<1>5. LedgerIsGenuine
  <2>1. \A a \in Attempts : inquiry.outcome[a] = None
    BY <1>2 DEF PlannedInquiry
  <2>2. \A d \in ReturnIds : inquiry.decodes[d] = None
    BY <1>2 DEF PlannedInquiry
  <2> QED  BY <2>1, <2>2 DEF LedgerIsGenuine, ReturnIsGenuine, DecodeIsGenuine, L!Returned
<1>6. \A e \in Executors : CallIsSound(e)
  BY <1>2 DEF CallIsSound, HasTarget, HasStarted, HoldsReturn, KnowsReturn, Appending,
             LateOnlyFinishes, Running, IsSettled
<1> QED  BY <1>3, <1>4, <1>5, <1>6 DEF IInv

(* Every step keeps the invariant, and a step that moves the inquiry is a  *)
(* step of the aggregate.                                                  *)
LEMMA NextIInv ==
    ASSUME IInv, [Next]_vars
    PROVE  IInv' /\ (inquiry' = inquiry \/ L!Next)
<1>1. ASSUME NEW e \in Executors, NEW a \in Attempts, Begin(e, a)
      PROVE  IInv' /\ inquiry' = inquiry
  BY <1>1, BeginKeepsIInv DEF Begin, ledger
<1>2. ASSUME NEW e \in Executors, Step(e)
      PROVE  IInv' /\ (inquiry' = inquiry \/ L!Next)
  <2>1. CASE SelectVersion(e)
    BY <2>1, SelectVersionKeepsIInv DEF SelectVersion, ledger
  <2>2. CASE SelectRows(e)
    BY <2>2, SelectRowsKeepsIInv DEF SelectRows, ledger
  <2>3. CASE Enter(e)
    BY <2>3, EnterKeepsIInv DEF Enter, ledger
  <2>4. CASE Preflight(e)
    BY <2>4, PreflightKeepsIInv DEF Preflight, ledger
  <2>5. CASE \E p \in Payloads : PerformReturns(e, p)
    BY <2>5, PerformReturnsKeepsIInv DEF PerformReturns, ledger
  <2>6. CASE \E kind \in AdapterFailures : PerformFails(e, kind)
    BY <2>6, PerformFailsKeepsIInv DEF PerformFails, ledger
  <2>7. CASE \E stamp \in Stamps : Capture(e, stamp)
    BY <2>7, CaptureKeepsIInv DEF Capture
  <2>8. CASE Decode(e)
    BY <2>8, DecodeKeepsIInv DEF Decode
  <2>9. CASE CommitRepeats(e)
    BY <2>9, CommitRepeatsKeepsIInv DEF CommitRepeats
  <2>10. CASE Commit(e)
    BY <2>10, CommitKeepsIInv
  <2>11. CASE LoseRace(e)
    BY <2>11, LoseRaceKeepsIInv DEF LoseRace, ledger
  <2>12. CASE Reject(e)
    BY <2>12, RejectKeepsIInv DEF Reject, ledger
  <2> QED  BY <1>2, <2>1, <2>2, <2>3, <2>4, <2>5, <2>6, <2>7, <2>8, <2>9, <2>10, <2>11, <2>12
           DEF Step
<1>3. ASSUME NEW e \in Executors, Crash(e)
      PROVE  IInv' /\ inquiry' = inquiry
  BY <1>3, CrashKeepsIInv DEF Crash, ledger
<1>4. ASSUME NEW a \in Attempts, Cancel(a)
      PROVE  IInv' /\ L!Next
  BY <1>4, CancelKeepsIInv
<1>5. CASE UNCHANGED vars
  <2>1. /\ inquiry' = inquiry /\ artifacts' = artifacts /\ performed' = performed
        /\ view' = view /\ (\A d \in Executors : LocalsKept(d))
    BY <1>5 DEF vars, LocalsKept
  <2>2. TypeOK' /\ inquiry \in L!InquiryState
    BY <1>5 DEF IInv, TypeOK, vars
  <2>3. Forward
    BY <2>1, <2>2, BehindReflexive DEF Forward
  <2>4. \A d \in Executors : CallIsSound(d)'
    BY <2>1, <2>3, OthersStaySound DEF IInv
  <2>5. LedgerIsGenuine'
    BY <2>1 DEF IInv, LedgerIsGenuine, ReturnIsGenuine, DecodeIsGenuine
  <2>6. ViewsAreBehind'
    BY <2>1, Zenon DEF IInv, ViewsAreBehind
  <2> QED  BY <2>1, <2>2, <2>4, <2>5, <2>6 DEF IInv
<1> QED  BY <1>1, <1>2, <1>3, <1>4, <1>5 DEF Next

LEMMA AlwaysIInv == Spec => []IInv
<1>1. IInv /\ [Next]_vars => IInv'
  BY NextIInv
<1> QED  BY <1>1, InitIInv, PTL DEF Spec

------------------------------------------------------------------------------
(* The theorems. *)

(* docs/architecture.md, "Write order" (EventsHaveArtifacts): no event     *)
(* points at absent bytes, wherever a process dies between the store and   *)
(* the ledger.                                                             *)
THEOREM EventsAlwaysHaveArtifacts == Spec => []EventsHaveArtifacts
<1>1. IInv => EventsHaveArtifacts
  <2> SUFFICES ASSUME IInv, NEW a \in Attempts, L!Returned(inquiry, a)
               PROVE  LET ret == inquiry.outcome[a].ret IN
                      /\ <<"raw", ret[2]>> \in artifacts
                      /\ inquiry.decodes[ret] # None /\ inquiry.decodes[ret].kind = "decoded"
                             => <<"semantic", ret[2]>> \in artifacts
    BY DEF IInv, EventsHaveArtifacts
  <2>1. inquiry \in L!InquiryState /\ LedgerIsGenuine
    BY DEF IInv, TypeOK
  <2>2. inquiry.outcome[a].ret \in ReturnIds
    BY <2>1, ReturnedHasReturn
  <2> QED  BY <2>1, <2>2 DEF LedgerIsGenuine, ReturnIsGenuine, DecodeIsGenuine
<1> QED  BY <1>1, AlwaysIInv, PTL

(* ADR-0003, "a planned attempt must be explicitly started before          *)
(* execution", and execute() resumes "without repeating an already         *)
(* captured return" (PerformIsDue).                                        *)
THEOREM PerformIsAlwaysDue == Spec => []PerformIsDue
<1>1. IInv => PerformIsDue
  <2> SUFFICES ASSUME IInv, NEW e \in Executors
               PROVE  /\ pc[e] \in {"perform", "capture"} => target[e] \in inquiry.started
                      /\ late[e] /\ Running(e) =>
                             /\ pc[e] \notin {"preflight", "perform", "capture"}
                             /\ stage[e] # "outcome"
    BY DEF PerformIsDue
  <2>1. CallIsSound(e) /\ view[e].started \subseteq inquiry.started
    BY DEF IInv, ViewsAreBehind, Behind
  <2> QED  BY <2>1 DEF CallIsSound, HasStarted, LateOnlyFinishes
<1> QED  BY <1>1, AlwaysIInv, PTL

(* What execute() returning means to its caller (ReturnMeansSettled), also *)
(* when the call decided on a stale view and other calls went on.          *)
THEOREM ReturnAlwaysMeansSettled == Spec => []ReturnMeansSettled
<1>1. IInv => ReturnMeansSettled
  BY DEF IInv, CallIsSound, IsSettled, ReturnMeansSettled
<1> QED  BY <1>1, AlwaysIInv, PTL

(* No fabricated results (AcceptedIsGenuine): the accepted result was      *)
(* decoded from bytes the adapter returned for an attempt of the request.  *)
THEOREM AcceptedIsAlwaysGenuine == Spec => []AcceptedIsGenuine
<1>1. IInv => AcceptedIsGenuine
  <2> SUFFICES ASSUME IInv, NEW r \in Requests, L!Resolved(inquiry, r)
               PROVE  LET source == inquiry.accepted[r] IN
                      /\ source \in performed
                      /\ RequestOf[source[1]] = r
                      /\ DecodeKindOf[source[2]] = "decoded"
    BY DEF AcceptedIsGenuine
  <2> DEFINE source == inquiry.accepted[r]
  <2>1. inquiry \in L!InquiryState /\ L!Valid(inquiry) /\ LedgerIsGenuine
    BY DEF IInv, TypeOK, ViewsAreBehind
  <2>2. source \in ReturnIds
    BY <2>1 DEF L!InquiryState, L!Resolved
  <2>3. /\ inquiry.decodes[source] # None
        /\ inquiry.decodes[source].request = r
        /\ inquiry.decodes[source].kind = "decoded"
    BY <2>1 DEF L!Valid, L!AcceptedIsDecoded
  <2>4. inquiry.decodes[source].ret = source /\ DecodeKindOf[source[2]] = "decoded"
    BY <2>1, <2>2, <2>3 DEF LedgerIsGenuine, DecodeIsGenuine
  <2>5. source \in L!CapturedReturns(inquiry, r)
    BY <2>1, <2>2, <2>3, <2>4 DEF L!Valid, L!DecodesInterpretOwnReturns
  <2>6. PICK a \in Attempts : /\ L!AttemptOf(inquiry, a, r) /\ L!Returned(inquiry, a)
                              /\ inquiry.outcome[a].ret = source
    BY <2>5 DEF L!CapturedReturns
  <2>7. source[1] = a /\ source \in performed
    BY <2>1, <2>6 DEF LedgerIsGenuine, ReturnIsGenuine
  <2>8. RequestOf[a] = r
    BY <2>1, <2>6, PlansStay DEF IInv, ViewsAreBehind, L!AttemptOf
  <2> QED  BY <2>4, <2>7, <2>8
<1> QED  BY <1>1, AlwaysIInv, PTL

(* The durable history is one that decide allows step by step              *)
(* (LedgerIsLawful): the expected-sequence check makes a decision on a     *)
(* rebuilt, possibly stale, state as good as one on the current state.     *)
THEOREM LedgerIsAlwaysLawful == Spec => LedgerIsLawful
<1>1. IInv /\ [Next]_vars => [inquiry' # inquiry => L!Next]_vars
  BY NextIInv
<1> QED  BY <1>1, AlwaysIInv, PTL DEF Spec, LedgerIsLawful

(* The executors together keep the promise of the aggregate to its callers *)
(* (EffectPromise), from the state in which attempts wait to be executed.  *)
THEOREM ExecutorsKeepPromise == Spec => P!KeepsPromise
<1>1. Init => P!Promise!Init
  <2> SUFFICES ASSUME Init PROVE P!Promise!Init
    OBVIOUS
  <2>1. inquiry.started = {} /\ inquiry.accepted = [r \in Requests |-> None]
    BY DEF Init, PlannedInquiry
  <2> QED  BY <2>1 DEF P!Promise!Init, P!DeliveryOf, P!ResolutionOf, P!Resolved
<1>2. IInv /\ [Next]_vars => [P!Promise!Next]_(P!Promise!vars)
  <2> SUFFICES ASSUME IInv, [Next]_vars PROVE [P!Promise!Next]_(P!Promise!vars)
    OBVIOUS
  <2>1. P!IInv
    BY SameState, SameValid DEF IInv, TypeOK, ViewsAreBehind, P!IInv, P!TypeOK, P!ValidatorsAccept
  <2>2. [P!Next]_(P!vars)
    BY NextIInv, SameNext DEF P!vars
  <2> QED  BY <2>1, <2>2, P!NextMaps, NoneIsNoRecord, Zenon
<1> QED  BY <1>1, <1>2, AlwaysIInv, PTL DEF Spec, P!KeepsPromise, P!Promise!Spec
=============================================================================
