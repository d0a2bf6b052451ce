---------------------------- MODULE ManualInquiry ----------------------------
(***************************************************************************)
(* The question loop of one inquiry: RCI.step, run and submit_answer       *)
(* (src/src/rci/sdk.py), the bounded scheduler behind them (src/src/rci/   *)
(* orchestration/scheduler.py) and the obligation commands of the reducer  *)
(* (src/src/rci/core/transitions.py).                                      *)
(*                                                                         *)
(* A call inspects the inquiry, decides what to do on what it saw, and     *)
(* applies a batch through _apply_batch, which rebuilds the state once     *)
(* more, decides the batch on that, and appends it at the sequence it just *)
(* read.  Inspect, rebuild and append are separate steps here, so another  *)
(* caller may act between any two of them.                                 *)
(*                                                                         *)
(* Identities are derived: a plan from the scheduler's whole input, which  *)
(* includes the sequence it was computed at, a request from its plan and   *)
(* its first attempt from the request.  A plan, its request and its        *)
(* attempts are therefore one entry of requests, named by that sequence    *)
(* (at).  Further attempts of it are planned and started by dispatch; the  *)
(* requests themselves are those of step().                                *)
(***************************************************************************)
EXTENDS Naturals, Sequences, FiniteSets

CONSTANTS
    Obligations,
    Initial,       \* the obligation start() opens
    Openable,      \* the obligations callers open by dispatch
    Supported,     \* obligations whose kind has an admitted question contract
    Renderable,    \* obligations with an argument for every role of the contract
    Rank,          \* safety rank, priority and depth, as one number
    Parents,       \* obligation -> its parent_obligation_ids
    Derives,       \* obligation -> those the claim answering it derives
    Downstream,    \* obligation -> those submit_answer opens beside the claim
    Carrier,       \* obligation -> the proposition it is about
    Checked,       \* propositions with recorded evidence an authorized checker passed
    Answers,
    Users,
    Budget,        \* step_budget (100 in the code)
    MaxAttempts,   \* max_attempts_per_key (3 in the code)
    RunSteps,      \* max_steps of run() (100 in the code)
    MaxCalls,      \* bound: calls in a behaviour
    MaxDispatches, \* bound: dispatched commands in a behaviour
    None

VARIABLES
    inquiry,       \* the fold of the committed stream
    call,          \* user -> the call it is in, or last made
    acknowledged,  \* history: [request, answer] that submit_answer returned for
    calls, dispatches

vars == <<inquiry, call, acknowledged, calls, dispatches>>

(* The event cost of a ready step: plan, request, attempt plan, start. *)
ReadyCost == 4

Status == {"open", "blocked", "satisfied", "unknown"}
AttemptStatus == {"planned", "started", "ended", "returned", "decoded"}
Attempt == [status : AttemptStatus, answer : Answers \cup {None}]
(* accepted is the attempt whose decoded return was accepted, 0 if none.   *)
Request == [at : Nat, obligation : Obligations, attempts : Seq(Attempt), accepted : Nat]
InquiryState ==
    [sequence : Nat, obligations : Seq(Obligations),
     history : [Obligations -> Seq(Status)], requests : Seq(Request),
     warranted : SUBSET Checked]

ASSUME ManualAssumption ==
    /\ Initial \in Obligations
    /\ Openable \subseteq Obligations
    /\ Supported \subseteq Obligations
    /\ Renderable \subseteq Obligations
    /\ Rank \in [Obligations -> Nat]
    /\ Parents \in [Obligations -> SUBSET Obligations]
    /\ Derives \in [Obligations -> Seq(Obligations)]
    /\ Downstream \in [Obligations -> Seq(Obligations)]
    /\ {Budget, MaxAttempts, RunSteps, MaxCalls, MaxDispatches} \subseteq Nat
    /\ RunSteps >= 1
    /\ None \notin Answers
    /\ IsFiniteSet(Checked)
    /\ IsFiniteSet(Users) /\ Users # {}

(* start(): InquiryStarted and the opening of the first obligation; and    *)
(* then the evidence about the checked propositions and its verdicts.      *)
StartedInquiry ==
    [sequence |-> 2 + 2 * Cardinality(Checked), obligations |-> <<Initial>>,
     history |-> [o \in Obligations |-> << >>], requests |-> << >>, warranted |-> {}]

------------------------------------------------------------------------------
(* Reading a state. *)

Opened(s) == {s.obligations[i] : i \in DOMAIN s.obligations}
StatusOf(s, o) ==
    IF s.history[o] = << >> THEN "open" ELSE s.history[o][Len(s.history[o])]
Completed(s) == {o \in Opened(s) : StatusOf(s, o) = "satisfied"}

(* The unresolved requests with an attempt in one of the given states. *)
Unresolved(s, statuses) ==
    {k \in DOMAIN s.requests :
        /\ s.requests[k].accepted = 0
        /\ \E i \in DOMAIN s.requests[k].attempts :
               s.requests[k].attempts[i].status \in statuses}
Pending(s) == Unresolved(s, {"started"})
FirstPending(s) == CHOOSE k \in Pending(s) : \A j \in Pending(s) : k <= j
Resolved(s) == {k \in DOMAIN s.requests : s.requests[k].accepted # 0}
AcceptedAnswer(s, k) == s.requests[k].attempts[s.requests[k].accepted].answer

(* _attempt_counts: every attempt of every request about the obligation.   *)
RequestsAbout(s, o) == {k \in DOMAIN s.requests : s.requests[k].obligation = o}
AttemptsAbout(s, o) ==
    UNION {{k} \X DOMAIN s.requests[k].attempts : k \in RequestsAbout(s, o)}

(* Mutant: an attempt that has ended is no longer counted. *)
CountLiveAttempts(s, o) ==
    Cardinality({a \in AttemptsAbout(s, o) :
                    s.requests[a[1]].attempts[a[2]].status # "ended"})

AttemptCount(s, o) == Cardinality(AttemptsAbout(s, o))

(* The entry a plan led to, if it is recorded. *)
Recorded(s, plan) == \E k \in DOMAIN s.requests : s.requests[k].at = plan.at

(* _matches_last_accepted_answer. *)
MatchesLastAnswer(s, answer) ==
    \E k \in Resolved(s) :
        (\A j \in Resolved(s) : j <= k) /\ AcceptedAnswer(s, k) = answer

------------------------------------------------------------------------------
(* The scheduler, plan_next. *)

CreatedBefore(s, o, p) ==
    \E i, j \in DOMAIN s.obligations : i < j /\ s.obligations[i] = o /\ s.obligations[j] = p
Before(s, o, p) == Rank[o] < Rank[p] \/ (Rank[o] = Rank[p] /\ CreatedBefore(s, o, p))

Entries(s) == Opened(s) \cap Supported
OpenEntries(s) == {o \in Entries(s) : StatusOf(s, o) = "open"}

(* Mutant: the attempt limit is off by one. *)
ReadyOneMore(s) ==
    {o \in OpenEntries(s) : Parents[o] \subseteq Completed(s) /\ AttemptCount(s, o) <= MaxAttempts}

ReadyEntries(s) ==
    {o \in OpenEntries(s) : Parents[o] \subseteq Completed(s) /\ AttemptCount(s, o) < MaxAttempts}

Plan(status, o, s) == [status |-> status, obligation |-> o, at |-> s.sequence]

Schedule(s) ==
    IF s.sequence >= Budget THEN Plan("unknown", None, s)
    ELSE IF OpenEntries(s) = {}
    THEN Plan(IF Entries(s) \subseteq Completed(s) THEN "satisfied" ELSE "unknown", None, s)
    ELSE IF ReadyEntries(s) = {} \/ Budget - s.sequence < ReadyCost
    THEN Plan("unknown", None, s)
    ELSE Plan("ready", CHOOSE o \in ReadyEntries(s) :
                           \A p \in ReadyEntries(s) \ {o} : Before(s, o, p), s)

(* What step() reports for a plan that is not ready: an open obligation    *)
(* without a contract keeps the inquiry from being satisfied.              *)
Verdict(s, plan) ==
    IF plan.status = "satisfied"
       /\ \E o \in Opened(s) \ Supported : StatusOf(s, o) = "open"
    THEN "unknown" ELSE plan.status

------------------------------------------------------------------------------
(* The batches, decided on a state s. *)

(* step(): RecordStepPlan, RequestEffect, PlanEffectAttempt and            *)
(* StartEffectAttempt.  What is checked on s is only that the obligation   *)
(* is open, not that the plan is what the scheduler would say now.         *)
Started == [status |-> "started", answer |-> None]
LawfulPlan(s, plan) ==
    plan.obligation \in Opened(s) /\ StatusOf(s, plan.obligation) = "open"
ApplyPlan(s, plan) ==
    [s EXCEPT !.sequence = @ + ReadyCost,
              !.requests = Append(@, [at |-> plan.at, obligation |-> plan.obligation,
                                      attempts |-> <<Started>>, accepted |-> 0])]

(* OpenObligation, or the candidates of ClaimAdmitted in turn: each is     *)
(* opened unless the state, or a candidate before it, has it already.      *)
NewObligations(s, list) ==
    LET new[i \in 0..Len(list)] ==
            IF i = 0 THEN << >>
            ELSE IF list[i] \in Opened(s) \cup {new[i - 1][j] : j \in DOMAIN new[i - 1]}
                 THEN new[i - 1]
                 ELSE Append(new[i - 1], list[i])
    IN  new[Len(list)]
Open(s, list) == [s EXCEPT !.obligations = @ \o NewObligations(s, list)]

(* Mutant: the outcome of an attempt may be recorded again. *)
AnswerOverwrites(s, k) == s.requests[k].attempts[1].status # "ended"

(* submit_answer: RecordAttemptOutcome, RecordDecodeOutcome,               *)
(* AcceptEffectResult, AdmitClaim with the obligations it derives,         *)
(* RecordObligationDisposition and, for a generated question,              *)
(* OpenObligation.  The answer goes to the first attempt of the request,   *)
(* whichever attempt made the request pending; the disposition names no    *)
(* predecessor, so it only extends an empty history.                       *)
LawfulAnswer(s, k) ==
    /\ s.requests[k].accepted = 0
    /\ s.requests[k].attempts[1].status = "started"
    /\ s.history[s.requests[k].obligation] = << >>
ApplyAnswer(s, k, answer) ==
    LET o == s.requests[k].obligation
        settled == [s EXCEPT !.requests[k].attempts[1] =
                                 [status |-> "decoded", answer |-> answer],
                             !.requests[k].accepted = 1,
                             !.history[o] = Append(@, "satisfied")]
        admitted == Open(settled, Derives[o]) IN
    [Open(admitted, Downstream[o]) EXCEPT
        !.sequence = @ + 5 + Len(NewObligations(admitted, Downstream[o]))]

(* The same answer again, captured at the same clock reading: every        *)
(* command of the batch is a repeat.                                       *)
RepeatsAnswer(s, k, answer) ==
    s.requests[k].accepted = 1 /\ s.requests[k].attempts[1].answer = answer

(* RecordObligationDisposition: the lawful changes of standing.  What      *)
(* satisfies an obligation is an accepted answer to it or a hard warrant   *)
(* decision about its carrier; both are of the inquiry's one scope.  A     *)
(* generic disposition never establishes impossibility.                    *)
Standing(from) ==
    CASE from = "open" -> {"blocked", "satisfied", "impossible", "unknown"}
      [] from = "blocked" -> {"open", "satisfied", "unknown"}
      [] from \in {"unknown", "satisfied", "impossible"} -> {"open"}
AcceptedDecodes(s, o) == RequestsAbout(s, o) \cap Resolved(s)
HasEvidence(s, o) == AcceptedDecodes(s, o) # {} \/ Carrier[o] \in s.warranted

(* Mutant: any accepted answer counts, whatever obligation it is about. *)
DisposeOnAnyEvidence(s, o, status) ==
    /\ o \in Opened(s)
    /\ status # "impossible"
    /\ status \in Standing(StatusOf(s, o))
    /\ status = "satisfied" => Resolved(s) # {} \/ Carrier[o] \in s.warranted

LawfulDisposition(s, o, status) ==
    /\ o \in Opened(s)
    /\ status # "impossible"
    /\ status \in Standing(StatusOf(s, o))
    /\ status = "satisfied" => HasEvidence(s, o)

------------------------------------------------------------------------------
(* Calls. *)

Busy == {"inspect", "step", "plan_rebuild", "plan_append", "reinspect",
         "answer_rebuild", "answer_append"}
Results == {"needs_input", "active", "satisfied", "unknown", "answered", "unchanged",
            "no_pending", "conflict", "domain_error", "render_error"}
NoCall == [pc |-> "idle", op |-> "step", answer |-> None, view |-> None, plan |-> None,
           target |-> 0, got |-> "active", left |-> 0, last |-> 0]
Idle(u) == call[u].pc \notin Busy

(* A call returns or raises, and leaves its result. *)
End(u, result) == call' = [call EXCEPT ![u] = [NoCall EXCEPT !.pc = result]]

Begin(u, op, answer) ==
    /\ Idle(u)
    /\ calls < MaxCalls
    /\ calls' = calls + 1
    /\ call' = [call EXCEPT ![u] =
                   [NoCall EXCEPT
                       !.pc = IF op = "submit" THEN "inspect" ELSE "step",
                       !.op = op, !.answer = answer,
                       !.left = IF op = "run" THEN RunSteps ELSE 1]]
    /\ UNCHANGED <<inquiry, acknowledged, dispatches>>

(* submit_answer looks for a pending request first, and makes a step when  *)
(* there is none.                                                          *)
Inspect(u) ==
    /\ call[u].pc = "inspect"
    /\ call' = [call EXCEPT ![u] =
                   IF Pending(inquiry) = {}
                   THEN [@ EXCEPT !.pc = "step"]
                   ELSE [@ EXCEPT !.pc = "answer_rebuild", !.target = FirstPending(inquiry)]]
    /\ UNCHANGED <<inquiry, acknowledged, calls, dispatches>>

(* Mutant: run() repeats the step as long as it is active. *)
RunForever(u, status, sequence) ==
    CASE call[u].op = "step" -> End(u, status)
      [] call[u].op = "submit" ->
             call' = [call EXCEPT ![u].pc = "reinspect", ![u].got = status]
      [] call[u].op = "run" ->
             IF status # "active" THEN End(u, status)
             ELSE call' = [call EXCEPT ![u].pc = "step", ![u].last = sequence]

(* step() has a status: run() may go on, submit_answer looks again.        *)
StepEnds(u, status, sequence) ==
    CASE call[u].op = "step" -> End(u, status)
      [] call[u].op = "submit" ->
             call' = [call EXCEPT ![u].pc = "reinspect", ![u].got = status]
      [] call[u].op = "run" ->
             IF status # "active" \/ sequence <= call[u].last
             THEN End(u, status)
             ELSE IF call[u].left = 1 THEN End(u, "unknown")
             ELSE call' = [call EXCEPT ![u].pc = "step", ![u].last = sequence,
                                       ![u].left = @ - 1]

(* step(), up to its batch.  Rendering a question whose obligation lacks   *)
(* an argument for a role of the contract raises RuntimeError.             *)
Step(u) ==
    LET plan == Schedule(inquiry) IN
    /\ call[u].pc = "step"
    /\ IF Pending(inquiry) # {} THEN StepEnds(u, "needs_input", inquiry.sequence)
       ELSE IF Unresolved(inquiry, {"returned", "decoded"}) # {}
       THEN StepEnds(u, "active", inquiry.sequence)
       ELSE IF plan.status # "ready"
       THEN StepEnds(u, Verdict(inquiry, plan), inquiry.sequence)
       ELSE IF plan.obligation \notin Renderable THEN End(u, "render_error")
       ELSE call' = [call EXCEPT ![u].pc = "plan_rebuild", ![u].plan = plan]
    /\ UNCHANGED <<inquiry, acknowledged, calls, dispatches>>

(* _apply_batch, the rebuild: the batch is decided on this state. *)
Rebuild(u) ==
    /\ call[u].pc \in {"plan_rebuild", "answer_rebuild"}
    /\ call' = [call EXCEPT ![u].view = inquiry,
                            ![u].pc = IF @ = "plan_rebuild" THEN "plan_append"
                                      ELSE "answer_append"]
    /\ UNCHANGED <<inquiry, acknowledged, calls, dispatches>>

(* _apply_batch, decide and append, for the batch of step(). *)
AppendPlan(u) ==
    LET s == call[u].view  plan == call[u].plan IN
    /\ call[u].pc = "plan_append"
    /\ IF Recorded(s, plan)
       THEN StepEnds(u, "needs_input", s.sequence) /\ UNCHANGED inquiry
       ELSE IF ~ LawfulPlan(s, plan) THEN End(u, "domain_error") /\ UNCHANGED inquiry
       ELSE IF s.sequence # inquiry.sequence THEN End(u, "conflict") /\ UNCHANGED inquiry
       ELSE /\ inquiry' = ApplyPlan(s, plan)
            /\ StepEnds(u, "needs_input", s.sequence + ReadyCost)
    /\ UNCHANGED <<acknowledged, calls, dispatches>>

(* submit_answer after its own step(). *)
Reinspect(u) ==
    /\ call[u].pc = "reinspect"
    /\ IF call[u].got # "needs_input"
       THEN End(u, IF MatchesLastAnswer(inquiry, call[u].answer)
                   THEN "unchanged" ELSE "no_pending")
       ELSE IF Pending(inquiry) = {} THEN End(u, "no_pending")
       ELSE call' = [call EXCEPT ![u].pc = "answer_rebuild",
                                 ![u].target = FirstPending(inquiry)]
    /\ UNCHANGED <<inquiry, acknowledged, calls, dispatches>>

(* _apply_batch, decide and append, for the batch of submit_answer. *)
AppendAnswer(u) ==
    LET s == call[u].view  k == call[u].target  answer == call[u].answer IN
    /\ call[u].pc = "answer_append"
    /\ \/ /\ RepeatsAnswer(s, k, answer)
          /\ End(u, "unchanged")
          /\ UNCHANGED <<inquiry, acknowledged>>
       \/ /\ ~ LawfulAnswer(s, k)
          /\ End(u, "domain_error")
          /\ UNCHANGED <<inquiry, acknowledged>>
       \/ /\ LawfulAnswer(s, k)
          /\ s.sequence # inquiry.sequence
          /\ End(u, "conflict")
          /\ UNCHANGED <<inquiry, acknowledged>>
       \/ /\ LawfulAnswer(s, k)
          /\ s.sequence = inquiry.sequence
          /\ inquiry' = ApplyAnswer(s, k, answer)
          /\ acknowledged' = acknowledged \cup {[request |-> k, answer |-> answer]}
          /\ End(u, "answered")
    /\ UNCHANGED <<calls, dispatches>>

------------------------------------------------------------------------------
(* dispatch(): single commands of a user who is in no other call.  One     *)
(* command is decided on the state it is appended to.  What the user       *)
(* submits after it is no longer a repetition.                             *)

Dispatch(u, s) ==
    /\ Idle(u)
    /\ dispatches < MaxDispatches
    /\ dispatches' = dispatches + 1
    /\ inquiry' = [s EXCEPT !.sequence = @ + 1]
    /\ call' = [call EXCEPT ![u] = NoCall]
    /\ UNCHANGED <<acknowledged, calls>>

OpenObligation(u, o) ==
    /\ o \notin Opened(inquiry)
    /\ Parents[o] \subseteq Opened(inquiry)
    /\ Dispatch(u, Open(inquiry, <<o>>))

RecordObligationDisposition(u, o, status) ==
    /\ LawfulDisposition(inquiry, o, status)
    /\ Dispatch(u, [inquiry EXCEPT !.history[o] = Append(@, status)])

(* EvaluateWarrant, for evidence that earns a hard decision. *)
EvaluateWarrant(u, c) ==
    /\ c \notin inquiry.warranted
    /\ Dispatch(u, [inquiry EXCEPT !.warranted = @ \cup {c}])

(* The effect commands on a manual request k and its attempt i.  Only      *)
(* planning, starting and accepting ask whether the request is resolved: a *)
(* late outcome of another attempt is still recorded, and decoded.         *)
PlanEffectAttempt(u, k) ==
    /\ inquiry.requests[k].accepted = 0
    /\ Dispatch(u, [inquiry EXCEPT !.requests[k].attempts =
                       Append(@, [status |-> "planned", answer |-> None])])
AttemptBecomes(u, k, i, from, attempt) ==
    /\ inquiry.requests[k].attempts[i].status = from
    /\ Dispatch(u, [inquiry EXCEPT !.requests[k].attempts[i] = attempt])
StartEffectAttempt(u, k, i) ==
    /\ inquiry.requests[k].accepted = 0
    /\ AttemptBecomes(u, k, i, "planned", Started)
EndAttempt(u, k, i) ==
    AttemptBecomes(u, k, i, "started", [status |-> "ended", answer |-> None])
ReturnAttempt(u, k, i, answer) ==
    AttemptBecomes(u, k, i, "started", [status |-> "returned", answer |-> answer])
DecodeReturn(u, k, i) ==
    AttemptBecomes(u, k, i, "returned",
        [status |-> "decoded", answer |-> inquiry.requests[k].attempts[i].answer])
AcceptResult(u, k, i) ==
    /\ inquiry.requests[k].accepted = 0
    /\ inquiry.requests[k].attempts[i].status = "decoded"
    /\ Dispatch(u, [inquiry EXCEPT !.requests[k].accepted = i])

EffectCommand(u, k) ==
    \/ PlanEffectAttempt(u, k)
    \/ \E i \in DOMAIN inquiry.requests[k].attempts :
           \/ StartEffectAttempt(u, k, i)
           \/ EndAttempt(u, k, i)
           \/ \E answer \in Answers : ReturnAttempt(u, k, i, answer)
           \/ DecodeReturn(u, k, i)
           \/ AcceptResult(u, k, i)

------------------------------------------------------------------------------
Init ==
    /\ inquiry = StartedInquiry
    /\ call = [u \in Users |-> NoCall]
    /\ acknowledged = {}
    /\ calls = 0
    /\ dispatches = 0

Progress(u) ==
    \/ Inspect(u)
    \/ Step(u)
    \/ Rebuild(u)
    \/ AppendPlan(u)
    \/ Reinspect(u)
    \/ AppendAnswer(u)

Next ==
    \E u \in Users :
        \/ \E op \in {"step", "run"} : Begin(u, op, None)
        \/ \E answer \in Answers : Begin(u, "submit", answer)
        \/ Progress(u)
        \/ \E o \in Openable : OpenObligation(u, o)
        \/ \E o \in Obligations, status \in Status \cup {"impossible"} :
               RecordObligationDisposition(u, o, status)
        \/ \E c \in Checked : EvaluateWarrant(u, c)
        \/ \E k \in DOMAIN inquiry.requests : EffectCommand(u, k)

Spec == Init /\ [][Next]_vars

(* A call that began is carried on: nothing in it waits for anyone. *)
FairSpec == Spec /\ \A u \in Users : WF_vars(Progress(u))

------------------------------------------------------------------------------
(* Properties. *)

Calls ==
    [pc : Busy \cup Results \cup {"idle"}, op : {"step", "run", "submit"},
     answer : Answers \cup {None}, view : {None} \cup InquiryState,
     plan : {None} \cup [status : {"ready"}, obligation : Obligations, at : Nat],
     target : Nat, got : Results, left : 0..RunSteps, last : Nat]

(* The state and the calls hold what the code declares. *)
TypeOK ==
    /\ inquiry \in InquiryState
    /\ \A u \in Users : call[u] \in Calls
    /\ acknowledged \subseteq [request : Nat, answer : Answers]
    /\ calls \in 0..MaxCalls
    /\ dispatches \in 0..MaxDispatches

(* A plan is recorded on whatever state its batch finds, and another       *)
(* caller may have used up the attempts since it was made.  The damage is  *)
(* bounded for any number of callers: through every cancellation, retry    *)
(* and reopening, step() asks about one obligation at most as often as the *)
(* limit says, and once more for each other caller.  (Stated together with *)
(* the types.)                                                             *)
StalePlansAreBounded ==
    /\ TypeOK
    /\ \A o \in Obligations :
          Cardinality(RequestsAbout(inquiry, o)) < MaxAttempts + Cardinality(Users)

(* A question recorded on the very state it was planned on (every question *)
(* of a single caller is) keeps the scheduler's policy in full: no other   *)
(* question is pending and no return waits to be read, its parents are     *)
(* satisfied, the attempts about it, those dispatched by hand included,    *)
(* stay within the limit, and the whole batch fits the budget.  What a     *)
(* plan overtaken by other events may do is not said here.                 *)
QuestionsAreJustified ==
    [][Len(inquiry'.requests) > Len(inquiry.requests) =>
         LET asked == inquiry'.requests[Len(inquiry'.requests)]
             o == asked.obligation IN
         asked.at = inquiry.sequence =>
             /\ Unresolved(inquiry, {"started", "returned", "decoded"}) = {}
             /\ Parents[o] \subseteq Completed(inquiry)
             /\ AttemptCount(inquiry', o) <= MaxAttempts
             /\ inquiry'.sequence <= Budget]_vars

(* A satisfied obligation has an accepted answer of its own behind it, or  *)
(* a hard warrant decision about its carrier, through every reopening,     *)
(* race, retry and repetition.                                             *)
SatisfiedHasEvidence ==
    \A o \in Opened(inquiry) :
        StatusOf(inquiry, o) = "satisfied" => HasEvidence(inquiry, o)

(* An answer that submit_answer acknowledged stays the accepted answer of  *)
(* its request, and no request is acknowledged with two answers.           *)
AcknowledgedAnswersStand ==
    \A a \in acknowledged :
        a.request \in Resolved(inquiry) /\ AcceptedAnswer(inquiry, a.request) = a.answer

(* Every call ends; in particular run() gives up when nothing progresses.  *)
CallsEnd == \A u \in Users : call[u].pc \in Busy ~> Idle(u)

(* plan_next: "Select one ready obligation or terminate lawfully Unknown"  *)
(* (src/src/rci/orchestration/scheduler.py): a step ends with a question,  *)
(* a verdict or a typed error.                                             *)
StepsEndLawfully == \A u \in Users : call[u].pc # "render_error"
=============================================================================
