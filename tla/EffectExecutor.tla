--------------------------- MODULE EffectExecutor ---------------------------
(***************************************************************************)
(* PersistedEffectExecutor (src/src/rci/orchestration/effects.py): several *)
(* executors, in threads or processes of their own, run execute() on the   *)
(* planned attempts of one inquiry, crash, and run it again.               *)
(*                                                                         *)
(* What is durable is the ledger, here its fold (inquiry), and the content *)
(* addressed store (artifacts).  What a call holds is the state it last    *)
(* rebuilt (view), which may be stale.  Every durable write goes through   *)
(* _append: rebuild, decide on the rebuilt state, append at the expected   *)
(* sequence, up to three times.  A rebuild reads the stream version and    *)
(* the stream rows in two statements of their own (SQLiteEventStore.       *)
(* load_stream) and raises when they disagree.                             *)
(*                                                                         *)
(* The adapter is external: its preflight passes or is unsupported, its    *)
(* perform returns bytes or fails, its decoder is a function of the bytes. *)
(***************************************************************************)
EXTENDS Naturals, FiniteSets

CONSTANTS StepPlans, Requests, Attempts, Routes, Stamps, None,
          Executors,      \* callers of execute()
          Payloads,       \* what the adapter can return, as exact bytes
          AdapterFailures, \* the outcome kinds a failing perform is given
          DecodeKindOf,   \* the adapter's decoder: payload -> decode kind
          RequestOf,      \* the request each attempt is planned for
          MaxCalls        \* bound: calls of execute() in a behaviour

VARIABLES
    inquiry,     \* the fold of the committed stream
    artifacts,   \* the content-addressed store: raw and semantic bytes
    pc,          \* where each call is (see Steps)
    stage,       \* what the call is doing, or the command it is appending
    target,      \* the attempt the call executes
    view,        \* the state the call last rebuilt
    seen,        \* the stream version the current rebuild selected
    tries,       \* lost optimistic races of the current _append
    held,        \* the outcome, or the bytes, the call holds in memory
    calls,       \* number of execute() calls so far
    performed,   \* history: what the adapter returned, per attempt
    late         \* history: the call began after its attempt's outcome

ledger == <<inquiry, artifacts>>
local == <<pc, stage, target, view, seen, tries, held>>
history == <<calls, performed, late>>
vars == <<inquiry, artifacts, pc, stage, target, view, seen, tries, held,
          calls, performed, late>>

(* Identities are derived, as _stable_id derives them: a return from its   *)
(* attempt and its bytes, a decode from its return, a no-attempt           *)
(* disposition from the attempt that was not presented.                    *)
ReturnIds == Attempts \X Payloads

L == INSTANCE EffectLifecycle WITH
         Dispositions <- Attempts, Returns <- ReturnIds, Decodes <- ReturnIds

Steps == {"idle", "version", "rows", "enter", "commit", "preflight",
          "perform", "capture", "decode", "returned", "raised"}
Stages == {"enter", "start", "no_attempt", "outcome", "decoded", "accept"}
Running(e) == pc[e] \notin {"idle", "returned", "raised"}

ASSUME ExecutorAssumption ==
    /\ AdapterFailures \subseteq L!FailureKinds \ {"cancelled"}
    /\ DecodeKindOf \in [Payloads -> L!DecodeKinds]
    /\ RequestOf \in [Attempts -> Requests]
    /\ MaxCalls \in Nat

(* There is a plan to ask for and a route to send by, what was planned is  *)
(* finite, and None is none of the records of the aggregate.               *)
ASSUME PlannedAssumption ==
    /\ StepPlans # {} /\ Routes # {}
    /\ IsFiniteSet(StepPlans) /\ IsFiniteSet(Requests) /\ IsFiniteSet(Attempts)
    /\ None \notin L!PlanStatus /\ None \notin StepPlans /\ None \notin L!AttemptPlan
    /\ None \notin L!NoAttempt /\ None \notin L!Outcome /\ None \notin L!DecodeOutcome
    /\ None \notin ReturnIds /\ None \notin Attempts
    /\ None \notin [request : Requests, status : L!OutcomeKinds \cup {"running"}]

------------------------------------------------------------------------------
(* One call of execute(). *)

(* The durable state in which the planned attempts wait to be executed. *)
PlannedInquiry ==
    [sequence |-> 1 + Cardinality(StepPlans) + Cardinality(Requests) + Cardinality(Attempts),
     plans |-> [p \in StepPlans |-> "ready"],
     requests |-> [r \in Requests |-> CHOOSE p \in StepPlans : TRUE],
     attempts |-> [a \in Attempts |-> [request |-> RequestOf[a],
                                       route |-> CHOOSE u \in Routes : TRUE]],
     started |-> {},
     dispositions |-> [a \in Attempts |-> None],
     outcome |-> [a \in Attempts |-> None],
     decodes |-> [d \in ReturnIds |-> None],
     accepted |-> [r \in Requests |-> None]]

Goto(e, step) == pc' = [pc EXCEPT ![e] = step]

(* An exception leaves execute(); its locals are gone. *)
Forget(e) ==
    /\ target' = [target EXCEPT ![e] = None]
    /\ stage' = [stage EXCEPT ![e] = "enter"]
    /\ view' = [view EXCEPT ![e] = PlannedInquiry]
    /\ seen' = [seen EXCEPT ![e] = 0]
    /\ tries' = [tries EXCEPT ![e] = 0]
    /\ held' = [held EXCEPT ![e] = None]
Raise(e) == Goto(e, "raised") /\ Forget(e)

(* Enter _append, or the first rebuild of execute(). *)
BeginRebuild(e, st) ==
    /\ Goto(e, "version")
    /\ stage' = [stage EXCEPT ![e] = st]
    /\ tries' = [tries EXCEPT ![e] = 0]

Begin(e, a) ==
    /\ ~ Running(e)
    /\ calls < MaxCalls
    /\ calls' = calls + 1
    /\ target' = [target EXCEPT ![e] = a]
    /\ late' = [late EXCEPT ![e] = inquiry.outcome[a] # None]
    /\ held' = [held EXCEPT ![e] = None]
    /\ BeginRebuild(e, "enter")
    /\ UNCHANGED <<ledger, view, seen, performed>>

(* load_stream, first statement. *)
SelectVersion(e) ==
    /\ pc[e] = "version"
    /\ seen' = [seen EXCEPT ![e] = inquiry.sequence]
    /\ Goto(e, "rows")
    /\ UNCHANGED <<ledger, stage, target, view, tries, held, history>>

(* load_stream, second statement: rows past the version read as a gap. *)
SelectRows(e) ==
    /\ pc[e] = "rows"
    /\ IF inquiry.sequence = seen[e]
       THEN /\ view' = [view EXCEPT ![e] = inquiry]
            /\ seen' = [seen EXCEPT ![e] = 0]
            /\ Goto(e, IF stage[e] = "enter" THEN "enter" ELSE "commit")
            /\ UNCHANGED <<stage, target, tries, held>>
       ELSE Raise(e)
    /\ UNCHANGED <<ledger, history>>

(* Mutant: execute() looks at the start but not at the outcome when it     *)
(* resumes.                                                                *)
ContinuePerforms(e, s) ==
    LET a == target[e] IN
    IF ~ L!Returned(s, a) \/ stage[e] = "enter"
    THEN Goto(e, "perform") /\ UNCHANGED <<stage, tries>>
    ELSE IF s.decodes[s.outcome[a].ret] = None
         THEN Goto(e, "decode") /\ UNCHANGED <<stage, tries>>
         ELSE BeginRebuild(e, "accept")

(* Mutant: execute() returns once the decode is recorded, without          *)
(* accepting it.                                                           *)
ContinueWithoutAccept(e, s) ==
    LET a == target[e] IN
    CASE s.outcome[a] = None ->
             Goto(e, "perform") /\ UNCHANGED <<stage, tries>>
      [] s.outcome[a] # None /\ L!Returned(s, a) /\ s.decodes[s.outcome[a].ret] = None ->
             Goto(e, "decode") /\ UNCHANGED <<stage, tries>>
      [] OTHER -> Goto(e, "returned") /\ UNCHANGED <<stage, tries>>

(* What execute() does next once the attempt is known to be started. *)
Continue(e, s) ==
    LET a == target[e] IN
    CASE s.outcome[a] = None ->
             Goto(e, "perform") /\ UNCHANGED <<stage, tries>>
      [] s.outcome[a] # None /\ ~ L!Returned(s, a) ->
             Goto(e, "returned") /\ UNCHANGED <<stage, tries>>
      [] L!Returned(s, a) /\ s.decodes[s.outcome[a].ret] = None ->
             Goto(e, "decode") /\ UNCHANGED <<stage, tries>>
      [] L!Returned(s, a) /\ s.decodes[s.outcome[a].ret] # None ->
             IF s.decodes[s.outcome[a].ret].kind = "decoded"
             THEN BeginRebuild(e, "accept")
             ELSE Goto(e, "returned") /\ UNCHANGED <<stage, tries>>

Enter(e) ==
    LET s == view[e]  a == target[e] IN
    /\ pc[e] = "enter"
    /\ IF L!Resolved(s, RequestOf[a])
       THEN Goto(e, "returned") /\ UNCHANGED <<stage, tries>>
       ELSE IF a \notin s.started
            THEN Goto(e, "preflight") /\ UNCHANGED <<stage, tries>>
            ELSE Continue(e, s)
    /\ UNCHANGED <<ledger, target, view, seen, held, history>>

(* Mutant: execute() trusts its first rebuild and performs before the      *)
(* start is appended.                                                      *)
PreflightPerforms(e) ==
    /\ pc[e] = "preflight"
    /\ Goto(e, "perform")
    /\ UNCHANGED <<ledger, stage, tries, target, view, seen, held, history>>

Preflight(e) ==
    /\ pc[e] = "preflight"
    /\ \E st \in {"start", "no_attempt"} : BeginRebuild(e, st)
    /\ UNCHANGED <<ledger, target, view, seen, held, history>>

(* The adapter is invoked.  Returned bytes are in memory only. *)
PerformReturns(e, p) ==
    /\ pc[e] = "perform"
    /\ performed' = performed \cup {<<target[e], p>>}
    /\ held' = [held EXCEPT ![e] = p]
    /\ Goto(e, "capture")
    /\ UNCHANGED <<ledger, stage, target, view, seen, tries, calls, late>>

(* perform_exact raised, or returned something that is not bytes. *)
PerformFails(e, kind) ==
    /\ pc[e] = "perform"
    /\ held' = [held EXCEPT ![e] =
                   [kind |-> kind, route |-> view[e].attempts[target[e]].route]]
    /\ BeginRebuild(e, "outcome")
    /\ UNCHANGED <<ledger, target, view, seen, history>>

(* The bytes are put into the store before they are recorded. *)
Capture(e, stamp) ==
    /\ pc[e] = "capture"
    /\ artifacts' = artifacts \cup {<<"raw", held[e]>>}
    /\ held' = [held EXCEPT ![e] =
                   [kind |-> "returned", route |-> view[e].attempts[target[e]].route,
                    ret |-> <<target[e], held[e]>>, stamp |-> stamp]]
    /\ BeginRebuild(e, "outcome")
    /\ UNCHANGED <<inquiry, target, view, seen, history>>

(* The recorded bytes are read back and decoded; a decoded result is       *)
(* stored before it is recorded.                                           *)
Payload(s, a) == s.outcome[a].ret[2]

Decode(e) ==
    LET p == Payload(view[e], target[e]) IN
    /\ pc[e] = "decode"
    /\ IF <<"raw", p>> \in artifacts
       THEN /\ artifacts' = IF DecodeKindOf[p] = "decoded"
                            THEN artifacts \cup {<<"semantic", p>>} ELSE artifacts
            /\ BeginRebuild(e, "decoded")
            /\ UNCHANGED <<target, view, seen, held>>
       ELSE /\ Raise(e)
            /\ UNCHANGED artifacts
    /\ UNCHANGED <<inquiry, history>>

------------------------------------------------------------------------------
(* The command of an _append, decided on a state s. *)

Disposition(s, a) == [request |-> RequestOf[a], plan |-> s.requests[RequestOf[a]]]

(* Mutant: The decode is taken for a success whatever the decoder said.    *)
DecodeRecordOptimistic(s, a) ==
    [request |-> RequestOf[a], ret |-> s.outcome[a].ret, kind |-> "decoded"]

DecodeRecord(s, a) ==
    [request |-> RequestOf[a], ret |-> s.outcome[a].ret,
     kind |-> DecodeKindOf[Payload(s, a)]]

Repeats(e, s) ==
    LET a == target[e] IN
    CASE stage[e] = "start" -> L!RepeatsStart(s, a)
      [] stage[e] = "no_attempt" -> L!RepeatsNoAttempt(s, a, Disposition(s, a))
      [] stage[e] = "outcome" -> L!RepeatsOutcome(s, RequestOf[a], a, held[e])
      [] stage[e] = "decoded" -> L!RepeatsDecode(s, s.outcome[a].ret, DecodeRecord(s, a))
      [] stage[e] = "accept" -> L!RepeatsAccept(s, RequestOf[a], s.outcome[a].ret)

Lawful(e, s) ==
    LET a == target[e] IN
    CASE stage[e] = "start" -> L!LawfulStart(s, a)
      [] stage[e] = "no_attempt" -> L!LawfulNoAttempt(s, a, Disposition(s, a))
      [] stage[e] = "outcome" -> L!LawfulOutcome(s, RequestOf[a], a, held[e])
      [] stage[e] = "decoded" -> L!LawfulDecode(s, s.outcome[a].ret, DecodeRecord(s, a))
      [] stage[e] = "accept" -> L!LawfulAccept(s, RequestOf[a], s.outcome[a].ret)

Applied(e, s) ==
    LET a == target[e] IN
    CASE stage[e] = "start" -> L!ApplyStart(s, a)
      [] stage[e] = "no_attempt" -> L!ApplyNoAttempt(s, a, Disposition(s, a))
      [] stage[e] = "outcome" -> L!ApplyOutcome(s, a, held[e])
      [] stage[e] = "decoded" -> L!ApplyDecode(s, s.outcome[a].ret, DecodeRecord(s, a))
      [] stage[e] = "accept" -> L!ApplyAccept(s, RequestOf[a], s.outcome[a].ret)

(* The artifacts the event refers to, which append verifies. *)
References(e, s) ==
    LET a == target[e] IN
    CASE stage[e] = "outcome" /\ held[e].kind = "returned" -> {<<"raw", held[e].ret[2]>>}
      [] stage[e] = "decoded" /\ DecodeKindOf[Payload(s, a)] = "decoded" ->
             {<<"semantic", Payload(s, a)>>}
      [] OTHER -> {}

(* The call goes on with the state its command led to. *)
Settle(e, s) ==
    /\ view' = [view EXCEPT ![e] = s]
    /\ IF stage[e] \in {"no_attempt", "accept"}
       THEN Goto(e, "returned") /\ UNCHANGED <<stage, tries>>
       ELSE Continue(e, s)
    /\ UNCHANGED <<artifacts, target, seen, held, history>>

(* decide returned (): the same record is there already. *)
CommitRepeats(e) ==
    /\ pc[e] = "commit"
    /\ Repeats(e, view[e])
    /\ Settle(e, view[e])
    /\ UNCHANGED inquiry

(* decide returned an event and the stream is where the call expects it. *)
Committable(e) ==
    /\ ~ Repeats(e, view[e])
    /\ Lawful(e, view[e])
    /\ References(e, view[e]) \subseteq artifacts

(* Mutant: append forgets to compare the expected sequence.                *)
AnySequence(e) == view[e].sequence <= inquiry.sequence

ExpectedSequence(e) == view[e].sequence = inquiry.sequence

Commit(e) ==
    /\ pc[e] = "commit"
    /\ Committable(e)
    /\ ExpectedSequence(e)
    /\ inquiry' = Applied(e, view[e])
    /\ Settle(e, Applied(e, view[e]))

(* OptimisticConcurrencyError: rebuild and decide again, three times in all.*)
RaceLimit == 3

LoseRace(e) ==
    /\ pc[e] = "commit"
    /\ Committable(e)
    /\ ~ ExpectedSequence(e)
    /\ IF tries[e] + 1 < RaceLimit
       THEN /\ tries' = [tries EXCEPT ![e] = @ + 1]
            /\ Goto(e, "version")
            /\ UNCHANGED <<stage, target, view, seen, held>>
       ELSE Raise(e)
    /\ UNCHANGED <<ledger, history>>

(* Mutant: _append also retries what decide refused.                       *)
RejectRetries(e) ==
    /\ pc[e] = "commit"
    /\ ~ Repeats(e, view[e])
    /\ ~ Committable(e)
    /\ Goto(e, "version")
    /\ UNCHANGED <<ledger, stage, target, view, seen, tries, held, history>>

(* Mutant: a failed append cleans up after itself and removes the bytes it  *)
(* stored, which the store may share with another attempt.                 *)
RejectCleansUp(e) ==
    /\ pc[e] = "commit"
    /\ ~ Repeats(e, view[e])
    /\ ~ Committable(e)
    /\ Raise(e)
    /\ artifacts' = artifacts \ References(e, view[e])
    /\ UNCHANGED <<inquiry, history>>

(* decide raised on the rebuilt state: a typed DomainError leaves execute(),*)
(* and so does ArtifactIntegrityError.                                     *)
Reject(e) ==
    /\ pc[e] = "commit"
    /\ ~ Repeats(e, view[e])
    /\ ~ Committable(e)
    /\ Raise(e)
    /\ UNCHANGED <<ledger, history>>

(* The process dies; what it held in memory is gone. *)
Crash(e) ==
    /\ Running(e)
    /\ Goto(e, "idle")
    /\ Forget(e)
    /\ UNCHANGED <<ledger, history>>

(* Another writer of the same inquiry: an operator cancels a started       *)
(* attempt by dispatching RecordAttemptOutcome.                            *)
Cancel(a) ==
    /\ L!RecordAttemptOutcome(RequestOf[a], a,
           [kind |-> "cancelled", route |-> inquiry.attempts[a].route])
    /\ UNCHANGED <<artifacts, local, history>>

------------------------------------------------------------------------------
Init ==
    /\ inquiry = PlannedInquiry
    /\ artifacts = {}
    /\ pc = [e \in Executors |-> "idle"]
    /\ stage = [e \in Executors |-> "enter"]
    /\ target = [e \in Executors |-> None]
    /\ view = [e \in Executors |-> PlannedInquiry]
    /\ seen = [e \in Executors |-> 0]
    /\ tries = [e \in Executors |-> 0]
    /\ held = [e \in Executors |-> None]
    /\ calls = 0
    /\ performed = {}
    /\ late = [e \in Executors |-> FALSE]

(* A step of a running call: what the thread's scheduler must let it take. *)
Step(e) ==
    \/ SelectVersion(e)
    \/ SelectRows(e)
    \/ Enter(e)
    \/ Preflight(e)
    \/ \E p \in Payloads : PerformReturns(e, p)
    \/ \E kind \in AdapterFailures : PerformFails(e, kind)
    \/ \E stamp \in Stamps : Capture(e, stamp)
    \/ Decode(e)
    \/ CommitRepeats(e)
    \/ Commit(e)
    \/ LoseRace(e)
    \/ Reject(e)

Next ==
    \/ \E e \in Executors, a \in Attempts : Begin(e, a)
    \/ \E e \in Executors : Step(e)
    \/ \E e \in Executors : Crash(e)
    \/ \E a \in Attempts : Cancel(a)

Spec == Init /\ [][Next]_vars

(* A running call keeps running: adapters are bounded by timeout_seconds,  *)
(* nothing in execute() blocks.  No call is owed a new call.               *)
FairSpec == Spec /\ \A e \in Executors : WF_vars(Step(e))

------------------------------------------------------------------------------
(* Properties. *)

(* The ledger, the store and the calls hold what the code declares. *)
TypeOK ==
    /\ inquiry \in L!InquiryState
    /\ artifacts \subseteq ({"raw", "semantic"} \X Payloads)
    /\ pc \in [Executors -> Steps]
    /\ stage \in [Executors -> Stages]
    /\ target \in [Executors -> Attempts \cup {None}]
    /\ view \in [Executors -> L!InquiryState]
    /\ seen \in [Executors -> Nat]
    /\ tries \in [Executors -> 0..(RaceLimit - 1)]
    /\ held \in [Executors -> {None} \cup Payloads \cup L!Outcome]
    /\ calls \in 0..MaxCalls
    /\ performed \subseteq ReturnIds
    /\ late \in [Executors -> BOOLEAN]

(* Whatever the interleaving of executors, crashes and stale views, the    *)
(* durable history is one the aggregate's decide allows step by step: the  *)
(* expected-sequence check makes a decision on a rebuilt state as good as  *)
(* one on the current state.  With theorem AggregateKeepsPromise, the      *)
(* executors keep the promise of EffectPromise.                            *)
LedgerIsLawful == [][inquiry' # inquiry => L!Next]_vars

(* docs/architecture.md, "Write order": an event never points at absent    *)
(* bytes, although the process may die between the store and the ledger.   *)
(* (Stated together with the types of both.)                               *)
EventsHaveArtifacts ==
    /\ TypeOK
    /\ \A a \in Attempts : L!Returned(inquiry, a) =>
          LET ret == inquiry.outcome[a].ret IN
          /\ <<"raw", ret[2]>> \in artifacts
          /\ inquiry.decodes[ret] # None /\ inquiry.decodes[ret].kind = "decoded"
                 => <<"semantic", ret[2]>> \in artifacts

(* The adapter is invoked neither too early nor too late.  ADR-0003, "a    *)
(* planned attempt must be explicitly started before execution": only for  *)
(* an attempt whose start is durable, also after a lost race.  And         *)
(* execute() resumes "without repeating an already captured return": a     *)
(* call that begins after the outcome of its attempt is durable does not   *)
(* invoke it, whatever crashed before.                                     *)
PerformIsDue ==
    \A e \in Executors :
        /\ pc[e] \in {"perform", "capture"} => target[e] \in inquiry.started
        /\ late[e] /\ Running(e) =>
               pc[e] \notin {"preflight", "perform", "capture"} /\ stage[e] # "outcome"

(* What execute() returning (not raising) means to its caller: the work is *)
(* settled.  Either the attempt has its terminal outcome or no attempt was *)
(* made or the request was resolved by another attempt; and if the         *)
(* outcome is a return that decodes, the request is resolved.              *)
ReturnMeansSettled ==
    \A e \in Executors : pc[e] = "returned" =>
        LET a == target[e] IN
        /\ \/ inquiry.outcome[a] # None
           \/ inquiry.dispositions[a] # None
           \/ L!Resolved(inquiry, RequestOf[a])
        /\ stage[e] # "no_attempt" /\ L!Returned(view[e], a)
               /\ DecodeKindOf[Payload(view[e], a)] = "decoded"
               => L!Resolved(inquiry, RequestOf[a])

(* No fabricated results: an accepted result goes back to bytes that the   *)
(* adapter really returned for an attempt of that request, and the decoder *)
(* really decoded them.                                                    *)
AcceptedIsGenuine ==
    \A r \in Requests : L!Resolved(inquiry, r) =>
        LET source == inquiry.accepted[r] IN
        /\ source \in performed
        /\ RequestOf[source[1]] = r
        /\ DecodeKindOf[source[2]] = "decoded"

(* A call never blocks and never spins: under contention it gives up after *)
(* three lost races, so every call of execute() ends.                      *)
CallsEnd == \A e \in Executors : Running(e) ~> ~ Running(e)
=============================================================================
