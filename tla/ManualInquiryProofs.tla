------------------------- MODULE ManualInquiryProofs -------------------------
(***************************************************************************)
(* Proofs about the question loop.                                         *)
(*                                                                         *)
(* Every batch and every dispatched command makes the stream longer and    *)
(* leaves what was accepted as it is, so a state read at the sequence that *)
(* is still current is the current state: answers decided on such a        *)
(* reading are lawful where they are appended, and a plan made at that     *)
(* sequence is still the scheduler's verdict.  Plans that were overtaken   *)
(* are bounded by counting the callers that hold one.                      *)
(***************************************************************************)
EXTENDS ManualInquiry, FiniteSetTheorems, WellFoundedInduction, TLAPS

(* What a step may do to the state: the stream gets longer, and of the     *)
(* requests that are there, none goes or changes its obligation, and once  *)
(* an attempt of one is accepted, neither that nor the attempt changes.    *)
Moves(q, r) ==
    /\ r.obligation = q.obligation
    /\ q.accepted # 0 => /\ r.accepted = q.accepted
                         /\ r.attempts[q.accepted] = q.attempts[q.accepted]
Extends(t, s) ==
    /\ t.sequence > s.sequence
    /\ Len(t.requests) >= Len(s.requests)
    /\ \A k \in DOMAIN s.requests : Moves(s.requests[k], t.requests[k])

(* The accepted attempt of a request was decoded, so nothing ends it. *)
RequestIsSound(r) ==
    /\ Len(r.attempts) >= 1
    /\ r.accepted # 0 => /\ r.accepted \in DOMAIN r.attempts
                         /\ r.attempts[r.accepted].status = "decoded"

(* A state in which whatever is satisfied has evidence. *)
StateIsSound(s) ==
    /\ s \in InquiryState
    /\ \A k \in DOMAIN s.requests : RequestIsSound(s.requests[k])
    /\ \A o \in Obligations : StatusOf(s, o) = "satisfied" => HasEvidence(s, o)

KeepsEvidence(t, s) == \A o \in Obligations : HasEvidence(s, o) => HasEvidence(t, o)

Plans == [status : {"ready"}, obligation : Obligations, at : Nat]

(* A reading v of the stream, now in state s, is a state of its past, and  *)
(* the present one if nothing was appended since.                          *)
IsReadingOf(v, s) ==
    /\ v \in InquiryState
    /\ v.sequence <= s.sequence
    /\ v.sequence = s.sequence => v = s

(* A plan that is the scheduler's verdict on state s, with nothing pending *)
(* and no return waiting.                                                  *)
PlanIsCurrent(plan, s) ==
    /\ Unresolved(s, {"started", "returned", "decoded"}) = {}
    /\ plan = Schedule(s)

(* A plan made at the present sequence is current. *)
PlanIsSound(plan, s) ==
    /\ plan \in Plans
    /\ plan.at <= s.sequence
    /\ plan.at = s.sequence => PlanIsCurrent(plan, s)

IsPlanning(c) == c.pc \in {"plan_rebuild", "plan_append"}

(* A call c in progress while the inquiry is in state s. *)
CallIsSound(c, s) ==
    /\ c \in Calls
    /\ c.pc \in Busy => c.left >= 1
    /\ c.pc \in {"inspect", "reinspect", "answer_rebuild", "answer_append"} => c.op = "submit"
    /\ c.pc \in Busy /\ c.op = "submit" => c.answer \in Answers
    /\ IsPlanning(c) => PlanIsSound(c.plan, s)
    /\ c.pc \in {"plan_append", "answer_append"} => IsReadingOf(c.view, s)
    /\ c.pc = "answer_rebuild" => c.target \in DOMAIN s.requests
    /\ c.pc = "answer_append" => c.target \in DOMAIN c.view.requests

(* What was acknowledged stands in state s. *)
Stands(a, s) ==
    /\ a \in [request : Nat, answer : Answers]
    /\ a.request \in Resolved(s)
    /\ AcceptedAnswer(s, a.request) = a.answer

CountersTyped == calls \in 0..MaxCalls /\ dispatches \in 0..MaxDispatches

(* The inductive invariant. *)
IInv ==
    /\ StateIsSound(inquiry)
    /\ call \in [Users -> Calls]
    /\ \A u \in Users : CallIsSound(call[u], inquiry)
    /\ \A a \in acknowledged : Stands(a, inquiry)
    /\ CountersTyped

(* The callers that hold a plan about an obligation, and what they and the *)
(* questions asked so far add up to: once the limit is reached, no caller  *)
(* makes another such plan.                                                *)
Holders(c, o) == {u \in Users : IsPlanning(c[u]) /\ c[u].plan.obligation = o}
Asked(s, o) == Cardinality(RequestsAbout(s, o))
BoundInv ==
    \A o \in Obligations :
        \/ Asked(inquiry, o) < MaxAttempts
        \/ Asked(inquiry, o) + Cardinality(Holders(call, o)) < MaxAttempts + Cardinality(Users)

(* What one caller alone can rely on: nothing comes between its plan and   *)
(* the batch.                                                              *)
AloneInv == \A u \in Users : IsPlanning(call[u]) => call[u].plan.at = inquiry.sequence

------------------------------------------------------------------------------
(* Least elements. *)

(* A set of numbers with a member has a least one.                         *)
LEMMA LeastNatural ==
    ASSUME NEW T \in SUBSET Nat, NEW x \in T
    PROVE  \E n \in T : \A m \in T : n <= m
<1> DEFINE R == OpToRel(<, Nat)
<1>1. PICK n \in T : \A m \in T : <<m, n>> \notin R
  <2>1. IsWellFoundedOn(R, Nat)
    BY NatLessThanWellFounded
  <2> HIDE DEF R
  <2> QED  BY <2>1, WFMin
<1>2. \A m \in T : ~ (m < n)
  BY <1>1 DEF OpToRel
<1> QED  BY <1>2

(* The parts of a state. *)
LEMMA StateFields ==
    ASSUME NEW s \in InquiryState
    PROVE  /\ s.sequence \in Nat
           /\ s.obligations \in Seq(Obligations)
           /\ s.history \in [Obligations -> Seq(Status)]
           /\ s.requests \in Seq(Request)
           /\ s.warranted \subseteq Checked
           /\ Len(s.requests) \in Nat
           /\ DOMAIN s.requests = 1..Len(s.requests)
           /\ \A k \in DOMAIN s.requests : s.requests[k] \in Request
BY DEF InquiryState

(* The first pending request is pending.                                   *)
LEMMA FirstPendingIsPending ==
    ASSUME NEW s \in InquiryState, Pending(s) # {}
    PROVE  FirstPending(s) \in Pending(s) /\ FirstPending(s) \in DOMAIN s.requests
<1>1. Pending(s) \in SUBSET Nat /\ Pending(s) \subseteq DOMAIN s.requests
  BY StateFields DEF Pending, Unresolved
<1>2. \E k \in Pending(s) : \A j \in Pending(s) : k <= j
  BY <1>1, LeastNatural
<1> QED  BY <1>1, <1>2 DEF FirstPending

(* One of the ready obligations comes before all others: the oldest of     *)
(* those with the least rank.                                              *)
LEMMA ReadyHasFirst ==
    ASSUME NEW s \in InquiryState, ReadyEntries(s) # {}
    PROVE  \E o \in ReadyEntries(s) : \A p \in ReadyEntries(s) \ {o} : Before(s, o, p)
<1> DEFINE ready == ReadyEntries(s)
           ranks == {Rank[o] : o \in ready}
<1>1. ready \subseteq Obligations /\ ready \subseteq Opened(s)
  BY StateFields DEF ReadyEntries, OpenEntries, Entries, Opened
<1>2. ranks \in SUBSET Nat
  BY <1>1, ManualAssumption
<1>3. PICK x \in ranks : \A m \in ranks : x <= m
  <2>1. PICK r : r \in ranks
    OBVIOUS
  <2> HIDE DEF ranks
  <2> QED  BY <1>2, <2>1, LeastNatural
<1> DEFINE places == {i \in DOMAIN s.obligations :
                        s.obligations[i] \in ready /\ Rank[s.obligations[i]] = x}
<1>4. places \in SUBSET Nat
  BY StateFields
<1>5. PICK i \in places : \A j \in places : i <= j
  <2>1. PICK o \in ready : Rank[o] = x
    BY <1>3
  <2>2. PICK k \in DOMAIN s.obligations : s.obligations[k] = o
    BY <1>1, <2>1 DEF Opened
  <2>3. k \in places
    BY <2>1, <2>2
  <2> HIDE DEF places
  <2> QED  BY <1>4, <2>3, LeastNatural
<1> DEFINE o == s.obligations[i]
<1>6. o \in ready /\ Rank[o] = x /\ i \in DOMAIN s.obligations
  BY <1>5
<1>7. ASSUME NEW p \in ready \ {o}  PROVE Before(s, o, p)
  <2>1. x <= Rank[p] /\ x \in Nat /\ Rank[p] \in Nat
    BY <1>2, <1>3
  <2>2. CASE Rank[p] = x
    <3>1. PICK j \in DOMAIN s.obligations : s.obligations[j] = p
      BY <1>1 DEF Opened
    <3>2. j \in places /\ j # i
      BY <1>6, <1>7, <2>2, <3>1
    <3>3. i < j
      BY <1>4, <1>5, <3>2
    <3> QED  BY <1>6, <2>2, <3>1, <3>3 DEF Before, CreatedBefore
  <2>3. CASE Rank[p] # x
    BY <1>6, <2>1, <2>3 DEF Before
  <2> QED  BY <2>2, <2>3
<1> QED  BY <1>6, <1>7

(* What a ready plan says of the state it was made on: the obligation may  *)
(* be asked about and the events of the batch fit the budget.              *)
LEMMA ReadyPlan ==
    ASSUME NEW s \in InquiryState, Schedule(s).status = "ready"
    PROVE  /\ Schedule(s) \in Plans
           /\ Schedule(s).obligation \in ReadyEntries(s)
           /\ s.sequence + ReadyCost <= Budget
<1> DEFINE first == CHOOSE o \in ReadyEntries(s) :
                        \A p \in ReadyEntries(s) \ {o} : Before(s, o, p)
<1>1. /\ ~ (s.sequence >= Budget)
      /\ ReadyEntries(s) # {}
      /\ ~ (Budget - s.sequence < ReadyCost)
      /\ Schedule(s) = Plan("ready", first, s)
  BY DEF Schedule, Plan
<1>2. first \in ReadyEntries(s)
  BY <1>1, ReadyHasFirst
<1> HIDE DEF first
<1>3. first \in Obligations
  BY <1>2, StateFields DEF ReadyEntries, OpenEntries, Entries, Opened
<1>4. s.sequence \in Nat /\ Budget \in Nat
  BY StateFields, ManualAssumption
<1> QED  BY <1>1, <1>2, <1>3, <1>4 DEF Plan, Plans, ReadyCost

------------------------------------------------------------------------------
(* The loop that opens obligations. *)

(* Induction up to a bound, for a property given by the numbers that have  *)
(* it: by its least counterexample.                                        *)
LEMMA BoundedInduction ==
    ASSUME NEW bound \in Nat, NEW Good,
           0 \in Good,
           \A n \in Nat : n < bound /\ n \in Good => n + 1 \in Good
    PROVE  bound \in Good
<1> SUFFICES ASSUME bound \notin Good  PROVE FALSE
  OBVIOUS
<1> DEFINE Bad == {n \in 0..bound : n \notin Good}
<1>1. PICK n \in Bad : \A m \in Bad : n <= m
  <2>1. Bad \in SUBSET Nat /\ bound \in Bad
    OBVIOUS
  <2> HIDE DEF Bad
  <2> QED  BY <2>1, LeastNatural
<1>2. n - 1 \in Nat /\ n - 1 < bound /\ n = (n - 1) + 1
  BY <1>1
<1>3. n - 1 \in Good
  BY <1>1, <1>2
<1> QED  BY <1>1, <1>2, <1>3

(* One turn of the loop, from the table d of what was new before it.       *)
Turn(s, list, d, i) ==
    IF i = 0 THEN << >>
    ELSE IF list[i] \in Opened(s) \cup {d[i - 1][j] : j \in DOMAIN d[i - 1]}
         THEN d[i - 1]
         ELSE Append(d[i - 1], list[i])

(* The recursion has a solution.                                           *)
LEMMA LoopExists ==
    ASSUME NEW s, NEW list \in Seq(Obligations)
    PROVE  \E d : d = [i \in 0..Len(list) |-> Turn(s, list, d, i)]
<1> DEFINE Loop(n) == \E d : d = [i \in 0..n |-> Turn(s, list, d, i)]
           Good == {n \in Nat : Loop(n)}
<1>1. 0 \in Good
  <2> DEFINE e == [i \in 0..0 |-> << >>]
  <2>1. e = [i \in 0..0 |-> Turn(s, list, e, i)]
    BY DEF Turn
  <2> QED  BY <2>1
<1>2. ASSUME NEW n \in Nat, n \in Good  PROVE n + 1 \in Good
  <2>1. PICK d : d = [i \in 0..n |-> Turn(s, list, d, i)]
    BY <1>2
  <2> DEFINE e == [i \in 0..(n + 1) |-> IF i = n + 1 THEN Turn(s, list, d, n + 1) ELSE d[i]]
  <2>2. /\ e = [i \in 0..(n + 1) |-> e[i]]
        /\ \A i \in 0..n : e[i] = d[i]
        /\ e[n + 1] = Turn(s, list, d, n + 1)
    OBVIOUS
  <2> HIDE DEF e
  <2>3. \A i \in 0..(n + 1) : e[i] = Turn(s, list, e, i)
    <3> SUFFICES ASSUME NEW i \in 0..(n + 1)  PROVE e[i] = Turn(s, list, e, i)
      OBVIOUS
    <3>1. CASE i = n + 1
      <4>1. i # 0 /\ i - 1 = n /\ n \in 0..n
        BY <3>1
      <4>2. e[i - 1] = d[n]
        BY <4>1, <2>2
      <4> QED  BY <3>1, <4>1, <4>2, <2>2 DEF Turn
    <3>2. CASE i \in 0..n
      <4>1. d[i] = Turn(s, list, d, i)
        BY <2>1, <3>2
      <4>2. i # 0 => i - 1 \in 0..n
        BY <3>2
      <4> QED  BY <4>1, <4>2, <2>2, <3>2 DEF Turn
    <3> QED  BY <3>1, <3>2
  <2>4. e = [i \in 0..(n + 1) |-> Turn(s, list, e, i)]
    BY <2>2, <2>3
  <2> QED  BY <2>4
<1>3. Len(list) \in Nat
  OBVIOUS
<1>4. Len(list) \in Good
  <2> HIDE DEF Good
  <2> QED  BY <1>1, <1>2, <1>3, BoundedInduction
<1> QED  BY <1>4

(* What the loop opens is a sequence of obligations.                       *)
LEMMA NewObligationsTyped ==
    ASSUME NEW s, NEW list \in Seq(Obligations)
    PROVE  NewObligations(s, list) \in Seq(Obligations)
<1> DEFINE d == CHOOSE d : d = [i \in 0..Len(list) |-> Turn(s, list, d, i)]
           Good == {n \in Nat : n <= Len(list) => d[n] \in Seq(Obligations)}
<1>1. NewObligations(s, list) = d[Len(list)]
  BY DEF NewObligations, Turn
<1>2. d = [i \in 0..Len(list) |-> Turn(s, list, d, i)]
  BY LoopExists
<1> HIDE DEF d
<1>3. Len(list) \in Nat
  OBVIOUS
<1>4. \A i \in 0..Len(list) : d[i] = Turn(s, list, d, i)
  BY <1>2
<1>5. 0 \in Good
  <2>1. d[0] = << >>
    BY <1>3, <1>4 DEF Turn
  <2>2. d[0] \in Seq(Obligations)
    BY <2>1
  <2> QED  BY <2>2
<1>6. ASSUME NEW n \in Nat, n < Len(list), n \in Good  PROVE n + 1 \in Good
  <2>1. d[n] \in Seq(Obligations) /\ list[n + 1] \in Obligations
    BY <1>3, <1>6
  <2>2. n + 1 \in 0..Len(list) /\ n + 1 # 0 /\ (n + 1) - 1 = n
    BY <1>3, <1>6
  <2>3. d[n + 1] = d[n] \/ d[n + 1] = Append(d[n], list[n + 1])
    BY <1>4, <2>2 DEF Turn
  <2>4. Append(d[n], list[n + 1]) \in Seq(Obligations)
    BY <2>1
  <2>5. d[n + 1] \in Seq(Obligations)
    BY <2>1, <2>3, <2>4
  <2> QED  BY <2>5
<1>7. Len(list) \in Good
  <2> HIDE DEF Good
  <2> QED  BY <1>3, <1>5, <1>6, BoundedInduction
<1> QED  BY <1>1, <1>3, <1>7

(* Opening obligations leaves the rest of the state alone.                 *)
LEMMA OpenTyped ==
    ASSUME NEW s \in InquiryState, NEW list \in Seq(Obligations)
    PROVE  /\ Open(s, list) \in InquiryState
           /\ Open(s, list).sequence = s.sequence
           /\ Open(s, list).history = s.history
           /\ Open(s, list).requests = s.requests
           /\ Open(s, list).warranted = s.warranted
<1> DEFINE new == NewObligations(s, list)
<1>1. new \in Seq(Obligations)
  BY NewObligationsTyped
<1> HIDE DEF new
<1>2. s.obligations \o new \in Seq(Obligations)
  BY <1>1, StateFields
<1>3. Open(s, list) = [s EXCEPT !.obligations = s.obligations \o new]
  BY DEF Open, new
<1> QED  BY <1>2, <1>3 DEF InquiryState

------------------------------------------------------------------------------
(* What each batch and command makes of a state. *)

(* What was accepted stays accepted, so evidence stays.                    *)
LEMMA ExtensionKeepsEvidence ==
    ASSUME NEW s \in InquiryState, NEW t \in InquiryState, Extends(t, s),
           s.warranted \subseteq t.warranted
    PROVE  KeepsEvidence(t, s)
<1> SUFFICES ASSUME NEW o \in Obligations, HasEvidence(s, o)  PROVE HasEvidence(t, o)
  BY DEF KeepsEvidence
<1>1. ASSUME NEW k \in AcceptedDecodes(s, o)  PROVE k \in AcceptedDecodes(t, o)
  <2>1. k \in DOMAIN s.requests /\ k \in DOMAIN t.requests
    BY <1>1, StateFields DEF AcceptedDecodes, Resolved, Extends
  <2> QED  BY <1>1, <2>1 DEF AcceptedDecodes, Resolved, RequestsAbout, Extends, Moves
<1> QED  BY <1>1 DEF HasEvidence

(* A request that is changed in place.                                     *)
LEMMA RequestChanges ==
    ASSUME NEW s, StateIsSound(s), NEW k \in DOMAIN s.requests, NEW r \in Request,
           Moves(s.requests[k], r), RequestIsSound(r),
           NEW t \in InquiryState, t.sequence > s.sequence, t.warranted = s.warranted,
           t.requests = [s.requests EXCEPT ![k] = r]
    PROVE  /\ Extends(t, s)
           /\ \A j \in DOMAIN t.requests : RequestIsSound(t.requests[j])
           /\ KeepsEvidence(t, s)
<1>0. s \in InquiryState
  BY DEF StateIsSound
<1>1. /\ DOMAIN t.requests = DOMAIN s.requests /\ Len(t.requests) = Len(s.requests)
      /\ t.requests[k] = r
      /\ \A j \in DOMAIN s.requests : j # k => t.requests[j] = s.requests[j]
  BY <1>0, StateFields
<1>2. \A j \in DOMAIN s.requests : Moves(s.requests[j], t.requests[j])
  BY <1>1 DEF Moves
<1>3. Extends(t, s)
  BY <1>0, <1>1, <1>2, StateFields DEF Extends
<1>4. \A j \in DOMAIN t.requests : RequestIsSound(t.requests[j])
  BY <1>1 DEF StateIsSound
<1>5. KeepsEvidence(t, s)
  BY <1>0, <1>3, ExtensionKeepsEvidence
<1> QED  BY <1>3, <1>4, <1>5

(* Where the history and the evidence stay, satisfaction is sound.         *)
LEMMA EvidenceStays ==
    ASSUME NEW s, NEW t \in InquiryState, StateIsSound(s),
           t.history = s.history, KeepsEvidence(t, s),
           \A k \in DOMAIN t.requests : RequestIsSound(t.requests[k])
    PROVE  StateIsSound(t)
<1>1. ASSUME NEW o \in Obligations  PROVE StatusOf(t, o) = StatusOf(s, o)
  BY DEF StatusOf
<1> QED  BY <1>1 DEF StateIsSound, KeepsEvidence

(* The request a plan leads to.                                            *)
Question(plan) ==
    [at |-> plan.at, obligation |-> plan.obligation, attempts |-> <<Started>>, accepted |-> 0]

LEMMA QuestionTyped ==
    ASSUME NEW plan \in Plans
    PROVE  /\ Question(plan) \in Request
           /\ Question(plan).obligation = plan.obligation /\ Question(plan).at = plan.at
           /\ Question(plan).attempts = <<Started>> /\ Question(plan).accepted = 0
           /\ DOMAIN Question(plan).attempts = {1}
           /\ RequestIsSound(Question(plan))
<1>1. Started \in Attempt
  BY DEF Started, Attempt, AttemptStatus
<1>2. <<Started>> \in Seq(Attempt) /\ Len(<<Started>>) = 1 /\ DOMAIN <<Started>> = {1}
  BY <1>1
<1> QED  BY <1>2 DEF Plans, Request, Question, RequestIsSound

(* The batch of step().                                                    *)
LEMMA ApplyPlanIsSound ==
    ASSUME NEW s, StateIsSound(s), NEW plan \in Plans
    PROVE  /\ StateIsSound(ApplyPlan(s, plan))
           /\ Extends(ApplyPlan(s, plan), s)
           /\ ApplyPlan(s, plan).sequence = s.sequence + ReadyCost
           /\ ApplyPlan(s, plan).requests = Append(s.requests, Question(plan))
<1> DEFINE r == Question(plan)
           t == ApplyPlan(s, plan)
<1>1. s \in InquiryState
  BY DEF StateIsSound
<1>2. r \in Request /\ RequestIsSound(r)
  BY QuestionTyped
<1>3. t = [s EXCEPT !.sequence = s.sequence + ReadyCost, !.requests = Append(s.requests, r)]
  BY DEF ApplyPlan, Question
<1> HIDE DEF r, t
<1>4. s.sequence + ReadyCost \in Nat /\ s.sequence + ReadyCost > s.sequence
  BY <1>1, StateFields DEF ReadyCost
<1>5. Append(s.requests, r) \in Seq(Request)
  BY <1>1, <1>2, StateFields
<1>6. /\ t \in InquiryState
      /\ t.sequence = s.sequence + ReadyCost
      /\ t.history = s.history /\ t.warranted = s.warranted
      /\ t.requests = Append(s.requests, r)
  BY <1>1, <1>3, <1>4, <1>5 DEF InquiryState
<1>7. /\ Len(t.requests) = Len(s.requests) + 1
      /\ \A k \in DOMAIN s.requests : t.requests[k] = s.requests[k]
      /\ \A k \in DOMAIN t.requests : k \in DOMAIN s.requests \/ t.requests[k] = r
  BY <1>1, <1>2, <1>6, StateFields
<1>8. Extends(t, s)
  BY <1>1, <1>4, <1>6, <1>7, StateFields DEF Extends, Moves
<1>9. KeepsEvidence(t, s)
  BY <1>1, <1>6, <1>8, ExtensionKeepsEvidence
<1>10. \A k \in DOMAIN t.requests : RequestIsSound(t.requests[k])
  BY <1>2, <1>7 DEF StateIsSound
<1>11. StateIsSound(t)
  BY <1>6, <1>9, <1>10, EvidenceStays
<1> QED  BY <1>6, <1>8, <1>11 DEF t, r

(* Request k is the one that t has accepted with this answer.              *)
AcceptedIn(t, s, k, answer) ==
    /\ DOMAIN t.requests = DOMAIN s.requests /\ Len(t.requests) = Len(s.requests)
    /\ k \in Resolved(t) /\ AcceptedAnswer(t, k) = answer

(* The request k of s once its first attempt is answered.                  *)
Answered(q, answer) ==
    [q EXCEPT !.attempts[1] = [status |-> "decoded", answer |-> answer], !.accepted = 1]

LEMMA AnsweredTyped ==
    ASSUME NEW q \in Request, RequestIsSound(q), q.accepted = 0, NEW answer \in Answers
    PROVE  /\ Answered(q, answer) \in Request
           /\ RequestIsSound(Answered(q, answer)) /\ Moves(q, Answered(q, answer))
           /\ Answered(q, answer).obligation = q.obligation
           /\ Answered(q, answer).accepted = 1
           /\ Answered(q, answer).attempts[1].answer = answer
<1> DEFINE a == [status |-> "decoded", answer |-> answer]
           list == [q.attempts EXCEPT ![1] = a]
<1>1. a \in Attempt /\ a.status = "decoded" /\ a.answer = answer
  BY DEF Attempt, AttemptStatus
<1>2. q.attempts \in Seq(Attempt) /\ 1 \in DOMAIN q.attempts
  BY DEF Request, RequestIsSound
<1> HIDE DEF a
<1>3. /\ list \in Seq(Attempt) /\ DOMAIN list = DOMAIN q.attempts
      /\ Len(list) = Len(q.attempts) /\ list[1] = a
  BY <1>1, <1>2
<1>4. Answered(q, answer) = [q EXCEPT !.attempts = list, !.accepted = 1]
  BY DEF Answered, a
<1> HIDE DEF list
<1>5. PICK r : r = [q EXCEPT !.attempts = list, !.accepted = 1]
  OBVIOUS
<1>6. /\ r \in Request /\ r.obligation = q.obligation /\ r.accepted = 1
      /\ r.attempts = list
  BY <1>3, <1>5 DEF Request
<1>7. RequestIsSound(r) /\ Moves(q, r) /\ r.attempts[1].answer = answer
  BY <1>1, <1>2, <1>3, <1>6 DEF RequestIsSound, Moves
<1> QED  BY <1>4, <1>5, <1>6, <1>7

(* The batch of submit_answer.                                             *)
LEMMA ApplyAnswerIsSound ==
    ASSUME NEW s, StateIsSound(s), NEW k \in DOMAIN s.requests, LawfulAnswer(s, k),
           NEW answer \in Answers
    PROVE  /\ StateIsSound(ApplyAnswer(s, k, answer))
           /\ Extends(ApplyAnswer(s, k, answer), s)
           /\ AcceptedIn(ApplyAnswer(s, k, answer), s, k, answer)
<1> DEFINE o == s.requests[k].obligation
           r == Answered(s.requests[k], answer)
           h == Append(s.history[o], "satisfied")
           settled == [s EXCEPT !.requests[k].attempts[1] =
                                    [status |-> "decoded", answer |-> answer],
                                !.requests[k].accepted = 1,
                                !.history[o] = Append(@, "satisfied")]
           admitted == Open(settled, Derives[o])
           opened == Open(admitted, Downstream[o])
           n == Len(NewObligations(admitted, Downstream[o]))
           t == ApplyAnswer(s, k, answer)
<1>1. /\ s \in InquiryState /\ s.requests[k] \in Request /\ o \in Obligations
      /\ RequestIsSound(s.requests[k]) /\ s.requests[k].accepted = 0
  BY StateFields DEF StateIsSound, Request, LawfulAnswer
<1>2. /\ r \in Request /\ RequestIsSound(r) /\ Moves(s.requests[k], r)
      /\ r.obligation = o /\ r.accepted = 1 /\ r.attempts[1].answer = answer
  BY <1>1, AnsweredTyped
<1>3. h \in Seq(Status)
  <2>1. s.history[o] \in Seq(Status) /\ "satisfied" \in Status
    BY <1>1, StateFields DEF Status
  <2> QED  BY <2>1
<1>4. settled = [s EXCEPT !.requests = [s.requests EXCEPT ![k] = r],
                          !.history = [s.history EXCEPT ![o] = h]]
  <2>1. [s.requests[k] EXCEPT !.attempts[1] = [status |-> "decoded", answer |-> answer],
                              !.accepted = 1] = r
    BY DEF Answered
  <2> QED  BY <1>1, <2>1, StateFields DEF InquiryState
<1>5. t = [opened EXCEPT !.sequence = opened.sequence + 5 + n]
  BY DEF ApplyAnswer
<1>6. Derives[o] \in Seq(Obligations) /\ Downstream[o] \in Seq(Obligations)
  BY <1>1, ManualAssumption
<1> HIDE DEF o, r, h, settled, t
<1>7. /\ [s.requests EXCEPT ![k] = r] \in Seq(Request)
      /\ [s.history EXCEPT ![o] = h] \in [Obligations -> Seq(Status)]
  BY <1>1, <1>2, <1>3, StateFields
<1>8. /\ settled \in InquiryState
      /\ settled.requests = [s.requests EXCEPT ![k] = r]
      /\ settled.history = [s.history EXCEPT ![o] = h]
      /\ settled.sequence = s.sequence /\ settled.warranted = s.warranted
  BY <1>1, <1>4, <1>7 DEF InquiryState
<1>9. /\ admitted \in InquiryState /\ admitted.requests = settled.requests
      /\ admitted.history = settled.history /\ admitted.sequence = s.sequence
      /\ admitted.warranted = s.warranted
  BY <1>6, <1>8, OpenTyped
<1> HIDE DEF admitted
<1>10. /\ opened \in InquiryState /\ opened.requests = settled.requests
       /\ opened.history = settled.history /\ opened.sequence = s.sequence
       /\ opened.warranted = s.warranted
  BY <1>6, <1>9, OpenTyped
<1>11. n \in Nat
  BY <1>6, NewObligationsTyped
<1> HIDE DEF opened, n
<1>12. /\ t \in InquiryState
       /\ t.requests = [s.requests EXCEPT ![k] = r]
       /\ t.history = [s.history EXCEPT ![o] = h]
       /\ t.sequence > s.sequence /\ t.warranted = s.warranted
  <2>1. s.sequence \in Nat
    BY <1>1, StateFields
  <2>2. opened.sequence + 5 + n \in Nat /\ opened.sequence + 5 + n > s.sequence
    BY <1>10, <1>11, <2>1
  <2> QED  BY <1>5, <1>8, <1>10, <2>2 DEF InquiryState
<1>13. /\ Extends(t, s) /\ KeepsEvidence(t, s)
       /\ \A j \in DOMAIN t.requests : RequestIsSound(t.requests[j])
  BY <1>2, <1>12, RequestChanges
<1>14. /\ DOMAIN t.requests = DOMAIN s.requests /\ Len(t.requests) = Len(s.requests)
       /\ t.requests[k] = r
  BY <1>1, <1>12, StateFields
<1>15. HasEvidence(t, o)
  BY <1>2, <1>14 DEF HasEvidence, AcceptedDecodes, RequestsAbout, Resolved
<1>16. \A p \in Obligations : p # o => StatusOf(t, p) = StatusOf(s, p)
  BY <1>1, <1>12, StateFields DEF StatusOf
<1>17. StateIsSound(t)
  BY <1>12, <1>13, <1>15, <1>16 DEF StateIsSound, KeepsEvidence
<1>18. AcceptedIn(t, s, k, answer)
  BY <1>2, <1>14 DEF AcceptedIn, Resolved, AcceptedAnswer
<1> QED  BY <1>13, <1>17, <1>18 DEF t

(* A dispatched command is one more event on the state it leads to.        *)
LEMMA OneMoreEvent ==
    ASSUME NEW s \in InquiryState, NEW t \in InquiryState, t.sequence = s.sequence
    PROVE  LET u == [t EXCEPT !.sequence = @ + 1] IN
           /\ u \in InquiryState
           /\ u.sequence > s.sequence
           /\ u.obligations = t.obligations
           /\ u.history = t.history
           /\ u.requests = t.requests
           /\ u.warranted = t.warranted
<1>1. t.sequence + 1 \in Nat /\ t.sequence + 1 > s.sequence
  BY StateFields
<1> QED  BY <1>1 DEF InquiryState

(* A state with the same requests and a longer stream.                     *)
LEMMA SameRequests ==
    ASSUME NEW s, StateIsSound(s), NEW t \in InquiryState,
           t.requests = s.requests, t.sequence > s.sequence,
           s.warranted \subseteq t.warranted
    PROVE  /\ Extends(t, s) /\ KeepsEvidence(t, s)
           /\ \A k \in DOMAIN t.requests : RequestIsSound(t.requests[k])
<1>1. s \in InquiryState
  BY DEF StateIsSound
<1>2. Extends(t, s)
  BY <1>1, StateFields DEF Extends, Moves
<1>3. KeepsEvidence(t, s)
  BY <1>1, <1>2, ExtensionKeepsEvidence
<1> QED  BY <1>2, <1>3 DEF StateIsSound

(* OpenObligation by dispatch.                                             *)
LEMMA OpenIsSound ==
    ASSUME NEW s, StateIsSound(s), NEW o \in Obligations
    PROVE  LET u == [Open(s, <<o>>) EXCEPT !.sequence = @ + 1] IN
           StateIsSound(u) /\ Extends(u, s) /\ u.requests = s.requests
<1> DEFINE t == Open(s, <<o>>)
           u == [t EXCEPT !.sequence = @ + 1]
<1>1. s \in InquiryState
  BY DEF StateIsSound
<1>2. /\ t \in InquiryState /\ t.sequence = s.sequence /\ t.warranted = s.warranted
      /\ t.history = s.history /\ t.requests = s.requests
  <2>1. <<o>> \in Seq(Obligations)
    OBVIOUS
  <2> QED  BY <1>1, <2>1, OpenTyped
<1> HIDE DEF t
<1>3. /\ u \in InquiryState /\ u.sequence > s.sequence /\ u.warranted = s.warranted
      /\ u.history = s.history /\ u.requests = s.requests
  BY <1>1, <1>2, OneMoreEvent
<1> HIDE DEF u
<1>4. /\ Extends(u, s) /\ KeepsEvidence(u, s)
      /\ \A k \in DOMAIN u.requests : RequestIsSound(u.requests[k])
  BY <1>3, SameRequests
<1>5. StateIsSound(u)
  BY <1>3, <1>4, EvidenceStays
<1> QED  BY <1>3, <1>4, <1>5 DEF u, t

(* EvaluateWarrant by dispatch.                                            *)
LEMMA WarrantIsSound ==
    ASSUME NEW s, StateIsSound(s), NEW p \in Checked
    PROVE  LET u == [[s EXCEPT !.warranted = @ \cup {p}] EXCEPT !.sequence = @ + 1] IN
           StateIsSound(u) /\ Extends(u, s) /\ u.requests = s.requests
<1> DEFINE t == [s EXCEPT !.warranted = @ \cup {p}]
           u == [t EXCEPT !.sequence = @ + 1]
<1>1. s \in InquiryState
  BY DEF StateIsSound
<1>2. /\ t \in InquiryState /\ t.sequence = s.sequence /\ t.warranted = s.warranted \cup {p}
      /\ t.history = s.history /\ t.requests = s.requests
  BY <1>1 DEF InquiryState
<1> HIDE DEF t
<1>3. /\ u \in InquiryState /\ u.sequence > s.sequence /\ s.warranted \subseteq u.warranted
      /\ u.history = s.history /\ u.requests = s.requests
  BY <1>1, <1>2, OneMoreEvent
<1> HIDE DEF u
<1>4. /\ Extends(u, s) /\ KeepsEvidence(u, s)
      /\ \A k \in DOMAIN u.requests : RequestIsSound(u.requests[k])
  BY <1>3, SameRequests
<1>5. StateIsSound(u)
  BY <1>3, <1>4, EvidenceStays
<1> QED  BY <1>3, <1>4, <1>5 DEF u, t

(* RecordObligationDisposition by dispatch.                                *)
LEMMA DispositionIsSound ==
    ASSUME NEW s, StateIsSound(s), NEW o \in Obligations,
           NEW status \in Status \cup {"impossible"},
           LawfulDisposition(s, o, status)
    PROVE  LET u == [[s EXCEPT !.history[o] = Append(@, status)] EXCEPT !.sequence = @ + 1] IN
           StateIsSound(u) /\ Extends(u, s) /\ u.requests = s.requests
<1> DEFINE h == Append(s.history[o], status)
           t == [s EXCEPT !.history[o] = Append(@, status)]
           u == [t EXCEPT !.sequence = @ + 1]
<1>1. s \in InquiryState
  BY DEF StateIsSound
<1>2. s.history[o] \in Seq(Status) /\ status \in Status
  BY <1>1, StateFields DEF LawfulDisposition, Status
<1>3. h \in Seq(Status) /\ h # << >> /\ Len(h) \in Nat /\ h[Len(h)] = status
  BY <1>2
<1>4. t = [s EXCEPT !.history = [s.history EXCEPT ![o] = h]]
  BY <1>1 DEF InquiryState
<1> HIDE DEF h, t
<1>5. [s.history EXCEPT ![o] = h] \in [Obligations -> Seq(Status)]
  BY <1>1, <1>3, StateFields
<1>6. /\ t \in InquiryState /\ t.sequence = s.sequence /\ t.warranted = s.warranted
      /\ t.history = [s.history EXCEPT ![o] = h] /\ t.requests = s.requests
  BY <1>1, <1>4, <1>5 DEF InquiryState
<1>7. /\ u \in InquiryState /\ u.sequence > s.sequence /\ u.warranted = s.warranted
      /\ u.history = [s.history EXCEPT ![o] = h] /\ u.requests = s.requests
  BY <1>1, <1>6, OneMoreEvent
<1> HIDE DEF u
<1>8. /\ Extends(u, s) /\ KeepsEvidence(u, s)
      /\ \A k \in DOMAIN u.requests : RequestIsSound(u.requests[k])
  BY <1>7, SameRequests
<1>9. /\ StatusOf(u, o) = status
      /\ \A p \in Obligations : p # o => StatusOf(u, p) = StatusOf(s, p)
  BY <1>1, <1>3, <1>7, StateFields DEF StatusOf
<1>10. status = "satisfied" => HasEvidence(s, o)
  BY DEF LawfulDisposition
<1>11. StateIsSound(u)
  BY <1>7, <1>8, <1>9, <1>10 DEF StateIsSound, KeepsEvidence
<1> QED  BY <1>7, <1>8, <1>11 DEF u, t

(* The commands that move a request on.                                    *)
LEMMA RequestCommandIsSound ==
    ASSUME NEW s, StateIsSound(s), NEW k \in DOMAIN s.requests, NEW r \in Request,
           Moves(s.requests[k], r), RequestIsSound(r),
           NEW u \in InquiryState, u.sequence > s.sequence, u.warranted = s.warranted,
           u.history = s.history, u.requests = [s.requests EXCEPT ![k] = r]
    PROVE  StateIsSound(u) /\ Extends(u, s)
<1>1. /\ Extends(u, s) /\ KeepsEvidence(u, s)
      /\ \A j \in DOMAIN u.requests : RequestIsSound(u.requests[j])
  BY RequestChanges
<1>2. StateIsSound(u)
  BY <1>1, EvidenceStays
<1> QED  BY <1>1, <1>2

------------------------------------------------------------------------------
(* What the calls and the acknowledged answers keep when the state moves.  *)

Follows(t, s) == t = s \/ Extends(t, s)

LEMMA CallStaysSound ==
    ASSUME NEW s \in InquiryState, NEW t \in InquiryState, Follows(t, s),
           NEW c, CallIsSound(c, s)
    PROVE  CallIsSound(c, t)
<1>1. CASE t = s
  BY <1>1
<1>2. CASE Extends(t, s)
  <2>1. t.sequence > s.sequence /\ t.sequence \in Nat /\ s.sequence \in Nat
    BY <1>2, StateFields DEF Extends
  <2>2. IsReadingOf(c.view, s) => IsReadingOf(c.view, t)
    <3> SUFFICES ASSUME IsReadingOf(c.view, s)  PROVE IsReadingOf(c.view, t)
      OBVIOUS
    <3>1. c.view \in InquiryState /\ c.view.sequence \in Nat /\ c.view.sequence <= s.sequence
      BY StateFields DEF IsReadingOf
    <3>2. c.view.sequence <= t.sequence /\ c.view.sequence # t.sequence
      BY <2>1, <3>1
    <3> QED  BY <3>1, <3>2 DEF IsReadingOf
  <2>3. PlanIsSound(c.plan, s) => PlanIsSound(c.plan, t)
    <3> SUFFICES ASSUME PlanIsSound(c.plan, s)  PROVE PlanIsSound(c.plan, t)
      OBVIOUS
    <3>1. c.plan \in Plans /\ c.plan.at \in Nat /\ c.plan.at <= s.sequence
      BY DEF PlanIsSound, Plans
    <3>2. c.plan.at <= t.sequence /\ c.plan.at # t.sequence
      BY <2>1, <3>1
    <3> QED  BY <3>1, <3>2 DEF PlanIsSound
  <2>4. c.target \in DOMAIN s.requests => c.target \in DOMAIN t.requests
    BY <1>2, StateFields DEF Extends
  <2> QED  BY <2>2, <2>3, <2>4 DEF CallIsSound
<1> QED  BY <1>1, <1>2 DEF Follows

LEMMA AnswerStays ==
    ASSUME NEW s \in InquiryState, NEW t \in InquiryState, Follows(t, s),
           NEW a, Stands(a, s)
    PROVE  Stands(a, t)
<1>1. CASE t = s
  BY <1>1
<1>2. CASE Extends(t, s)
  <2>1. a.request \in DOMAIN s.requests /\ a.request \in DOMAIN t.requests
    BY <1>2, StateFields DEF Extends, Stands, Resolved
  <2>2. Moves(s.requests[a.request], t.requests[a.request])
    BY <1>2, <2>1 DEF Extends
  <2> QED  BY <2>1, <2>2 DEF Moves, Stands, Resolved, AcceptedAnswer
<1> QED  BY <1>1, <1>2 DEF Follows

(* The shape of every step: one caller's call is replaced, and the state   *)
(* follows the one before it.                                              *)
LEMMA StepKeepsIInv ==
    ASSUME IInv, StateIsSound(inquiry'), Follows(inquiry', inquiry),
           NEW u \in Users, NEW c, call' = [call EXCEPT ![u] = c],
           CallIsSound(c, inquiry'),
           acknowledged' = acknowledged \/ \E a : /\ acknowledged' = acknowledged \cup {a}
                                                  /\ Stands(a, inquiry'),
           CountersTyped'
    PROVE  IInv'
<1>1. inquiry \in InquiryState /\ inquiry' \in InquiryState
  BY DEF IInv, StateIsSound
<1>2. call' \in [Users -> Calls]
  BY DEF IInv, CallIsSound
<1>3. ASSUME NEW v \in Users  PROVE CallIsSound(call'[v], inquiry')
  <2>1. CASE v = u
    BY <2>1 DEF IInv
  <2>2. CASE v # u
    <3>1. call'[v] = call[v] /\ CallIsSound(call[v], inquiry)
      BY <2>2 DEF IInv
    <3> QED  BY <1>1, <3>1, CallStaysSound
  <2> QED  BY <2>1, <2>2
<1>4. \A a \in acknowledged : Stands(a, inquiry')
  BY <1>1, AnswerStays DEF IInv
<1>5. \A a \in acknowledged' : Stands(a, inquiry')
  BY <1>4
<1> QED  BY <1>2, <1>3, <1>5 DEF IInv

------------------------------------------------------------------------------
(* The calls, step by step. *)

(* A call that holds no plan. *)
IsDone(c) == ~ IsPlanning(c)

LEMMA NoCallTyped == NoCall \in Calls
<1>1. RunSteps \in Nat /\ 0 \in 0..RunSteps /\ 0 \in Nat
  BY ManualAssumption
<1>2. "active" \in Results
  BY DEF Results
<1> QED  BY <1>1, <1>2 DEF NoCall, Calls

LEMMA RestingCall ==
    ASSUME NEW result \in Results \cup {"idle"}, NEW s
    PROVE  /\ CallIsSound([NoCall EXCEPT !.pc = result], s)
           /\ IsDone([NoCall EXCEPT !.pc = result])
<1> DEFINE c == [NoCall EXCEPT !.pc = result]
<1>1. /\ c.pc = result /\ c.op = "step" /\ c.answer = None /\ c.view = None
      /\ c.plan = None /\ c.target = 0 /\ c.got = "active" /\ c.left = 0 /\ c.last = 0
  BY DEF NoCall
<1>2. c \in Calls
  BY NoCallTyped DEF Calls
<1>3. result \notin Busy /\ result \notin {"inspect", "reinspect", "answer_rebuild",
                             "answer_append", "plan_rebuild", "plan_append"}
  BY DEF Results, Busy
<1> HIDE DEF c
<1>4. CallIsSound(c, s) /\ IsDone(c)
  BY <1>1, <1>2, <1>3 DEF CallIsSound, IsDone, IsPlanning
<1> QED  BY <1>4 DEF c

LEMMA EndRests ==
    ASSUME IInv, NEW u \in Users, NEW result \in Results, End(u, result), NEW s
    PROVE  \E c : call' = [call EXCEPT ![u] = c] /\ CallIsSound(c, s) /\ IsDone(c)
BY RestingCall DEF End

(* After a step(): the call ends, looks again, or makes another step.      *)
LEMMA StepEndsSoundly ==
    ASSUME IInv, NEW u \in Users, call[u].pc \in Busy,
           NEW status \in Results, NEW sequence \in Nat, StepEnds(u, status, sequence),
           NEW s
    PROVE  \E c : call' = [call EXCEPT ![u] = c] /\ CallIsSound(c, s) /\ IsDone(c)
<1> DEFINE old == call[u]
<1>1. /\ old \in Calls /\ call \in [Users -> Calls] /\ old.left >= 1
      /\ old.op = "submit" => old.answer \in Answers
  BY DEF IInv, CallIsSound
<1>2. old.op \in {"step", "run", "submit"}
  BY <1>1 DEF Calls
<1>3. CASE \E result \in Results : End(u, result)
  BY <1>3, EndRests
<1>4. CASE /\ old.op = "submit"
           /\ call' = [call EXCEPT ![u].pc = "reinspect", ![u].got = status]
  <2> DEFINE c == [old EXCEPT !.pc = "reinspect", !.got = status]
  <2>1. call' = [call EXCEPT ![u] = c]
    BY <1>1, <1>4
  <2>2. c \in Calls /\ c.pc = "reinspect" /\ c.op = old.op /\ c.left = old.left
        /\ c.answer = old.answer
    BY <1>1 DEF Calls, Busy
  <2> HIDE DEF c
  <2>3. CallIsSound(c, s) /\ IsDone(c)
    BY <1>1, <1>4, <2>2 DEF CallIsSound, IsDone, IsPlanning
  <2> QED  BY <2>1, <2>3
<1>5. CASE /\ old.op = "run" /\ old.left # 1
           /\ call' = [call EXCEPT ![u].pc = "step", ![u].last = sequence,
                                   ![u].left = @ - 1]
  <2> DEFINE c == [old EXCEPT !.pc = "step", !.last = sequence, !.left = @ - 1]
  <2>1. call' = [call EXCEPT ![u] = c]
    BY <1>1, <1>5
  <2>2. old.left \in 0..RunSteps /\ RunSteps \in Nat
    BY <1>1, ManualAssumption DEF Calls
  <2>3. old.left - 1 \in 0..RunSteps /\ old.left - 1 >= 1
    BY <1>1, <1>5, <2>2
  <2>4. c \in Calls /\ c.pc = "step" /\ c.op = old.op /\ c.left = old.left - 1
    BY <1>1, <2>3 DEF Calls, Busy
  <2> HIDE DEF c
  <2>5. CallIsSound(c, s) /\ IsDone(c)
    BY <1>5, <2>3, <2>4 DEF CallIsSound, IsDone, IsPlanning
  <2> QED  BY <2>1, <2>5
<1>6. "unknown" \in Results
  BY DEF Results
<1> QED  BY <1>2, <1>3, <1>4, <1>5, <1>6 DEF StepEnds

LEMMA UnchangedState ==
    ASSUME IInv, UNCHANGED <<inquiry, acknowledged, calls, dispatches>>
    PROVE  /\ StateIsSound(inquiry') /\ Follows(inquiry', inquiry)
           /\ acknowledged' = acknowledged /\ CountersTyped'
BY DEF IInv, Follows, CountersTyped

------------------------------------------------------------------------------
(* Counting questions and the callers that hold a plan. *)

(* There is one caller. *)
Alone == \A v, w \in Users : v = w

(* What QuestionsAreJustified says of a step. *)
StepIsJustified ==
    Len(inquiry'.requests) > Len(inquiry.requests) =>
        LET asked == inquiry'.requests[Len(inquiry'.requests)]
            o == asked.obligation IN
        asked.at = inquiry.sequence =>
            /\ Unresolved(inquiry, {"started", "returned", "decoded"}) = {}
            /\ Parents[o] \subseteq Completed(inquiry)
            /\ AttemptCount(inquiry', o) <= MaxAttempts
            /\ inquiry'.sequence <= Budget

(* A question that is asked was planned on the state it is recorded on. *)
StepIsFresh ==
    Len(inquiry'.requests) > Len(inquiry.requests) =>
        inquiry'.requests[Len(inquiry'.requests)].at = inquiry.sequence

(* What is shown of every step. *)
Kept ==
    /\ IInv'
    /\ StepIsJustified
    /\ BoundInv => BoundInv'
    /\ Alone /\ AloneInv => AloneInv' /\ StepIsFresh

(* Nothing new is asked. *)
SameQuestions(t, s) ==
    /\ Len(t.requests) = Len(s.requests)
    /\ \A k \in DOMAIN s.requests : t.requests[k].obligation = s.requests[k].obligation

(* The questions asked are finitely many, and so are the holders of plans. *)
LEMMA FiniteCounts ==
    ASSUME NEW s \in InquiryState, NEW c, NEW o
    PROVE  /\ IsFiniteSet(RequestsAbout(s, o)) /\ Asked(s, o) \in Nat
           /\ IsFiniteSet(Holders(c, o)) /\ Cardinality(Holders(c, o)) \in Nat
           /\ Cardinality(Users) \in Nat /\ MaxAttempts \in Nat
<1>1. IsFiniteSet(DOMAIN s.requests)
  BY StateFields, FS_Interval
<1>2. IsFiniteSet(RequestsAbout(s, o))
  <2>1. RequestsAbout(s, o) \in SUBSET DOMAIN s.requests
    BY DEF RequestsAbout
  <2> QED  BY <1>1, <2>1, FS_Subset
<1>3. IsFiniteSet(Users) /\ MaxAttempts \in Nat
  BY ManualAssumption
<1>4. IsFiniteSet(Holders(c, o))
  <2>1. Holders(c, o) \in SUBSET Users
    BY DEF Holders
  <2> QED  BY <1>3, <2>1, FS_Subset
<1> QED  BY <1>2, <1>3, <1>4, FS_CardinalityType DEF Asked

(* Where nothing is asked and no plan is made, the bound stays.            *)
LEMMA QuietKeepsBound ==
    ASSUME IInv, BoundInv, inquiry' \in InquiryState, SameQuestions(inquiry', inquiry),
           \A o \in Obligations : Holders(call', o) \subseteq Holders(call, o)
    PROVE  BoundInv'
<1> SUFFICES ASSUME NEW o \in Obligations
             PROVE  \/ Asked(inquiry', o) < MaxAttempts
                    \/ Asked(inquiry', o) + Cardinality(Holders(call', o))
                         < MaxAttempts + Cardinality(Users)
  BY DEF BoundInv
<1>1. inquiry \in InquiryState
  BY DEF IInv, StateIsSound
<1>2. Asked(inquiry', o) = Asked(inquiry, o)
  <2>1. DOMAIN inquiry'.requests = DOMAIN inquiry.requests
    BY <1>1, StateFields DEF SameQuestions
  <2>2. RequestsAbout(inquiry', o) = RequestsAbout(inquiry, o)
    BY <2>1 DEF RequestsAbout, SameQuestions
  <2> QED  BY <2>2 DEF Asked
<1>3. Cardinality(Holders(call', o)) <= Cardinality(Holders(call, o))
  <2>1. Holders(call', o) \in SUBSET Holders(call, o) /\ IsFiniteSet(Holders(call, o))
    BY <1>1, FiniteCounts
  <2> QED  BY <2>1, FS_Subset
<1>4. \/ Asked(inquiry, o) < MaxAttempts
      \/ Asked(inquiry, o) + Cardinality(Holders(call, o)) < MaxAttempts + Cardinality(Users)
  BY DEF BoundInv
<1>5. /\ Asked(inquiry, o) \in Nat /\ Cardinality(Holders(call, o)) \in Nat
      /\ Cardinality(Holders(call', o)) \in Nat
      /\ Cardinality(Users) \in Nat /\ MaxAttempts \in Nat
  BY <1>1, FiniteCounts
<1> QED  BY <1>2, <1>3, <1>4, <1>5

LEMMA NothingAsked ==
    ASSUME IInv, inquiry' \in InquiryState, SameQuestions(inquiry', inquiry)
    PROVE  StepIsJustified /\ StepIsFresh
BY StateFields DEF IInv, StateIsSound, StepIsJustified, StepIsFresh, SameQuestions

(* A step after which the caller holds no plan, and that asks nothing.     *)
LEMMA QuietStep ==
    ASSUME IInv, IInv', NEW u \in Users, NEW c, call' = [call EXCEPT ![u] = c], IsDone(c),
           SameQuestions(inquiry', inquiry)
    PROVE  Kept
<1>1. inquiry' \in InquiryState
  BY DEF IInv, StateIsSound
<1>2. \A o \in Obligations : Holders(call', o) \subseteq Holders(call, o)
  BY DEF Holders, IsDone, IInv
<1>3. BoundInv => BoundInv'
  BY <1>1, <1>2, QuietKeepsBound
<1>4. Alone => AloneInv'
  BY DEF Alone, AloneInv, IsDone, IInv
<1> QED  BY <1>1, <1>3, <1>4, NothingAsked DEF Kept

(* Every question has an attempt, so there are at least as many attempts.  *)
LEMMA AskedWithinAttempts ==
    ASSUME NEW s, StateIsSound(s), NEW o \in Obligations
    PROVE  /\ IsFiniteSet(AttemptsAbout(s, o))
           /\ AttemptCount(s, o) \in Nat
           /\ Asked(s, o) <= AttemptCount(s, o)
<1> DEFINE S == RequestsAbout(s, o)
           family == [k \in S |-> {k} \X DOMAIN s.requests[k].attempts]
           T == {family[k] : k \in S}
<1>1. s \in InquiryState
  BY DEF StateIsSound
<1>2. IsFiniteSet(S)
  BY <1>1, FiniteCounts
<1>3. ASSUME NEW k \in S
      PROVE  /\ IsFiniteSet(DOMAIN s.requests[k].attempts)
             /\ 1 \in DOMAIN s.requests[k].attempts
  <2>1. s.requests[k] \in Request /\ RequestIsSound(s.requests[k])
    BY <1>1, <1>3, StateFields DEF StateIsSound, RequestsAbout
  <2>2. s.requests[k].attempts \in Seq(Attempt) /\ Len(s.requests[k].attempts) >= 1
    BY <2>1 DEF Request, RequestIsSound
  <2>3. /\ Len(s.requests[k].attempts) \in Int
        /\ DOMAIN s.requests[k].attempts = 1..Len(s.requests[k].attempts)
    BY <2>2
  <2> QED  BY <2>2, <2>3, FS_Interval
<1>4. \A k \in S : family[k] = {k} \X DOMAIN s.requests[k].attempts
  OBVIOUS
<1>5. \A k \in S : IsFiniteSet(family[k])
  BY <1>3, <1>4, FS_Singleton, FS_Product
<1>6. AttemptsAbout(s, o) = UNION T
  BY <1>4 DEF AttemptsAbout
<1> HIDE DEF S
<1>7. family \in Surjection(S, T)
  BY DEF Surjection
<1>8. \A k \in S : \A i \in DOMAIN s.requests[k].attempts : <<k, i>> \in UNION T
  BY <1>4
<1> HIDE DEF family
<1>9. IsFiniteSet(T)
  <2>1. PICK range : range = T
    OBVIOUS
  <2>2. IsFiniteSet(range)
    BY <1>2, <1>7, <2>1, FS_Surjection
  <2> QED  BY <2>1, <2>2
<1>10. \A x \in T : IsFiniteSet(x)
  BY <1>5
<1> HIDE DEF T
<1>11. IsFiniteSet(UNION T)
  BY <1>9, <1>10, FS_UNION
<1> DEFINE f == [k \in S |-> <<k, 1>>]
<1>12. f \in Injection(S, UNION T)
  <2>1. f \in [S -> UNION T]
    BY <1>3, <1>8
  <2>2. IsInjective(f)
    BY DEF IsInjective
  <2> QED  BY <2>1, <2>2 DEF Injection
<1> HIDE DEF f
<1>13. Cardinality(S) <= Cardinality(UNION T)
  BY <1>11, <1>12, FS_Injection
<1> QED  BY <1>6, <1>11, <1>13, FS_CardinalityType DEF Asked, AttemptCount, S

(* A question that is asked is one more request and one more attempt about *)
(* its obligation, and none about the others.                              *)
LEMMA OneMoreAttempt ==
    ASSUME NEW s, StateIsSound(s), NEW t \in InquiryState, NEW plan \in Plans,
           t.requests = Append(s.requests, Question(plan))
    PROVE  /\ Asked(t, plan.obligation) = Asked(s, plan.obligation) + 1
           /\ AttemptCount(t, plan.obligation) = AttemptCount(s, plan.obligation) + 1
           /\ \A o \in Obligations : o # plan.obligation => Asked(t, o) = Asked(s, o)
<1> DEFINE n == Len(s.requests)
           r == Question(plan)
           p == plan.obligation
<1>1. s \in InquiryState /\ p \in Obligations
  BY DEF StateIsSound, Plans
<1>2. r \in Request /\ r.obligation = p /\ DOMAIN r.attempts = {1}
  BY QuestionTyped
<1> HIDE DEF r, p
<1>3. /\ n \in Nat /\ DOMAIN s.requests = 1..n /\ DOMAIN t.requests = 1..(n + 1)
      /\ t.requests[n + 1] = r
      /\ \A k \in 1..n : t.requests[k] = s.requests[k]
  BY <1>1, <1>2, StateFields DEF r
<1> HIDE DEF n
<1>4. \A o \in Obligations : o # p => RequestsAbout(t, o) = RequestsAbout(s, o)
  BY <1>2, <1>3 DEF RequestsAbout
<1>5. /\ RequestsAbout(t, p) = RequestsAbout(s, p) \cup {n + 1}
      /\ n + 1 \notin RequestsAbout(s, p)
  BY <1>2, <1>3 DEF RequestsAbout
<1>6. Asked(t, p) = Asked(s, p) + 1
  BY <1>1, <1>5, FiniteCounts, FS_AddElement DEF Asked
<1>7. \A k \in RequestsAbout(s, p) : /\ t.requests[k].attempts = s.requests[k].attempts
                                     /\ k # n + 1
  BY <1>3 DEF RequestsAbout
<1>8. /\ AttemptsAbout(t, p) = AttemptsAbout(s, p) \cup {<<n + 1, 1>>}
      /\ <<n + 1, 1>> \notin AttemptsAbout(s, p)
  <2>1. ASSUME NEW x
        PROVE  x \in AttemptsAbout(t, p) <=> x \in AttemptsAbout(s, p) \/ x = <<n + 1, 1>>
    <3>1. x \in AttemptsAbout(t, p)
            <=> \E k \in RequestsAbout(t, p) : x \in {k} \X DOMAIN t.requests[k].attempts
      BY DEF AttemptsAbout
    <3>2. x \in AttemptsAbout(s, p)
            <=> \E k \in RequestsAbout(s, p) : x \in {k} \X DOMAIN s.requests[k].attempts
      BY DEF AttemptsAbout
    <3>3. x \in {n + 1} \X DOMAIN t.requests[n + 1].attempts <=> x = <<n + 1, 1>>
      BY <1>2, <1>3
    <3> QED  BY <1>5, <1>7, <3>1, <3>2, <3>3
  <2>2. <<n + 1, 1>> \notin AttemptsAbout(s, p)
    <3> SUFFICES ASSUME NEW k \in RequestsAbout(s, p),
                        <<n + 1, 1>> \in {k} \X DOMAIN s.requests[k].attempts
                 PROVE  FALSE
      BY DEF AttemptsAbout
    <3> QED  BY <1>7
  <2> QED  BY <2>1, <2>2
<1>9. AttemptCount(t, p) = AttemptCount(s, p) + 1
  <2>1. IsFiniteSet(AttemptsAbout(s, p))
    BY <1>1, AskedWithinAttempts
  <2> QED  BY <1>8, <2>1, FS_AddElement DEF AttemptCount
<1>10. \A o \in Obligations : o # p => Asked(t, o) = Asked(s, o)
  BY <1>4 DEF Asked
<1> QED  BY <1>6, <1>9, <1>10 DEF p

------------------------------------------------------------------------------
(* The steps of a call. *)

LEMMA BeginKeeps ==
    ASSUME IInv, NEW u \in Users, NEW op, NEW answer, Begin(u, op, answer),
           \/ op \in {"step", "run"} /\ answer = None
           \/ op = "submit" /\ answer \in Answers
    PROVE  Kept
<1> DEFINE c == [NoCall EXCEPT !.pc = IF op = "submit" THEN "inspect" ELSE "step",
                               !.op = op, !.answer = answer,
                               !.left = IF op = "run" THEN RunSteps ELSE 1]
<1>1. call' = [call EXCEPT ![u] = c] /\ calls < MaxCalls /\ calls' = calls + 1
      /\ UNCHANGED <<inquiry, acknowledged, dispatches>>
  BY DEF Begin
<1>2. /\ c.pc = IF op = "submit" THEN "inspect" ELSE "step"
      /\ c.op = op /\ c.answer = answer
      /\ c.left = IF op = "run" THEN RunSteps ELSE 1
  BY DEF NoCall
<1>3. c \in Calls
  <2>1. {1, RunSteps} \subseteq 0..RunSteps
    BY ManualAssumption
  <2>2. {"inspect", "step"} \subseteq Busy
    BY DEF Busy
  <2> QED  BY <2>1, <2>2, NoCallTyped DEF Calls
<1> HIDE DEF c
<1>4. CallIsSound(c, inquiry') /\ IsDone(c)
  BY <1>2, <1>3, ManualAssumption DEF CallIsSound, IsDone, IsPlanning
<1>5. CountersTyped'
  BY <1>1, ManualAssumption DEF IInv, CountersTyped
<1>6. IInv'
  BY <1>1, <1>4, <1>5, StepKeepsIInv DEF IInv, Follows
<1>7. inquiry \in InquiryState /\ SameQuestions(inquiry', inquiry)
  BY <1>1 DEF IInv, StateIsSound, SameQuestions
<1> QED  BY <1>1, <1>4, <1>6, <1>7, QuietStep

(* A step of a call that only reads.                                       *)
LEMMA ReaderKeeps ==
    ASSUME IInv, UNCHANGED <<inquiry, acknowledged, calls, dispatches>>,
           NEW u \in Users, NEW c, call' = [call EXCEPT ![u] = c],
           CallIsSound(c, inquiry), IsDone(c)
    PROVE  Kept
<1>1. CallIsSound(c, inquiry')
  OBVIOUS
<1>2. IInv'
  BY <1>1, UnchangedState, StepKeepsIInv
<1>3. SameQuestions(inquiry', inquiry)
  BY DEF SameQuestions
<1> QED  BY <1>2, <1>3, QuietStep

LEMMA ToAnswer ==
    ASSUME IInv, NEW u \in Users, call[u].pc \in {"inspect", "reinspect"},
           Pending(inquiry) # {}
    PROVE  LET c == [call[u] EXCEPT !.pc = "answer_rebuild", !.target = FirstPending(inquiry)]
           IN  CallIsSound(c, inquiry) /\ IsDone(c)
<1> DEFINE old == call[u]
           c == [old EXCEPT !.pc = "answer_rebuild", !.target = FirstPending(inquiry)]
<1>1. /\ old \in Calls /\ old.pc \in Busy /\ old.left >= 1
      /\ old.op = "submit" /\ old.answer \in Answers
      /\ inquiry \in InquiryState
  BY DEF IInv, CallIsSound, StateIsSound, Busy
<1>2. FirstPending(inquiry) \in DOMAIN inquiry.requests /\ FirstPending(inquiry) \in Nat
  BY <1>1, FirstPendingIsPending, StateFields
<1>3. /\ c \in Calls /\ c.pc = "answer_rebuild" /\ c.op = old.op /\ c.left = old.left
      /\ c.answer = old.answer /\ c.target \in DOMAIN inquiry.requests
  BY <1>1, <1>2 DEF Calls, Busy
<1> HIDE DEF c
<1>4. CallIsSound(c, inquiry) /\ IsDone(c)
  BY <1>1, <1>3 DEF CallIsSound, IsDone, IsPlanning
<1> QED  BY <1>4 DEF c

LEMMA InspectKeeps ==
    ASSUME IInv, NEW u \in Users, Inspect(u)
    PROVE  Kept
<1> DEFINE old == call[u]
           c == IF Pending(inquiry) = {} THEN [old EXCEPT !.pc = "step"]
                ELSE [old EXCEPT !.pc = "answer_rebuild", !.target = FirstPending(inquiry)]
<1>1. /\ call' = [call EXCEPT ![u] = c] /\ old.pc = "inspect"
      /\ UNCHANGED <<inquiry, acknowledged, calls, dispatches>>
  BY DEF Inspect, IInv
<1>2. old \in Calls /\ old.left >= 1 /\ (old.op = "submit" => old.answer \in Answers)
  BY <1>1 DEF IInv, CallIsSound, Busy
<1>3. CASE Pending(inquiry) = {}
  <2>1. /\ c \in Calls /\ c.pc = "step" /\ c.op = old.op /\ c.left = old.left
        /\ c.answer = old.answer
    BY <1>2, <1>3 DEF Calls, Busy
  <2> HIDE DEF c
  <2>2. CallIsSound(c, inquiry) /\ IsDone(c)
    BY <1>2, <2>1 DEF CallIsSound, IsDone, IsPlanning
  <2> QED  BY <1>1, <2>2, ReaderKeeps
<1>4. CASE Pending(inquiry) # {}
  <2>1. CallIsSound(c, inquiry) /\ IsDone(c)
    BY <1>1, <1>4, ToAnswer
  <2> HIDE DEF c
  <2> QED  BY <1>1, <2>1, ReaderKeeps
<1> QED  BY <1>3, <1>4

LEMMA ReinspectKeeps ==
    ASSUME IInv, NEW u \in Users, Reinspect(u)
    PROVE  Kept
<1>1. call[u].pc = "reinspect" /\ UNCHANGED <<inquiry, acknowledged, calls, dispatches>>
  BY DEF Reinspect
<1>2. CASE \E result \in Results : End(u, result)
  BY <1>1, <1>2, EndRests, ReaderKeeps
<1>3. CASE /\ Pending(inquiry) # {}
           /\ call' = [call EXCEPT ![u].pc = "answer_rebuild",
                                   ![u].target = FirstPending(inquiry)]
  <2> DEFINE c == [call[u] EXCEPT !.pc = "answer_rebuild", !.target = FirstPending(inquiry)]
  <2>1. call' = [call EXCEPT ![u] = c]
    BY <1>3 DEF IInv
  <2>2. CallIsSound(c, inquiry) /\ IsDone(c)
    BY <1>1, <1>3, ToAnswer
  <2> HIDE DEF c
  <2> QED  BY <1>1, <2>1, <2>2, ReaderKeeps
<1>4. {"unchanged", "no_pending"} \subseteq Results
  BY DEF Results
<1> QED  BY <1>2, <1>3, <1>4 DEF Reinspect

(* What step() reports is one of its results.                              *)
LEMMA VerdictTyped ==
    ASSUME NEW s, Schedule(s).status # "ready"
    PROVE  Verdict(s, Schedule(s)) \in Results
<1>1. Schedule(s).status \in {"unknown", "satisfied"}
  BY DEF Schedule, Plan
<1> QED  BY <1>1 DEF Verdict, Results

LEMMA StepKeeps ==
    ASSUME IInv, NEW u \in Users, Step(u)
    PROVE  Kept
<1> DEFINE old == call[u]
           plan == Schedule(inquiry)
<1>1. old.pc = "step" /\ UNCHANGED <<inquiry, acknowledged, calls, dispatches>>
  BY DEF Step
<1>2. /\ old \in Calls /\ old.pc \in Busy /\ old.left >= 1
      /\ old.op = "submit" => old.answer \in Answers
      /\ inquiry \in InquiryState /\ inquiry.sequence \in Nat
  BY <1>1, StateFields DEF IInv, CallIsSound, StateIsSound, Busy
<1>3. CASE \E status \in Results : StepEnds(u, status, inquiry.sequence)
  BY <1>1, <1>2, <1>3, StepEndsSoundly, ReaderKeeps
<1>4. CASE End(u, "render_error")
  <2>1. "render_error" \in Results
    BY DEF Results
  <2> QED  BY <1>1, <1>4, <2>1, EndRests, ReaderKeeps
<1>5. CASE /\ Pending(inquiry) = {} /\ Unresolved(inquiry, {"returned", "decoded"}) = {}
           /\ plan.status = "ready"
           /\ call' = [call EXCEPT ![u].pc = "plan_rebuild", ![u].plan = plan]
  <2> DEFINE c == [old EXCEPT !.pc = "plan_rebuild", !.plan = plan]
  <2>1. call' = [call EXCEPT ![u] = c]
    BY <1>2, <1>5 DEF IInv
  <2>2. /\ plan \in Plans /\ plan.obligation \in ReadyEntries(inquiry)
        /\ plan.at = inquiry.sequence
    <3>1. plan.at = inquiry.sequence
      BY DEF Schedule, Plan
    <3> QED  BY <1>2, <1>5, <3>1, ReadyPlan
  <2>3. PlanIsSound(plan, inquiry)
    <3>1. Unresolved(inquiry, {"started", "returned", "decoded"}) = {}
      BY <1>5 DEF Pending, Unresolved
    <3> QED  BY <1>2, <2>2, <3>1 DEF PlanIsSound, PlanIsCurrent
  <2> HIDE DEF plan
  <2>4. /\ c \in Calls /\ c.pc = "plan_rebuild" /\ c.op = old.op /\ c.left = old.left
        /\ c.answer = old.answer /\ c.plan = plan
    BY <1>2, <2>2 DEF Calls, Busy, Plans
  <2> HIDE DEF c
  <2>5. CallIsSound(c, inquiry')
    BY <1>1, <1>2, <2>3, <2>4 DEF CallIsSound
  <2>6. IInv'
    BY <1>1, <2>1, <2>5, UnchangedState, StepKeepsIInv
  <2>7. StepIsJustified /\ StepIsFresh
    BY <1>1, <1>2, NothingAsked DEF SameQuestions
  <2>8. Alone => AloneInv'
    BY <1>1, <2>1, <2>2, <2>4 DEF Alone, AloneInv, IInv
  <2>9. ASSUME BoundInv  PROVE BoundInv'
    <3> SUFFICES ASSUME NEW o \in Obligations
                 PROVE  \/ Asked(inquiry', o) < MaxAttempts
                        \/ Asked(inquiry', o) + Cardinality(Holders(call', o))
                             < MaxAttempts + Cardinality(Users)
      BY DEF BoundInv
    <3>1. CASE o = plan.obligation
      <4>1. AttemptCount(inquiry, o) < MaxAttempts
        BY <2>2, <3>1 DEF ReadyEntries
      <4>2. /\ AttemptCount(inquiry, o) \in Nat /\ Asked(inquiry, o) <= AttemptCount(inquiry, o)
            /\ Asked(inquiry, o) \in Nat /\ MaxAttempts \in Nat
        BY <1>2, AskedWithinAttempts, FiniteCounts DEF IInv
      <4> QED  BY <1>1, <4>1, <4>2
    <3>2. CASE o # plan.obligation
      <4>1. Holders(call', o) = Holders(call, o)
        BY <1>1, <2>1, <2>4, <3>2 DEF Holders, IsPlanning, IInv
      <4> QED  BY <1>1, <2>9, <4>1 DEF BoundInv
    <3> QED  BY <3>1, <3>2
  <2> QED  BY <2>6, <2>7, <2>8, <2>9 DEF Kept
<1>6. {"needs_input", "active"} \subseteq Results
  BY DEF Results
<1>7. plan.status # "ready" => Verdict(inquiry, plan) \in Results
  BY VerdictTyped
<1> QED  BY <1>3, <1>4, <1>5, <1>6, <1>7 DEF Step

LEMMA RebuildKeeps ==
    ASSUME IInv, NEW u \in Users, Rebuild(u)
    PROVE  Kept
<1> DEFINE old == call[u]
           c == [old EXCEPT !.view = inquiry,
                            !.pc = IF @ = "plan_rebuild" THEN "plan_append" ELSE "answer_append"]
<1>1. /\ old.pc \in {"plan_rebuild", "answer_rebuild"}
      /\ UNCHANGED <<inquiry, acknowledged, calls, dispatches>>
      /\ call' = [call EXCEPT ![u] = c]
  BY DEF Rebuild, IInv
<1>2. /\ old \in Calls /\ old.left >= 1 /\ inquiry \in InquiryState
      /\ old.pc = "answer_rebuild" => old.op = "submit" /\ old.target \in DOMAIN inquiry.requests
      /\ old.op = "submit" => old.answer \in Answers
      /\ old.pc = "plan_rebuild" => PlanIsSound(old.plan, inquiry)
  BY <1>1 DEF IInv, CallIsSound, StateIsSound, Busy, IsPlanning
<1>3. /\ c \in Calls /\ c.op = old.op /\ c.left = old.left /\ c.answer = old.answer
      /\ c.plan = old.plan /\ c.target = old.target /\ c.view = inquiry
      /\ c.pc = IF old.pc = "plan_rebuild" THEN "plan_append" ELSE "answer_append"
  BY <1>2 DEF Calls, Busy
<1> HIDE DEF c
<1>4. IsReadingOf(inquiry, inquiry')
  BY <1>1, <1>2, StateFields DEF IsReadingOf
<1>5. CallIsSound(c, inquiry')
  BY <1>1, <1>2, <1>3, <1>4 DEF CallIsSound, IsPlanning
<1>6. IInv'
  BY <1>1, <1>5, UnchangedState, StepKeepsIInv
<1>7. StepIsJustified /\ StepIsFresh /\ SameQuestions(inquiry', inquiry)
  BY <1>1, <1>2, NothingAsked DEF SameQuestions
<1>8. IsPlanning(c) => IsPlanning(old) /\ c.plan = old.plan
  BY <1>1, <1>3 DEF IsPlanning
<1>9. AloneInv => AloneInv'
  BY <1>1, <1>8 DEF AloneInv, IInv
<1>10. \A o \in Obligations : Holders(call', o) \subseteq Holders(call, o)
  BY <1>1, <1>8 DEF Holders, IInv
<1>11. BoundInv => BoundInv'
  BY <1>1, <1>2, <1>7, <1>10, QuietKeepsBound
<1> QED  BY <1>6, <1>7, <1>9, <1>11 DEF Kept

(* What a question asked by a current plan rests on.                       *)
LEMMA CurrentPlanIsJustified ==
    ASSUME NEW s, StateIsSound(s), NEW plan \in Plans, PlanIsCurrent(plan, s),
           NEW t \in InquiryState, t.requests = Append(s.requests, Question(plan)),
           t.sequence = s.sequence + ReadyCost
    PROVE  /\ Unresolved(s, {"started", "returned", "decoded"}) = {}
           /\ Parents[plan.obligation] \subseteq Completed(s)
           /\ AttemptCount(t, plan.obligation) <= MaxAttempts
           /\ t.sequence <= Budget
<1>1. s \in InquiryState /\ plan.obligation \in Obligations
  BY DEF StateIsSound, Plans
<1>2. plan = Schedule(s) /\ Schedule(s).status = "ready"
  BY DEF PlanIsCurrent, Plans
<1>3. plan.obligation \in ReadyEntries(s) /\ t.sequence <= Budget
  BY <1>1, <1>2, ReadyPlan
<1>4. /\ Parents[plan.obligation] \subseteq Completed(s)
      /\ AttemptCount(s, plan.obligation) < MaxAttempts
  BY <1>3 DEF ReadyEntries
<1>5. /\ AttemptCount(s, plan.obligation) \in Nat
      /\ AttemptCount(t, plan.obligation) = AttemptCount(s, plan.obligation) + 1
  BY <1>1, AskedWithinAttempts, OneMoreAttempt
<1>6. MaxAttempts \in Nat
  BY ManualAssumption
<1> QED  BY <1>3, <1>4, <1>5, <1>6 DEF PlanIsCurrent

LEMMA AppendPlanKeeps ==
    ASSUME IInv, NEW u \in Users, AppendPlan(u)
    PROVE  Kept
<1> DEFINE s == call[u].view  plan == call[u].plan
<1>1. call[u].pc = "plan_append" /\ UNCHANGED <<acknowledged, calls, dispatches>>
  BY DEF AppendPlan
<1>2. /\ call[u].pc \in Busy /\ IsPlanning(call[u]) /\ PlanIsSound(plan, inquiry)
      /\ plan \in Plans /\ IsReadingOf(s, inquiry)
      /\ s \in InquiryState /\ s.sequence \in Nat /\ s.sequence + ReadyCost \in Nat
      /\ inquiry \in InquiryState
  BY <1>1, StateFields DEF IInv, CallIsSound, IsPlanning, PlanIsSound, StateIsSound,
                           IsReadingOf, Busy, ReadyCost
<1>3. {"needs_input", "domain_error", "conflict"} \subseteq Results
  BY DEF Results
<1>4. CASE UNCHANGED inquiry
  <2>1. \E c : call' = [call EXCEPT ![u] = c] /\ CallIsSound(c, inquiry) /\ IsDone(c)
    <3>1. CASE \E n \in Nat : StepEnds(u, "needs_input", n)
      BY <1>2, <1>3, <3>1, StepEndsSoundly
    <3>2. CASE End(u, "domain_error") \/ End(u, "conflict")
      BY <1>3, <3>2, EndRests
    <3> QED  BY <1>2, <3>1, <3>2 DEF AppendPlan
  <2> QED  BY <1>1, <1>4, <2>1, ReaderKeeps
<1>5. CASE /\ s.sequence = inquiry.sequence
           /\ inquiry' = ApplyPlan(s, plan)
           /\ StepEnds(u, "needs_input", s.sequence + ReadyCost)
  <2>1. s = inquiry
    BY <1>2, <1>5 DEF IsReadingOf
  <2>2. /\ StateIsSound(inquiry') /\ Extends(inquiry', inquiry)
        /\ inquiry'.sequence = inquiry.sequence + ReadyCost
        /\ inquiry'.requests = Append(inquiry.requests, Question(plan))
        /\ inquiry' \in InquiryState
    BY <1>2, <1>5, <2>1, ApplyPlanIsSound DEF IInv, StateIsSound
  <2>3. PICK c : call' = [call EXCEPT ![u] = c] /\ CallIsSound(c, inquiry') /\ IsDone(c)
    BY <1>2, <1>3, <1>5, StepEndsSoundly
  <2>4. IInv'
    BY <1>1, <2>2, <2>3, StepKeepsIInv DEF IInv, Follows, CountersTyped
  <2>5. PICK p : p = plan
    OBVIOUS
  <2>6. p \in Plans /\ p.obligation \in Obligations
    BY <1>2, <2>5 DEF Plans
  <2> DEFINE asked == inquiry'.requests[Len(inquiry'.requests)]
  <2>7. asked.obligation = p.obligation /\ asked.at = p.at
    <3>1. /\ Question(p) \in Request
          /\ Question(p).obligation = p.obligation /\ Question(p).at = p.at
      BY <2>6, QuestionTyped
    <3>2. asked = Question(p)
      BY <1>2, <2>2, <2>5, <3>1, StateFields
    <3> QED  BY <3>1, <3>2
  <2>8. StepIsJustified
    <3>1. ASSUME p.at = inquiry.sequence
          PROVE  /\ Unresolved(inquiry, {"started", "returned", "decoded"}) = {}
                 /\ Parents[p.obligation] \subseteq Completed(inquiry)
                 /\ AttemptCount(inquiry', p.obligation) <= MaxAttempts
                 /\ inquiry'.sequence <= Budget
      <4>1. PlanIsCurrent(p, inquiry)
        BY <1>2, <2>5, <3>1 DEF PlanIsSound
      <4>2. StateIsSound(inquiry)
        BY DEF IInv
      <4> QED  BY <2>2, <2>5, <2>6, <4>1, <4>2, CurrentPlanIsJustified
    <3> HIDE DEF asked
    <3> QED  BY <2>7, <3>1 DEF StepIsJustified, asked
  <2>9. ASSUME Alone, AloneInv  PROVE AloneInv' /\ StepIsFresh
    <3>1. p.at = inquiry.sequence
      BY <1>2, <2>5, <2>9 DEF AloneInv
    <3>2. StepIsFresh
      BY <2>7, <3>1 DEF StepIsFresh
    <3> QED  BY <2>3, <2>9, <3>2 DEF Alone, AloneInv, IsDone, IInv
  <2>10. ASSUME BoundInv  PROVE BoundInv'
    <3> SUFFICES ASSUME NEW o \in Obligations
                 PROVE  \/ Asked(inquiry', o) < MaxAttempts
                        \/ Asked(inquiry', o) + Cardinality(Holders(call', o))
                             < MaxAttempts + Cardinality(Users)
      BY DEF BoundInv
    <3>1. Holders(call', o) = Holders(call, o) \ {u}
      BY <2>3 DEF Holders, IsDone, IInv
    <3>2. /\ \/ Asked(inquiry, o) < MaxAttempts
             \/ Asked(inquiry, o) + Cardinality(Holders(call, o))
                  < MaxAttempts + Cardinality(Users)
          /\ IsFiniteSet(Holders(call, o)) /\ IsFiniteSet(Users)
          /\ Asked(inquiry, o) \in Nat /\ Cardinality(Holders(call, o)) \in Nat
          /\ Cardinality(Holders(call', o)) \in Nat
          /\ Cardinality(Users) \in Nat /\ MaxAttempts \in Nat
      BY <1>2, <2>10, FiniteCounts, ManualAssumption DEF BoundInv
    <3>3. Cardinality(Holders(call', o)) <= Cardinality(Users) - 1
      <4>1. Holders(call', o) \in SUBSET (Users \ {u})
        BY <3>1 DEF Holders
      <4>2. IsFiniteSet(Users \ {u}) /\ Cardinality(Users \ {u}) = Cardinality(Users) - 1
        BY <3>2, FS_RemoveElement
      <4> QED  BY <4>1, <4>2, FS_Subset
    <3>4. StateIsSound(inquiry)
      BY DEF IInv
    <3>5. CASE o = p.obligation
      <4>1. Asked(inquiry', o) = Asked(inquiry, o) + 1
        BY <2>2, <2>5, <2>6, <3>4, <3>5, OneMoreAttempt
      <4>2. u \in Holders(call, o)
        BY <1>2, <2>5, <3>5 DEF Holders
      <4>3. Cardinality(Holders(call', o)) = Cardinality(Holders(call, o)) - 1
        BY <3>1, <3>2, <4>2, FS_RemoveElement
      <4> QED  BY <3>2, <3>3, <4>1, <4>3
    <3>6. CASE o # p.obligation
      <4>1. Asked(inquiry', o) = Asked(inquiry, o)
        BY <2>2, <2>5, <2>6, <3>4, <3>6, OneMoreAttempt
      <4>2. Cardinality(Holders(call', o)) <= Cardinality(Holders(call, o))
        <5>1. Holders(call', o) \in SUBSET Holders(call, o)
          BY <3>1
        <5> QED  BY <3>2, <5>1, FS_Subset
      <4> QED  BY <3>2, <4>1, <4>2
    <3> QED  BY <3>5, <3>6
  <2> QED  BY <2>4, <2>8, <2>9, <2>10 DEF Kept
<1> QED  BY <1>4, <1>5 DEF AppendPlan

(* What the state extends, where there are no more requests, asks nothing. *)
LEMMA ExtensionAsksNothing ==
    ASSUME NEW s, NEW t, Extends(t, s), Len(t.requests) = Len(s.requests)
    PROVE  SameQuestions(t, s)
BY DEF Extends, Moves, SameQuestions

LEMMA AppendAnswerKeeps ==
    ASSUME IInv, NEW u \in Users, AppendAnswer(u)
    PROVE  Kept
<1> DEFINE s == call[u].view  k == call[u].target  answer == call[u].answer
<1>1. call[u].pc = "answer_append" /\ UNCHANGED <<calls, dispatches>>
  BY DEF AppendAnswer
<1>2. /\ IsReadingOf(s, inquiry) /\ k \in DOMAIN s.requests /\ answer \in Answers
      /\ inquiry \in InquiryState
  BY <1>1 DEF IInv, CallIsSound, StateIsSound, Busy
<1>3. {"unchanged", "domain_error", "conflict", "answered"} \subseteq Results
  BY DEF Results
<1>4. CASE UNCHANGED <<inquiry, acknowledged>>
  <2>1. \E c : call' = [call EXCEPT ![u] = c] /\ CallIsSound(c, inquiry) /\ IsDone(c)
    BY <1>3, EndRests DEF AppendAnswer
  <2> QED  BY <1>1, <1>4, <2>1, ReaderKeeps
<1>5. CASE /\ LawfulAnswer(s, k)
           /\ s.sequence = inquiry.sequence
           /\ inquiry' = ApplyAnswer(s, k, answer)
           /\ acknowledged' = acknowledged \cup {[request |-> k, answer |-> answer]}
           /\ End(u, "answered")
  <2>1. s = inquiry
    BY <1>2, <1>5 DEF IsReadingOf
  <2> DEFINE a == [request |-> k, answer |-> answer]
  <2>2. /\ k \in DOMAIN inquiry.requests /\ k \in Nat /\ LawfulAnswer(inquiry, k)
        /\ inquiry' = ApplyAnswer(inquiry, k, answer)
    BY <1>2, <1>5, <2>1, StateFields
  <2> HIDE DEF s, k, answer
  <2>3. /\ StateIsSound(inquiry') /\ Extends(inquiry', inquiry)
        /\ AcceptedIn(inquiry', inquiry, k, answer)
    <3>1. StateIsSound(inquiry)
      BY DEF IInv
    <3> QED  BY <1>2, <2>2, <3>1, ApplyAnswerIsSound
  <2>4. Stands(a, inquiry')
    BY <1>2, <2>2, <2>3 DEF Stands, AcceptedIn
  <2>5. PICK c : call' = [call EXCEPT ![u] = c] /\ CallIsSound(c, inquiry') /\ IsDone(c)
    BY <1>3, <1>5, EndRests
  <2>6. IInv'
    <3>1. CountersTyped'
      BY <1>1 DEF IInv, CountersTyped
    <3>2. acknowledged' = acknowledged \cup {a}
      BY <1>5
    <3> HIDE DEF a
    <3> QED  BY <2>3, <2>4, <2>5, <3>1, <3>2, StepKeepsIInv DEF Follows
  <2>7. SameQuestions(inquiry', inquiry)
    BY <2>3, ExtensionAsksNothing DEF AcceptedIn
  <2> QED  BY <2>5, <2>6, <2>7, QuietStep
<1> QED  BY <1>4, <1>5 DEF AppendAnswer

------------------------------------------------------------------------------
(* Dispatched commands. *)

LEMMA DispatchKeeps ==
    ASSUME IInv, NEW u \in Users, NEW t, Dispatch(u, t),
           NEW w, w = [t EXCEPT !.sequence = @ + 1],
           StateIsSound(w), Extends(w, inquiry),
           Len(w.requests) = Len(inquiry.requests)
    PROVE  Kept
<1>1. /\ inquiry' = w
      /\ call' = [call EXCEPT ![u] = NoCall]
      /\ dispatches < MaxDispatches /\ dispatches' = dispatches + 1
      /\ UNCHANGED <<acknowledged, calls>>
  BY DEF Dispatch
<1>2. CallIsSound(NoCall, inquiry') /\ IsDone(NoCall)
  <2>1. NoCall = [NoCall EXCEPT !.pc = "idle"]
    BY DEF NoCall
  <2> QED  BY <2>1, RestingCall
<1>3. CountersTyped'
  <2>1. /\ dispatches \in 0..MaxDispatches /\ calls \in 0..MaxCalls
        /\ MaxDispatches \in Nat
    BY ManualAssumption DEF IInv, CountersTyped
  <2>2. dispatches + 1 \in 0..MaxDispatches
    BY <1>1, <2>1
  <2> QED  BY <1>1, <2>1, <2>2 DEF CountersTyped
<1>4. StateIsSound(inquiry') /\ Follows(inquiry', inquiry)
  BY <1>1 DEF Follows
<1>5. IInv'
  BY <1>1, <1>2, <1>3, <1>4, StepKeepsIInv
<1>6. SameQuestions(inquiry', inquiry)
  BY <1>1, ExtensionAsksNothing
<1> QED  BY <1>1, <1>2, <1>5, <1>6, QuietStep

LEMMA OpenObligationKeeps ==
    ASSUME IInv, NEW u \in Users, NEW o \in Openable, OpenObligation(u, o)
    PROVE  Kept
<1>1. Dispatch(u, Open(inquiry, <<o>>)) /\ o \in Obligations /\ StateIsSound(inquiry)
  BY ManualAssumption DEF OpenObligation, IInv
<1> QED  BY <1>1, OpenIsSound, DispatchKeeps

LEMMA DispositionKeeps ==
    ASSUME IInv, NEW u \in Users, NEW o \in Obligations,
           NEW status \in Status \cup {"impossible"},
           RecordObligationDisposition(u, o, status)
    PROVE  Kept
<1> DEFINE t == [inquiry EXCEPT !.history[o] = Append(@, status)]
<1>1. Dispatch(u, t) /\ LawfulDisposition(inquiry, o, status) /\ StateIsSound(inquiry)
  BY DEF RecordObligationDisposition, IInv
<1>2. /\ StateIsSound([t EXCEPT !.sequence = @ + 1])
      /\ Extends([t EXCEPT !.sequence = @ + 1], inquiry)
      /\ [t EXCEPT !.sequence = @ + 1].requests = inquiry.requests
  BY <1>1, DispositionIsSound
<1> HIDE DEF t
<1> QED  BY <1>1, <1>2, DispatchKeeps

LEMMA WarrantKeeps ==
    ASSUME IInv, NEW u \in Users, NEW p \in Checked, EvaluateWarrant(u, p)
    PROVE  Kept
<1> DEFINE t == [inquiry EXCEPT !.warranted = @ \cup {p}]
<1>1. Dispatch(u, t) /\ StateIsSound(inquiry)
  BY DEF EvaluateWarrant, IInv
<1>2. /\ StateIsSound([t EXCEPT !.sequence = @ + 1])
      /\ Extends([t EXCEPT !.sequence = @ + 1], inquiry)
      /\ [t EXCEPT !.sequence = @ + 1].requests = inquiry.requests
  BY <1>1, WarrantIsSound
<1> HIDE DEF t
<1> QED  BY <1>1, <1>2, DispatchKeeps

LEMMA RequestCommandKeeps ==
    ASSUME IInv, NEW u \in Users, NEW k \in DOMAIN inquiry.requests, NEW r \in Request,
           NEW t, Dispatch(u, t),
           t = [inquiry EXCEPT !.requests = [inquiry.requests EXCEPT ![k] = r]],
           Moves(inquiry.requests[k], r), RequestIsSound(r)
    PROVE  Kept
<1>1. StateIsSound(inquiry) /\ inquiry \in InquiryState
  BY DEF IInv, StateIsSound
<1>2. PICK q : q = [inquiry.requests EXCEPT ![k] = r]
  OBVIOUS
<1>3. q \in Seq(Request) /\ Len(q) = Len(inquiry.requests)
  BY <1>1, <1>2, StateFields
<1>4. t = [inquiry EXCEPT !.requests = q]
  BY <1>2
<1>5. /\ t \in InquiryState /\ t.sequence = inquiry.sequence
      /\ t.history = inquiry.history /\ t.requests = q /\ t.warranted = inquiry.warranted
  BY <1>1, <1>3, <1>4 DEF InquiryState
<1>6. PICK w : w = [t EXCEPT !.sequence = @ + 1]
  OBVIOUS
<1>7. /\ w \in InquiryState /\ w.sequence > inquiry.sequence
      /\ w.history = inquiry.history /\ w.requests = q /\ w.warranted = inquiry.warranted
  BY <1>1, <1>5, <1>6, OneMoreEvent
<1>8. StateIsSound(w) /\ Extends(w, inquiry)
  BY <1>1, <1>2, <1>7, RequestCommandIsSound
<1> QED  BY <1>3, <1>6, <1>7, <1>8, DispatchKeeps

(* An attempt that is not decoded is not the accepted one, so it may       *)
(* change; and an unresolved request may get another attempt.              *)
LEMMA AttemptChanges ==
    ASSUME NEW q \in Request, RequestIsSound(q), NEW i \in DOMAIN q.attempts,
           q.attempts[i].status # "decoded", NEW a \in Attempt
    PROVE  LET r == [q EXCEPT !.attempts = [q.attempts EXCEPT ![i] = a]] IN
           r \in Request /\ RequestIsSound(r) /\ Moves(q, r)
<1>1. PICK list : list = [q.attempts EXCEPT ![i] = a]
  OBVIOUS
<1>2. q.attempts \in Seq(Attempt)
  BY DEF Request
<1>3. /\ list \in Seq(Attempt) /\ DOMAIN list = DOMAIN q.attempts
      /\ Len(list) = Len(q.attempts)
      /\ \A j \in DOMAIN q.attempts : j # i => list[j] = q.attempts[j]
  BY <1>1, <1>2
<1>4. PICK r : r = [q EXCEPT !.attempts = list]
  OBVIOUS
<1>5. /\ r \in Request /\ r.obligation = q.obligation /\ r.accepted = q.accepted
      /\ r.attempts = list
  BY <1>3, <1>4 DEF Request
<1>6. q.accepted # 0 => q.accepted # i /\ q.accepted \in DOMAIN q.attempts
  BY DEF RequestIsSound
<1>7. RequestIsSound(r) /\ Moves(q, r)
  BY <1>3, <1>5, <1>6 DEF RequestIsSound, Moves
<1> QED  BY <1>1, <1>4, <1>5, <1>7

LEMMA AttemptIsAdded ==
    ASSUME NEW q \in Request, RequestIsSound(q), q.accepted = 0, NEW a \in Attempt
    PROVE  LET r == [q EXCEPT !.attempts = Append(q.attempts, a)] IN
           r \in Request /\ RequestIsSound(r) /\ Moves(q, r)
<1>1. PICK list : list = Append(q.attempts, a)
  OBVIOUS
<1>2. q.attempts \in Seq(Attempt)
  BY DEF Request
<1>3. list \in Seq(Attempt) /\ Len(list) >= 1
  BY <1>1, <1>2
<1>4. PICK r : r = [q EXCEPT !.attempts = list]
  OBVIOUS
<1>5. /\ r \in Request /\ r.obligation = q.obligation /\ r.accepted = 0 /\ r.attempts = list
  BY <1>3, <1>4 DEF Request
<1> QED  BY <1>1, <1>3, <1>4, <1>5 DEF RequestIsSound, Moves

LEMMA EffectCommandKeeps ==
    ASSUME IInv, NEW u \in Users, NEW k \in DOMAIN inquiry.requests, EffectCommand(u, k)
    PROVE  Kept
<1>1. PICK q : q = inquiry.requests[k]
  OBVIOUS
<1>2. /\ inquiry \in InquiryState /\ q \in Request /\ RequestIsSound(q)
      /\ q.attempts \in Seq(Attempt)
  BY <1>1, StateFields DEF IInv, StateIsSound, Request
<1>3. CASE PlanEffectAttempt(u, k)
  <2> DEFINE a == [status |-> "planned", answer |-> None]
             r == [q EXCEPT !.attempts = Append(q.attempts, a)]
  <2>1. a \in Attempt
    BY DEF Attempt, AttemptStatus
  <2>2. [inquiry EXCEPT !.requests[k].attempts = Append(@, a)]
          = [inquiry EXCEPT !.requests = [inquiry.requests EXCEPT ![k] = r]]
    BY <1>1, <1>2 DEF InquiryState
  <2>3. Dispatch(u, [inquiry EXCEPT !.requests[k].attempts = Append(@, a)]) /\ q.accepted = 0
    BY <1>1, <1>3 DEF PlanEffectAttempt
  <2>4. r \in Request /\ RequestIsSound(r) /\ Moves(q, r)
    BY <1>2, <2>1, <2>3, AttemptIsAdded
  <2> HIDE DEF a, r
  <2> QED  BY <1>1, <2>2, <2>3, <2>4, RequestCommandKeeps
<1>4. ASSUME NEW i \in DOMAIN q.attempts, NEW from \in {"planned", "started", "returned"},
             NEW a \in Attempt, AttemptBecomes(u, k, i, from, a)
      PROVE  Kept
  <2> DEFINE r == [q EXCEPT !.attempts = [q.attempts EXCEPT ![i] = a]]
  <2>1. [inquiry EXCEPT !.requests[k].attempts[i] = a]
          = [inquiry EXCEPT !.requests = [inquiry.requests EXCEPT ![k] = r]]
    BY <1>1, <1>2 DEF InquiryState
  <2>2. Dispatch(u, [inquiry EXCEPT !.requests[k].attempts[i] = a]) /\ q.attempts[i].status = from
    BY <1>1, <1>4 DEF AttemptBecomes
  <2>3. r \in Request /\ RequestIsSound(r) /\ Moves(q, r)
    BY <1>2, <1>4, <2>2, AttemptChanges
  <2> HIDE DEF r
  <2> QED  BY <1>1, <2>1, <2>2, <2>3, RequestCommandKeeps
<1>5. ASSUME NEW i \in DOMAIN q.attempts, AcceptResult(u, k, i)
      PROVE  Kept
  <2> DEFINE r == [q EXCEPT !.accepted = i]
  <2>1. [inquiry EXCEPT !.requests[k].accepted = i]
          = [inquiry EXCEPT !.requests = [inquiry.requests EXCEPT ![k] = r]]
    BY <1>1, <1>2 DEF InquiryState
  <2>2. /\ Dispatch(u, [inquiry EXCEPT !.requests[k].accepted = i])
        /\ q.accepted = 0 /\ q.attempts[i].status = "decoded"
    BY <1>1, <1>5 DEF AcceptResult
  <2>3. r \in Request /\ r.accepted = i /\ r.attempts = q.attempts /\ r.obligation = q.obligation
    BY <1>2, <1>5 DEF Request
  <2> HIDE DEF r
  <2>4. RequestIsSound(r) /\ Moves(q, r)
    BY <1>2, <1>5, <2>2, <2>3 DEF RequestIsSound, Moves
  <2> QED  BY <1>1, <2>1, <2>2, <2>3, <2>4, RequestCommandKeeps
<1>6. ASSUME NEW i \in DOMAIN q.attempts, StartEffectAttempt(u, k, i)  PROVE Kept
  <2>1. Started \in Attempt
    BY DEF Started, Attempt, AttemptStatus
  <2> QED  BY <1>4, <1>6, <2>1 DEF StartEffectAttempt
<1>7. ASSUME NEW i \in DOMAIN q.attempts, EndAttempt(u, k, i)  PROVE Kept
  <2>1. [status |-> "ended", answer |-> None] \in Attempt
    BY DEF Attempt, AttemptStatus
  <2> QED  BY <1>4, <1>7, <2>1 DEF EndAttempt
<1>8. ASSUME NEW i \in DOMAIN q.attempts, NEW answer \in Answers, ReturnAttempt(u, k, i, answer)
      PROVE  Kept
  <2>1. [status |-> "returned", answer |-> answer] \in Attempt
    BY DEF Attempt, AttemptStatus
  <2> QED  BY <1>4, <1>8, <2>1 DEF ReturnAttempt
<1>9. ASSUME NEW i \in DOMAIN q.attempts, DecodeReturn(u, k, i)  PROVE Kept
  <2>1. q.attempts[i] \in Attempt
    BY <1>2
  <2>2. [status |-> "decoded", answer |-> inquiry.requests[k].attempts[i].answer] \in Attempt
    BY <1>1, <2>1 DEF Attempt, AttemptStatus
  <2> QED  BY <1>4, <1>9, <2>2 DEF DecodeReturn
<1> QED  BY <1>1, <1>3, <1>5, <1>6, <1>7, <1>8, <1>9 DEF EffectCommand

------------------------------------------------------------------------------
(* The invariants and the theorems. *)

LEMMA InitInvariants == Init => IInv /\ BoundInv /\ AloneInv
<1> SUFFICES ASSUME Init  PROVE IInv /\ BoundInv /\ AloneInv
  OBVIOUS
<1>1. inquiry \in InquiryState
  <2>1. <<Initial>> \in Seq(Obligations) /\ << >> \in Seq(Request)
    BY ManualAssumption
  <2>2. [o \in Obligations |-> << >>] \in [Obligations -> Seq(Status)]
    OBVIOUS
  <2>3. 2 + 2 * Cardinality(Checked) \in Nat
    BY ManualAssumption, FS_CardinalityType
  <2> QED  BY <2>1, <2>2, <2>3 DEF Init, StartedInquiry, InquiryState
<1>2. \A o \in Obligations : StatusOf(inquiry, o) = "open"
  BY DEF Init, StartedInquiry, StatusOf
<1>3. inquiry.requests = << >>
  BY DEF Init, StartedInquiry
<1>4. StateIsSound(inquiry)
  BY <1>1, <1>2, <1>3 DEF StateIsSound
<1>5. CallIsSound(NoCall, inquiry) /\ IsDone(NoCall)
  <2>1. NoCall = [NoCall EXCEPT !.pc = "idle"]
    BY DEF NoCall
  <2> QED  BY <2>1, RestingCall
<1>6. \A u \in Users : call[u] = NoCall
  BY DEF Init
<1>7. call \in [Users -> Calls]
  BY NoCallTyped DEF Init
<1>8. CountersTyped
  BY ManualAssumption DEF Init, CountersTyped
<1>9. IInv
  BY <1>4, <1>5, <1>6, <1>7, <1>8 DEF IInv, Init
<1>10. AloneInv
  BY <1>5, <1>6 DEF AloneInv, IsDone
<1>11. ASSUME NEW o \in Obligations
       PROVE  Asked(inquiry, o) + Cardinality(Holders(call, o))
                < MaxAttempts + Cardinality(Users)
  <2>1. RequestsAbout(inquiry, o) = {} /\ Holders(call, o) = {}
    BY <1>3, <1>5, <1>6 DEF RequestsAbout, Holders, IsDone
  <2>2. Asked(inquiry, o) = 0 /\ Cardinality(Holders(call, o)) = 0
    BY <2>1, FS_EmptySet DEF Asked
  <2>3. IsFiniteSet(Users) /\ Users # {} /\ MaxAttempts \in Nat
    BY ManualAssumption
  <2>4. Cardinality(Users) \in Nat /\ Cardinality(Users) # 0
    BY <2>3, FS_EmptySet, FS_CardinalityType
  <2> QED  BY <2>2, <2>3, <2>4
<1> QED  BY <1>9, <1>10, <1>11 DEF BoundInv

LEMMA NextInvariants ==
    ASSUME IInv, [Next]_vars
    PROVE  Kept
<1>1. CASE UNCHANGED vars
  <2>1. IInv'
    BY <1>1 DEF IInv, CountersTyped, vars
  <2>2. (AloneInv => AloneInv') /\ (BoundInv => BoundInv')
    BY <1>1 DEF AloneInv, BoundInv, vars
  <2>3. StepIsJustified /\ StepIsFresh
    BY <1>1, NothingAsked DEF vars, SameQuestions, IInv, StateIsSound
  <2> QED  BY <2>1, <2>2, <2>3 DEF Kept
<1>2. ASSUME NEW u \in Users,
             \/ \E op \in {"step", "run"} : Begin(u, op, None)
             \/ \E answer \in Answers : Begin(u, "submit", answer)
      PROVE  Kept
  BY <1>2, BeginKeeps
<1>3. ASSUME NEW u \in Users, Progress(u)  PROVE Kept
  BY <1>3, InspectKeeps, StepKeeps, RebuildKeeps, ReinspectKeeps, AppendPlanKeeps,
     AppendAnswerKeeps DEF Progress
<1>4. ASSUME NEW u \in Users,
             \/ \E o \in Openable : OpenObligation(u, o)
             \/ \E o \in Obligations, status \in Status \cup {"impossible"} :
                    RecordObligationDisposition(u, o, status)
             \/ \E c \in Checked : EvaluateWarrant(u, c)
             \/ \E k \in DOMAIN inquiry.requests : EffectCommand(u, k)
      PROVE  Kept
  BY <1>4, OpenObligationKeeps, DispositionKeeps, WarrantKeeps, EffectCommandKeeps
<1> QED  BY <1>1, <1>2, <1>3, <1>4 DEF Next

(* The inductive invariant and the bound hold, for any number of callers.  *)
LEMMA AlwaysIInv == Spec => [](IInv /\ BoundInv)
<1>1. IInv /\ BoundInv /\ [Next]_vars => (IInv /\ BoundInv)'
  BY NextInvariants DEF Kept
<1> QED  BY <1>1, InitInvariants, PTL DEF Spec

(* A satisfied obligation has an accepted answer of its own or a hard      *)
(* warrant decision about its carrier behind it, however many callers      *)
(* race, retry, repeat themselves or reopen it.                            *)
THEOREM SatisfiedAlwaysHasEvidence == Spec => []SatisfiedHasEvidence
<1>1. IInv => SatisfiedHasEvidence
  <2> SUFFICES ASSUME IInv  PROVE SatisfiedHasEvidence
    OBVIOUS
  <2>1. Opened(inquiry) \subseteq Obligations
    BY StateFields DEF IInv, StateIsSound, Opened
  <2> QED  BY <2>1 DEF IInv, StateIsSound, SatisfiedHasEvidence
<1> QED  BY <1>1, AlwaysIInv, PTL

(* An answer that submit_answer acknowledged to its caller stays the       *)
(* accepted answer of its request, whatever other callers do.              *)
THEOREM AcknowledgedAnswersAlwaysStand == Spec => []AcknowledgedAnswersStand
<1>1. IInv => AcknowledgedAnswersStand
  BY DEF IInv, Stands, AcknowledgedAnswersStand
<1> QED  BY <1>1, AlwaysIInv, PTL

(* For any number of callers, step() asks about an obligation at most as   *)
(* often as the attempt limit says and once more for each other caller:    *)
(* every plan that is overtaken was held by a caller when the limit was    *)
(* reached, and no caller makes another one after that.                    *)
THEOREM StalePlansStayBounded == Spec => []StalePlansAreBounded
<1>1. IInv /\ BoundInv => StalePlansAreBounded
  <2> SUFFICES ASSUME IInv, BoundInv  PROVE StalePlansAreBounded
    OBVIOUS
  <2>1. TypeOK
    <3>1. acknowledged \subseteq [request : Nat, answer : Answers]
      BY DEF IInv, Stands
    <3> QED  BY <3>1 DEF IInv, TypeOK, StateIsSound, CallIsSound, CountersTyped
  <2>2. ASSUME NEW o \in Obligations
        PROVE  Asked(inquiry, o) < MaxAttempts + Cardinality(Users)
    <3>1. \/ Asked(inquiry, o) < MaxAttempts
          \/ Asked(inquiry, o) + Cardinality(Holders(call, o)) < MaxAttempts + Cardinality(Users)
      BY DEF BoundInv
    <3>2. /\ Asked(inquiry, o) \in Nat /\ Cardinality(Holders(call, o)) \in Nat
          /\ Cardinality(Users) \in Nat /\ MaxAttempts \in Nat
      BY FiniteCounts DEF IInv, StateIsSound
    <3> QED  BY <3>1, <3>2
  <2> QED  BY <2>1, <2>2 DEF StalePlansAreBounded, Asked
<1> QED  BY <1>1, AlwaysIInv, PTL

(* For any number of callers, a question recorded on the state it was      *)
(* planned on keeps the scheduler's policy: nothing else is pending, the   *)
(* parents are satisfied, attempts are left, and the batch fits the budget.*)
THEOREM FreshQuestionsKeepPolicy == Spec => QuestionsAreJustified
<1>1. IInv /\ [Next]_vars => [StepIsJustified]_vars
  BY NextInvariants DEF Kept
<1>2. Spec => [][StepIsJustified]_vars
  BY <1>1, AlwaysIInv, PTL DEF Spec
<1> QED  BY <1>2, PTL DEF QuestionsAreJustified, StepIsJustified

LEMMA AlwaysAlone ==
    ASSUME Alone
    PROVE  Spec => [](IInv /\ AloneInv)
<1>1. IInv /\ AloneInv /\ [Next]_vars => (IInv /\ AloneInv)'
  BY NextInvariants DEF Kept
<1> QED  BY <1>1, InitInvariants, PTL DEF Spec

(* With one caller every question is recorded on the state it was planned  *)
(* on, so each of them keeps the scheduler's policy where it is appended.  *)
THEOREM OneCallerAsksWithinPolicy ==
    ASSUME \A v, w \in Users : v = w
    PROVE  Spec => QuestionsAreJustified /\ [][StepIsFresh]_vars
<1>1. Alone
  BY DEF Alone
<1>2. IInv /\ AloneInv /\ [Next]_vars => [StepIsFresh]_vars
  BY <1>1, NextInvariants DEF Kept
<1>3. Spec => [][StepIsFresh]_vars
  BY <1>1, <1>2, AlwaysAlone, PTL DEF Spec
<1> QED  BY <1>3, FreshQuestionsKeepPolicy, PTL

=============================================================================
