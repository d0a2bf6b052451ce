---------------------------- MODULE RetainedMemory ----------------------------
(***************************************************************************)
(* The memory of one inquiry: retention packages are registered, searched  *)
(* by structural queries and used in reacquisition requests; linked        *)
(* children are measured, and the measurements of the two branches are     *)
(* compared.  One action per command of src/src/rci/core/transitions.py.   *)
(*                                                                         *)
(* The SDK builds a query from the state it inspects and dispatches it     *)
(* later (src/src/rci/sdk.py, retrieve); plan is the query in between, and *)
(* any command may commit meanwhile.  What the ledger checks of a child    *)
(* stream is in Reacquisition.                                             *)
(***************************************************************************)
EXTENDS MemoryRecords

CONSTANTS
    Inquiry,            \* the identity of the inquiry
    Recordable,         \* keys of records its other parts may add
    QueryHorizon,       \* bound: the last sequence of a history with a query
    Registrations, Queries, Requests, Links, Observations, Comparisons

ASSUME MemoryAssumption ==
    /\ IsFiniteSet(Recorded)
    /\ \A g \in Registrations :
          IsRegistration(g) /\ g.package.id \in DOMAIN PackageOrder
    /\ \A q \in Queries : IsQuery(q)
    /\ \A r \in Requests : IsRequest(r)
    /\ \A l \in Links : IsLink(l)
    /\ \A x \in Observations : /\ IsObservation(x) /\ "id" \in DOMAIN x
                              /\ x.id \in DOMAIN ObservationOrder

VARIABLES
    owned,      \* the collections of InquiryState
    sequence,   \* its sequence
    plan        \* the query of a retrieve call that is under way, or None
vars == <<owned, sequence, plan>>

Init == /\ owned = [Empty EXCEPT !.records = Recorded]
        /\ sequence = Cardinality(Recorded) + 1
        /\ plan = None

(* Bound: a history with a query in it ends at QueryHorizon. *)
WithinBound ==
    plan # None \/ owned.queries # {} => sequence < QueryHorizon

(* _advance_domain_state: one more event, and the validators. *)
Advance(o) ==
    /\ WithinBound
    /\ owned' = o
    /\ sequence' = sequence + 1
    /\ Valid(owned', sequence', Inquiry, Context)
Fold(k, r) == Advance([owned EXCEPT ![k] = @ \cup {r}])

(* The commands of the other parts of the inquiry that add a record. *)
RecordOwned(r) ==
    /\ r \notin owned.records
    /\ Fold("records", r)
    /\ UNCHANGED plan

RegisterRetentionPackage(g) ==
    /\ MayRegisterRetentionPackage(owned, g, Context)
    /\ Advance(WithRegistration(owned, g))
    /\ UNCHANGED plan

(* retrieve: the query pins the state inspected. *)
BuildQuery(q) ==
    /\ plan = None /\ sequence < QueryHorizon
    /\ plan' = [id |-> q.id, result |-> q.result, select |-> q.select, limit |-> q.limit,
                policy |-> Policy, at |-> Context,
                sequence |-> sequence, index |-> StructuralIndex(owned)]
    /\ UNCHANGED <<owned, sequence>>

(* The fold appends the policy's snapshot whether or not it is there. *)
WithRetrieval(o, q) ==
    [o EXCEPT !.policies = Append(@, q.policy), !.queries = @ \cup {q},
              !.results = @ \cup {Retrieved(o, q)}]
RunRetrieval ==
    /\ plan # None
    /\ MayRunRetrieval(owned, plan, sequence)
    /\ Advance(WithRetrieval(owned, plan))
    /\ plan' = None

(* The call ends with an error: decide refuses the query, or the fold      *)
(* fails because the policy is there already.                              *)
RetrievalFails ==
    /\ plan # None
    /\ MayRunRetrieval(owned, plan, sequence) => owned.policies # <<>>
    /\ plan' = None
    /\ UNCHANGED <<owned, sequence>>

RequestReacquisition(r) ==
    /\ MayRequestReacquisition(owned, r, Inquiry, Context)
    /\ Fold("requests", r)
    /\ UNCHANGED plan
LinkReacquisitionInquiry(l) ==
    /\ MayLinkReacquisitionInquiry(owned, l)
    /\ Fold("links", l)
    /\ UNCHANGED plan
RecordRecoveryObservation(x) ==
    /\ MayRecordRecoveryObservation(owned, x)
    /\ Fold("observations", x)
    /\ UNCHANGED plan
RecordRecoveryComparison(c) ==
    /\ MayRecordRecoveryComparison(owned, c)
    /\ Fold("comparisons", c)
    /\ UNCHANGED plan

(* An id is used once: a record under a used id is a repeat or raises. *)
Unrecorded(k, Records) == {r \in Records : r.id \notin Ids(owned[k])}
NewPackages == {g \in Registrations : g.package.id \notin Ids(owned.packages)}

Next ==
    \/ \E r \in Recordable : RecordOwned(r)
    \/ \E g \in NewPackages : RegisterRetentionPackage(g)
    \/ \E q \in Queries : BuildQuery(q)
    \/ RunRetrieval
    \/ RetrievalFails
    \/ \E r \in Unrecorded("requests", Requests) : RequestReacquisition(r)
    \/ \E l \in Unrecorded("links", Links) : LinkReacquisitionInquiry(l)
    \/ \E x \in Unrecorded("observations", Observations) : RecordRecoveryObservation(x)
    \/ \E c \in Unrecorded("comparisons", Comparisons) : RecordRecoveryComparison(c)

Spec == Init /\ [][Next]_vars

------------------------------------------------------------------------------
(* Properties. *)

(* Every collection holds records of its own kind, and a query pins a      *)
(* prefix of the inquiry.                                                  *)
TypeOK ==
    /\ DOMAIN owned = Kinds
    /\ owned.records \subseteq Recorded \cup Recordable
    /\ owned.packages \subseteq {g.package : g \in Registrations}
    /\ owned.requests \subseteq Requests /\ owned.links \subseteq Links
    /\ owned.observations \subseteq Observations
    /\ owned.comparisons \subseteq Comparisons
    /\ sequence \in Nat
    /\ plan # None => plan.sequence <= sequence

(* A persisted retrieval result is exactly that of the prefix it pins,     *)
(* whatever commits between the inspection and the dispatch: every hit     *)
(* offers something to each kind of selector in the query, and a package   *)
(* that has one reference, a cue and a tag for all of them is left out     *)
(* only when the limit is used up by packages that rank before it.         *)
RetrievalIsExact ==
    [][\A r \in owned'.results \ owned.results :
          LET q == Get(owned'.queries, r.query)
              asked == {c \in DOMAIN q.select : q.select[c] # {}} IN
          /\ r.sequence = sequence /\ r.index = StructuralIndex(owned)
          /\ Cardinality(r.hits) <= q.limit
          /\ \A h \in r.hits :
                /\ h.content \in owned.packages
                /\ \A c \in asked : Offers(h.content)[c] \cap q.select[c] # {}
          /\ \A p \in owned.packages :
                /\ \A c \in asked \cap {"cue", "tag"} : Offers(p)[c] \cap q.select[c] # {}
                /\ asked \subseteq {"cue", "tag"} \/ MatchingReferences(p, q) # {}
                /\ [package |-> p.id, content |-> p] \notin r.hits
                => /\ Cardinality(r.hits) = q.limit
                   /\ \A h \in r.hits : RanksBefore(h.content, p, q)]_vars

(* A claimed advantage of retention is real in terms of the observations,  *)
(* not of the frontiers: both branches were measured under the same pins   *)
(* in different children, each measurement with a valid check of its own,  *)
(* the baseline ones without a package; whatever the baseline achieved was *)
(* achieved with retained material at no more cost on any axis, and        *)
(* something the baseline itself never bettered was achieved for less.     *)
(* And such an advantage is never reported otherwise.                      *)
AdvantageIsReal ==
    \A c \in owned.comparisons :
        LET B == {x \in owned.observations : x.id \in c.baseline.sources}
            R == {x \in owned.observations : x.id \in c.retained.sources}
            NoWorse(x, y) == \A a \in DOMAIN x.costs : NotCostlier(x.costs[a], y.costs[a])
            Better(x, y) == NoWorse(x, y) /\ ~ NoWorse(y, x)
            won == {x \in B : x.competent}
            kept == {x \in R : x.competent} IN
        /\ \A b \in B, r \in R : b.child # r.child /\ b.pins = r.pins
        /\ \A x, y \in B \cup R : x.check = y.check => x = y
        /\ \A x \in B \cup R : RecordOf(x.check).content.valid
        /\ \A b \in B : b.package = None
        /\ \A r \in R : r.package \in Ids(owned.packages)
        /\ c.outcome = "strict_advantage" <=>
              /\ won # {}
              /\ \A b \in won : \E r \in kept : NoWorse(r, b)
              /\ \E b \in won, r \in kept :
                    Better(r, b) /\ \A x \in won : ~ Better(x, b)

(* decide and the validators are written apart, and for these commands     *)
(* they agree: what decide accepts also folds, so the caller never meets   *)
(* an untyped validation error, whatever was registered, linked or         *)
(* measured before.  (The second retrieval of an inquiry is the exception: *)
(* its policy is appended again and the fold fails.)  What was folded is   *)
(* well typed.                                                             *)
DecideAgreesWithFold ==
    LET With(k, Records) == {[owned EXCEPT ![k] = @ \cup {r}] : r \in Records}
        lawful ==
            {WithRegistration(owned, g) :
                g \in {x \in Registrations : MayRegisterRetentionPackage(owned, x, Context)}}
            \cup With("requests", {r \in Requests :
                        MayRequestReacquisition(owned, r, Inquiry, Context)})
            \cup With("links", {l \in Links : MayLinkReacquisitionInquiry(owned, l)})
            \cup With("observations", {x \in Observations :
                        MayRecordRecoveryObservation(owned, x)})
            \cup With("comparisons", {c \in Comparisons :
                        MayRecordRecoveryComparison(owned, c)})
            \cup {WithRetrieval(owned, q) :
                    q \in {p \in {plan} : /\ p # None /\ owned.policies = <<>>
                                         /\ MayRunRetrieval(owned, p, sequence)}} IN
    TypeOK /\ \A o \in lawful : Valid(o, sequence + 1, Inquiry, Context)
=============================================================================
