----------------------------- MODULE MemoryRecords -----------------------------
(***************************************************************************)
(* The memory records of one inquiry: the classes of src/src/rci/memory/   *)
(* models.py, the guards with which decide (src/src/rci/core/              *)
(* transitions.py) accepts them, and the validators of the folded state    *)
(* (src/src/rci/core/state.py).  RetainedMemory and Reacquisition use them *)
(* for the state o of an inquiry: a record of collections, all sets except *)
(* the tuple of policy snapshots.                                          *)
(*                                                                         *)
(* Fingerprints are the records themselves: content addressing is taken to *)
(* be injective.  The scope, binding, horizon and universe of an inquiry   *)
(* are one value, its context.                                             *)
(***************************************************************************)
EXTENDS RecoveryFrontier, Sequences

CONSTANTS
    RecordOf(_),    \* the [type, content] of a record of another part, by its key
    PackageOrder,   \* package id -> position in the order of ids
    Policy,         \* the one allowlisted retrieval policy
    MaxResults,     \* its bound on the limit of a query
    Context,        \* the context of the inquiries considered
    Recorded,       \* keys of the records their other parts own to begin with
    None

ASSUME PackageOrderAssumption ==
    /\ \A x \in DOMAIN PackageOrder : PackageOrder[x] \in Nat
    /\ \A x, y \in DOMAIN PackageOrder : PackageOrder[x] = PackageOrder[y] => x = y

RouteKinds == {"direct_use", "reconstruction", "consequence", "reacquisition"}
MemberKinds == RouteKinds \cup {"scaffolds", "protocols"}
RecoveryKinds == {"requests", "links", "observations", "comparisons"}

(* _RECORD_OWNER: who owns the records of a type. *)
OwnerOf ==
    [probe_event |-> "episodic", lemma_version |-> "semantic",
     semantic_delta |-> "semantic", probe_identity |-> "procedural",
     retention_package |-> "retention", scaffold |-> "retention",
     protocol |-> "retention", evidence |-> "warrant", checker_verdict |-> "warrant",
     warrant_decision |-> "warrant", effect_request |-> "action",
     external_return |-> "action", reconstruction |-> "action",
     prediction_seal |-> "prediction"]

Kinds == {"records", "packages", "policies", "queries", "results"}
             \cup MemberKinds \cup RecoveryKinds
Empty == [k \in Kinds |-> IF k = "policies" THEN <<>> ELSE {}]

(* The state that has a package and everything it registers. *)
WithRegistration(o, g) ==
    [k \in Kinds |-> IF k = "packages" THEN o.packages \cup {g.package}
                     ELSE IF k \in MemberKinds THEN o[k] \cup g.members[k] ELSE o[k]]

Ids(S) == {x.id : x \in S}
Get(S, id) == CHOOSE x \in S : x.id = id

(* RecoveryProtocol.pins *)
PinsOf(p) == [protocol |-> p.id, version |-> p.version, at |-> p.at,
              competence |-> p.competence, budget |-> p.budget]

(* RetentionPackage and RetentionRegistration with their validators; a     *)
(* registration is [package, members], members mapping a kind to records.  *)
IsRegistration(g) ==
    LET p == g.package
        keys == {r.key : r \in p.refs} IN
    /\ p.refs # {}
    /\ \A r, s \in p.refs : r.type = s.type /\ r.key = s.key => r = s
    /\ \E k \in RouteKinds : p.ids[k] # {}
    /\ \A j, k \in RouteKinds : j # k => p.ids[j] \cap p.ids[k] = {}
    /\ \A k \in MemberKinds :
          /\ Ids(g.members[k]) = p.ids[k]
          /\ \A x, y \in g.members[k] : x.id = y.id => x = y
          /\ \A x \in g.members[k] : x.at = p.at
    /\ \A k \in RouteKinds : \A x \in g.members[k] : x.sources # {} /\ x.sources \subseteq keys
    /\ \A s \in g.members.scaffolds :
          /\ s.sources \subseteq keys
          /\ s.sources # {} \/ s.probes # {}
          /\ s.probes \subseteq {r.key : r \in {x \in p.refs : OwnerOf[x.type] = "procedural"}}
    /\ \A x \in g.members.reacquisition :
          x.scaffold \in p.ids.scaffolds /\ x.protocol \in p.ids.protocols
    /\ \A x \in g.members.protocols : IsCostVector(x.budget)

(* RetrievalQuery: select maps each component to the values asked for. *)
Components == <<"reference", "type", "owner", "cue", "tag">>
IsQuery(q) == /\ DOMAIN q.select = {Components[i] : i \in DOMAIN Components}
              /\ \A c \in DOMAIN q.select : IsFiniteSet(q.select[c])
              /\ \E c \in DOMAIN q.select : q.select[c] # {}
              /\ q.limit \in 1 .. 1000

IsRequest(r) ==
    /\ r.branch \in {"baseline", "retained"}
    /\ r.parent # r.child
    /\ IF r.branch = "baseline" THEN r.package = None /\ r.scaffold = None
                                ELSE r.package # None /\ r.scaffold # None
IsLink(l) == l.parent # l.child /\ l.prefix > 0

(* RecoveryObservation: measured work within the budget, the counted axes  *)
(* exactly counted, and competence only with a check of its own.           *)
IsObservation(x) ==
    /\ IF x.branch = "baseline" THEN x.package = None ELSE x.package # None
    /\ x.competent => x.competenceCheck # None
    /\ x.probes # {} \/ x.effects # {}
    /\ IsCostVector(x.costs) /\ WithinBudget(x.costs, x.pins.budget)
    /\ "effects" \in DOMAIN x.costs
          => x.costs.effects = [n |-> Cardinality(x.effects), d |-> 1]
    /\ "logical_probes" \in DOMAIN x.costs
          => x.costs.logical_probes = [n |-> Cardinality(x.probes), d |-> 1]

------------------------------------------------------------------------------
(* Owned records and references. *)

(* owned_memory_records and resolve_owned_memory_ref: a record of that key *)
(* has exactly that content.  o.records holds the keys of the records that *)
(* the other parts of the inquiry own.                                     *)
Resolves(o, ref) ==
    CASE ref.type = "retention_package" ->
            ref.content \in o.packages /\ ref.key = <<"package", ref.content.id>>
      [] ref.type = "scaffold" ->
            ref.content \in o.scaffolds /\ ref.key = <<"scaffold", ref.content.id>>
      [] ref.type = "protocol" ->
            ref.content \in o.protocols /\ ref.key = <<"protocol", ref.content.id>>
      [] OTHER ->
            /\ ref.key \in o.records
            /\ RecordOf(ref.key) = [type |-> ref.type, content |-> ref.content]

(* resolve_check_reference and validate_checked_evidence: the named        *)
(* verdict of an authorized checker finds exactly this proposition valid   *)
(* in this scope.  The evidence it is about comes with it.                 *)
IsChecked(o, check, proposition, at) ==
    /\ check \in o.records
    /\ RecordOf(check) =
          [type |-> "checker_verdict",
           content |-> [proposition |-> proposition, at |-> at, valid |-> TRUE]]

------------------------------------------------------------------------------
(* retrieval.py *)

(* structural_index_fingerprint: the packages and all owned records. *)
StructuralIndex(o) == [packages |-> o.packages, scaffolds |-> o.scaffolds,
                       protocols |-> o.protocols, records |-> o.records]

HasStaleReference(o, p) == \E ref \in p.refs : ~ Resolves(o, ref)

(* What a package offers to each component of a query. *)
Offers(p) ==
    [reference |-> p.refs, type |-> {r.type : r \in p.refs},
     owner |-> {OwnerOf[r.type] : r \in p.refs}, cue |-> p.cues, tag |-> p.tags]
Rank(p, q) == [i \in DOMAIN Components |->
    Cardinality(Offers(p)[Components[i]] \cap q.select[Components[i]])]

(* _matching_references: references for all of the selectors of references *)
(* that the query has.                                                     *)
MatchingReferences(p, q) ==
    {r \in p.refs :
        /\ q.select.owner # {} => OwnerOf[r.type] \in q.select.owner
        /\ q.select.type # {} => r.type \in q.select.type
        /\ q.select.reference # {} => r \in q.select.reference}

(* _rank_package does not return None. *)
IsRanked(p, q) ==
    /\ (\E c \in {"owner", "type", "reference"} : q.select[c] # {})
          => MatchingReferences(p, q) # {}
    /\ q.select.cue # {} => p.cues \cap q.select.cue # {}
    /\ q.select.tag # {} => p.tags \cap q.select.tag # {}
    /\ \E i \in DOMAIN Components : Rank(p, q)[i] > 0

(* The order of the hits: higher ranks first, then lower ids. *)
RanksBefore(p, x, q) ==
    LET differ == {i \in DOMAIN Components : Rank(p, q)[i] # Rank(x, q)[i]} IN
    IF differ = {} THEN PackageOrder[p.id] < PackageOrder[x.id]
    ELSE \E i \in differ : /\ \A j \in differ : i <= j
                           /\ Rank(p, q)[i] > Rank(x, q)[i]

(* retrieve: the packages with the pins of the query that are ranked; the  *)
(* stale ones are reported apart, and of the others the first are hits.    *)
Hits(o, q) ==
    LET ranked == {p \in o.packages : p.at = q.at /\ IsRanked(p, q)
                                      /\ ~ HasStaleReference(o, p)} IN
    {p \in ranked : Cardinality({x \in ranked : RanksBefore(x, p, q)}) < q.limit}
StalePackages(o, q) ==
    {p.id : p \in {x \in o.packages : x.at = q.at /\ IsRanked(x, q) /\ HasStaleReference(o, x)}}
Retrieved(o, q) ==
    [id |-> q.result, query |-> q.id, policy |-> q.policy, sequence |-> q.sequence,
     index |-> q.index, hits |-> {[package |-> p.id, content |-> p] : p \in Hits(o, q)},
     stale |-> StalePackages(o, q)]

------------------------------------------------------------------------------
(* decide.  Each guard is that of a new record: the same record again      *)
(* answers () and another one under its id raises.                         *)

MayRegisterRetentionPackage(o, g, context) ==
    /\ g.package.id \notin Ids(o.packages)
    /\ g.package.at = context
    /\ \A k \in MemberKinds : g.package.ids[k] \cap Ids(o[k]) = {}
    /\ \A ref \in g.package.refs : Resolves(o, ref)

(* Mutant: a query built over an earlier prefix is run. *)
RetrievalOfAnyPrefix(o, q, sequence) ==
    /\ q.id \notin Ids(o.queries) /\ q.result \notin Ids(o.results)
    /\ q.index = StructuralIndex(o)
    /\ q.policy = Policy /\ q.limit <= MaxResults
    /\ \A ref \in q.select.reference : Resolves(o, ref)

MayRunRetrieval(o, q, sequence) ==
    /\ q.id \notin Ids(o.queries) /\ q.result \notin Ids(o.results)
    /\ q.sequence = sequence
    /\ q.index = StructuralIndex(o)
    /\ q.policy = Policy /\ q.limit <= MaxResults
    /\ \A ref \in q.select.reference : Resolves(o, ref)

(* A package owns the scaffold, the protocol and a route that joins them. *)
OwnsRoute(o, r) ==
    \E p \in o.packages, x \in o.reacquisition :
        /\ p.id = r.package
        /\ r.scaffold \in p.ids.scaffolds /\ r.pins.protocol \in p.ids.protocols
        /\ x.id \in p.ids.reacquisition
        /\ x.protocol = r.pins.protocol /\ x.scaffold = r.scaffold

MayRequestReacquisition(o, r, inquiry, context) ==
    /\ r.id \notin Ids(o.requests)
    /\ \A x \in o.requests : x.child # r.child
    /\ r.parent = inquiry
    /\ r.pins.at = context
    /\ \E p \in o.protocols : PinsOf(p) = r.pins
    /\ r.package # None => OwnsRoute(o, r)

MayLinkReacquisitionInquiry(o, l) ==
    /\ l.id \notin Ids(o.links)
    /\ \A x \in o.links : x.request # l.request
    /\ \E r \in o.requests :
          /\ r.id = l.request /\ r.parent = l.parent
          /\ r.child = l.child /\ r.manifest = l.manifest

(* measurement_proposition_id is the observation without its check. *)
Measured(x) == [x EXCEPT !.check = None]
SoundlyMeasured(o, x) ==
    /\ x.competenceCheck # None => x.competent
    /\ IsChecked(o, x.check, Measured(x), x.pins.at)
    /\ x.competenceCheck # None =>
          IsChecked(o, x.competenceCheck, [competence |-> x.pins.competence], x.pins.at)

(* The observation is of the child that its request was linked to. *)
ObservesLinkedChild(o, x) ==
    \E r \in o.requests, l \in o.links :
        /\ r.id = x.request /\ l.request = x.request
        /\ r.branch = x.branch /\ r.child = x.child
        /\ r.package = x.package /\ r.pins = x.pins
        /\ x.prefix >= l.prefix

(* Mutant: a request may be measured again. *)
ObservedAgain(o, x) ==
    /\ x.id \notin Ids(o.observations)
    /\ ObservesLinkedChild(o, x)
    /\ SoundlyMeasured(o, x)

MayRecordRecoveryObservation(o, x) ==
    /\ x.id \notin Ids(o.observations)
    /\ \A y \in o.observations : y.request # x.request
    /\ ObservesLinkedChild(o, x)
    /\ SoundlyMeasured(o, x)

(* derive_recovery_frontier for observations of one branch and one set of  *)
(* pins, and compare_recovery_frontiers for two of them.                   *)
Derivable(branch, pins, O) == \A x \in O : x.branch = branch /\ x.pins = pins
Frontier(O) == [sources |-> Ids(O), points |-> RecoveryPoints(O)]
Compared(id, pins, baseline, retained, check) ==
    [id |-> id, pins |-> pins, check |-> check,
     baseline |-> baseline, retained |-> retained,
     outcome |-> ComparisonOutcome(baseline.points, retained.points),
     coverage |-> Coverage(baseline.points, retained.points)]

(* The comparison is exactly the one its observations give. *)
IsDerivedComparison(o, c) ==
    LET B == {x \in o.observations : x.id \in c.baseline.sources}
        R == {x \in o.observations : x.id \in c.retained.sources} IN
    /\ c.baseline.sources \cup c.retained.sources \subseteq Ids(o.observations)
    /\ Derivable("baseline", c.pins, B) /\ Derivable("retained", c.pins, R)
    /\ c.baseline = Frontier(B) /\ c.retained = Frontier(R)
    /\ c = Compared(c.id, c.pins, c.baseline, c.retained, c.check)
    /\ IsChecked(o, c.check, [c EXCEPT !.check = None], c.pins.at)

MayRecordRecoveryComparison(o, c) ==
    c.id \notin Ids(o.comparisons) /\ IsDerivedComparison(o, c)

------------------------------------------------------------------------------
(* The validators of InquiryState. *)

UniqueIds(o) ==
    /\ \A k \in Kinds \ {"policies", "records"} :
          \A x, y \in o[k] : x.id = y.id => x = y
    /\ \A i, j \in DOMAIN o.policies : o.policies[i] = o.policies[j] => i = j

ValidReferences(o) == \A p \in o.packages : \A ref \in p.refs : Resolves(o, ref)

(* Every route, scaffold and protocol has exactly one package. *)
ValidRegistrations(o) ==
    \A k \in MemberKinds :
        /\ \A p, x \in o.packages : p # x => p.ids[k] \cap x.ids[k] = {}
        /\ Ids(o[k]) = UNION {p.ids[k] : p \in o.packages}

ValidPackagePins(o) ==
    \A p \in o.packages, k \in MemberKinds :
        \A x \in o[k] : x.id \in p.ids[k] => x.at = p.at

ValidRetrievals(o, sequence) ==
    /\ {r.query : r \in o.results} = Ids(o.queries)
    /\ Cardinality(o.results) = Cardinality(o.queries)
    /\ \A r \in o.results : LET q == Get(o.queries, r.query) IN
          /\ r.policy = q.policy /\ r.sequence = q.sequence /\ r.index = q.index
          /\ q.sequence < sequence
          /\ \A h \in r.hits : \E p \in o.packages : p.id = h.package /\ p = h.content
    /\ {q.policy : q \in o.queries} = {o.policies[i] : i \in DOMAIN o.policies}

ValidRequests(o, inquiry, context) ==
    /\ \A r, x \in o.requests : r.child = x.child => r = x
    /\ \A r \in o.requests :
          /\ r.parent = inquiry /\ r.pins.at = context
          /\ \E p \in o.protocols : PinsOf(p) = r.pins
          /\ r.package # None => OwnsRoute(o, r)

ValidLinks(o) ==
    /\ \A l, x \in o.links : l.request = x.request => l = x
    /\ \A l \in o.links : \E r \in o.requests :
          /\ r.id = l.request /\ r.parent = l.parent
          /\ r.child = l.child /\ r.manifest = l.manifest

ValidObservations(o) ==
    /\ \A x, y \in o.observations : x.request = y.request => x = y
    /\ \A x \in o.observations : ObservesLinkedChild(o, x) /\ SoundlyMeasured(o, x)

ValidComparisons(o) == \A c \in o.comparisons : IsDerivedComparison(o, c)

Valid(o, sequence, inquiry, context) ==
    /\ UniqueIds(o) /\ ValidReferences(o) /\ ValidRegistrations(o)
    /\ ValidPackagePins(o) /\ ValidRetrievals(o, sequence)
    /\ ValidRequests(o, inquiry, context) /\ ValidLinks(o)
    /\ ValidObservations(o) /\ ValidComparisons(o)
=============================================================================
