# TLA+ verification of RCI (ratcheting consequence inquiry)

RCI is an event-sourced Python program. One *inquiry* is one event stream in a
SQLite ledger; a pure reducer (`decide`/`evolve`) folds the stream into an
`InquiryState`; the SDK, the command line and an executor of external effects
decide commands on a rebuilt state and append the resulting events. Everything
the program promises (no fabricated result, no rewritten history, one resolution
per request, questions within their limits) has to survive several processes working on
one stream and dying at any moment. That is what these modules are about.

Paths below are relative to the repository root, which is `src/` of the paths in
`PROJECT.json`.

## Inventory

| component | state | operations | interacts with |
|---|---|---|---|
| effect lifecycle (`core/transitions.py`, `core/effects.py`) | plans, requests, attempts, outcomes, decodes, acceptance | eight commands, each decided and folded | every writer of an inquiry |
| persisted effect executor (`orchestration/effects.py`) | none durable; a call holds a rebuilt state and bytes | `execute`, `_append` | ledger, artifact store, adapter |
| event ledger (`persistence/sqlite.py`) | `streams`, `events`, `snapshots`, schema version | bootstrap, migrate, append, load, rebuild, snapshot | all callers |
| artifact store (`persistence/artifacts.py`) | content-addressed files | put, get, verify | executor, ledger |
| question loop (`sdk.py`, `orchestration/scheduler.py`) | obligations and their dispositions, manual requests | `step`, `run`, `submit_answer`, `dispatch` | reducer, ledger |
| claims and conflicts (`claims/`) | claims, conflicts, derived obligations | admit, derive, dispose | question loop |
| warrant and truth maintenance (`warrant/`) | evidence, verdicts, support routes, guards, nogoods, lemmas | warrant, promote, change standing | reducer |
| memory (`memory/`) | retention, retrieval, reconstruction, recovery records | retain, retrieve, reconstruct, reacquire | reducer, second streams |
| reacquisition saga (`sdk.py`, `persistence/sqlite.py`) | a parent and a child stream | request, start child, link, observe | two streams |
| prediction (`orchestration/cognitive.py`, `probes/`) | plans, seals, observations, errors | plan, seal, observe, compare | effect lifecycle |
| learning, compression, project recursion, generated questions | policy, representation and project records | propose, check, admit, promote, roll back | reducer |
| backlog, formal checkers, adapters, serialization, bindings, CLI | none, or pure functions | | |

What is hard here, component by component (the exact lines are under `hazards`
in `PROJECT.json`):

* **Ledger.** Connections run in autocommit mode, so each SELECT is its own
  transaction. A rebuild reads a snapshot, a version and rows in separate
  transactions while others append, snapshot and migrate.
* **Executor.** A call alternates between rebuilds, the adapter, the artifact
  store and the ledger. It may die between any two of them, another call may do
  the same work, and an append gives up after three lost races.
* **Reducer.** Identities come from callers. Late and duplicate deliveries,
  reused identities and records of another request must be told apart.
* **Question loop.** A plan is computed on one state and recorded on another,
  callers repeat calls, obligations are reopened, and budgets count events.
* **Truth maintenance.** The active theory is derived from records that arrive in
  any order and from three histories of withdrawals and restorations. Lemmas
  support each other, routes dominated at promotion take over later, and
  promotion and selection have different notions of a grounded lemma.
* **Prediction.** A prediction is worth something only if it precedes what it
  predicts, and plan, seal, effect, observation and comparison are commands of
  their own that anybody may send in any order.
* **Memory and project records.** Chains of up to seven immutable records under
  ids the caller chooses. Every rule is written twice, in `decide` and in the
  validators of the folded state; where the two differ a lawful command ends in
  an untyped `ValidationError`. A retrieval query pins a prefix that others extend.
* **Reacquisition.** Three commits to two streams. A call may die between them,
  a child's name may be taken by another parent or a plain start, and the child
  goes on after it was linked or measured.

## Modules

| module | models |
|---|---|
| `EffectPromise` | what the effect lifecycle promises, with no ledger and no identities |
| `EffectLifecycle` | the effect commands of the reducer; implements `EffectPromise` |
| `EffectExecutor` | executors with stale views, crashes and lost races; instantiates `EffectLifecycle` for the ledger they share |
| `EventLedger` | the SQLite store and its clients |
| `ManualInquiry` | step, run, submit_answer, dispatch and the scheduler |
| `TruthMaintenance` | evidence, warrant, promotion, standing and the active theory |
| `CognitiveLifecycle` | predictions, observations, mismatches and deltas around effects; instantiates `EffectLifecycle` |
| `CapabilitySelection` | domination of successor candidates and the capability frontier |
| `ProjectRecursion` | the project records, generated questions and derived goals; extends `CapabilitySelection` |
| `RecoveryFrontier` | cost vectors, frontiers and their comparison |
| `MemoryRecords` | the memory records with `decide`'s guards and the validators; extends `RecoveryFrontier` |
| `RetainedMemory` | one inquiry that retains, retrieves, reacquires and compares |
| `Reacquisition` | the saga over parent and child streams; extends `MemoryRecords` |
| `...Proofs` | the theorems about a module, for all values of its constants; `MemoryProofs` is about `RetainedMemory` and `Reacquisition` |
| `MC...` | constants for TLC |

### EffectLifecycle

`decide` answers a command with an event, with `()` because the same record is
already there, or with an exception. A command `X` is therefore `RepeatsX`
(the empty answer), `LawfulX` (the event) and `ApplyX` (its fold in `evolve`);
an exception is neither. They are operators of a folded state so that
`EffectExecutor` can decide on an old one. The actions apply them to the
current state: any caller, any order. An identity maps to the content recorded
under it or to `None`. `RepeatsX` is only stated for commands a modelled caller
repeats; as an action it would be a stuttering step. Artifact references,
diagnostics and event times are left out. The time a return was captured stays
(`stamp`), because it decides whether two outcomes of an attempt are equal.

`RequestsArePlanned` to `AcceptedIsDecoded` transcribe the pydantic validators
that run on each folded state. `evolve` would raise an untyped `ValidationError`
if a lawful command led outside them.

### EffectExecutor

`pc` follows `execute`: `version`/`rows` are the two SELECTs of a rebuild,
`enter` the early returns, `commit` the decide-and-append of `_append`. `stage`
is the command being appended. `view` is the state a call last rebuilt, `held`
what it has in memory. The append compares `view.sequence` with the stream
(`ExpectedSequence`) and retries a lost race (`LoseRace`) up to `RaceLimit`.
The adapter is external: `Preflight` passes or is unsupported, `perform` returns
one of `Payloads` or fails with one of `AdapterFailures`, the decoder is the
function `DecodeKindOf`. `Cancel` is another writer of the inquiry. Snapshots
are left to `EventLedger`, whose `RebuildIsCurrent` is what justifies reading
the fold of the stream here. `accept_decoded` has its default value, which no
caller changes. The checks of route, adapter version and size at the entry of
`execute` are preconditions of the modelled calls.

### EventLedger

An event is a key with a content, and the fold of a list of events is the list
itself, which tells apart whatever any reducer tells apart. `NewEvents` and
`Refused` are the pattern all of `decide` shares: a command sees the events of
those before it in its batch. `SharedKeys` are events whose
id does not mention the stream (backlog effects), so that the uniqueness of
`event_id` over all streams bites. A rebuild is `SelectSnapshot`, two reads that
verify the snapshot, and the read of the tail. `save_snapshot` is
`MeasureStream`, two reads and `InsertSnapshot`. `append` and the snapshot
insertion are one transaction each, and one action each. The fold schema of a
snapshot is always the current one, except across the modelled migration from
database schema 1, which drops all snapshots.

### ManualInquiry

A call inspects the inquiry, decides what to do, and applies a batch through
`_apply_batch`, which rebuilds, decides and appends. Inspect, rebuild and append
are steps of their own. Identities are derived in the code: the plan from the
scheduler's input, which contains the sequence, the request from the plan, the
first attempt from the request. One entry of `requests`, named by that sequence
(`at`), stands for the plan, its request and its attempts. `dispatch` records
everything else one command at a time: openings and dispositions of obligations,
warrant decisions, and further attempts of a request, which are planned, started,
ended, returned, decoded and accepted like the first. As in the code a request is
pending while any of its attempts runs, the scheduler counts attempts and not
requests, and `submit_answer` always answers the first attempt. A satisfied
disposition needs an accepted answer to the obligation or a hard warrant decision
about its carrier (`HasEvidence`); which propositions have evidence that earns one
is the constant `Checked`, how it is earned is in `TruthMaintenance`. The requests
themselves are those `step` makes. `Rank` merges safety rank, priority and depth.
`Supported` and `Renderable` say which obligations have an admitted contract
and an argument for its role. The claim an answer becomes is left out except
for the obligations it derives (`Derives`).

### TruthMaintenance

Callers submit records with ids of their own choosing. The constants `Evidence`,
`Verdicts`, `Evaluations`, `Nogoods`, `Claims` and `Proposals` are catalogues of
such records, and an action records a member of one. An inquiry has one scope,
binding, universe and policy, and commands with other ones raise, so records do
not carry them. The `LemmaVersion`, the `LemmaSupport` and the `PromotionLink` that one promotion
records are one entry of `promoted`. Equal decisions and links are idempotent
repeats, and so stuttering. `Grounded` states the fixed point the loop of
`grounded_lemma_ids` computes; `GroundedLoop` is the loop itself, pass by
pass (`Pass`), and `LoopFindsActive` compares them. A nogood's own check is tested again whenever a
theory is selected; records are immutable, so it always passes, and
`EnvironmentHolds` leaves it out. The open boundary a route
declares is tested only at promotion, as in the code: `select_active_theory` asks
only for the required lemmas. `LemmaSupport` and the folded state are validated
when a promotion is folded; a promotion that would fail there raises and is not a
step (`SupportIsValid`). Structural conflicts of claims do not touch support and
are left out.

### CognitiveLifecycle

The aggregate is the record of `EffectLifecycle` (`inquiry`) beside the cognitive
records (`mind`); `Effects!` commands and cognitive commands share one sequence.
`MayX` is the branch of `decide`, `X` the command with its fold. A submitted
record carries no positions: `decide` wants them equal to the event's own
position, so recording fills them in. `happened` remembers where an attempt that a
plan may name was planned and started and where its outcome was recorded; no guard
reads it, only the properties. `LifecycleViolations` is `validate_cognitive_lifecycle`, which the
code offers as a check of one assembled lifecycle and which shares no code with
the reducer: the model runs both against each other. Its `attempt_sequence`, which
only a test fills in, is taken to be the position of the attempt's start. `LifecycleIsValid` names the two findings the reducer does not prevent
(`Tolerated`) and when each can occur; every other finding is impossible. Requests are already made
under ready plans in `Init`, which is a state any inquiry reaches with effect
commands alone.

### ProjectRecursion and CapabilitySelection

`owned` maps each of the eighteen kinds of project record to what the inquiry
owns, plus the obligations and answers of generated questions. `MayX` is the
branch of `decide`, `Valid` the project validators of `InquiryState`, and an
action records a submitted record when both accept it. A record is immutable and
its id is used once, so the catalogue `Submitted` holds right and wrong records
under the same ids: whichever comes first excludes the others. Answers to a
generated question, the goal candidates `compile_implementation_goal_candidate`
derives from them and the goals sealed from those are computed, not submitted.
Question text, commit digests and gate output are model values.
`CapabilitySelection` has the partial order of `candidate_dominates` and the
selection of `derive_capability_frontier`, unknown costs included.

### RecoveryFrontier, MemoryRecords and RetainedMemory

`MemoryRecords` is written over a folded state `o`, so that `RetainedMemory` (one
inquiry) and `Reacquisition` (several) use the same guards. Fingerprints are the
records themselves: content addressing is taken to be injective. Costs stay
fractions, compared by cross multiplication. In `RetainedMemory` a query is built
on one state (`BuildQuery`) and dispatched on a later one (`RunRetrieval`).
`RetrievalFails` is the outcome the code has for a second retrieval of an inquiry:
`decide` accepts it, the fold appends the policy snapshot again and the validator
that wants policies unique raises, so nothing is appended.

### Reacquisition

A call of `start_reacquisition` is the steps request, start and link, each a read
and an append of its own; `start_reacquisition_child` and
`link_reacquisition_inquiry` are calls that begin later (`Entry`). An append
compares the version read and runs the validators of `append` on the child's
stream in its transaction. `Process` says which clients share a process and so
take turns. A crash forgets `held`; other writers extend parent and child, and a
plain start may take a child's name; `faults` counts them. A child's event carries
what later checks read: the manifest, the work done so far and whether the inquiry is
finished. A digest of a prefix is the prefix. The specification is `SagaSpec`
(`SagaInit`, `SagaNext`): `MemoryProofs` extends it together with `RetainedMemory`.

## Runs

| run | states | what it shows |
|---|---|---|
| `effect_lifecycle` | 51 thousand | two requests, three attempts, two returns and decodes: validators accept, provenance, finality, refinement of `EffectPromise` |
| `effect_executor` | 1.0 million | two executors, two attempts of one request, three calls, a decodable and a malformed payload |
| `effect_executor_live` | 74 thousand | two calls under fairness: every call ends |
| `event_ledger` | 459 thousand | two clients, two streams, four operations, one damaged snapshot, either schema |
| `question_loop` | 676 thousand | one caller, four calls, four dispatches, six obligations, under fairness: every call ends |
| `question_loop_concurrent` | 1.8 million | two callers, three calls, three dispatches, four obligations, one attempt per key: fresh and stale plans, evidence, answers |
| `truth_maintenance` | 500 thousand | two lemmas that can support each other, four routes, two environments, one nogood, one guard; evidence and verdicts that must not count |
| `prediction` | 475 thousand | cognitive commands in any order around the effects of two requests, two attempts, one return |
| `project_recursion` | 12 thousand | every order of the project commands over a catalogue of right and wrong records |
| `retained_memory` | 6.5 thousand | two packages, three queries, two baseline and two retained measurements with their alternatives |
| `reacquisition` | 136 thousand | three callers, two parents, one child name, a crash or an intruder, under fairness |
| `derived_obligation` | | a violation, see Findings |

The properties, by what they protect:

* *Provenance*: `AcceptanceProvenance`, `AcceptedIsGenuine`, `SatisfiedHasEvidence`,
  `MergedIsEarned`, `AdmittedIsReviewed`, `LinkIsGenuine`, `ChildHasOneParent`,
  `ObservationIsOfFinishedPrefix`.
* *Finality*: `ResolutionIsFinal`, `AcknowledgedAnswersStand`,
  `OpenQuestionKeepsItsDecision`.
* *Serialization*: `LedgerIsLawful`, `StaleWritesNeverFork`, `IdentitiesAreUnique`.
* *Recovery*: `EventsHaveArtifacts`, `ReturnMeansSettled`, `RebuildIsCurrent`,
  `SnapshotsAreDerived`.
* *Order*: `PerformIsDue` (the adapter runs only after a durable start, and not in a
  call that begins after the outcome), `QuestionsAreJustified` (of a question recorded
  on the state it was planned on), `MismatchIsForesight`.
* *What a stale plan can do*: `StalePlansAreBounded`.
* *Justification*: `ActiveIsWarranted`, `TheoryIsUnique`, `PromotionIsGrounded`,
  `UnattackedIsDischarged`, `LoopFindsActive`.
* *Retraction*: `InvalidationOnlyShrinks`, `StandingChangesAreLocal`.
* *Agreement of two pieces of code*: `ValidatorsAccept` and both
  `DecideAgreesWithFold` (`decide` and the validators), `LifecycleIsValid` (the
  reducer and `validate_cognitive_lifecycle`).
* *Algorithms against what they are for*: `FrontierIsSound`, `AdvantageIsReal`,
  `RetrievalIsExact`.
* *Refinement*: `KeepsPromise`. That the executors keep the promise too is proved
  (`ExecutorsKeepPromise`): `LedgerIsLawful` makes every step of the shared ledger
  one of `EffectLifecycle`.
* *Termination*: `CallsEnd` of the executor and of the question loop,
  `SagaCompletes`.

The type invariants of the catalogue modules are conjuncts of their first property
(`LinkIsGenuine`, `LifecycleIsValid`, `DecideAgreesWithFold`, `StalePlansAreBounded`);
those of
`EffectLifecycle` and `TruthMaintenance` are proved.

**Bounds.** Two requests and three attempts are the least that let a request be
retried while another competes for the same return. Two executors with three
calls cover a race, a crash and a resumption, and a late second delivery. The
race limit of three is the code's own. Two clients and four operations let a
reader overlap two writes and a snapshot. Budget 18, with two attempts per key
for one caller and one for two callers, makes both limits of the scheduler bite (the
code has 100 and 3). Four calls let an answer be repeated and a question be reopened;
with two callers three calls and three dispatches let a plan be overtaken by another
one whose attempt has already ended. `MaxCalls`,
`MaxOps`, `MaxDamage` and `MaxDispatches` only bound how long TLC looks.
Lemma A is shown outright or, on an assumption, from B; B is shown from A or, on
the assumption, outright: the least in which a cycle, a dominated route, a late
dependency and a shared environment all occur. `MaxChanges` of two allows a
withdrawal and its restoration.
`MaxEvents` of 14 leaves nine events after the requests: enough for plan, attempt,
start, seal, return, decode, and two of observation, reconstruction, mismatch and
delta, or for a second plan in between. Catalogues of records bound the other runs
by themselves: every id is used at most once. `QueryHorizon` is the last sequence
at which a query is built. One child name for two parents is what makes them
collide; five events let a child finish, be measured, be reopened and finish again.
One fault suffices to cut each of the saga's commits from the next.
Behaviours stop when these bounds are used up, hence `CHECK_DEADLOCK FALSE`.
Symmetry is used only in runs without liveness properties.

**Fairness.** In the executor and the question loop only the steps of a call in
progress are fair (`WF` of `Step` and `Progress`): adapters are bounded by `timeout_seconds`, SQLite waits by the busy
timeout, and nothing in a call waits for another call. No call is owed to
anyone: a crashed call need not be made again. `SagaCompletes` is about a caller
that does call again, which is how the code means a saga to be resumed: `WF` of
`CallStep` covers the steps of its calls and the next call. A lost race needs
another writer's commit, of which there are finitely many.

## Proofs

Eight modules prove their component's safety properties for every value of the
constants: any number of clients, executors, callers, streams, records and
operations, so without the bounds of the runs. Each has an inductive invariant
`IInv` (`SagaIInv` for the saga), checked by TLC on the run's instance before it was proved, and one lemma per
action. What they assume of the constants is stated in the modelled module and
evaluated by TLC on every run:

| module | assumptions |
|---|---|
| `EffectLifecycle` | `NoneAssumption`: the placeholder is none of the recorded values |
| `EffectExecutor` | `ExecutorAssumption`, `PlannedAssumption`: finitely many planned requests and attempts, at least one plan and route |
| `EventLedger` | `LedgerAssumption`, `ExistingDatabase`: the rows found satisfy the UNIQUE constraints and were decided one after the other |
| `ManualInquiry` | `ManualAssumption`: obligations are typed, a run takes at least one step (`sdk.py:932`), finitely many callers, at least one, and finitely many checked propositions |
| `TruthMaintenance` | `CatalogueAssumption`: finitely many lemmas, routes with one id are equal, open lemmas are among the required ones |
| `CognitiveLifecycle` | `CognitiveAssumption`, `SubmittedAssumption`: submitted records have the fields of their class |
| `RecoveryFrontier`, `MemoryRecords` | `OrderAssumption`, `PackageOrderAssumption`: axes and ids have places in an order, different ids different ones |
| `RetainedMemory` | `MemoryAssumption`: submitted records pass the validators of their class and have ids with a place in the order; finitely many records to begin with |
| `Reacquisition` | `TaskAssumption`, `StreamAssumption`: a start has a manifest and room for its two events |
| `ProjectRecursion` | `SubmittedAssumption` (the class validators), `GoalNameAssumption` (fingerprints are injective and there is one for each triple), `IdOrderAssumption` |

Loops (`NewEvents`, `NewObligations`, `Pass` and `GroundedLoop`) are recursive
functions. That such a function exists and what it computes is proved by taking a
least counterexample (`LeastNatural`, from the well-foundedness of `<`), the form of
induction that needs no operator as a parameter.

**EffectLifecycleProofs.**

* `TypeCorrect`, `ValidatorsNeverReject`: `IInv == TypeOK /\ ValidatorsAccept`. The
  validators are inductive together and not one by one: that captured returns stay
  unique needs each outcome to belong to a started attempt, that a decode still
  reads a captured return needs outcomes never to be replaced.
* `EveryAcceptanceHasProvenance` follows from `IInv` in every state: unique return
  ids make the attempt behind the accepted decode unique (`UniqueSource`).
* `HistoryIsNeverRewritten`, `ResolutionsAreFinal`: action properties.
* `AggregateKeepsPromise`: the refinement of `EffectPromise`. A start is `Begin`, an
  outcome is `Finish`, an acceptance is `Resolve`, everything else stutters.

**EffectExecutorProofs.** A view is an earlier state of the inquiry (`Behind`):
nothing in it was rewritten since, and with the sequence of the inquiry it *is* the
inquiry. So an append at the expected sequence was decided on the current state.

* `LedgerIsAlwaysLawful`: every durable step is a step of `EffectLifecycle`, whose
  theorems therefore hold of the shared ledger; `ExecutorsKeepPromise`: the
  executors implement `EffectPromise` themselves.
* `EventsAlwaysHaveArtifacts`, `AcceptedIsAlwaysGenuine`: `LedgerIsGenuine` says
  where the bytes of each recorded return and decode come from.
* `PerformIsAlwaysDue`, `ReturnAlwaysMeansSettled`: `CallIsSound` says what each step
  of a call knows of its target, what it holds in memory and what is durable.

**EventLedgerProofs.** `Sound(c)` is what client `c` may still rely on between its
transactions: streams only grow, so a prefix once seen stays one. With it,
`IdentitiesStayUnique` (over all streams), `SnapshotsStayDerived`,
`RebuildStaysCurrent` and `NoStaleWriteForks`. That a batch never repeats an identity
is a fact about the loop over the batch (`Decided`).

**ManualInquiryProofs.** Every command makes the stream longer and leaves accepted
requests alone (`Stands`); a view is an earlier state, and with the sequence of the
inquiry it is the inquiry. All but the last theorem hold for any number of callers.

* `SatisfiedAlwaysHasEvidence`, `AcknowledgedAnswersAlwaysStand` follow from `IInv`.
* `StalePlansStayBounded`: `BoundInv` counts, for each obligation, the requests about it
  and the callers that hold an unrecorded plan for it. A caller joins the holders only
  when the attempts are below the limit, each request has an attempt, and a caller that
  records its plan leaves the holders. The number of requests alone is not inductive:
  it says nothing of the plans still to be recorded.
* `FreshQuestionsKeepPolicy`: a plan recorded at the sequence it names was made on that
  very state (`PlanIsSound`), so what the scheduler checked is still so.
* `OneCallerAsksWithinPolicy` (`\A v, w \in Users : v = w`): a lone caller's plans are
  all recorded on the state they were made on.

**TruthMaintenanceProofs.**

* `IInv` joins `TypeOK`, the ownership of cited records (`RecordsInv`), one version
  per lemma id, routes that conclude their own lemma, a hard decision behind each
  promoted lemma (`LemmasAreWarranted`), acyclic support, `PromotionIsGrounded` and
  `UnattackedIsDischarged`. None of the last four is inductive without the first
  four: a later record may not change what an earlier check resolved to.
* `GroundedIsFixed` and `GroundedIsLeast` are the Knaster-Tarski facts about
  `Grounded`; monotonicity gives `TheoryFollowsStanding`.
* `OneTheory`: two fixed points of an acyclic support graph differ on a set with a
  member none of whose requirements is in the set, and that member is in both or
  in neither. `ChangesStayLocal` argues the same way outside `Downstream`.
* `LoopAlwaysFindsActive`: a pass adds only grounded lemmas, a pass that adds nothing
  leaves a closed set, and there are as many passes as there can be additions.
* `ActiveLemmasAreWarranted`, `PromotionsAreGrounded`, `AttacksAreMandatory` and
  `RecordsAreKept` follow from `IInv` and the guards.

**CognitiveLifecycleProofs.** `IInv` instantiates that of `EffectLifecycleProofs` for
the effect part and adds where each cognitive record stands in the stream; a step
records one event after everything that is there. `MismatchIsAlwaysForesight` and
`LifecycleIsAlwaysValid`, the latter finding by finding (`NothingFound`): all but two
are excluded outright, those two whenever the plan followed its attempt, or the seal
was not recorded between start and outcome.

**MemoryProofs** has both specifications over the memory records.

`RetainedMemory`: the committed state is validated after each command, so `IInv` is
`Valid` with the types; what takes the proof is what the validators amount to.

* `AdvantageIsAlwaysReal`: cross multiplication orders fractions (`CrossMultiplied`,
  `CompareDecides`), so "no worse on any axis" is a preorder; below each of finitely many
  measurements there is an undominated one (`SomeUndominated`), whose cost one of the
  frontier's points has (`UndominatedHasPoint`, `PointIsUndominated`). The order in which
  a witness is chosen is total (`LexConnected`), so there is one (`WitnessIsFirst`), and
  it decides strictness for all points with a cover (`OutcomeIsAdvantage`). That a check
  is of one measurement only follows from its proposition, which names the id.
* `RetrievalIsAlwaysExact`: the ranks, then the ids, order the packages totally
  (`RankingIsTotal`); the members of a finite total order with fewer than *limit* before
  them are its first *limit* (`FirstOfOrder`). The one step that adds a result was decided
  on the prefix its query pins (`OnlyRetrievalAnswers`).
* `AcceptedRecordsAlwaysFold`: a validator reads a few collections and holds of every
  state that keeps or extends them (the lemmas `...StayValid`); what `decide` accepts is
  new under its id, so no comparison changes its sources and no package gains a member.
  The proof needs that a registration does not repeat an id among its members. The model
  had left that out; `memory/models.py` 565-568 enforces it, by comparing the ids with
  the canonical tuple in the package, and `IsRegistration` now says so.

`Reacquisition`: a link and an observation are checked against the child's
stream in the transaction that appends them, and streams only grow (`LinkStands`,
`ObservationStands`): `LinksStayGenuine`, `ObservationsStayOfFinishedPrefix`. The
manifest in the child's first event names one parent and one request, which gives
`ChildAlwaysHasOneParent`.

**ProjectRecursionProofs.** The folded state is validated after each command, so
`Valid` is inductive for nothing. `Sound` is what only `decide` checked, once, when the
record was new; it survives because records are never rewritten and an identity is
used once in its kind.

* `MergedIsAlwaysEarned`, `AdmittedIsAlwaysReviewed`,
  `OpenQuestionAlwaysKeepsItsDecision` put the chain of records together from both.
* `FrontierIsAlwaysSound`: domination is irreflexive and transitive on candidates
  whose costs are known, so among finitely many candidates whatever is dropped is
  dominated by one that is kept (`KeptDominate`).
* `DecideAlwaysAgreesWithFold`: each validator, stated for one record (`FoldsAs`), is
  implied by the guard of its command and is stable under every later one
  (`FoldsStay`). The attempt to prove it found an exception the catalogue did not
  have: a checkpoint that cites a record of another kind under its own id.

Every invariant and every action property that a passing run checks is proved. Only
model-checked: liveness (`CallsEnd`, `SagaCompletes`), since fairness and `ENABLED` are
outside the prover's reach.

## Findings

`derived_obligation`: a step on an obligation derived from a claim raises an
untyped error, and so does every later one. The scheduler promises to select one
ready obligation or to terminate lawfully.

What the models also show the code to do, where it surprises or where a sentence of
the docs can be read otherwise:

* `load_stream` reports a sequence gap in an undamaged stream when an append
  commits between its two SELECTs (`persistence/sqlite.py:708`).
* A disposition saying that execution was never attempted may be recorded for a
  request with a started attempt (`core/transitions.py:583`).
* A step overtaken by another writer records its plan all the same; two concurrent
  steps leave two pending requests for one obligation, and after one is answered
  the other cannot be (`sdk.py:892`). `StalePlansAreBounded` shows how far this goes.
* One caller can have two questions pending too: it cancels an attempt, steps to the
  next question, and plans and starts another attempt of the first request by
  dispatch (`core/transitions.py:528`).
* A request whose first attempt has ended and whose second one runs is reported as
  waiting for input, but `submit_answer` addresses the first attempt and is refused
  (`sdk.py:1057`).
* An obligation can be satisfied with no answer at all, by a hard warrant decision
  about its carrier (`core/transitions.py:787`).
* Promotion ignores nogoods and withdrawn routes, so a lemma may be hard-promoted
  that has no active view (`warrant/policy.py:257`).
* The second retrieval of an inquiry always fails in the fold, because each
  retrieval appends its policy and policies must be unique
  (`core/transitions.py:4491`, `core/state.py:585`).
* A recorded goal candidate is not inert: later repertoire decisions about its
  question are refused by the validators (`core/state.py:1412`); so are a goal
  whose anchor is not its frontier's and a rejecting method decision that names an
  unknown goal, which `decide` accepts. So is a checkpoint that cites a record of
  another kind under its own id: `decide` only asks that the record is owned
  (`core/transitions.py:3705`), the validator that no checkpoint cites itself
  (`core/state.py:1526`).
* A prediction may be sealed while its attempt runs, as long as no outcome is
  recorded (`core/transitions.py:1350`). `docs/adr/0003` (line 32) says "Prediction
  seals must precede the relevant attempt", `docs/architecture.md` (line 457) that a
  prediction used for mismatch "precedes the attempt", and the reference check wants
  it too (`prediction_not_sealed_before_attempt`). `LifecycleIsValid` shows that the
  check finds exactly the seals recorded while the attempt ran; `MismatchIsForesight`
  shows what remains true of a mismatch: the seal precedes the return.
* The attempt a cognitive plan names may be planned afterwards, for another request.
* A consequence bridge whose lemma has been withdrawn still justifies comparing
  probe events (`probes/lifecycle.py:32`).

## Not modelled, and the plan

Modelled first, because everything else is written through it: reducer of
effects, executor, ledger, question loop; then truth maintenance; then prediction,
project recursion, memory and the saga. Next, in order:

1. `PolicyLifecycle`: learning policies with candidate, shadow, promotion and
   rollback.
2. The representation ratchet of `compression/`. Both are records with guards and
   validators like those of `ProjectRecursion`, and could be proved about in the
   same way.

Parts of modelled components that are left out: the recount of the histories an
observation measured and the projection checkpoints of the ledger
(`persistence/sqlite.py` 408-433, 922-1033); rename-into-place inside the artifact
store; the report of ungrounded cycles, theories for pins other than the inquiry's
own, and candidate, residual and correction records of the warrant part;
`memory/reconstruction.py` and the builders of semantic fields, pure functions no
command calls; the wording of questions.

Out of scope: the SMT backend and formula evaluation, the adapters behind the
executor, backlog reconciliation, serialization formats, the command line, and
static binding data. They keep no state, or only state the modelled parts observe
through an interface that is a constant here.
