----------------------------- MODULE Reacquisition -----------------------------
(***************************************************************************)
(* The reacquisition saga over several streams of one ledger: a parent     *)
(* records a request, the child stream is started with a manifest that     *)
(* names parent and request, and the parent links the child's prefix       *)
(* (src/src/rci/sdk.py, start_reacquisition).  The three commits are       *)
(* separate transactions; a call may crash between any two steps, may be   *)
(* repeated, and runs beside other calls and other commands.               *)
(*                                                                         *)
(* A command reads a stream, decides, and appends at the version read; the *)
(* append refuses another version, and checks links and observations       *)
(* against the child stream in its transaction (src/src/rci/persistence/   *)
(* sqlite.py).  Any error ends the call; the caller may call again.        *)
(***************************************************************************)
EXTENDS MemoryRecords

CONSTANTS
    Parents,        \* inquiries that reacquire
    Registration,   \* the retention package each of them registered
    Children,       \* identities of child inquiries
    Clients,        \* callers
    Process,        \* client -> the process it runs in, one call at a time
    Task,           \* client -> the request it makes
    Entry,          \* client -> the steps its calls may begin with
    Work,           \* effects and probes a child may complete
    Plain,          \* the manifest of an inquiry started on its own
    MaxChildEvents, MaxFaults    \* bounds

(* Mutant: the manifest does not name the parent. *)
AnonymousManifest(r) == <<r.child, r.id, r.child>>

(* ReacquisitionChildManifest: what the child is started with. *)
ChildManifest(r) == <<r.parent, r.id, r.child>>

ASSUME TaskAssumption ==
    /\ \A k \in Clients : /\ DOMAIN Task[k] = {"id", "parent", "child", "branch", "pins",
                                              "package", "scaffold"}
                          /\ IsRequest(Task[k])
                          /\ Task[k].parent \in Parents /\ Task[k].child \in Children
                          /\ Entry[k] \subseteq {"request", "start", "link"}
    /\ IsRegistration(Registration)

(* A start always has a manifest, a started child has room for the two     *)
(* events of its start, and None is no manifest.                           *)
ASSUME StreamAssumption ==
    /\ Plain # None /\ \A k \in Clients : ChildManifest(Task[k]) # None
    /\ MaxChildEvents \in Nat /\ MaxChildEvents >= 2 /\ MaxFaults \in Nat

VARIABLES
    memory,     \* parent -> its requests, links and observations
    version,    \* parent -> the version of its stream
    stream,     \* child -> its events
    pc,         \* client -> the step of its call
    held,       \* client -> what its call has read
    faults      \* crashes and commands of others so far
sagaVars == <<memory, version, stream, pc, held, faults>>

Steps == {"idle", "request", "append request", "start", "append start", "link",
          "digest", "decide link", "append link"}
Nothing == [version |-> 0, prefix |-> 0, manifest |-> None, digest |-> <<>>]

(* The state of a parent: what it registered before, and its memory.       *)
Before == WithRegistration([Empty EXCEPT !.records = Recorded], Registration)
StateWith(m) == [Before EXCEPT !.requests = m.requests, !.links = m.links]

SagaInit ==
    /\ memory = [p \in Parents |-> [requests |-> {}, links |-> {}, observations |-> {}]]
    /\ version = [p \in Parents |-> 2]
    /\ stream = [c \in Children |-> <<>>]
    /\ pc = [k \in Clients |-> "idle"]
    /\ held = [k \in Clients |-> Nothing]
    /\ faults = 0

(* The request a client makes carries the artifact of its manifest. *)
RequestOf == [k \in Clients |->
    [x \in DOMAIN Task[k] \cup {"manifest"} |->
        IF x = "manifest" THEN ChildManifest(Task[k]) ELSE Task[k][x]]]
Requested(k) == RequestOf[k] \in memory[Task[k].parent].requests
LinkedTo(k) == \E l \in memory[Task[k].parent].links : l.request = Task[k].id

------------------------------------------------------------------------------
(* The streams. *)

(* An event of a child: the manifest of a start and, after the event,      *)
(* whether all obligations are satisfied and what work was completed.      *)
Event(manifest, done, work) == [manifest |-> manifest, done |-> done, work |-> work]

(* _start_with_manifest: one batch starts and opens the first obligation.  *)
Started(manifest) == <<Event(manifest, FALSE, {}), Event(None, FALSE, {})>>
ManifestOf(s) == s[1].manifest
Latest(s) == s[Len(s)]

(* stream_prefix_digest *)
PrefixDigest(s, n) == SubSeq(s, 1, n)

(* append on a parent: its version is still the one read, and the state    *)
(* folds (the parts of Valid that a request or a link can disturb).        *)
Commit(p, v, kind, x) ==
    LET m == [memory[p] EXCEPT ![kind] = @ \cup {x}]
        o == StateWith(m) IN
    /\ version[p] = v
    /\ UniqueIds(o) /\ ValidRequests(o, p, Context) /\ ValidLinks(o)
    /\ memory' = [memory EXCEPT ![p] = m]
    /\ version' = [version EXCEPT ![p] = v + 1]

(* Mutant: the digest of the link is not compared. *)
LinkOfAnyDigest(o, l) ==
    /\ Len(stream[l.child]) >= l.prefix
    /\ \E r \in o.requests :
          /\ r.id = l.request
          /\ ManifestOf(stream[l.child]) = l.manifest
          /\ ManifestOf(stream[l.child]) = r.manifest
          /\ r.manifest = ChildManifest(r)

(* _validate_reacquisition_link: the prefix exists, begins with the start  *)
(* that the request and the link name, and has the digest of the link.     *)
ValidatesLink(o, l) ==
    /\ Len(stream[l.child]) >= l.prefix
    /\ PrefixDigest(stream[l.child], l.prefix) = l.digest
    /\ \E r \in o.requests :
          /\ r.id = l.request
          /\ ManifestOf(stream[l.child]) = l.manifest
          /\ ManifestOf(stream[l.child]) = r.manifest
          /\ r.manifest = ChildManifest(r)

(* Mutant: the child is judged by its latest event. *)
FinishedNow(o, x) ==
    /\ \E r \in o.requests, l \in o.links : r.id = x.request /\ l.request = x.request
    /\ Len(stream[x.child]) >= x.prefix
    /\ PrefixDigest(stream[x.child], x.prefix) = x.digest
    /\ LET last == Latest(stream[x.child]) IN
          x.work \subseteq last.work /\ last.done

(* _validate_recovery_observation: the prefix is as measured, contains the *)
(* work, and leaves no obligation of the child unsatisfied.                *)
ValidatesObservation(o, x) ==
    /\ \E r \in o.requests, l \in o.links : r.id = x.request /\ l.request = x.request
    /\ Len(stream[x.child]) >= x.prefix
    /\ PrefixDigest(stream[x.child], x.prefix) = x.digest
    /\ LET last == stream[x.child][x.prefix] IN
          x.work \subseteq last.work /\ last.done

------------------------------------------------------------------------------
(* The steps of a call of start_reacquisition. *)

Goto(k, step) == pc' = [pc EXCEPT ![k] = step] /\ UNCHANGED held
Return(k) == /\ pc' = [pc EXCEPT ![k] = "idle"]
           /\ held' = [held EXCEPT ![k] = Nothing]
Keep(k, step, h) == pc' = [pc EXCEPT ![k] = step] /\ held' = [held EXCEPT ![k] = h]

(* start_reacquisition takes all three steps, the other calls begin later. *)
Call(k) ==
    /\ \A j \in Clients : Process[j] = Process[k] => pc[j] = "idle"
    /\ \E step \in Entry[k] : Goto(k, step)
    /\ UNCHANGED <<memory, version, stream, faults>>

(* request_reacquisition: the same request again needs no event. *)
DecideRequest(k) ==
    LET p == Task[k].parent IN
    /\ pc[k] = "request"
    /\ CASE Requested(k) -> Goto(k, "start")
         [] ~ Requested(k) /\ MayRequestReacquisition(StateWith(memory[p]), RequestOf[k], p, Context) ->
               Keep(k, "append request", [Nothing EXCEPT !.version = version[p]])
         [] OTHER -> Return(k)
    /\ UNCHANGED <<memory, version, stream, faults>>

AppendRequest(k) ==
    LET p == Task[k].parent IN
    /\ pc[k] = "append request"
    /\ \/ /\ Commit(p, held[k].version, "requests", RequestOf[k])
          /\ Keep(k, "start", Nothing)
       \/ /\ version[p] # held[k].version
          /\ Return(k)
          /\ UNCHANGED <<memory, version>>
    /\ UNCHANGED <<stream, faults>>

(* Mutant: a child that exists is never resumed. *)
ChildMustBeNew(k) ==
    LET s == stream[Task[k].child] IN
    /\ pc[k] = "start"
    /\ IF Requested(k) /\ s = <<>> THEN Goto(k, "append start") ELSE Return(k)
    /\ UNCHANGED <<memory, version, stream, faults>>

(* start_reacquisition_child: the request is owned, and a child with its   *)
(* manifest is resumed.                                                    *)
DecideStart(k) ==
    LET s == stream[Task[k].child] IN
    /\ pc[k] = "start"
    /\ CASE Requested(k) /\ s = <<>> -> Goto(k, "append start")
         [] Requested(k) /\ s # <<>> /\ ManifestOf(s) = RequestOf[k].manifest ->
               Goto(k, "link")
         [] OTHER -> Return(k)
    /\ UNCHANGED <<memory, version, stream, faults>>

AppendStart(k) ==
    LET c == Task[k].child IN
    /\ pc[k] = "append start"
    /\ \/ /\ stream[c] = <<>>
          /\ stream' = [stream EXCEPT ![c] = Started(RequestOf[k].manifest)]
          /\ Goto(k, "link")
       \/ stream[c] # <<>> /\ Return(k) /\ UNCHANGED stream
    /\ UNCHANGED <<memory, version, faults>>

(* link_reacquisition_inquiry: the call is over when the link is there;    *)
(* else the child is read, and read once more for its digest.              *)
ReadChild(k) ==
    LET s == stream[Task[k].child] IN
    /\ pc[k] = "link"
    /\ IF ~ Requested(k) \/ LinkedTo(k) \/ s = <<>> THEN Return(k)
       ELSE Keep(k, "digest", [Nothing EXCEPT !.prefix = Len(s), !.manifest = ManifestOf(s)])
    /\ UNCHANGED <<memory, version, stream, faults>>

ReadDigest(k) ==
    LET s == stream[Task[k].child] IN
    /\ pc[k] = "digest"
    /\ Keep(k, "decide link", [held[k] EXCEPT !.digest = PrefixDigest(s, Len(s))])
    /\ UNCHANGED <<memory, version, stream, faults>>

LinkOf(k) ==
    [id |-> <<Task[k].parent, Task[k].id>>, request |-> Task[k].id,
     parent |-> Task[k].parent, child |-> Task[k].child,
     manifest |-> held[k].manifest, prefix |-> held[k].prefix, digest |-> held[k].digest]

(* The same link again needs no event; a different one is refused.         *)
DecideLink(k) ==
    LET p == Task[k].parent IN
    /\ pc[k] = "decide link"
    /\ IF MayLinkReacquisitionInquiry(memory[p], LinkOf(k))
       THEN Keep(k, "append link", [held[k] EXCEPT !.version = version[p]])
       ELSE Return(k)
    /\ UNCHANGED <<memory, version, stream, faults>>

AppendLink(k) ==
    LET p == Task[k].parent IN
    /\ pc[k] = "append link"
    /\ \/ /\ ValidatesLink(memory[p], LinkOf(k))
          /\ Commit(p, held[k].version, "links", LinkOf(k))
       \/ /\ version[p] # held[k].version \/ ~ ValidatesLink(memory[p], LinkOf(k))
          /\ UNCHANGED <<memory, version>>
    /\ Return(k)
    /\ UNCHANGED <<stream, faults>>

Crash(k) ==
    /\ pc[k] # "idle" /\ faults < MaxFaults
    /\ faults' = faults + 1
    /\ Return(k)
    /\ UNCHANGED <<memory, version, stream>>

------------------------------------------------------------------------------
(* What happens beside the calls. *)

(* Somebody starts an inquiry of that name on its own. *)
StartPlain(c) ==
    /\ stream[c] = <<>>
    /\ stream' = [stream EXCEPT ![c] = Started(Plain)]
    /\ UNCHANGED <<memory, version, pc, held, faults>>

(* An event of a child completes some work, settles its last obligation or *)
(* opens another.  What an inquiry of its own does is of no consequence.   *)
ChildStep(c) ==
    /\ stream[c] # <<>> /\ ManifestOf(stream[c]) # Plain /\ Len(stream[c]) < MaxChildEvents
    /\ LET last == Latest(stream[c]) IN
       \E next \in {Event(None, ~ last.done, last.work)}
                      \cup {Event(None, last.done, last.work \cup {w}) : w \in Work \ last.work} :
          stream' = [stream EXCEPT ![c] = Append(@, next)]
    /\ UNCHANGED <<memory, version, pc, held, faults>>

(* Another command of a parent moves its version. *)
OtherCommand(p) ==
    /\ faults < MaxFaults
    /\ faults' = faults + 1
    /\ version' = [version EXCEPT ![p] = @ + 1]
    /\ UNCHANGED <<memory, stream, pc, held>>

(* record_recovery_observation of a prefix of the child, with a digest     *)
(* that was read apart from it; the checks are those of RetainedMemory.    *)
ObservationOf(k, n, m, work) ==
    [id |-> <<Task[k].parent, Task[k].id>>, request |-> Task[k].id,
     branch |-> Task[k].branch, child |-> Task[k].child, package |-> Task[k].package,
     pins |-> Task[k].pins, prefix |-> n, work |-> work,
     digest |-> PrefixDigest(stream[Task[k].child], m)]
RecordChildObservation(k, n, m, work) ==
    LET p == Task[k].parent
        x == ObservationOf(k, n, m, work) IN
    /\ \A y \in memory[p].observations : y.id # x.id /\ y.request # x.request
    /\ ObservesLinkedChild(memory[p], x)
    /\ ValidatesObservation(memory[p], x)
    /\ memory' = [memory EXCEPT ![p].observations = @ \cup {x}]
    /\ version' = [version EXCEPT ![p] = @ + 1]
    /\ UNCHANGED <<stream, pc, held, faults>>

CallStep(k) ==
    \/ Call(k) \/ DecideRequest(k) \/ AppendRequest(k) \/ DecideStart(k) \/ AppendStart(k)
    \/ ReadChild(k) \/ ReadDigest(k) \/ DecideLink(k) \/ AppendLink(k)

SagaNext ==
    \/ \E k \in Clients : CallStep(k) \/ Crash(k)
    \/ \E c \in Children : StartPlain(c) \/ ChildStep(c)
    \/ \E p \in Parents : OtherCommand(p)
    \/ \E k \in Clients, work \in SUBSET Work \ {{}} :
          \E n \in DOMAIN stream[Task[k].child] : \E m \in {n, Len(stream[Task[k].child])} :
             RecordChildObservation(k, n, m, work)

SagaSpec == SagaInit /\ [][SagaNext]_sagaVars

(* A running call goes on, and a caller whose call failed calls again.     *)
FairSagaSpec == SagaSpec /\ \A k \in Clients : WF_sagaVars(CallStep(k))

------------------------------------------------------------------------------
(* Properties. *)

LinksOf(p) == memory[p].links
ObservationsOf(p) == memory[p].observations

(* The parents hold genuine requests, a stream has at most MaxChildEvents  *)
(* events of which only the first carries a manifest, and an idle client   *)
(* holds nothing.                                                          *)
SagaTypeOK ==
    /\ \A p \in Parents :
          /\ version[p] \in Nat
          /\ memory[p].requests \subseteq {RequestOf[k] : k \in Clients}
          /\ \A l \in LinksOf(p) : IsLink(l)
    /\ \A c \in Children :
          /\ Len(stream[c]) \in {0} \cup 2 .. MaxChildEvents
          /\ \A i \in DOMAIN stream[c] : (stream[c][i].manifest # None) <=> i = 1
    /\ pc \in [Clients -> Steps]
    /\ \A k \in Clients : pc[k] = "idle" => held[k] = Nothing
    /\ faults \in 0 .. MaxFaults

(* Whatever crashed, raced or was repeated on the way, a link of a parent  *)
(* proves a prefix that the child stream still has, of a child started for *)
(* exactly this parent and request (_validate_reacquisition_link; the      *)
(* version and the digest come from two reads of the child).  Stated       *)
(* together with the types.                                                *)
LinkIsGenuine ==
    /\ SagaTypeOK
    /\ \A p \in Parents : \A l \in LinksOf(p) :
          /\ l.prefix <= Len(stream[l.child])
          /\ l.digest = PrefixDigest(stream[l.child], l.prefix)
          /\ \E r \in memory[p].requests :
                /\ r.id = l.request /\ r.child = l.child
                /\ ManifestOf(stream[l.child]) = ChildManifest(r)

(* Parents do not see each other's requests, yet no child is ever linked   *)
(* by two requests: the manifest it started with decides whose it is.      *)
ChildHasOneParent ==
    \A p, q \in Parents : \A l \in LinksOf(p), x \in LinksOf(q) :
        l.child = x.child => p = q /\ l = x

(* An observation measures a prefix at which the child had finished and    *)
(* had done the work, that contains the linked prefix and that the stream  *)
(* still has, even when the child is reopened or goes on afterwards        *)
(* (_validate_recovery_observation).                                       *)
ObservationIsOfFinishedPrefix ==
    \A p \in Parents : \A x \in ObservationsOf(p) :
        /\ x.digest = PrefixDigest(stream[x.child], x.prefix)
        /\ x.work \subseteq Latest(x.digest).work /\ Latest(x.digest).done
        /\ \E l \in LinksOf(p) : /\ l.request = x.request /\ l.child = x.child
                                 /\ l.digest = PrefixDigest(x.digest, l.prefix)

(* A process that goes on calling start_reacquisition gets its link, after *)
(* finitely many crashes and lost races, unless the name of its child was  *)
(* taken by another start; every durable prefix of the saga is resumed.    *)
SagaCompletes ==
    \A k \in Clients :
        Entry[k] = {"request"} /\ (\A j \in Clients \ {k} : Process[j] # Process[k]) =>
        <>(\/ LinkedTo(k)
           \/ /\ stream[Task[k].child] # <<>>
              /\ ManifestOf(stream[Task[k].child]) # ChildManifest(Task[k]))
==============================================================================
