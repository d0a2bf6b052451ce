----------------------------- MODULE EventLedger -----------------------------
(***************************************************************************)
(* SQLiteEventStore (src/src/rci/persistence/sqlite.py) and the way every  *)
(* caller uses it (RCI._apply_batch, src/src/rci/sdk.py): clients open the *)
(* database, rebuild a stream's state, decide a batch on it and append the *)
(* batch at the sequence they saw, or save the state they saw as a         *)
(* snapshot.                                                               *)
(*                                                                         *)
(* Connections are in autocommit mode, so each SELECT is a transaction of  *)
(* its own: that is the atomicity of the actions below.  append and the    *)
(* insertion of a snapshot run in one BEGIN IMMEDIATE transaction each and *)
(* are one action each; a crash before the commit leaves no trace.         *)
(*                                                                         *)
(* An event is an identity with its content.  Folding is free: the state   *)
(* after a list of events is that list, which tells apart everything any   *)
(* fold could tell apart.  decide keeps the pattern all reducers share: an *)
(* identity recorded with the same content is a repeat, with different     *)
(* content a conflict, otherwise the event is new.                         *)
(***************************************************************************)
EXTENDS Naturals, Sequences

CONSTANTS
    Streams,
    Clients,
    Events,         \* records with the fields key and content
    Batches,        \* sequences of Events
    SharedKeys,     \* keys whose event id does not mention the stream
    InitialRows,    \* what an existing database holds: stream -> events
    MaxOps,         \* bound: operations begun in a behaviour
    MaxDamage       \* bound: snapshots damaged in a behaviour

ASSUME LedgerAssumption ==
    /\ Events \subseteq [key : {e.key : e \in Events}, content : {e.content : e \in Events}]
    /\ \A b \in Batches : b \in Seq(Events)
    /\ Streams # {}
    /\ InitialRows \in [Streams -> Seq(Events)]
    /\ MaxOps \in Nat /\ MaxDamage \in Nat

VARIABLES
    rows,        \* table events, per stream in sequence order
    version,     \* table streams
    snapshots,   \* table snapshots, per stream
    schema,      \* PRAGMA user_version
    pc,          \* what each client is about to do
    phase,       \* what the rows being read are for
    stream,      \* the stream of the client's operation
    batch,       \* the batch to append; << >> when saving a snapshot
    candidate,   \* the snapshot being checked
    base,        \* the state replay starts from
    seen,        \* the version the last SELECT returned
    memory,      \* the state rebuild_state returned
    floor,       \* history: the version when the rebuild began
    ops, damage  \* counters for the bounds

tables == <<rows, version, snapshots, schema>>
client == <<pc, phase, stream, batch, candidate, base, seen, memory, floor>>
vars == <<rows, version, snapshots, schema, pc, phase, stream, batch,
          candidate, base, seen, memory, floor, ops, damage>>

Steps == {"closed", "opening", "open", "snapshot", "version", "rows", "apply",
          "measure", "insert",
          "conflict", "domain_error", "duplicate", "gap", "mismatch"}
Phases == {"digest", "verify", "tail", "expected", "source"}
Idle(c) == pc[c] \in {"open", "conflict", "domain_error", "duplicate", "gap", "mismatch"}

Prefix(s, n) == SubSeq(s, 1, n)
IsPrefixOf(s, t) == Len(s) <= Len(t) /\ s = Prefix(t, Len(s))
Elements(s) == {s[i] : i \in 1..Len(s)}

Snapshot == [sequence : Nat, state : Seq(Events), intact : BOOLEAN]

------------------------------------------------------------------------------
(* Events. *)

EventId(s, e) == IF e.key \in SharedKeys THEN <<e.key, e.content>>
                 ELSE <<s, e.key, e.content>>
EventIds(s, list) == {EventId(s, e) : e \in Elements(list)}

(* No identity twice among the rows of a stream.                           *)
DistinctKeys(list) ==
    \A i, j \in 1..Len(list) : list[i].key = list[j].key => i = j

(* The rows of an existing database satisfy its UNIQUE constraints and     *)
(* were decided one after the other.                                       *)
ASSUME ExistingDatabase ==
    /\ \A s \in Streams : DistinctKeys(InitialRows[s])
    /\ \A s, t \in Streams : s # t =>
           EventIds(s, InitialRows[s]) \cap EventIds(t, InitialRows[t]) = {}

(* decide on every command of a batch in turn, each on the state that the  *)
(* events decided before it evolve: the events pending after them all.     *)
NewEvents(state, b) ==
    LET pending[i \in 0..Len(b)] ==
            IF i = 0 THEN << >>
            ELSE IF b[i] \in Elements(state) \cup Elements(pending[i - 1])
                 THEN pending[i - 1]
                 ELSE Append(pending[i - 1], b[i])
    IN  pending[Len(b)]

(* One of the commands records an identity with other content than the     *)
(* state, or a command before it, gives it.                                *)
Refused(state, b) ==
    \E i \in 1..Len(b) : \E f \in Elements(state) \cup {b[j] : j \in 1..(i - 1)} :
        b[i].key = f.key /\ b[i].content # f.content

(* The operation of client c is over, with this result; its locals go.     *)
End(c, result) ==
    /\ pc' = [pc EXCEPT ![c] = result]
    /\ phase' = [phase EXCEPT ![c] = "tail"]
    /\ batch' = [batch EXCEPT ![c] = << >>]
    /\ candidate' = [candidate EXCEPT ![c] = << >>]
    /\ base' = [base EXCEPT ![c] = << >>]
    /\ seen' = [seen EXCEPT ![c] = 0]
    /\ memory' = [memory EXCEPT ![c] = << >>]
    /\ floor' = [floor EXCEPT ![c] = 0]
    /\ UNCHANGED <<stream, ops, damage>>

------------------------------------------------------------------------------
(* Bootstrap: the schema version is read before, and outside of, the       *)
(* migration transaction.                                                  *)

ReadSchema(c) ==
    /\ pc[c] = "closed"
    /\ pc' = [pc EXCEPT ![c] = IF schema = 1 THEN "opening" ELSE "open"]
    /\ UNCHANGED <<tables, phase, stream, batch, candidate, base, seen, memory,
                   floor, ops, damage>>

(* _migrate_v1_to_v2 drops the snapshots and nothing else. *)
Migrate(c) ==
    /\ pc[c] = "opening"
    /\ snapshots' = [s \in Streams |-> {}]
    /\ schema' = 2
    /\ pc' = [pc EXCEPT ![c] = "open"]
    /\ UNCHANGED <<rows, version, phase, stream, batch, candidate, base, seen,
                   memory, floor, ops, damage>>

------------------------------------------------------------------------------
(* rebuild_state. *)

BeginRebuild(c, s, b) ==
    /\ Idle(c)
    /\ ops < MaxOps
    /\ ops' = ops + 1
    /\ pc' = [pc EXCEPT ![c] = "snapshot"]
    /\ stream' = [stream EXCEPT ![c] = s]
    /\ batch' = [batch EXCEPT ![c] = b]
    /\ memory' = [memory EXCEPT ![c] = << >>]
    /\ floor' = [floor EXCEPT ![c] = version[s]]
    /\ UNCHANGED <<tables, phase, candidate, base, seen, damage>>

(* Go and read a stream, for the given purpose. *)
ReadStream(c, why) ==
    /\ pc' = [pc EXCEPT ![c] = "version"]
    /\ phase' = [phase EXCEPT ![c] = why]

(* The snapshot that load_latest_snapshot selects: the one with the        *)
(* highest sequence, whatever its condition.                               *)
Latest(s) ==
    {n \in snapshots[s] : \A m \in snapshots[s] : m.sequence <= n.sequence}

(* No row, or bytes that do not match their digest (IntegrityError, which  *)
(* rebuild_state swallows): replay starts from the empty state.            *)
SelectSnapshot(c) ==
    LET usable == {n \in Latest(stream[c]) : n.intact} IN
    /\ pc[c] = "snapshot"
    /\ base' = [base EXCEPT ![c] = << >>]
    /\ IF usable = {}
       THEN /\ ReadStream(c, "tail")
            /\ UNCHANGED candidate
       ELSE /\ candidate' = [candidate EXCEPT ![c] = (CHOOSE n \in usable : TRUE).state]
            /\ ReadStream(c, "digest")
    /\ UNCHANGED <<tables, stream, batch, seen, memory, floor, ops, damage>>

(* load_stream, first SELECT.  The tail is only asked for from a sequence  *)
(* the version must have reached.                                          *)
SelectVersion(c) ==
    /\ pc[c] = "version"
    /\ IF phase[c] = "tail" /\ Len(base[c]) > version[stream[c]]
       THEN End(c, "gap")
       ELSE /\ seen' = [seen EXCEPT ![c] = version[stream[c]]]
            /\ pc' = [pc EXCEPT ![c] = "rows"]
            /\ UNCHANGED <<phase, stream, batch, candidate, base, memory, floor,
                           ops, damage>>
    /\ UNCHANGED tables

(* load_stream, second SELECT: the rows must end at the version read.      *)
Gap(c) == Len(rows[stream[c]]) # seen[c]

(* Is the candidate (or, when saving, the state) the fold of its prefix?   *)
MatchesPrefix(c, state) ==
    /\ Len(state) <= Len(rows[stream[c]])
    /\ state = Prefix(rows[stream[c]], Len(state))

(* Verification of a snapshot: errors are swallowed and it is not used. *)
SelectRowsForSnapshot(c) ==
    LET good == ~ Gap(c) /\ MatchesPrefix(c, candidate[c]) IN
    /\ pc[c] = "rows"
    /\ phase[c] \in {"digest", "verify"}
    /\ IF good /\ phase[c] = "digest"
       THEN /\ ReadStream(c, "verify")
            /\ UNCHANGED base
       ELSE /\ base' = [base EXCEPT ![c] = IF good THEN candidate[c] ELSE << >>]
            /\ ReadStream(c, "tail")
    /\ UNCHANGED <<tables, stream, batch, candidate, seen, memory, floor, ops, damage>>

(* Mutant: rebuild trusts the snapshot and skips the first rows after it.  *)
TailAfterSeen(c) == SubSeq(rows[stream[c]], Len(base[c]) + 2, Len(rows[stream[c]]))

(* Replay of the tail on top of the base. *)
Tail_(c) == SubSeq(rows[stream[c]], Len(base[c]) + 1, Len(rows[stream[c]]))

SelectTail(c) ==
    /\ pc[c] = "rows"
    /\ phase[c] = "tail"
    /\ IF Gap(c)
       THEN End(c, "gap")
       ELSE /\ memory' = [memory EXCEPT ![c] = base[c] \o Tail_(c)]
            /\ pc' = [pc EXCEPT ![c] = IF batch[c] = << >> THEN "measure" ELSE "apply"]
            /\ UNCHANGED <<phase, stream, batch, candidate, base, seen, floor,
                           ops, damage>>
    /\ UNCHANGED tables

------------------------------------------------------------------------------
(* append, after decide on the rebuilt state. *)

(* Mutant: append accepts any expected sequence that was current once.     *)
SequenceNotAhead(c) == Len(memory[c]) <= version[stream[c]]

ExpectedSequence(c) == version[stream[c]] = Len(memory[c])

(* Mutant: event ids are only compared within the stream.                  *)
FreshIdsInStream(c, list) ==
    EventIds(stream[c], list) \cap EventIds(stream[c], rows[stream[c]]) = {}

(* UNIQUE(event_id) spans all streams. *)
FreshIds(c, list) ==
    \A s \in Streams : EventIds(stream[c], list) \cap EventIds(s, rows[s]) = {}

Append_(c) ==
    LET new == NewEvents(memory[c], batch[c])  s == stream[c] IN
    /\ pc[c] = "apply"
    /\ ~ Refused(memory[c], batch[c])
    /\ new # << >>
    /\ ExpectedSequence(c)
    /\ FreshIds(c, new)
    /\ rows' = [rows EXCEPT ![s] = @ \o new]
    /\ version' = [version EXCEPT ![s] = @ + Len(new)]
    /\ End(c, "open")
    /\ UNCHANGED <<snapshots, schema>>

(* Every command of the batch is a repeat: nothing is appended. *)
AppendNothing(c) ==
    /\ pc[c] = "apply"
    /\ ~ Refused(memory[c], batch[c])
    /\ NewEvents(memory[c], batch[c]) = << >>
    /\ End(c, "open")
    /\ UNCHANGED tables

(* The ways the call fails, each with its typed error and no effect. *)
AppendFails(c) ==
    LET new == NewEvents(memory[c], batch[c]) IN
    /\ pc[c] = "apply"
    /\ \/ Refused(memory[c], batch[c]) /\ End(c, "domain_error")
       \/ /\ ~ Refused(memory[c], batch[c])
          /\ new # << >>
          /\ \/ ~ ExpectedSequence(c) /\ End(c, "conflict")
             \/ ExpectedSequence(c) /\ ~ FreshIds(c, new) /\ End(c, "duplicate")
    /\ UNCHANGED tables

------------------------------------------------------------------------------
(* save_snapshot of the rebuilt state. *)

MeasureStream(c) ==
    /\ pc[c] = "measure"
    /\ IF Len(memory[c]) < 1 \/ Len(memory[c]) > version[stream[c]]
       THEN End(c, "mismatch")
       ELSE /\ ReadStream(c, "expected")
            /\ UNCHANGED <<stream, batch, candidate, base, seen, memory, floor,
                           ops, damage>>
    /\ UNCHANGED tables

(* The state must equal replay at its sequence; the source digest is       *)
(* computed from a second read.                                            *)
SelectRowsForSave(c) ==
    /\ pc[c] = "rows"
    /\ phase[c] \in {"expected", "source"}
    /\ IF Gap(c) \/ ~ MatchesPrefix(c, memory[c])
       THEN End(c, IF Gap(c) THEN "gap" ELSE "mismatch")
       ELSE /\ IF phase[c] = "expected"
               THEN ReadStream(c, "source")
               ELSE /\ pc' = [pc EXCEPT ![c] = "insert"]
                    /\ UNCHANGED phase
            /\ UNCHANGED <<stream, batch, candidate, base, seen, memory, floor,
                           ops, damage>>
    /\ UNCHANGED tables

(* Mutant: save_snapshot overwrites what is there.                         *)
InsertAlways(c) ==
    LET s == stream[c]
        new == [sequence |-> Len(memory[c]), state |-> memory[c], intact |-> TRUE] IN
    /\ pc[c] = "insert"
    /\ snapshots' = [snapshots EXCEPT ![s] = @ \cup {new}]
    /\ End(c, "open")
    /\ UNCHANGED <<rows, version, schema>>

(* Snapshots are immutable: a sequence that has one keeps it, and a        *)
(* different one is a SnapshotConflictError.                               *)
InsertSnapshot(c) ==
    LET s == stream[c]
        new == [sequence |-> Len(memory[c]), state |-> memory[c], intact |-> TRUE]
        same == {n \in snapshots[s] : n.sequence = new.sequence} IN
    /\ pc[c] = "insert"
    /\ snapshots' = [snapshots EXCEPT ![s] = IF same = {} THEN @ \cup {new} ELSE @]
    /\ End(c, IF same \subseteq {new} THEN "open" ELSE "mismatch")
    /\ UNCHANGED <<rows, version, schema>>

(* Derived-state damage from outside: bytes of a snapshot rot. *)
DamageSnapshot(s, n) ==
    /\ damage < MaxDamage
    /\ n \in snapshots[s] /\ n.intact
    /\ damage' = damage + 1
    /\ snapshots' = [snapshots EXCEPT ![s] =
                        (@ \ {n}) \cup {[n EXCEPT !.intact = FALSE]}]
    /\ UNCHANGED <<rows, version, schema, client, ops>>

(* The process of a client dies and a new one opens the database. *)
Restart(c) ==
    /\ ~ Idle(c) /\ pc[c] # "closed"
    /\ End(c, "closed")
    /\ UNCHANGED tables

------------------------------------------------------------------------------
Init ==
    /\ rows = InitialRows
    /\ version = [s \in Streams |-> Len(InitialRows[s])]
    /\ snapshots = [s \in Streams |-> {}]
    /\ schema \in {1, 2}
    /\ pc = [c \in Clients |-> "closed"]
    /\ phase = [c \in Clients |-> "tail"]
    /\ stream \in [Clients -> {CHOOSE s \in Streams : TRUE}]
    /\ batch = [c \in Clients |-> << >>]
    /\ candidate = [c \in Clients |-> << >>]
    /\ base = [c \in Clients |-> << >>]
    /\ seen = [c \in Clients |-> 0]
    /\ memory = [c \in Clients |-> << >>]
    /\ floor = [c \in Clients |-> 0]
    /\ ops = 0
    /\ damage = 0

Next ==
    \/ \E c \in Clients :
        \/ ReadSchema(c)
        \/ Migrate(c)
        \/ \E s \in Streams, b \in Batches \cup {<< >>} : BeginRebuild(c, s, b)
        \/ SelectSnapshot(c)
        \/ SelectVersion(c)
        \/ SelectRowsForSnapshot(c)
        \/ SelectTail(c)
        \/ Append_(c)
        \/ AppendNothing(c)
        \/ AppendFails(c)
        \/ MeasureStream(c)
        \/ SelectRowsForSave(c)
        \/ InsertSnapshot(c)
        \/ Restart(c)
    \/ \E s \in Streams : \E n \in snapshots[s] : DamageSnapshot(s, n)

Spec == Init /\ [][Next]_vars

------------------------------------------------------------------------------
(* Properties. *)

(* The tables and the calls hold what the code declares. *)
TypeOK ==
    /\ rows \in [Streams -> Seq(Events)]
    /\ version \in [Streams -> Nat]
    /\ snapshots \in [Streams -> SUBSET Snapshot]
    /\ schema \in {1, 2}
    /\ pc \in [Clients -> Steps]
    /\ phase \in [Clients -> Phases]
    /\ stream \in [Clients -> Streams]
    /\ batch \in [Clients -> Batches \cup {<< >>}]
    /\ candidate \in [Clients -> Seq(Events)]
    /\ base \in [Clients -> Seq(Events)]
    /\ seen \in [Clients -> Nat]
    /\ memory \in [Clients -> Seq(Events)]
    /\ floor \in [Clients -> Nat]

(* rebuild_state returns the fold of a prefix of the ledger, whichever     *)
(* snapshot it started from and whatever was appended, migrated or damaged *)
(* meanwhile, and the prefix is not older than the call: a client that saw *)
(* its append succeed reads it back.                                       *)
RebuildIsCurrent ==
    \A c \in Clients : pc[c] \in {"apply", "measure", "insert"} =>
        /\ IsPrefixOf(memory[c], rows[stream[c]])
        /\ Len(memory[c]) >= floor[c]

(* "Stale writes cannot silently fork an inquiry" (docs/adr/0007): a       *)
(* stream only ever grows by a batch decided on exactly the events it      *)
(* extends.                                                                *)
StaleWritesNeverFork ==
    [][\A s \in Streams : rows'[s] # rows[s] =>
         /\ IsPrefixOf(rows[s], rows'[s])
         /\ \E c \in Clients : /\ stream[c] = s
                               /\ memory[c] = rows[s]
                               /\ ~ Refused(rows[s], batch[c])]_vars

(* No identity is recorded twice in a stream, with the same or with other  *)
(* content, no event id twice in the database, and the streams table       *)
(* counts the rows.  (Stated together with the types of the tables.)       *)
IdentitiesAreUnique ==
    /\ TypeOK
    /\ \A s \in Streams : DistinctKeys(rows[s])
    /\ \A s, t \in Streams : s # t =>
           EventIds(s, rows[s]) \cap EventIds(t, rows[t]) = {}
    /\ \A s \in Streams : version[s] = Len(rows[s])

(* A snapshot is the fold of the prefix it names, and each sequence has at *)
(* most one: replay from any intact snapshot is replay from the start.     *)
SnapshotsAreDerived ==
    \A s \in Streams : \A n \in snapshots[s] :
        /\ n.sequence = Len(n.state)
        /\ IsPrefixOf(n.state, rows[s])
        /\ \A m \in snapshots[s] : m.sequence = n.sequence => m = n
=============================================================================
