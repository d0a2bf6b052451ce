-------------------------- MODULE EventLedgerProofs --------------------------
(***************************************************************************)
(* Proofs about the SQLite event ledger, for any number of clients,        *)
(* streams, events and operations.  Every table a client reads can change  *)
(* before it uses what it read, so the inductive invariant says what a     *)
(* client may still rely on: the streams only grow, hence a prefix once    *)
(* seen stays one (Sound).                                                 *)
(*                                                                         *)
(* The loop over a batch is a recursive function.  That it exists, and     *)
(* what it computes, is proved by taking a least counterexample, from the  *)
(* well-foundedness of < on the naturals.                                  *)
(***************************************************************************)
EXTENDS EventLedger, WellFoundedInduction, TLAPS

------------------------------------------------------------------------------
(* Induction. *)

(* A set of naturals that has an element has a least one. *)
LEMMA LeastNatural ==
    ASSUME NEW T \in SUBSET Nat, NEW x \in T
    PROVE  \E n \in T : \A m \in T : n <= m
<1> DEFINE R == OpToRel(<, Nat)
<1>1. PICK n \in T : \A m \in T : <<m, n>> \notin R
  <2>1. IsWellFoundedOn(R, Nat)
    BY NatLessThanWellFounded
  <2> HIDE DEF R
  <2> QED  BY <2>1, WFMin
<1>2. \A m \in T : ~ (m < n)
  BY <1>1 DEF OpToRel
<1> QED  BY <1>2

(* Induction up to a bound, for a property given by the numbers that have  *)
(* it.                                                                     *)
LEMMA BoundedInduction ==
    ASSUME NEW bound \in Nat, NEW Good,
           0 \in Good,
           \A n \in Nat : n < bound /\ n \in Good => n + 1 \in Good
    PROVE  \A n \in 0..bound : n \in Good
<1> SUFFICES ASSUME NEW x \in 0..bound, x \notin Good  PROVE FALSE
  OBVIOUS
<1> DEFINE Bad == {n \in 0..bound : n \notin Good}
<1>1. PICK n \in Bad : \A m \in Bad : n <= m
  <2>1. Bad \in SUBSET Nat /\ x \in Bad
    OBVIOUS
  <2> HIDE DEF Bad
  <2> QED  BY <2>1, LeastNatural
<1>2. n - 1 \in Nat /\ n - 1 < bound /\ n = (n - 1) + 1
  BY <1>1
<1>3. n - 1 \in Good
  BY <1>1, <1>2
<1> QED  BY <1>1, <1>2, <1>3

------------------------------------------------------------------------------
(* Prefixes. *)

(* A prefix, element by element. *)
LEMMA PrefixPointwise ==
    ASSUME NEW S, NEW s \in Seq(S), NEW t \in Seq(S)
    PROVE  IsPrefixOf(s, t) <=> /\ Len(s) <= Len(t)
                                /\ \A i \in 1..Len(s) : s[i] = t[i]
BY DEF IsPrefixOf, Prefix

(* The empty state is where every replay may start. *)
LEMMA EmptyPrefix ==
    ASSUME NEW S, NEW t \in Seq(S)
    PROVE  IsPrefixOf(<< >>, t)
<1>1. SubSeq(t, 1, 0) = << >> /\ Len(<< >>) = 0 /\ Len(t) \in Nat
  OBVIOUS
<1> QED  BY <1>1 DEF IsPrefixOf, Prefix

(* What was a prefix of a stream is one after an append. *)
LEMMA PrefixOfLonger ==
    ASSUME NEW S, NEW s \in Seq(S), NEW t \in Seq(S), NEW u \in Seq(S),
           IsPrefixOf(s, t)
    PROVE  IsPrefixOf(s, t \o u) /\ t \o u \in Seq(S) /\ Len(t \o u) = Len(t) + Len(u)
<1> DEFINE v == t \o u
<1>1. v \in Seq(S) /\ Len(v) = Len(t) + Len(u) /\ \A i \in 1..Len(t) : v[i] = t[i]
  OBVIOUS
<1> HIDE DEF v
<1>2. Len(s) \in Nat /\ Len(t) \in Nat /\ Len(u) \in Nat
  OBVIOUS
<1>3. IsPrefixOf(s, v)
  BY <1>1, <1>2, PrefixPointwise
<1> QED  BY <1>1, <1>3 DEF v

(* A prefix of full length is the stream itself. *)
LEMMA FullPrefix ==
    ASSUME NEW S, NEW s \in Seq(S), NEW t \in Seq(S),
           IsPrefixOf(s, t), Len(s) = Len(t)
    PROVE  s = t
BY PrefixPointwise

(* Replay from a prefix and its tail is replay from the start. *)
LEMMA PrefixAndTail ==
    ASSUME NEW S, NEW s \in Seq(S), NEW t \in Seq(S), IsPrefixOf(s, t)
    PROVE  s \o SubSeq(t, Len(s) + 1, Len(t)) = t
<1> DEFINE u == SubSeq(t, Len(s) + 1, Len(t))
<1>1. /\ Len(s) \in Nat /\ Len(t) \in Nat /\ Len(s) <= Len(t)
      /\ \A i \in 1..Len(s) : s[i] = t[i]
  BY PrefixPointwise
<1>2. /\ u \in Seq(S) /\ Len(u) = Len(t) - Len(s)
      /\ \A i \in 1..Len(u) : u[i] = t[Len(s) + i]
  BY <1>1
<1> HIDE DEF u
<1> DEFINE v == s \o u
<1>3. /\ v \in Seq(S) /\ Len(v) = Len(s) + Len(u)
      /\ \A i \in 1..Len(s) : v[i] = s[i]
      /\ \A i \in 1..Len(u) : v[Len(s) + i] = u[i]
  BY <1>2
<1> HIDE DEF v
<1>4. \A i \in 1..Len(t) : v[i] = t[i]
  <2> SUFFICES ASSUME NEW i \in 1..Len(t)  PROVE v[i] = t[i]
    OBVIOUS
  <2>1. CASE i <= Len(s)
    BY <1>1, <1>3, <2>1
  <2>2. CASE i > Len(s)
    <3> DEFINE j == i - Len(s)
    <3>1. j \in 1..Len(u) /\ i = Len(s) + j
      BY <1>1, <1>2, <2>2
    <3> HIDE DEF j
    <3> QED  BY <1>2, <1>3, <3>1
  <2> QED  BY <1>1, <2>1, <2>2
<1>5. Len(v) = Len(t)
  BY <1>1, <1>2, <1>3
<1> QED  BY <1>3, <1>4, <1>5 DEF u, v

------------------------------------------------------------------------------
(* The loop over a batch. *)

(* One turn of the loop, from the table d of what was pending before it.   *)
Turn(state, b, d, i) ==
    IF i = 0 THEN << >>
    ELSE IF b[i] \in Elements(state) \cup Elements(d[i - 1])
         THEN d[i - 1]
         ELSE Append(d[i - 1], b[i])

(* The recursion has a solution. *)
LEMMA LoopExists ==
    ASSUME NEW state, NEW b \in Seq(Events)
    PROVE  \E d : d = [i \in 0..Len(b) |-> Turn(state, b, d, i)]
<1> DEFINE Loop(n) == \E d : d = [i \in 0..n |-> Turn(state, b, d, i)]
           Good == {n \in Nat : Loop(n)}
<1>1. 0 \in Good
  <2> DEFINE e == [i \in 0..0 |-> << >>]
  <2>1. e = [i \in 0..0 |-> Turn(state, b, e, i)]
    BY DEF Turn
  <2> QED  BY <2>1
<1>2. ASSUME NEW n \in Nat, n \in Good  PROVE n + 1 \in Good
  <2>1. PICK d : d = [i \in 0..n |-> Turn(state, b, d, i)]
    BY <1>2
  <2> DEFINE e == [i \in 0..(n + 1) |-> IF i = n + 1 THEN Turn(state, b, d, n + 1) ELSE d[i]]
  <2>2. /\ e = [i \in 0..(n + 1) |-> e[i]]
        /\ \A i \in 0..n : e[i] = d[i]
        /\ e[n + 1] = Turn(state, b, d, n + 1)
    OBVIOUS
  <2> HIDE DEF e
  <2>3. \A i \in 0..(n + 1) : e[i] = Turn(state, b, e, i)
    <3> SUFFICES ASSUME NEW i \in 0..(n + 1)  PROVE e[i] = Turn(state, b, e, i)
      OBVIOUS
    <3>1. CASE i = n + 1
      <4>1. i # 0 /\ i - 1 = n /\ n \in 0..n
        BY <3>1
      <4>2. e[i - 1] = d[n]
        BY <4>1, <2>2
      <4> QED  BY <3>1, <4>1, <4>2, <2>2 DEF Turn
    <3>2. CASE i \in 0..n
      <4>1. d[i] = Turn(state, b, d, i)
        BY <2>1, <3>2
      <4>2. i # 0 => i - 1 \in 0..n
        BY <3>2
      <4> QED  BY <4>1, <4>2, <2>2, <3>2 DEF Turn
    <3> QED  BY <3>1, <3>2
  <2>4. e = [i \in 0..(n + 1) |-> Turn(state, b, e, i)]
    BY <2>2, <2>3
  <2> QED  BY <2>4
<1>3. Len(b) \in Nat /\ Len(b) \in 0..Len(b)
  OBVIOUS
<1>4. Len(b) \in Good
  <2> HIDE DEF Good
  <2> QED  BY <1>1, <1>2, <1>3, BoundedInduction
<1> QED  BY <1>4

(* NewEvents is what the last turn leaves pending. *)
LEMMA LoopComputes ==
    ASSUME NEW state, NEW b \in Seq(Events)
    PROVE  \E d : /\ d = [i \in 0..Len(b) |-> Turn(state, b, d, i)]
                  /\ NewEvents(state, b) = d[Len(b)]
<1> DEFINE d == CHOOSE d : d = [i \in 0..Len(b) |-> Turn(state, b, d, i)]
<1>1. NewEvents(state, b) = d[Len(b)]
  BY DEF NewEvents, Turn
<1>2. d = [i \in 0..Len(b) |-> Turn(state, b, d, i)]
  BY LoopExists
<1> QED  BY <1>1, <1>2

(* What is pending: commands of the batch whose identity the state does    *)
(* not have, each identity once.                                           *)
Decided(state, b, list) ==
    /\ list \in Seq(Events)
    /\ Elements(list) \subseteq Elements(b)
    /\ \A e \in Elements(list), f \in Elements(state) : e.key # f.key
    /\ DistinctKeys(list)

(* An event is its key with its content. *)
LEMMA EventIsPair ==
    ASSUME NEW e \in Events, NEW f \in Events, e.key = f.key, e.content = f.content
    PROVE  e = f
<1>1. /\ e \in [key : {g.key : g \in Events}, content : {g.content : g \in Events}]
      /\ f \in [key : {g.key : g \in Events}, content : {g.content : g \in Events}]
  BY LedgerAssumption
<1> QED  BY <1>1

(* decide's contract: a batch that is not refused yields new identities    *)
(* only, and no identity twice, whatever the batch repeats.                *)
LEMMA NewEventsDecided ==
    ASSUME NEW state \in Seq(Events), NEW b \in Seq(Events), ~ Refused(state, b)
    PROVE  Decided(state, b, NewEvents(state, b))
<1>1. PICK d : /\ d = [i \in 0..Len(b) |-> Turn(state, b, d, i)]
               /\ NewEvents(state, b) = d[Len(b)]
  BY LoopComputes
<1> DEFINE P(i) == /\ Decided(state, b, d[i])
                   /\ Elements(d[i]) \subseteq {b[j] : j \in 1..i}
           Good == {i \in 0..Len(b) : P(i)}
<1>2. Len(b) \in Nat
  OBVIOUS
<1>3. 0 \in Good
  <2>1. d[0] = << >>
    BY <1>1, <1>2 DEF Turn
  <2>2. << >> \in Seq(Events) /\ Elements(<< >>) = {} /\ DistinctKeys(<< >>)
    BY DEF Elements, DistinctKeys
  <2>3. Decided(state, b, << >>)
    BY <2>2 DEF Decided
  <2>4. 0 \in 0..Len(b)
    BY <1>2
  <2> QED  BY <2>1, <2>2, <2>3, <2>4
<1>4. ASSUME NEW n \in Nat, n < Len(b), n \in Good  PROVE n + 1 \in Good
  <2> DEFINE old == d[n]  e == b[n + 1]  new == d[n + 1]
  <2>1. /\ new = IF e \in Elements(state) \cup Elements(old) THEN old ELSE Append(old, e)
        /\ e \in Events /\ n + 1 \in 1..Len(b)
    <3>1. n + 1 \in 0..Len(b) /\ n + 1 # 0 /\ (n + 1) - 1 = n /\ n + 1 \in 1..Len(b)
      BY <1>2, <1>4
    <3>2. d[n + 1] = Turn(state, b, d, n + 1)
      BY <1>1, <3>1
    <3> QED  BY <3>1, <3>2 DEF Turn
  <2>2. P(n)
    BY <1>4
  <2> HIDE DEF old, e, new
  <2> DEFINE Kept == /\ Decided(state, b, new)
                     /\ Elements(new) \subseteq {b[j] : j \in 1..(n + 1)}
  <2>3. ASSUME e \in Elements(state) \cup Elements(old)  PROVE Kept
    <3>1. {b[j] : j \in 1..n} \subseteq {b[j] : j \in 1..(n + 1)}
      OBVIOUS
    <3> QED  BY <2>1, <2>2, <2>3, <3>1 DEF old
  <2>4. ASSUME e \notin Elements(state) \cup Elements(old)  PROVE Kept
    <3>1. /\ new \in Seq(Events) /\ Len(new) = Len(old) + 1 /\ Len(old) \in Nat
          /\ \A i \in 1..Len(old) : new[i] = old[i]
          /\ new[Len(old) + 1] = e
      BY <2>1, <2>2, <2>4 DEF old, Decided
    <3>2. Elements(new) = Elements(old) \cup {e}
      BY <3>1 DEF Elements
    <3>3. /\ Elements(new) \subseteq Elements(b)
          /\ Elements(new) \subseteq {b[j] : j \in 1..(n + 1)}
      <4>1. e \in Elements(b) /\ e \in {b[j] : j \in 1..(n + 1)}
        BY <2>1 DEF Elements, e
      <4>2. {b[j] : j \in 1..n} \subseteq {b[j] : j \in 1..(n + 1)}
        OBVIOUS
      <4>3. Elements(old) \subseteq Elements(b) /\ Elements(old) \subseteq {b[j] : j \in 1..n}
        BY <2>2 DEF old, Decided
      <4> QED  BY <3>2, <4>1, <4>2, <4>3
    <3>4. \A f \in Elements(state) : e.key # f.key
      <4> SUFFICES ASSUME NEW f \in Elements(state), e.key = f.key  PROVE FALSE
        OBVIOUS
      <4>1. f \in Events
        BY DEF Elements
      <4>2. e.content = f.content
        BY <2>1 DEF Refused, e
      <4> QED  BY <2>1, <2>4, <4>1, <4>2, EventIsPair
    <3>5. \A f \in Elements(old) : e.key # f.key
      <4> SUFFICES ASSUME NEW f \in Elements(old), e.key = f.key  PROVE FALSE
        OBVIOUS
      <4>1. f \in {b[j] : j \in 1..n}
        BY <2>2 DEF old
      <4>2. f \in Events
        BY <4>1, <1>2, <1>4
      <4>3. e.content = f.content
        <5>1. (n + 1) - 1 = n
          OBVIOUS
        <5> QED  BY <2>1, <4>1, <5>1 DEF Refused, e
      <4> QED  BY <2>1, <2>4, <4>2, <4>3, EventIsPair
    <3>6. DistinctKeys(new)
      <4>1. \A i \in 1..Len(old) : old[i] \in Elements(old)
        BY DEF Elements
      <4>2. \A i, j \in 1..Len(old) : old[i].key = old[j].key => i = j
        BY <2>2 DEF old, Decided, DistinctKeys
      <4> QED  BY <3>1, <3>5, <4>1, <4>2 DEF DistinctKeys
    <3>7. \A g \in Elements(new), f \in Elements(state) : g.key # f.key
      BY <3>2, <3>4, <2>2 DEF old, Decided
    <3> QED  BY <3>1, <3>3, <3>6, <3>7 DEF Decided
  <2>5. n + 1 \in 0..Len(b)
    BY <1>2, <1>4
  <2> QED  BY <2>3, <2>4, <2>5 DEF new
<1>5. Len(b) \in Good
  <2>1. Len(b) \in 0..Len(b)
    BY <1>2
  <2> HIDE DEF Good
  <2> QED  BY <1>2, <1>3, <1>4, <2>1, BoundedInduction
<1> QED  BY <1>1, <1>5

------------------------------------------------------------------------------
(* The inductive invariant. *)

(* What client c may rely on, although the tables moved on since it looked:*)
(* its operation began at a version the stream still has, the base it      *)
(* chose for replay is a prefix of the stream, and so is the state it has  *)
(* rebuilt, which is not older than the operation.                         *)
Reading(c) == pc[c] \in {"version", "rows"}
Running(c) == Reading(c) \/ pc[c] \in {"snapshot", "apply", "measure", "insert"}
Rebuilt(c) ==
    \/ pc[c] \in {"apply", "measure", "insert"}
    \/ Reading(c) /\ phase[c] \in {"expected", "source"}

Sound(c) ==
    /\ Running(c) => floor[c] <= Len(rows[stream[c]])
    /\ Reading(c) /\ phase[c] = "tail" => IsPrefixOf(base[c], rows[stream[c]])
    /\ Rebuilt(c) => /\ IsPrefixOf(memory[c], rows[stream[c]])
                     /\ floor[c] <= Len(memory[c])

IInv ==
    /\ IdentitiesAreUnique
    /\ SnapshotsAreDerived
    /\ \A c \in Clients : Sound(c)

(* TypeOK, in its two parts. *)
TablesTyped ==
    /\ rows \in [Streams -> Seq(Events)]
    /\ version \in [Streams -> Nat]
    /\ snapshots \in [Streams -> SUBSET Snapshot]
    /\ schema \in {1, 2}

ClientsTyped ==
    /\ pc \in [Clients -> Steps]
    /\ phase \in [Clients -> Phases]
    /\ stream \in [Clients -> Streams]
    /\ batch \in [Clients -> Batches \cup {<< >>}]
    /\ candidate \in [Clients -> Seq(Events)]
    /\ base \in [Clients -> Seq(Events)]
    /\ seen \in [Clients -> Nat]
    /\ memory \in [Clients -> Seq(Events)]
    /\ floor \in [Clients -> Nat]

LEMMA TypeParts == TypeOK <=> TablesTyped /\ ClientsTyped
BY DEF TypeOK, TablesTyped, ClientsTyped

LEMMA TypePartsNext == TypeOK' <=> TablesTyped' /\ ClientsTyped'
BY DEF TypeOK, TablesTyped, ClientsTyped

(* A step of another client leaves the locals of d alone. *)
Kept(d) ==
    /\ pc'[d] = pc[d] /\ phase'[d] = phase[d] /\ stream'[d] = stream[d]
    /\ base'[d] = base[d] /\ memory'[d] = memory[d] /\ floor'[d] = floor[d]

(* What d relies on survives any growth of the streams. *)
LEMMA KeptStaysSound ==
    ASSUME TypeOK, TypeOK', NEW d \in Clients, Kept(d), Sound(d),
           \A s \in Streams : IsPrefixOf(rows[s], rows'[s])
    PROVE  Sound(d)'
<1> DEFINE s == stream[d]  old == rows[s]  new == rows'[s]
<1>1. /\ s \in Streams /\ old \in Seq(Events) /\ new \in Seq(Events)
      /\ base[d] \in Seq(Events) /\ memory[d] \in Seq(Events) /\ floor[d] \in Nat
  BY DEF TypeOK
<1>2. Len(old) <= Len(new) /\ \A i \in 1..Len(old) : old[i] = new[i]
  BY <1>1, PrefixPointwise
<1>3. \A t \in Seq(Events) : IsPrefixOf(t, old) => IsPrefixOf(t, new)
  <2> SUFFICES ASSUME NEW t \in Seq(Events), IsPrefixOf(t, old)  PROVE IsPrefixOf(t, new)
    OBVIOUS
  <2> HIDE DEF old, new
  <2>1. Len(t) <= Len(old) /\ \A i \in 1..Len(t) : t[i] = old[i]
    BY <1>1, PrefixPointwise
  <2>2. Len(t) \in Nat /\ Len(old) \in Nat /\ Len(new) \in Nat
    BY <1>1
  <2>3. Len(t) <= Len(new) /\ \A i \in 1..Len(t) : t[i] = new[i]
    BY <1>2, <2>1, <2>2
  <2> QED  BY <1>1, <2>3, PrefixPointwise
<1>4. Len(old) \in Nat /\ Len(new) \in Nat
  BY <1>1
<1>5. /\ stream'[d] = s /\ floor'[d] = floor[d]
      /\ base'[d] = base[d] /\ memory'[d] = memory[d]
  BY DEF Kept
<1>6. Running(d)' = Running(d) /\ Reading(d)' = Reading(d) /\ Rebuilt(d)' = Rebuilt(d)
      /\ phase'[d] = phase[d]
  BY DEF Kept, Running, Reading, Rebuilt
<1>7. Running(d)' => floor'[d] <= Len(rows'[stream'[d]])
  <2>1. Running(d) => floor[d] <= Len(old)
    BY DEF Sound
  <2> HIDE DEF old, new
  <2>2. Running(d) => floor[d] <= Len(new)
    BY <2>1, <1>1, <1>2, <1>4
  <2> QED  BY <2>2, <1>5, <1>6 DEF new
<1>8. (Reading(d) /\ phase[d] = "tail")' => IsPrefixOf(base'[d], rows'[stream'[d]])
  <2>1. Reading(d) /\ phase[d] = "tail" => IsPrefixOf(base[d], old)
    BY DEF Sound
  <2> QED  BY <2>1, <1>1, <1>3, <1>5, <1>6
<1>9. Rebuilt(d)' => IsPrefixOf(memory'[d], rows'[stream'[d]]) /\ floor'[d] <= Len(memory'[d])
  <2>1. Rebuilt(d) => IsPrefixOf(memory[d], old) /\ floor[d] <= Len(memory[d])
    BY DEF Sound
  <2> QED  BY <2>1, <1>1, <1>3, <1>5, <1>6
<1> QED  BY <1>7, <1>8, <1>9 DEF Sound

(* An operation that ends forgets its locals and relies on nothing. *)
LEMMA EndIsClean ==
    ASSUME TypeOK, NEW c \in Clients,
           NEW result \in {"closed", "open", "conflict", "domain_error", "duplicate",
                           "gap", "mismatch"},
           End(c, result)
    PROVE  ClientsTyped' /\ (\A d \in Clients \ {c} : Kept(d)) /\ Sound(c)'
<1>1. ClientsTyped'
  BY DEF End, TypeOK, ClientsTyped, Steps, Phases
<1>2. \A d \in Clients \ {c} : Kept(d)
  BY DEF End, TypeOK, Kept
<1>3. pc'[c] = result
  BY DEF End, TypeOK
<1>4. Sound(c)'
  BY <1>3 DEF Sound, Running, Reading, Rebuilt
<1> QED  BY <1>1, <1>2, <1>4

(* A step that writes no table keeps the invariant when the client that    *)
(* takes it stays sound.                                                   *)
LEMMA LocalStep ==
    ASSUME IInv, NEW c \in Clients, UNCHANGED tables, ClientsTyped',
           \A d \in Clients \ {c} : Kept(d), Sound(c)'
    PROVE  IInv'
<1>1. rows' = rows /\ version' = version /\ snapshots' = snapshots /\ schema' = schema
  BY DEF tables
<1>2. TypeOK /\ TypeOK'
  <2>1. TypeOK
    BY DEF IInv, IdentitiesAreUnique
  <2>2. TablesTyped'
    BY <1>1, <2>1, TypeParts DEF TablesTyped
  <2> QED  BY <2>1, <2>2, TypePartsNext
<1>3. IdentitiesAreUnique' /\ SnapshotsAreDerived'
  BY <1>1, <1>2 DEF IInv, IdentitiesAreUnique, SnapshotsAreDerived
<1>4. \A s \in Streams : IsPrefixOf(rows[s], rows'[s])
  <2> SUFFICES ASSUME NEW s \in Streams  PROVE IsPrefixOf(rows[s], rows[s])
    BY <1>1
  <2>1. rows[s] \in Seq(Events)
    BY <1>2 DEF TypeOK
  <2> QED  BY <2>1, PrefixPointwise
<1>5. \A d \in Clients \ {c} : Sound(d)'
  BY <1>2, <1>4, KeptStaysSound DEF IInv
<1> QED  BY <1>3, <1>5 DEF IInv

------------------------------------------------------------------------------
(* Every step keeps the invariant. *)

(* The steps that only move the client: what they write, and what the      *)
(* client then relies on.                                                  *)
LEMMA OpeningKeepsIInv ==
    ASSUME IInv, NEW c \in Clients, ReadSchema(c)
    PROVE  IInv'
<1>1. TypeOK /\ pc'[c] \in {"opening", "open"}
  BY DEF IInv, IdentitiesAreUnique, ReadSchema, TypeOK
<1>2. ClientsTyped'
  BY <1>1 DEF ReadSchema, TypeOK, ClientsTyped, Steps
<1>3. \A d \in Clients \ {c} : Kept(d)
  BY <1>1 DEF ReadSchema, TypeOK, Kept
<1>4. Sound(c)'
  BY <1>1 DEF Sound, Running, Reading, Rebuilt
<1>5. UNCHANGED tables
  BY DEF ReadSchema
<1> QED  BY <1>2, <1>3, <1>4, <1>5, LocalStep

LEMMA MigrateKeepsIInv ==
    ASSUME IInv, NEW c \in Clients, Migrate(c)
    PROVE  IInv'
<1>1. TypeOK /\ pc'[c] = "open" /\ rows' = rows /\ version' = version
      /\ snapshots' = [s \in Streams |-> {}] /\ schema' = 2
  BY DEF IInv, IdentitiesAreUnique, Migrate, TypeOK
<1>2. TypeOK'
  <2>1. ClientsTyped'
    BY <1>1 DEF Migrate, TypeOK, ClientsTyped, Steps
  <2>2. TablesTyped'
    BY <1>1 DEF TypeOK, TablesTyped
  <2> QED  BY <2>1, <2>2, TypePartsNext
<1>3. IdentitiesAreUnique' /\ SnapshotsAreDerived'
  BY <1>1, <1>2 DEF IInv, IdentitiesAreUnique, SnapshotsAreDerived
<1>4. Sound(c)'
  BY <1>1 DEF Sound, Running, Reading, Rebuilt
<1>5. \A d \in Clients \ {c} : Sound(d)'
  <2>1. \A d \in Clients \ {c} : Kept(d)
    BY <1>1 DEF Migrate, TypeOK, Kept
  <2>2. \A s \in Streams : IsPrefixOf(rows[s], rows'[s])
    BY <1>1, PrefixPointwise DEF TypeOK
  <2> QED  BY <1>1, <1>2, <2>1, <2>2, KeptStaysSound DEF IInv
<1> QED  BY <1>3, <1>4, <1>5 DEF IInv

LEMMA BeginRebuildKeepsIInv ==
    ASSUME IInv, NEW c \in Clients, NEW s \in Streams, NEW b \in Batches \cup {<< >>},
           BeginRebuild(c, s, b)
    PROVE  IInv'
<1>1. TypeOK /\ version[s] = Len(rows[s]) /\ version[s] \in Nat
  BY DEF IInv, IdentitiesAreUnique, TypeOK
<1>2. pc'[c] = "snapshot" /\ stream'[c] = s /\ floor'[c] = version[s] /\ rows' = rows
  BY <1>1 DEF BeginRebuild, TypeOK, tables
<1>3. ClientsTyped'
  BY <1>1 DEF BeginRebuild, TypeOK, ClientsTyped, Steps
<1>4. \A d \in Clients \ {c} : Kept(d)
  BY <1>1 DEF BeginRebuild, TypeOK, Kept
<1>5. Sound(c)'
  BY <1>1, <1>2 DEF Sound, Running, Reading, Rebuilt
<1>6. UNCHANGED tables
  BY DEF BeginRebuild
<1> QED  BY <1>3, <1>4, <1>5, <1>6, LocalStep

(* The stream is unchanged, so the operation still is at or after floor.   *)
LEMMA SelectSnapshotKeepsIInv ==
    ASSUME IInv, NEW c \in Clients, SelectSnapshot(c)
    PROVE  IInv'
<1> DEFINE usable == {n \in Latest(stream[c]) : n.intact}
<1>1. TypeOK /\ Sound(c)
  BY DEF IInv, IdentitiesAreUnique
<1>2. candidate' \in [Clients -> Seq(Events)]
  <2>1. CASE usable = {}
    BY <1>1, <2>1 DEF SelectSnapshot, TypeOK
  <2>2. CASE usable # {}
    <3> DEFINE n == CHOOSE n \in usable : TRUE
    <3>1. n \in Snapshot
      <4>1. n \in usable
        BY <2>2
      <4>2. usable \subseteq snapshots[stream[c]]
        BY DEF Latest
      <4> QED  BY <1>1, <4>1, <4>2 DEF TypeOK
    <3>2. n.state \in Seq(Events)
      BY <3>1 DEF Snapshot
    <3>3. candidate' = [candidate EXCEPT ![c] = n.state]
      BY <2>2 DEF SelectSnapshot
    <3> HIDE DEF n
    <3> QED  BY <1>1, <3>2, <3>3 DEF TypeOK
  <2> QED  BY <2>1, <2>2
<1>3. /\ pc[c] = "snapshot"
      /\ pc' = [pc EXCEPT ![c] = "version"]
      /\ \E why \in {"tail", "digest"} : phase' = [phase EXCEPT ![c] = why]
      /\ base' = [base EXCEPT ![c] = << >>]
      /\ UNCHANGED <<tables, stream, batch, seen, memory, floor>>
  BY DEF SelectSnapshot, ReadStream
<1>4. ClientsTyped'
  BY <1>1, <1>2, <1>3 DEF TypeOK, ClientsTyped, Steps, Phases
<1>5. \A d \in Clients \ {c} : Kept(d)
  BY <1>1, <1>3 DEF TypeOK, Kept
<1>6. Sound(c)'
  <2>1. /\ pc'[c] = "version" /\ phase'[c] \in {"tail", "digest"} /\ base'[c] = << >>
        /\ stream'[c] = stream[c] /\ floor'[c] = floor[c] /\ rows' = rows
        /\ rows[stream[c]] \in Seq(Events) /\ << >> \in Seq(Events)
    BY <1>1, <1>3 DEF TypeOK, tables
  <2>2. IsPrefixOf(<< >>, rows[stream[c]])
    BY <2>1, EmptyPrefix
  <2> QED  BY <1>1, <1>3, <2>1, <2>2 DEF Sound, Running, Reading, Rebuilt
<1> QED  BY <1>3, <1>4, <1>5, <1>6, LocalStep

LEMMA SelectVersionKeepsIInv ==
    ASSUME IInv, NEW c \in Clients, SelectVersion(c)
    PROVE  IInv'
<1>1. TypeOK /\ Sound(c)
  BY DEF IInv, IdentitiesAreUnique
<1>2. UNCHANGED tables /\ pc[c] = "version"
  BY DEF SelectVersion
<1>3. CASE End(c, "gap")
  BY <1>1, <1>2, <1>3, EndIsClean, LocalStep
<1>4. CASE /\ seen' = [seen EXCEPT ![c] = version[stream[c]]]
           /\ pc' = [pc EXCEPT ![c] = "rows"]
           /\ UNCHANGED <<phase, stream, batch, candidate, base, memory, floor>>
  <2>1. ClientsTyped'
    BY <1>1, <1>4 DEF TypeOK, ClientsTyped, Steps
  <2>2. \A d \in Clients \ {c} : Kept(d)
    BY <1>1, <1>4 DEF TypeOK, Kept
  <2>3. pc'[c] = "rows" /\ rows' = rows
    BY <1>1, <1>2, <1>4 DEF TypeOK, tables
  <2>4. Sound(c)'
    BY <1>1, <1>2, <1>4, <2>3 DEF Sound, Running, Reading, Rebuilt
  <2> QED  BY <1>2, <2>1, <2>2, <2>4, LocalStep
<1> QED  BY <1>3, <1>4 DEF SelectVersion

(* A snapshot becomes the base only when it matched the rows just read.    *)
LEMMA SelectRowsForSnapshotKeepsIInv ==
    ASSUME IInv, NEW c \in Clients, SelectRowsForSnapshot(c)
    PROVE  IInv'
<1> DEFINE good == ~ Gap(c) /\ MatchesPrefix(c, candidate[c])
<1>1. TypeOK /\ Sound(c)
  BY DEF IInv, IdentitiesAreUnique
<1>2. /\ pc[c] = "rows" /\ UNCHANGED tables /\ pc' = [pc EXCEPT ![c] = "version"]
      /\ UNCHANGED <<stream, batch, candidate, seen, memory, floor>>
  BY DEF SelectRowsForSnapshot, ReadStream
<1>3. \/ /\ phase' = [phase EXCEPT ![c] = "verify"] /\ base' = base
      \/ /\ phase' = [phase EXCEPT ![c] = "tail"]
         /\ base' = [base EXCEPT ![c] = IF good THEN candidate[c] ELSE << >>]
  BY DEF SelectRowsForSnapshot, ReadStream
<1>4. << >> \in Seq(Events) /\ candidate[c] \in Seq(Events) /\ rows[stream[c]] \in Seq(Events)
  BY <1>1 DEF TypeOK
<1>5. base' \in [Clients -> Seq(Events)]
  BY <1>1, <1>3, <1>4 DEF TypeOK
<1>6. ClientsTyped'
  BY <1>1, <1>2, <1>3, <1>5 DEF TypeOK, ClientsTyped, Steps, Phases
<1>7. \A d \in Clients \ {c} : Kept(d)
  BY <1>1, <1>2, <1>3 DEF TypeOK, Kept
<1>8. Sound(c)'
  <2>1. /\ pc'[c] = "version" /\ stream'[c] = stream[c] /\ floor'[c] = floor[c] /\ rows' = rows
    BY <1>1, <1>2 DEF TypeOK, tables
  <2>2. phase'[c] = "verify" \/ /\ phase'[c] = "tail"
                                /\ base'[c] = IF good THEN candidate[c] ELSE << >>
    BY <1>1, <1>3 DEF TypeOK
  <2>3. good => IsPrefixOf(candidate[c], rows[stream[c]])
    BY DEF MatchesPrefix, IsPrefixOf
  <2>4. IsPrefixOf(<< >>, rows[stream[c]])
    BY <1>4, EmptyPrefix
  <2> HIDE DEF good
  <2> QED  BY <1>1, <1>2, <2>1, <2>2, <2>3, <2>4 DEF Sound, Running, Reading, Rebuilt
<1> QED  BY <1>2, <1>6, <1>7, <1>8, LocalStep

(* Replay of the tail reaches the end of the stream as it is at the moment *)
(* of the second SELECT, whatever was appended between the two.            *)
LEMMA SelectTailKeepsIInv ==
    ASSUME IInv, NEW c \in Clients, SelectTail(c)
    PROVE  IInv'
<1>1. TypeOK /\ Sound(c)
  BY DEF IInv, IdentitiesAreUnique
<1>2. UNCHANGED tables /\ pc[c] = "rows" /\ phase[c] = "tail"
  BY DEF SelectTail
<1>3. CASE End(c, "gap")
  BY <1>1, <1>2, <1>3, EndIsClean, LocalStep
<1>4. CASE /\ memory' = [memory EXCEPT ![c] = base[c] \o Tail_(c)]
           /\ pc' = [pc EXCEPT ![c] = IF batch[c] = << >> THEN "measure" ELSE "apply"]
           /\ UNCHANGED <<phase, stream, batch, candidate, base, seen, floor>>
  <2> DEFINE list == rows[stream[c]]
  <2>1. list \in Seq(Events) /\ base[c] \in Seq(Events)
    BY <1>1 DEF TypeOK
  <2>2. base[c] \o Tail_(c) = list
    <3>1. IsPrefixOf(base[c], list)
      BY <1>1, <1>2 DEF Sound, Reading
    <3> QED  BY <2>1, <3>1, PrefixAndTail DEF Tail_
  <2>3. /\ memory' = [memory EXCEPT ![c] = list] /\ pc'[c] \in {"measure", "apply"}
        /\ memory'[c] = list /\ stream'[c] = stream[c] /\ floor'[c] = floor[c] /\ rows' = rows
    BY <1>1, <1>2, <1>4, <2>2 DEF TypeOK, tables
  <2>4. ClientsTyped'
    BY <1>1, <1>4, <2>1, <2>3 DEF TypeOK, ClientsTyped, Steps
  <2>5. \A d \in Clients \ {c} : Kept(d)
    BY <1>1, <1>4 DEF TypeOK, Kept
  <2>6. Sound(c)'
    <3>1. floor[c] <= Len(list)
      BY <1>1, <1>2 DEF Sound, Running, Reading
    <3>2. IsPrefixOf(list, list)
      BY <2>1, PrefixPointwise
    <3> HIDE DEF list
    <3>3. /\ ~ Reading(c)'
          /\ memory'[c] = list /\ rows'[stream'[c]] = list /\ floor'[c] = floor[c]
      BY <2>3 DEF Reading, list
    <3> QED  BY <3>1, <3>2, <3>3 DEF Sound
  <2> QED  BY <1>2, <2>4, <2>5, <2>6, LocalStep
<1> QED  BY <1>3, <1>4 DEF SelectTail

(* What append writes: the batch was decided on exactly the rows it        *)
(* extends, so the stream grows by new identities only.                    *)
LEMMA AppendExtends ==
    ASSUME IInv, NEW c \in Clients, Append_(c)
    PROVE  LET s == stream[c]  new == NewEvents(memory[c], batch[c]) IN
           /\ s \in Streams /\ memory[c] = rows[s] /\ batch[c] \in Seq(Events)
           /\ ~ Refused(rows[s], batch[c])
           /\ Decided(rows[s], batch[c], new)
           /\ rows' = [rows EXCEPT ![s] = rows[s] \o new]
           /\ version' = [version EXCEPT ![s] = version[s] + Len(new)]
           /\ \A t \in Streams : EventIds(s, new) \cap EventIds(t, rows[t]) = {}
<1> DEFINE s == stream[c]  new == NewEvents(memory[c], batch[c])
<1>1. TypeOK /\ Sound(c) /\ version[s] = Len(rows[s])
  BY DEF IInv, IdentitiesAreUnique, TypeOK
<1>2. s \in Streams /\ rows[s] \in Seq(Events) /\ memory[c] \in Seq(Events)
  BY <1>1 DEF TypeOK
<1>3. memory[c] = rows[s]
  <2>1. IsPrefixOf(memory[c], rows[s])
    BY <1>1 DEF Append_, Sound, Rebuilt
  <2>2. Len(memory[c]) = Len(rows[s])
    BY <1>1 DEF Append_, ExpectedSequence
  <2> QED  BY <1>2, <2>1, <2>2, FullPrefix
<1>4. batch[c] \in Seq(Events)
  <2>1. batch[c] \in Batches \cup {<< >>} /\ << >> \in Seq(Events)
    BY <1>1 DEF TypeOK
  <2> QED  BY <2>1, LedgerAssumption
<1>5. ~ Refused(rows[s], batch[c])
  BY <1>3 DEF Append_
<1>6. Decided(rows[s], batch[c], new)
  BY <1>2, <1>3, <1>4, <1>5, NewEventsDecided
<1>7. rows' = [rows EXCEPT ![s] = rows[s] \o new]
      /\ version' = [version EXCEPT ![s] = version[s] + Len(new)]
  BY <1>1, <1>2 DEF Append_, TypeOK
<1>8. \A t \in Streams : EventIds(s, new) \cap EventIds(t, rows[t]) = {}
  BY DEF Append_, FreshIds
<1> QED  BY <1>2, <1>3, <1>4, <1>5, <1>6, <1>7, <1>8

LEMMA AppendKeepsIInv ==
    ASSUME IInv, NEW c \in Clients, Append_(c)
    PROVE  IInv'
<1> DEFINE s == stream[c]  new == NewEvents(memory[c], batch[c])  longer == rows[s] \o new
<1>1. TypeOK /\ \A d \in Clients : Sound(d)
  BY DEF IInv, IdentitiesAreUnique
<1>2. /\ s \in Streams /\ memory[c] = rows[s]
      /\ Decided(rows[s], batch[c], new)
      /\ rows' = [rows EXCEPT ![s] = longer]
      /\ version' = [version EXCEPT ![s] = version[s] + Len(new)]
      /\ \A t \in Streams : EventIds(s, new) \cap EventIds(t, rows[t]) = {}
  BY AppendExtends
<1>3. /\ rows \in [Streams -> Seq(Events)] /\ version \in [Streams -> Nat]
      /\ snapshots \in [Streams -> SUBSET Snapshot] /\ rows[s] \in Seq(Events)
      /\ Len(rows[s]) \in Nat /\ \A t \in Streams : version[t] = Len(rows[t])
  BY <1>1, <1>2 DEF IInv, IdentitiesAreUnique, TypeOK
<1>4. End(c, "open") /\ snapshots' = snapshots /\ schema' = schema
  BY DEF Append_
<1> HIDE DEF new, s
<1>5. new \in Seq(Events) /\ Len(new) \in Nat
  BY <1>2 DEF Decided
<1>6. /\ longer \in Seq(Events) /\ Len(longer) = Len(rows[s]) + Len(new)
      /\ \A i \in 1..Len(rows[s]) : longer[i] = rows[s][i]
      /\ \A i \in 1..Len(new) : longer[Len(rows[s]) + i] = new[i]
  BY <1>3, <1>5
<1> HIDE DEF longer
<1>7. /\ rows'[s] = longer
      /\ \A t \in Streams : t # s => rows'[t] = rows[t]
      /\ version'[s] = Len(longer)
      /\ \A t \in Streams : t # s => version'[t] = version[t]
  BY <1>2, <1>3, <1>6
<1>8. TypeOK'
  <2>1. ClientsTyped'
    BY <1>1, <1>4, EndIsClean
  <2>2. TablesTyped'
    BY <1>1, <1>2, <1>3, <1>4, <1>5, <1>6 DEF TypeOK, TablesTyped
  <2> QED  BY <2>1, <2>2, TypePartsNext
<1>9. \A t \in Streams : IsPrefixOf(rows[t], rows'[t])
  <2> SUFFICES ASSUME NEW t \in Streams  PROVE IsPrefixOf(rows[t], rows'[t])
    OBVIOUS
  <2>1. rows[t] \in Seq(Events) /\ Len(rows[t]) \in Nat
    BY <1>3
  <2>2. CASE t = s
    BY <1>3, <1>5, <1>6, <1>7, <2>2, PrefixPointwise
  <2>3. CASE t # s
    BY <1>7, <2>1, <2>3, PrefixPointwise
  <2> QED  BY <2>2, <2>3
<1>10. Elements(longer) = Elements(rows[s]) \cup Elements(new)
  <2>1. ASSUME NEW i \in 1..Len(longer)  PROVE longer[i] \in Elements(rows[s]) \cup Elements(new)
    <3>1. CASE i <= Len(rows[s])
      BY <1>3, <1>6, <3>1 DEF Elements
    <3>2. CASE i > Len(rows[s])
      <4> DEFINE j == i - Len(rows[s])
      <4>1. j \in 1..Len(new) /\ i = Len(rows[s]) + j
        BY <1>3, <1>5, <1>6, <3>2
      <4> HIDE DEF j
      <4> QED  BY <1>6, <4>1 DEF Elements
    <3> QED  BY <1>3, <3>1, <3>2
  <2>2. \A i \in 1..Len(rows[s]) : rows[s][i] \in Elements(longer)
    <3>1. \A i \in 1..Len(rows[s]) : i \in 1..Len(longer)
      BY <1>3, <1>5, <1>6
    <3> QED  BY <1>6, <3>1 DEF Elements
  <2>3. \A i \in 1..Len(new) : new[i] \in Elements(longer)
    <3>1. \A i \in 1..Len(new) : Len(rows[s]) + i \in 1..Len(longer)
      BY <1>3, <1>5, <1>6
    <3> QED  BY <1>6, <3>1 DEF Elements
  <2> QED  BY <2>1, <2>2, <2>3 DEF Elements
<1>11. DistinctKeys(longer)
  <2>1. DistinctKeys(rows[s])
    BY <1>2 DEF IInv, IdentitiesAreUnique
  <2>2. DistinctKeys(new) /\ \A e \in Elements(new), f \in Elements(rows[s]) : e.key # f.key
    BY <1>2 DEF Decided
  <2>3. \A i \in 1..Len(new), j \in 1..Len(rows[s]) : new[i].key # rows[s][j].key
    BY <2>2 DEF Elements
  <2> SUFFICES ASSUME NEW i \in 1..Len(longer), NEW j \in 1..Len(longer),
                      longer[i].key = longer[j].key
               PROVE  i = j
    BY DEF DistinctKeys
  <2> DEFINE m == Len(rows[s])
  <2>4. \A k \in 1..Len(longer) : k <= m \/ (k - m \in 1..Len(new) /\ longer[k] = new[k - m])
    <3> SUFFICES ASSUME NEW k \in 1..Len(longer), ~ (k <= m)
                 PROVE  k - m \in 1..Len(new) /\ longer[k] = new[k - m]
      OBVIOUS
    <3>1. k - m \in 1..Len(new) /\ m + (k - m) = k
      BY <1>3, <1>5, <1>6
    <3> QED  BY <1>6, <3>1
  <2>5. \A k \in 1..Len(longer) : k <= m => k \in 1..m /\ longer[k] = rows[s][k]
    BY <1>3, <1>5, <1>6
  <2>6. CASE i <= m /\ j <= m
    <3>1. i \in 1..m /\ j \in 1..m /\ rows[s][i].key = rows[s][j].key
      BY <2>5, <2>6
    <3> QED  BY <2>1, <3>1 DEF DistinctKeys
  <2>7. CASE i <= m /\ ~ (j <= m)
    <3>1. i \in 1..m /\ j - m \in 1..Len(new) /\ rows[s][i].key = new[j - m].key
      BY <2>4, <2>5, <2>7
    <3> QED  BY <2>3, <3>1
  <2>8. CASE ~ (i <= m) /\ j <= m
    <3>1. j \in 1..m /\ i - m \in 1..Len(new) /\ rows[s][j].key = new[i - m].key
      BY <2>4, <2>5, <2>8
    <3> QED  BY <2>3, <3>1
  <2>9. CASE ~ (i <= m) /\ ~ (j <= m)
    <3>1. i - m = j - m
      BY <2>2, <2>4, <2>9 DEF DistinctKeys
    <3> QED  BY <1>3, <1>5, <1>6, <3>1
  <2> QED  BY <2>6, <2>7, <2>8, <2>9
<1>12. EventIds(s, longer) = EventIds(s, rows[s]) \cup EventIds(s, new)
  BY <1>10 DEF EventIds
<1>13. IdentitiesAreUnique'
  <2>1. \A t \in Streams : DistinctKeys(rows'[t])
    BY <1>7, <1>11 DEF IInv, IdentitiesAreUnique
  <2>2. \A t \in Streams : version'[t] = Len(rows'[t])
    BY <1>3, <1>7
  <2>3. ASSUME NEW t \in Streams, NEW u \in Streams, t # u
        PROVE  EventIds(t, rows'[t]) \cap EventIds(u, rows'[u]) = {}
    <3>1. EventIds(t, rows[t]) \cap EventIds(u, rows[u]) = {}
      BY <2>3 DEF IInv, IdentitiesAreUnique
    <3>2. CASE t = s
      BY <1>2, <1>7, <1>12, <2>3, <3>1, <3>2
    <3>3. CASE u = s
      BY <1>2, <1>7, <1>12, <2>3, <3>1, <3>3
    <3>4. CASE t # s /\ u # s
      BY <1>7, <3>1, <3>4
    <3> QED  BY <3>2, <3>3, <3>4
  <2>4. \A t, u \in Streams : t # u => EventIds(t, rows'[t]) \cap EventIds(u, rows'[u]) = {}
    BY <2>3
  <2> QED  BY <1>8, <2>1, <2>2, <2>4 DEF IdentitiesAreUnique, DistinctKeys, EventIds, Elements, EventId
<1>14. SnapshotsAreDerived'
  <2> SUFFICES ASSUME NEW t \in Streams, NEW n \in snapshots[t]
               PROVE  /\ n.sequence = Len(n.state)
                      /\ IsPrefixOf(n.state, rows'[t])
                      /\ \A m \in snapshots[t] : m.sequence = n.sequence => m = n
    BY <1>4 DEF SnapshotsAreDerived, IsPrefixOf, Prefix
  <2>1. n.sequence = Len(n.state) /\ IsPrefixOf(n.state, rows[t])
        /\ \A m \in snapshots[t] : m.sequence = n.sequence => m = n
    BY DEF IInv, SnapshotsAreDerived
  <2>2. n.state \in Seq(Events)
    BY <1>3 DEF Snapshot
  <2>3. IsPrefixOf(n.state, rows'[t])
    BY <1>2, <1>3, <1>5, <1>7, <2>1, <2>2, PrefixOfLonger DEF longer
  <2> QED  BY <2>1, <2>3
<1>15. Sound(c)' /\ \A d \in Clients \ {c} : Sound(d)'
  BY <1>1, <1>4, <1>8, <1>9, EndIsClean, KeptStaysSound
<1> QED  BY <1>13, <1>14, <1>15 DEF IInv

LEMMA AppendEndsKeepIInv ==
    ASSUME IInv, NEW c \in Clients, AppendNothing(c) \/ AppendFails(c) \/ Restart(c)
    PROVE  IInv'
<1>1. TypeOK
  BY DEF IInv, IdentitiesAreUnique
<1>2. UNCHANGED tables
  BY DEF AppendNothing, AppendFails, Restart
<1>3. \E result \in {"closed", "open", "conflict", "domain_error", "duplicate"} : End(c, result)
  BY DEF AppendNothing, AppendFails, Restart
<1>4. ClientsTyped' /\ (\A d \in Clients \ {c} : Kept(d)) /\ Sound(c)'
  BY <1>1, <1>3, EndIsClean
<1> QED  BY <1>2, <1>4, LocalStep

LEMMA MeasureStreamKeepsIInv ==
    ASSUME IInv, NEW c \in Clients, MeasureStream(c)
    PROVE  IInv'
<1>1. TypeOK /\ Sound(c)
  BY DEF IInv, IdentitiesAreUnique
<1>2. UNCHANGED tables /\ pc[c] = "measure"
  BY DEF MeasureStream
<1>3. CASE End(c, "mismatch")
  BY <1>1, <1>2, <1>3, EndIsClean, LocalStep
<1>4. CASE /\ ReadStream(c, "expected")
           /\ UNCHANGED <<stream, batch, candidate, base, seen, memory, floor>>
  <2>1. ClientsTyped'
    BY <1>1, <1>4 DEF ReadStream, TypeOK, ClientsTyped, Steps, Phases
  <2>2. \A d \in Clients \ {c} : Kept(d)
    BY <1>1, <1>4 DEF ReadStream, TypeOK, Kept
  <2>3. pc'[c] = "version" /\ phase'[c] = "expected" /\ rows' = rows
    BY <1>1, <1>2, <1>4 DEF ReadStream, TypeOK, tables
  <2>4. Sound(c)'
    BY <1>1, <1>2, <1>4, <2>3 DEF Sound, Running, Reading, Rebuilt
  <2> QED  BY <1>2, <2>1, <2>2, <2>4, LocalStep
<1> QED  BY <1>3, <1>4 DEF MeasureStream

LEMMA SelectRowsForSaveKeepsIInv ==
    ASSUME IInv, NEW c \in Clients, SelectRowsForSave(c)
    PROVE  IInv'
<1>1. TypeOK /\ Sound(c)
  BY DEF IInv, IdentitiesAreUnique
<1>2. UNCHANGED tables /\ pc[c] = "rows" /\ phase[c] \in {"expected", "source"}
  BY DEF SelectRowsForSave
<1>3. CASE End(c, IF Gap(c) THEN "gap" ELSE "mismatch")
  BY <1>1, <1>2, <1>3, EndIsClean, LocalStep
<1>4. CASE /\ \/ ReadStream(c, "source")
              \/ pc' = [pc EXCEPT ![c] = "insert"] /\ UNCHANGED phase
           /\ UNCHANGED <<stream, batch, candidate, base, seen, memory, floor>>
  <2>1. ClientsTyped'
    BY <1>1, <1>4 DEF ReadStream, TypeOK, ClientsTyped, Steps, Phases
  <2>2. \A d \in Clients \ {c} : Kept(d)
    BY <1>1, <1>4 DEF ReadStream, TypeOK, Kept
  <2>3. ((pc'[c] = "version" /\ phase'[c] = "source") \/ pc'[c] = "insert") /\ rows' = rows
    BY <1>1, <1>2, <1>4 DEF ReadStream, TypeOK, tables
  <2>4. Sound(c)'
    BY <1>1, <1>2, <1>4, <2>3 DEF Sound, Running, Reading, Rebuilt
  <2> QED  BY <1>2, <2>1, <2>2, <2>4, LocalStep
<1> QED  BY <1>3, <1>4 DEF SelectRowsForSave

(* The only steps that write snapshots: one inserts a fold of a prefix at  *)
(* a sequence that has none, the other damages the bytes of one.           *)
LEMMA SnapshotStep ==
    ASSUME IInv, NEW s \in Streams, NEW new \in SUBSET Snapshot,
           snapshots' = [snapshots EXCEPT ![s] = new],
           rows' = rows, version' = version, schema' = schema, ClientsTyped',
           \A n \in new : /\ n.sequence = Len(n.state)
                          /\ IsPrefixOf(n.state, rows[s])
                          /\ \A m \in new : m.sequence = n.sequence => m = n,
           \A d \in Clients : Kept(d) \/ Sound(d)'
    PROVE  IInv'
<1>1. TypeOK
  BY DEF IInv, IdentitiesAreUnique
<1>2. TypeOK'
  <2>1. TablesTyped'
    BY <1>1 DEF TypeOK, TablesTyped
  <2> QED  BY <2>1, TypePartsNext
<1>3. IdentitiesAreUnique'
  BY <1>2 DEF IInv, IdentitiesAreUnique
<1>4. SnapshotsAreDerived'
  <2> SUFFICES ASSUME NEW t \in Streams
               PROVE  \A n \in snapshots'[t] :
                         /\ n.sequence = Len(n.state)
                         /\ IsPrefixOf(n.state, rows[t])
                         /\ \A m \in snapshots'[t] : m.sequence = n.sequence => m = n
    BY DEF SnapshotsAreDerived
  <2>1. CASE t = s
    <3>1. snapshots'[t] = new
      BY <1>1, <2>1 DEF TypeOK
    <3> QED  BY <2>1, <3>1
  <2>2. CASE t # s
    <3>1. snapshots'[t] = snapshots[t]
      BY <1>1, <2>2 DEF TypeOK
    <3> QED  BY <3>1 DEF IInv, SnapshotsAreDerived
  <2> QED  BY <2>1, <2>2
<1>5. \A d \in Clients : Sound(d)'
  <2>1. \A t \in Streams : IsPrefixOf(rows[t], rows'[t])
    BY <1>1, PrefixPointwise DEF TypeOK
  <2> QED  BY <1>1, <1>2, <2>1, KeptStaysSound DEF IInv
<1> QED  BY <1>3, <1>4, <1>5 DEF IInv

LEMMA InsertSnapshotKeepsIInv ==
    ASSUME IInv, NEW c \in Clients, InsertSnapshot(c)
    PROVE  IInv'
<1> DEFINE s == stream[c]
           new == [sequence |-> Len(memory[c]), state |-> memory[c], intact |-> TRUE]
           same == {n \in snapshots[s] : n.sequence = new.sequence}
           set == IF same = {} THEN snapshots[s] \cup {new} ELSE snapshots[s]
<1>1. TypeOK /\ Sound(c) /\ s \in Streams
  BY DEF IInv, IdentitiesAreUnique, TypeOK
<1>2. /\ pc[c] = "insert" /\ rows' = rows /\ version' = version /\ schema' = schema
      /\ snapshots' = [snapshots EXCEPT ![s] = set]
      /\ \E result \in {"open", "mismatch"} : End(c, result)
  BY <1>1 DEF InsertSnapshot, TypeOK
<1>3. /\ new \in Snapshot /\ new.sequence = Len(new.state)
      /\ IsPrefixOf(new.state, rows[s])
  <2>1. IsPrefixOf(memory[c], rows[s])
    BY <1>1, <1>2 DEF Sound, Rebuilt
  <2>2. memory[c] \in Seq(Events) /\ Len(memory[c]) \in Nat
    BY <1>1 DEF TypeOK
  <2> QED  BY <2>1, <2>2 DEF Snapshot
<1>4. snapshots[s] \subseteq Snapshot
  BY <1>1 DEF TypeOK
<1>5. \A n \in snapshots[s] : /\ n.sequence = Len(n.state)
                              /\ IsPrefixOf(n.state, rows[s])
                              /\ \A m \in snapshots[s] : m.sequence = n.sequence => m = n
  BY <1>1 DEF IInv, SnapshotsAreDerived
<1> HIDE DEF new
<1>6. \A n \in set : /\ n.sequence = Len(n.state)
                     /\ IsPrefixOf(n.state, rows[s])
                     /\ \A m \in set : m.sequence = n.sequence => m = n
  <2>1. CASE same = {}
    BY <1>3, <1>5, <2>1
  <2>2. CASE same # {}
    BY <1>5, <2>2
  <2> QED  BY <2>1, <2>2
<1>7. set \in SUBSET Snapshot
  BY <1>3, <1>4
<1>8. ClientsTyped' /\ \A d \in Clients : Kept(d) \/ Sound(d)'
  BY <1>1, <1>2, EndIsClean
<1> HIDE DEF set, s
<1> QED  BY <1>1, <1>2, <1>6, <1>7, <1>8, SnapshotStep

LEMMA DamageSnapshotKeepsIInv ==
    ASSUME IInv, NEW s \in Streams, NEW n \in snapshots[s], DamageSnapshot(s, n)
    PROVE  IInv'
<1> DEFINE bad == [n EXCEPT !.intact = FALSE]
           set == (snapshots[s] \ {n}) \cup {bad}
<1>1. TypeOK /\ n \in Snapshot
  BY DEF IInv, IdentitiesAreUnique, TypeOK
<1>2. /\ rows' = rows /\ version' = version /\ schema' = schema /\ UNCHANGED client
      /\ snapshots' = [snapshots EXCEPT ![s] = set]
  BY <1>1 DEF DamageSnapshot, TypeOK
<1>3. bad \in Snapshot /\ bad.sequence = n.sequence /\ bad.state = n.state
  BY <1>1 DEF Snapshot
<1>4. \A k \in snapshots[s] : /\ k.sequence = Len(k.state)
                              /\ IsPrefixOf(k.state, rows[s])
                              /\ \A m \in snapshots[s] : m.sequence = k.sequence => m = k
  BY DEF IInv, SnapshotsAreDerived
<1> HIDE DEF bad
<1>5. \A k \in set : /\ k.sequence = Len(k.state)
                     /\ IsPrefixOf(k.state, rows[s])
                     /\ \A m \in set : m.sequence = k.sequence => m = k
  BY <1>3, <1>4
<1>6. set \in SUBSET Snapshot
  BY <1>1, <1>3 DEF TypeOK
<1>7. ClientsTyped' /\ \A d \in Clients : Kept(d)
  BY <1>1, <1>2 DEF client, TypeOK, ClientsTyped, Kept
<1> HIDE DEF set
<1> QED  BY <1>1, <1>2, <1>5, <1>6, <1>7, SnapshotStep

------------------------------------------------------------------------------
(* The theorems. *)

LEMMA InitEstablishesIInv == Init => IInv
<1> SUFFICES ASSUME Init  PROVE IInv
  OBVIOUS
<1>1. TypeOK
  <2>1. << >> \in Seq(Events) /\ \A t \in Seq(Events) : Len(t) \in Nat
    OBVIOUS
  <2>2. TablesTyped
    <3>1. rows \in [Streams -> Seq(Events)] /\ version \in [Streams -> Nat]
      BY LedgerAssumption, <2>1 DEF Init
    <3> QED  BY <3>1 DEF Init, TablesTyped
  <2>3. stream \in [Clients -> Streams]
    <3>1. (CHOOSE s \in Streams : TRUE) \in Streams
      BY LedgerAssumption
    <3> QED  BY <3>1 DEF Init
  <2>4. ClientsTyped
    BY <2>1, <2>3 DEF Init, ClientsTyped, Steps, Phases
  <2> QED  BY <2>2, <2>4, TypeParts
<1>2. IdentitiesAreUnique
  BY <1>1, ExistingDatabase DEF Init, IdentitiesAreUnique
<1>3. SnapshotsAreDerived
  BY DEF Init, SnapshotsAreDerived
<1>4. \A c \in Clients : Sound(c)
  BY DEF Init, Sound, Running, Reading, Rebuilt
<1> QED  BY <1>2, <1>3, <1>4 DEF IInv

LEMMA StepKeepsIInv == IInv /\ [Next]_vars => IInv'
<1> SUFFICES ASSUME IInv, [Next]_vars  PROVE IInv'
  OBVIOUS
<1>1. CASE UNCHANGED vars
  <2>1. UNCHANGED <<rows, version, snapshots, schema>> /\ UNCHANGED client
    BY <1>1 DEF vars, client
  <2> QED
    BY <2>1 DEF client, IInv, IdentitiesAreUnique, SnapshotsAreDerived, TypeOK, Sound,
                Running, Reading, Rebuilt
<1>2. ASSUME NEW c \in Clients,
             \/ ReadSchema(c)
             \/ Migrate(c)
             \/ \E s \in Streams, b \in Batches \cup {<< >>} : BeginRebuild(c, s, b)
             \/ SelectSnapshot(c)
             \/ SelectVersion(c)
             \/ SelectRowsForSnapshot(c)
             \/ SelectTail(c)
      PROVE  IInv'
  BY <1>2, OpeningKeepsIInv, MigrateKeepsIInv, BeginRebuildKeepsIInv,
     SelectSnapshotKeepsIInv, SelectVersionKeepsIInv, SelectRowsForSnapshotKeepsIInv,
     SelectTailKeepsIInv
<1>3. ASSUME NEW c \in Clients,
             \/ Append_(c) \/ AppendNothing(c) \/ AppendFails(c)
             \/ MeasureStream(c) \/ SelectRowsForSave(c) \/ InsertSnapshot(c)
             \/ Restart(c)
      PROVE  IInv'
  BY <1>3, AppendKeepsIInv, AppendEndsKeepIInv, MeasureStreamKeepsIInv,
     SelectRowsForSaveKeepsIInv, InsertSnapshotKeepsIInv
<1>4. ASSUME NEW s \in Streams, NEW n \in snapshots[s], DamageSnapshot(s, n)
      PROVE  IInv'
  BY <1>4, DamageSnapshotKeepsIInv
<1> QED  BY <1>1, <1>2, <1>3, <1>4 DEF Next

(* The inductive invariant holds throughout. *)
THEOREM LedgerInvariant == Spec => []IInv
BY InitEstablishesIInv, StepKeepsIInv, PTL DEF Spec

(* append, the UNIQUE constraints and decide keep every identity, in every *)
(* database that any number of clients share, unique; the streams table    *)
(* counts the rows, and the tables and calls are typed.                    *)
THEOREM IdentitiesStayUnique == Spec => []IdentitiesAreUnique
<1>1. IInv => IdentitiesAreUnique
  BY DEF IInv
<1> QED  BY <1>1, LedgerInvariant, PTL

(* save_snapshot never inserts anything but the fold of the prefix it      *)
(* names, although the rows it was computed from were read in three other  *)
(* transactions, and never a second one for a sequence.                    *)
THEOREM SnapshotsStayDerived == Spec => []SnapshotsAreDerived
<1>1. IInv => SnapshotsAreDerived
  BY DEF IInv
<1> QED  BY <1>1, LedgerInvariant, PTL

(* rebuild_state returns the fold of a prefix at least as long as the      *)
(* stream was when the call began, whichever snapshot it found.            *)
THEOREM RebuildStaysCurrent == Spec => []RebuildIsCurrent
<1>1. IInv => RebuildIsCurrent
  <2> SUFFICES ASSUME IInv, NEW c \in Clients, pc[c] \in {"apply", "measure", "insert"}
               PROVE  IsPrefixOf(memory[c], rows[stream[c]]) /\ Len(memory[c]) >= floor[c]
    BY DEF RebuildIsCurrent
  <2>1. Sound(c) /\ floor[c] \in Nat /\ Len(memory[c]) \in Nat
    BY DEF IInv, IdentitiesAreUnique, TypeOK
  <2> QED  BY <2>1 DEF Sound, Rebuilt
<1> QED  BY <1>1, LedgerInvariant, PTL

(* Optimistic concurrency (expected_sequence) is enough: a stream only     *)
(* grows, by a batch that was decided on exactly the rows it extends.      *)
THEOREM NoStaleWriteForks == Spec => StaleWritesNeverFork
<1> DEFINE Grows(s) ==
             rows'[s] # rows[s] =>
                /\ IsPrefixOf(rows[s], rows'[s])
                /\ \E c \in Clients : /\ stream[c] = s
                                      /\ memory[c] = rows[s]
                                      /\ ~ Refused(rows[s], batch[c])
<1>1. IInv /\ [Next]_vars => [\A s \in Streams : Grows(s)]_vars
  <2> SUFFICES ASSUME IInv, Next, NEW s \in Streams, rows'[s] # rows[s]
               PROVE  Grows(s)
    OBVIOUS
  <2>1. PICK c \in Clients : Append_(c)
    <3>1. rows' # rows
      OBVIOUS
    <3> QED
      BY <3>1 DEF Next, ReadSchema, Migrate, BeginRebuild, SelectSnapshot, SelectVersion,
         SelectRowsForSnapshot, SelectTail, AppendNothing, AppendFails, MeasureStream,
         SelectRowsForSave, InsertSnapshot, Restart, DamageSnapshot, tables
  <2> DEFINE new == NewEvents(memory[c], batch[c])
  <2>2. /\ stream[c] \in Streams /\ memory[c] = rows[stream[c]]
        /\ ~ Refused(rows[stream[c]], batch[c])
        /\ Decided(rows[stream[c]], batch[c], new)
        /\ rows' = [rows EXCEPT ![stream[c]] = rows[stream[c]] \o new]
    BY <2>1, AppendExtends
  <2>3. rows \in [Streams -> Seq(Events)] /\ rows[s] \in Seq(Events)
    BY DEF IInv, IdentitiesAreUnique, TypeOK
  <2>4. new \in Seq(Events)
    BY <2>2 DEF Decided
  <2> HIDE DEF new
  <2>5. s = stream[c] /\ rows'[s] = rows[s] \o new
    BY <2>2, <2>3
  <2>6. IsPrefixOf(rows[s], rows[s])
    BY <2>3, PrefixPointwise
  <2>7. IsPrefixOf(rows[s], rows'[s])
    BY <2>3, <2>4, <2>5, <2>6, PrefixOfLonger
  <2> QED  BY <2>2, <2>5, <2>7
<1> QED  BY <1>1, LedgerInvariant, PTL DEF Spec, StaleWritesNeverFork
=============================================================================
