---------------------------- MODULE MCReacquisition ----------------------------
(* Two parents with one package each reacquire under one request id and    *)
(* one child name.  The first parent has two callers; the second of them   *)
(* calls for the child and its link alone, and takes turns with the caller *)
(* of the second parent.                                                   *)
EXTENDS Reacquisition

MCAxes == <<"effects">>
MCObservationOrder == [o |-> 1]
MCPackageOrder == [p1 |-> 1]

Protocol == [id |-> "k1", version |-> 1, at |-> "here", competence |-> "skill",
             budget |-> [effects |-> [n |-> 1, d |-> 1]]]
E1 == <<"e1">>
MCRecordOf(k) == [type |-> "evidence", content |-> k]
MCRecorded == {E1}
Ids0 == [k \in MemberKinds |-> {}]
MCRegistration ==
    [package |-> [id |-> "p1", at |-> "here",
                  refs |-> {[type |-> "evidence", key |-> E1, content |-> E1]},
                  cues |-> {}, tags |-> {},
                  ids |-> [Ids0 EXCEPT !.reacquisition = {"x1"}, !.scaffolds = {"s1"},
                                       !.protocols = {"k1"}]],
     members |-> [Ids0 EXCEPT
        !.reacquisition = {[id |-> "x1", at |-> "here", sources |-> {E1},
                            scaffold |-> "s1", protocol |-> "k1"]},
        !.scaffolds = {[id |-> "s1", at |-> "here", sources |-> {E1}, probes |-> {}]},
        !.protocols = {Protocol}]]

RequestBy(parent) ==
    [id |-> "q", parent |-> parent, child |-> "c", branch |-> "retained",
     pins |-> PinsOf(Protocol), package |-> "p1", scaffold |-> "s1"]
MCTask == [k1 |-> RequestBy("A"), k2 |-> RequestBy("A"), k3 |-> RequestBy("B")]
MCProcess == [k1 |-> 1, k2 |-> 2, k3 |-> 2]
MCEntry == [k1 |-> {"request"}, k2 |-> {"start"}, k3 |-> {"request"}]
==============================================================================
