------------------------ MODULE MCCognitiveLifecycle ------------------------
(* Two requests of two obligations and two attempts.  Plan k1 is for       *)
(* attempt a1 of r1; whether the attempt, its return and its decode really *)
(* come about for r1 is up to the effect commands.                         *)
EXTENDS CognitiveLifecycle

CONSTANTS p1, p2, r1, r2, a1, a2, d1, x1, o1, o2, c1, l1

MCSelects == p1 :> o1 @@ p2 :> o2
MCPlanOf == r1 :> p1 @@ r2 :> p2
MCLemmaOf == l1 :> [relation |-> "same reading", scope |-> Scope]

Probe == [contract |-> "threshold", binding |-> Binding, schema |-> "carrier", scope |-> Scope]
Seen(id, referents, returns, index, bridge) ==
    [id |-> id, probe |-> Probe, referents |-> referents, binding |-> Binding,
     revision |-> 1, returns |-> returns, claims |-> {}, index |-> index,
     bridge |-> bridge, fresh |-> returns # {}, exposure |-> "withheld_until_capture"]
Bridge == [from |-> Probe, to |-> Probe, proposition |-> "same reading",
           scope |-> Scope, lemma |-> l1]
Plan(id, obligation, request, attempt) ==
    [id |-> id, obligation |-> obligation, action |-> "measure", request |-> request,
     attempt |-> attempt, revision |-> 1, scope |-> Scope]
Change(operation) ==
    [id |-> "s1", proposition |-> "same reading", scope |-> Scope,
     operation |-> operation, lemma |-> l1]

MCSubmitted ==
    [probes |-> {Probe, [Probe EXCEPT !.schema = "other"]},
     observations |-> {Seen("b1", "left", {}, 1, None), Seen("b2", "right", {x1}, 2, Bridge)},
     plans |-> {Plan("k1", o1, r1, a1)},
     predictions |-> {[id |-> "q1", plan |-> "k1", action |-> "measure",
                       scope |-> Scope, basis |-> {}]},
     mismatches |-> {[id |-> "m1", prediction |-> "q1", ret |-> x1, decode |-> d1,
                      difference |-> c1, scope |-> Scope]},
     reconstructions |-> {[id |-> "e1", revision |-> 1, ret |-> x1, decodes |-> {d1},
                           claims |-> {}, generated |-> {}, historical |-> {}]},
     deltas |-> {[id |-> "t1", reconstruction |-> "e1", changes |-> {Change("reopen")},
                  reopened |-> {"s1"}, retired |-> {}]}]
=============================================================================
