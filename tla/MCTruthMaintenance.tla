------------------------- MODULE MCTruthMaintenance -------------------------
(* Two lemmas that can support each other, two environments, one nogood.   *)
EXTENDS TruthMaintenance

Ref(name) == [evidence |-> name, verdict |-> name]
Item(id, kind, about, form, universe) ==
    [id |-> id, kind |-> kind, about |-> about, form |-> form, universe |-> universe]
Check(id, evid, checker, verdict) ==
    [id |-> id, evidence |-> evid, checker |-> checker, verdict |-> verdict,
     certificate |-> id]
Witness(id, about) == Item(id, "independent_witness", about, "existential", "open")
Checked(id) == Check(id, id, "checker", "valid")

Route(id, lemma, env, assumptions, requires, open) ==
    [id |-> id, conclusion |-> lemma, environment |-> env,
     assumptions |-> assumptions, requires |-> requires, open |-> open,
     certificate |-> Ref(lemma), realizable |-> Ref(env),
     warrants |-> {lemma}]
Promotion(lemma, relation, form, guard, routes, decision) ==
    [lemma |-> lemma, relation |-> relation, form |-> form, guard |-> guard,
     contexts |-> {}, routes |-> routes, decision |-> decision,
     sources |-> {relation}, predecessors |-> {}]

(* A is shown outright; or, on assumption x, from B, which is then open.   *)
A1 == Route(1, "A", "empty", {}, {}, {})
A2 == Route(2, "A", "withX", {"x"}, {"B"}, {"B"})
(* B is shown from A; or, on assumption x, outright.                       *)
B1 == Route(3, "B", "empty", {}, {"A"}, {})
B2 == Route(4, "B", "withX", {"x"}, {}, {})

MCRoutes == {A1, A2, B1, B2}
MCProposals ==
    {Promotion("A", "pA", "existential", "g", rs, "A") : rs \in {{A1}, {A1, A2}}}
        \cup {Promotion("B", "pB", "universal", "always", rs, "B") :
                  rs \in {{B1}, {B2}, {B1, B2}}}
(* The nogood, and one that cites a check of something else.               *)
MCNogoods == {[id |-> "notX", assumptions |-> {"x"}, check |-> Ref(about),
               decision |-> "notX"] : about \in {"notX", "A"}}
MCClaims == {[id |-> "pA", proposition |-> "pA", modal |-> TRUE],
             [id |-> "pB", proposition |-> "pB", modal |-> FALSE],
             [id |-> "later", proposition |-> "pB", modal |-> TRUE]}

(* The evidence that can support the nogood and both lemmas, and evidence  *)
(* for B that must not: a solver's answer, an enumeration of an open or of *)
(* another universe, a witness of a universal, a heuristic, model output.  *)
MCEvidence ==
    {Witness("A", "pA"), Witness("empty", "empty"), Witness("withX", "withX"),
     Witness("notX", "notX")}
    \cup {Item("B", "exhaustive_unsat", "pB", "universal", universe) :
              universe \in {"scoped", "open", "foreign"}}
    \cup {Item("B", kind, "pB", "universal", "open") :
              kind \in {"z3_unsat", "independent_witness", "heuristic", "model_output"}}

(* A is also judged by a checker the binding does not name, and invalid.   *)
MCVerdicts ==
    {Checked(name) : name \in {"A", "B", "empty", "withX", "notX"}}
    \cup {Check("A", "A", "stranger", "valid"), Check("A", "A", "checker", "invalid")}
MCEvaluations == {[id |-> name, verdict |-> name] : name \in {"A", "B", "notX"}}
=============================================================================
