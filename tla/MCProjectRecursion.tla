------------------------- MODULE MCProjectRecursion -------------------------
(* One anchor and a later one, two limitations, two candidates for the     *)
(* first limitation and one development cycle on it.  Records with one id  *)
(* are alternatives: whichever is recorded first excludes the others.      *)
EXTENDS ProjectRecursion

Cost(a, b) == [time |-> a, risk |-> b]
Candidate(id, costs, discriminator, preserved) ==
    [id |-> id, anchor |-> "a1", limitation |-> "l1", preserved |-> preserved,
     gains |-> {"gain"}, discriminator |-> discriminator, reversible |-> TRUE,
     costs |-> costs]

MCIdOrder == [s1 |-> 1, s2 |-> 2]

S1 == Candidate("s1", Cost(1, 1), "goal-synthesis-acceptance", {"p"})
(* The second candidate is equal, incomparable, better but without a       *)
(* discriminator, or not estimated.                                        *)
S2s ==
    {Candidate("s2", Cost(1, 1), "goal-synthesis-acceptance", {"p"}),
     Candidate("s2", Cost(0, 2), "goal-synthesis-acceptance", {"p"}),
     Candidate("s2", Cost(1, 0), None, {"p", "q"}),
     Candidate("s2", Cost(1, Unknown), "goal-synthesis-acceptance", {"p"})}

Returns == {[class |-> "goal-derivation-required", state |-> "goal"],
            [class |-> "no-change", state |-> "same"]}
Question(id, limitation, referents) ==
    [id |-> id, limitation |-> limitation, family |-> "recursive-project",
     safe |-> TRUE, referents |-> referents, returns |-> Returns, key |-> "key"]
Decision(id, candidate, outcome) ==
    [id |-> id, candidate |-> candidate, outcome |-> outcome, policy |-> "current",
     evidence |-> {"e1"}]
Goal(anchor) ==
    [id |-> "g1", anchor |-> anchor, frontier |-> "f1", candidate |-> "s1",
     gates |-> {"gate0", "gate1"}]
Evidence(outcome, gate) ==
    [id |-> "e1", goal |-> "g1", environment |-> "n1", outcome |-> outcome,
     base |-> "c0", commit |-> "c1", gate |-> gate]
Review(reviewer, commit, outcome) ==
    [id |-> "r1", goal |-> "g1", environment |-> "n1", reviewer |-> reviewer,
     commit |-> commit, evidence |-> {"e1"}, outcome |-> outcome]
Promotion(commit, outcome) ==
    [id |-> "p1", successor |-> "d1", commit |-> commit, outcome |-> outcome,
     merged |-> IF outcome = "merged" THEN "c2" ELSE None, checks |-> "success"]
Checkpoint(id, phase, predecessor, records) ==
    [id |-> id, cycle |-> "cycle", phase |-> phase, predecessor |-> predecessor,
     records |-> records]
Successor(disposition, preserved) ==
    [id |-> "d1", goal |-> "g1", candidate |-> "s1", environment |-> "n1",
     review |-> "r1", evidence |-> {"e1"}, disposition |-> disposition,
     preserved |-> preserved, gains |-> {"gain"}]

MCSubmitted(k) ==
    CASE k = "anchors" -> {[id |-> "a1", commit |-> "c0", gate |-> "gate0"],
                  [id |-> "a2", commit |-> "c9", gate |-> "gate0"]}
      [] k = "limitations" -> {[id |-> "l1", anchor |-> "a1"], [id |-> "l2", anchor |-> "a2"]}
      [] k = "questions" -> {Question("q1", "l1", {"l1"})}
      [] k = "questionDecisions" -> {Decision("qd1", "q1", "admit"), Decision("qd2", "q1", "admit"),
                            Decision("qd2", "q1", "reject")}
      [] k = "methods" -> {[id |-> "m1", limitation |-> "l1", adapter |-> TRUE],
                  [id |-> "m1", limitation |-> "l2", adapter |-> FALSE]}
      [] k = "methodDecisions" -> {[id |-> "md1", candidate |-> "m1", outcome |-> "admit",
                           evidence |-> {"e1"}, goal |-> "g1"]}
      [] k = "candidates" -> {S1} \cup S2s
      [] k = "frontiers" -> {CapabilityFrontier("f1", {S1, c}) : c \in S2s}
      [] k = "goals" -> {Goal("a1"), Goal("a2")}
      [] k = "environments" -> {[id |-> "n1", goal |-> "g1", developer |-> "dev", base |-> "c0"]}
      [] k = "evidence" -> {Evidence("pass", "gate1"), Evidence("fail", "gate1"),
                   Evidence("pass", "gate9")}
      [] k = "reviews" -> {Review("peer", "c1", "valid"), Review("peer", "c1", "invalid"),
                  Review("dev", "c1", "valid"), Review("peer", "c8", "valid")}
      [] k = "successors" -> {Successor("replace", {"p"}), Successor("replace", {"x"}),
                     Successor("keep", {"p"})}
      [] k = "promotions" -> {Promotion("c1", "merged"), Promotion("c8", "merged"),
                     Promotion("c1", "proposed")}
      [] k = "checkpoints" -> {Checkpoint("k1", 4, None, {"g1"}), Checkpoint("g1", 4, None, {"g1"}),
                      Checkpoint("k2", 4, "k1", {"g1"}), Checkpoint("k2", 7, "k1", {"r1"})}
      [] k = "stops" -> {[id |-> "l1", cycle |-> "cycle", residuals |-> {"l1"},
                 reason |-> "repeated_blocker"]}

MCGoalName ==
    [x \in {<<"q1", d, "f1">> : d \in {"qd1", "qd2"}} |->
        IF x[2] = "qd1" THEN "derived1" ELSE "derived2"]
=============================================================================
