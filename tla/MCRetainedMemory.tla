--------------------------- MODULE MCRetainedMemory ---------------------------
(* Two packages with a protocol and a direct route, two baseline requests  *)
(* and two retained.  Records with one id are alternatives.                *)
EXTENDS RetainedMemory

MCAxes == <<"effects", "steps">>
MCObservationOrder == [b1 |-> 1, b2 |-> 2, r1 |-> 3, r2 |-> 4]
MCPackageOrder == [p1 |-> 1, p2 |-> 2]

Costs(effects, n, d) == [effects |-> [n |-> effects, d |-> 1], steps |-> [n |-> n, d |-> d]]
Protocol == [id |-> "k1", version |-> 1, at |-> "here", competence |-> "skill",
             budget |-> Costs(2, 1, 1)]
Pins == PinsOf(Protocol)

Content(key) == [of |-> key]
Ref(type, key) == [type |-> type, key |-> key, content |-> Content(key)]
E1 == <<"e1">>
M1 == <<"m1">>
Ids0 == [k \in MemberKinds |-> {}]

Package1 ==
    [package |-> [id |-> "p1", at |-> "here", refs |-> {Ref("evidence", E1)},
                  cues |-> {"c1"}, tags |-> {},
                  ids |-> [Ids0 EXCEPT !.reacquisition = {"x1"}, !.scaffolds = {"s1"},
                                       !.protocols = {"k1"}]],
     members |-> [Ids0 EXCEPT
        !.reacquisition = {[id |-> "x1", at |-> "here", sources |-> {E1},
                            scaffold |-> "s1", protocol |-> "k1"]},
        !.scaffolds = {[id |-> "s1", at |-> "here", sources |-> {E1}, probes |-> {}]},
        !.protocols = {Protocol}]]
(* The second package refers to the first one and to a later record.  Its  *)
(* alternatives take over the first one's scaffold, or have other pins.    *)
Package2(scaffolds, at) ==
    [package |-> [id |-> "p2", at |-> at,
                  refs |-> {Ref("lemma_version", M1),
                            [type |-> "retention_package", key |-> <<"package", "p1">>,
                             content |-> Package1.package]},
                  cues |-> {"c1", "c2"}, tags |-> {"t1"},
                  ids |-> [Ids0 EXCEPT !.direct_use = {"x1"}, !.scaffolds = scaffolds]],
     members |-> [Ids0 EXCEPT
        !.direct_use = {[id |-> "x1", at |-> at, sources |-> {M1}]},
        !.scaffolds = {[id |-> s, at |-> at, sources |-> {M1}, probes |-> {}] :
                          s \in scaffolds}]]
MCRegistrations ==
    {Package1, Package2({}, "here"), Package2({"s1"}, "here"), Package2({}, "there")}

NoSelect == [reference |-> {}, type |-> {}, owner |-> {}, cue |-> {}, tag |-> {}]
Query(id, select, limit) == [id |-> id, result |-> id, select |-> select, limit |-> limit]
MCQueries ==
    {Query("q1", [NoSelect EXCEPT !.cue = {"c1", "c2"}, !.type = {"evidence", "lemma_version"}], 1),
     Query("q1", [NoSelect EXCEPT !.owner = {"warrant", "retention"}, !.tag = {"t1"}], 2),
     Query("q2", [NoSelect EXCEPT !.reference = {Ref("evidence", E1)}, !.cue = {"c1"}], 2)}

Request(id, branch) ==
    [id |-> id, parent |-> "parent", child |-> id, branch |-> branch, pins |-> Pins,
     manifest |-> id,
     package |-> IF branch = "retained" THEN "p1" ELSE None,
     scaffold |-> IF branch = "retained" THEN "s1" ELSE None]
MCRequests ==
    {Request("b1", "baseline"), Request("b2", "baseline"), Request("r1", "retained"),
     Request("r2", "retained"),
     [Request("r1", "retained") EXCEPT !.child = "b1"]}
Link(r, manifest) ==
    [id |-> r, request |-> r, parent |-> "parent", child |-> r, manifest |-> manifest,
     prefix |-> 2]
MCLinks == {Link(r, r) : r \in {"b1", "b2", "r1", "r2"}} \cup {Link("b1", "other")}

(* The check of a measurement or of a comparison has that record for its   *)
(* proposition.                                                            *)
CheckOf(x) == <<"check", [x EXCEPT !.check = None]>>
Checked(x) == [x EXCEPT !.check = CheckOf(x)]
Observation(r, effects, n, d, competent, prefix) ==
    LET branch == IF r \in {"r1", "r2"} THEN "retained" ELSE "baseline" IN
    Checked([id |-> r, request |-> r, branch |-> branch, child |-> r, prefix |-> prefix,
             package |-> IF branch = "retained" THEN "p1" ELSE None, pins |-> Pins,
             costs |-> Costs(effects, n, d), probes |-> {}, effects |-> 1 .. effects,
             check |-> None, competent |-> competent,
             competenceCheck |-> IF competent THEN <<"competence">> ELSE None])
B1 == {Observation("b1", 1, 1, 2, TRUE, 2), Observation("b1", 2, 1, 3, TRUE, 3)}
B2 == {Observation("b2", 2, 1, 3, TRUE, 2), Observation("b2", 2, 1, 2, FALSE, 2)}
R1 == {Observation("r1", 1, 1, 3, TRUE, 2), Observation("r1", 1, 1, 2, TRUE, 2),
       Observation("r1", 2, 1, 4, TRUE, 2)}
R2 == {Observation("r2", 2, 1, 3, TRUE, 2), Observation("r2", 1, 1, 3, FALSE, 2)}
(* Measured again, measured before the link, found invalid, and with the   *)
(* check of another measurement.                                           *)
Again == Checked([Observation("b1", 1, 1, 2, TRUE, 2) EXCEPT !.id = "r2"])
Early == Observation("b1", 1, 1, 2, TRUE, 1)
Invalid == Observation("b2", 1, 1, 2, TRUE, 2)
Reused == [Invalid EXCEPT !.check = Observation("b1", 1, 1, 2, TRUE, 2).check]
Measurements == B1 \cup B2 \cup R1 \cup R2 \cup {Again, Early, Invalid}
MCObservations == Measurements \cup {Reused}

Comparison(baseline, retained) == Checked(Compared("cmp", Pins, baseline, retained, None))
Baselines == {Frontier(O) : O \in {{b} : b \in B1} \cup {{b, x} : b \in B1, x \in B2}}
Retained == {Frontier(O) : O \in {{r} : r \in R1} \cup {{r, y} : r \in R1, y \in R2}}
MCComparisons ==
    {Comparison(f, g) : f \in Baselines, g \in Retained}

Verdict(proposition, valid) ==
    [type |-> "checker_verdict",
     content |-> [proposition |-> proposition, at |-> "here", valid |-> valid]]
MCRecordOf(k) ==
    CASE k = E1 -> [type |-> "evidence", content |-> Content(k)]
      [] k = M1 -> [type |-> "lemma_version", content |-> Content(k)]
      [] k = <<"competence">> -> Verdict([competence |-> "skill"], TRUE)
      [] OTHER -> Verdict(k[2], k # Invalid.check)
MCRecorded ==
    {E1, <<"competence">>} \cup {x.check : x \in Measurements \cup MCComparisons}
MCRecordable == {M1}
=============================================================================
