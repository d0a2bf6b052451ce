---------------------------- MODULE MCManualInquiry ----------------------------
(* root is what start() opens; necessity is a question a caller opens, whose *)
(* answer derives the attack; generated is a question below root, whose      *)
(* answer opens downstream; unserved is of a kind no contract serves.        *)
EXTENDS ManualInquiry, TLC

CONSTANTS root, necessity, attack, generated, downstream, unserved

MCRank ==
    [o \in Obligations |-> CASE o = attack -> 2 [] o = downstream -> 0 [] OTHER -> 1]
MCParents ==
    [o \in Obligations |-> CASE o = generated -> {root}
                             [] o = downstream -> {generated}
                             [] OTHER -> {}]
MCDerives == [o \in Obligations |-> IF o = necessity THEN <<attack>> ELSE << >>]
MCDownstream == [o \in Obligations |-> IF o = generated THEN <<downstream>> ELSE << >>]
(* unserved is about the same proposition as root. *)
MCCarrier == [o \in Obligations |-> IF o = unserved THEN root ELSE o]
MCSymmetry == Permutations(Users) \cup Permutations(Answers)
================================================================================
