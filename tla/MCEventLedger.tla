---------------------------- MODULE MCEventLedger ----------------------------
(* Two clients on two streams.  k1 is recorded with two different contents,*)
(* k2 has a stream-independent event id, and one batch records it twice.   *)
EXTENDS EventLedger, TLC

CONSTANTS k1, k2, k3, v1, v2, s1, s2

E(k, v) == [key |-> k, content |-> v]
MCEvents == {E(k1, v1), E(k1, v2), E(k2, v1), E(k3, v1)}
MCBatches == {<<E(k1, v1), E(k2, v1)>>, <<E(k1, v2)>>,
              <<E(k2, v1), E(k2, v1)>>}
MCInitialRows == [s \in Streams |-> IF s = s1 THEN <<E(k3, v1)>> ELSE << >>]
MCSymmetry == Permutations(Clients)
=============================================================================
