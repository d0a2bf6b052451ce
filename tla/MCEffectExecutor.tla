--------------------------- MODULE MCEffectExecutor ---------------------------
(* Two executors on two attempts of one request; one payload decodes, the  *)
(* other does not.                                                         *)
EXTENDS EffectExecutor, TLC

CONSTANTS a1, a2, r1, good, bad

MCDecodeKindOf == [p \in Payloads |-> IF p = good THEN "decoded" ELSE "malformed"]
MCRequestOf == [a \in Attempts |-> r1]
MCSymmetry == Permutations(Executors) \cup Permutations(Attempts)
=============================================================================
