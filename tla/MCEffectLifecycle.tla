-------------------------- MODULE MCEffectLifecycle --------------------------
(* Two requests, three attempts to share between them, returns and decodes *)
(* that can collide: enough for retries, late deliveries and mix-ups.      *)
EXTENDS EffectLifecycle, TLC

MCSymmetry ==
    Permutations(StepPlans) \cup Permutations(Requests)
        \cup Permutations(Attempts) \cup Permutations(Decodes)
        \cup Permutations(Returns)
=============================================================================
