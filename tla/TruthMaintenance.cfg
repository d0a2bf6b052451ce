CONSTANTS
    Evidence <- MCEvidence
    Verdicts <- MCVerdicts
    Evaluations <- MCEvaluations
    Nogoods <- MCNogoods
    Claims <- MCClaims
    Proposals <- MCProposals
    Routes <- MCRoutes
    Lemmas = {"A", "B"}
    Conditions = {"g"}
    Authorized = {"checker"}
    Current = {"x"}
    ClosedWorld = TRUE
    MaxChanges = 2
SPECIFICATION Spec
INVARIANTS
    ActiveIsWarranted
    LoopFindsActive
    TheoryIsUnique
    PromotionIsGrounded
    UnattackedIsDischarged
PROPERTIES
    InvalidationOnlyShrinks
    StandingChangesAreLocal
CHECK_DEADLOCK FALSE
