CONSTANTS
    IdOrder <- MCIdOrder
    Submitted <- MCSubmitted
    GoalName <- MCGoalName
    Unknown = Unknown
    None = None
    Classes = {"goal-derivation-required", "no-change", "anything else"}
    PredecessorGate = "gate0"
    ProposedGate = "gate1"
    SynthesisDiscriminator = "goal-synthesis-acceptance"
SPECIFICATION Spec
INVARIANTS
    MergedIsEarned
    AdmittedIsReviewed
    FrontierIsSound
    OpenQuestionKeepsItsDecision
    DecideAgreesWithFold
CHECK_DEADLOCK FALSE
