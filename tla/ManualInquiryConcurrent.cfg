CONSTANTS
    root = root
    necessity = necessity
    attack = attack
    generated = generated
    downstream = downstream
    unserved = unserved
    Obligations = {root, generated, downstream, unserved}
    Initial = root
    Openable = {generated, unserved}
    Supported = {root, generated, downstream}
    Renderable = {root, generated, downstream, unserved}
    Rank <- MCRank
    Parents <- MCParents
    Derives <- MCDerives
    Downstream <- MCDownstream
    Carrier <- MCCarrier
    Checked = {root}
    Answers = {a1, a2}
    Users = {u1, u2}
    Budget = 18
    MaxAttempts = 1
    RunSteps = 2
    MaxCalls = 3
    MaxDispatches = 3
    None = None
SPECIFICATION Spec
SYMMETRY MCSymmetry
INVARIANTS
    StalePlansAreBounded
    SatisfiedHasEvidence
    AcknowledgedAnswersStand
PROPERTIES
    QuestionsAreJustified
CHECK_DEADLOCK FALSE
