CONSTANTS
    root = root
    necessity = necessity
    attack = attack
    generated = generated
    downstream = downstream
    unserved = unserved
    Obligations = {root, necessity, attack, generated, downstream, unserved}
    Initial = root
    Openable = {necessity, generated, unserved}
    Supported = {root, necessity, attack, generated, downstream}
    Renderable = {root, necessity, generated, downstream, unserved}
    Rank <- MCRank
    Parents <- MCParents
    Derives <- MCDerives
    Downstream <- MCDownstream
    Carrier <- MCCarrier
    Checked = {root}
    Answers = {a1, a2}
    Users = {u1}
    Budget = 40
    MaxAttempts = 2
    RunSteps = 2
    MaxCalls = 4
    MaxDispatches = 2
    None = None
SPECIFICATION Spec
INVARIANT
    StepsEndLawfully
CHECK_DEADLOCK FALSE
