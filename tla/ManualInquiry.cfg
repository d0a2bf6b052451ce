CONSTANTS
    root = root
    necessity = necessity
    attack = attack
    generated = generated
    downstream = downstream
    unserved = unserved
    Obligations = {root, necessity, attack, generated, downstream, unserved}
    Initial = root
    Openable = {necessity, generated, unserved}
    Supported = {root, necessity, attack, generated, downstream}
    Renderable = {root, necessity, generated, downstream, unserved}
    Rank <- MCRank
    Parents <- MCParents
    Derives <- MCDerives
    Downstream <- MCDownstream
    Carrier <- MCCarrier
    Checked = {root}
    Answers = {a1, a2}
    Users = {u1}
    Budget = 18
    MaxAttempts = 2
    RunSteps = 3
    MaxCalls = 4
    MaxDispatches = 4
    None = None
SPECIFICATION FairSpec
PROPERTIES
    CallsEnd
CHECK_DEADLOCK FALSE
