CONSTANTS
    k1 = k1
    k2 = k2
    k3 = k3
    v1 = v1
    v2 = v2
    s1 = s1
    s2 = s2
    Streams = {s1, s2}
    Clients = {c1, c2}
    Events <- MCEvents
    Batches <- MCBatches
    SharedKeys = {k2}
    InitialRows <- MCInitialRows
    MaxOps = 4
    MaxDamage = 1
SPECIFICATION Spec
SYMMETRY MCSymmetry
INVARIANTS
    RebuildIsCurrent
    IdentitiesAreUnique
    SnapshotsAreDerived
PROPERTIES
    StaleWritesNeverFork
CHECK_DEADLOCK FALSE
