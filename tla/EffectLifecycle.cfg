CONSTANTS
    StepPlans = {p1, p2}
    Requests = {r1, r2}
    Attempts = {a1, a2, a3}
    Dispositions = {n1}
    Decodes = {d1, d2}
    Returns = {x1, x2}
    Routes = {u1}
    Stamps = {t1}
    None = None
SPECIFICATION Spec
SYMMETRY MCSymmetry
INVARIANTS
    ValidatorsAccept
    AcceptanceProvenance
PROPERTIES
    ResolutionIsFinal
    KeepsPromise
CHECK_DEADLOCK FALSE
