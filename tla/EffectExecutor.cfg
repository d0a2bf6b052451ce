CONSTANTS
    a1 = a1
    a2 = a2
    r1 = r1
    good = good
    bad = bad
    StepPlans = {p1}
    Requests = {r1}
    Attempts = {a1, a2}
    Routes = {u1}
    Stamps = {t1}
    None = None
    Executors = {e1, e2}
    Payloads = {good, bad}
    DecodeKindOf <- MCDecodeKindOf
    RequestOf <- MCRequestOf
    AdapterFailures = {"presentation_unknown"}
    MaxCalls = 3
SPECIFICATION Spec
SYMMETRY MCSymmetry
INVARIANTS
    EventsHaveArtifacts
    PerformIsDue
    ReturnMeansSettled
    AcceptedIsGenuine
PROPERTIES
    LedgerIsLawful
CHECK_DEADLOCK FALSE
