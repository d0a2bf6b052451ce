CONSTANTS
    a1 = a1
    a2 = a2
    r1 = r1
    good = good
    bad = bad
    StepPlans = {p1}
    Requests = {r1}
    Attempts = {a1, a2}
    Routes = {u1}
    Stamps = {t1}
    None = None
    Executors = {e1, e2}
    Payloads = {good}
    AdapterFailures = {"presentation_unknown"}
    DecodeKindOf <- MCDecodeKindOf
    RequestOf <- MCRequestOf
    MaxCalls = 2
SPECIFICATION FairSpec
PROPERTIES
    CallsEnd
CHECK_DEADLOCK FALSE
