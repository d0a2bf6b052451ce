CONSTANTS
    p1 = p1
    p2 = p2
    r1 = r1
    r2 = r2
    a1 = a1
    a2 = a2
    d1 = d1
    x1 = x1
    o1 = o1
    o2 = o2
    c1 = c1
    l1 = l1
    StepPlans = {p1, p2}
    Requests = {r1, r2}
    Attempts = {a1, a2}
    Dispositions = {}
    Decodes = {d1}
    Returns = {x1}
    Routes = {u1}
    Stamps = {t1}
    None = None
    Selects <- MCSelects
    Scope = Scope
    Binding = Binding
    CarrierSchemas = {"carrier"}
    Claims = {c1}
    LemmaOf <- MCLemmaOf
    Submitted <- MCSubmitted
    PlanOf <- MCPlanOf
    Failures = {"cancelled"}
    Unread = {"malformed"}
    MaxEvents = 14
    MaxTheoryChanges = 1
SPECIFICATION Spec
INVARIANTS
    LifecycleIsValid
    MismatchIsForesight
CHECK_DEADLOCK FALSE
