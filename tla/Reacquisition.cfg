CONSTANTS
    Axes <- MCAxes
    ObservationOrder <- MCObservationOrder
    PackageOrder <- MCPackageOrder
    Policy = "structural-exact-v1"
    MaxResults = 100
    None = None
    RecordOf <- MCRecordOf
    Recorded <- MCRecorded
    Registration <- MCRegistration
    Context = "here"
    Parents = {"A", "B"}
    Children = {"c"}
    Clients = {"k1", "k2", "k3"}
    Task <- MCTask
    Process <- MCProcess
    Entry <- MCEntry
    Work = {"w"}
    Plain = Plain
    MaxChildEvents = 5
    MaxFaults = 1
SPECIFICATION FairSagaSpec
INVARIANTS
    LinkIsGenuine
    ChildHasOneParent
    ObservationIsOfFinishedPrefix
PROPERTIES
    SagaCompletes
CHECK_DEADLOCK FALSE
