CONSTANTS
    Axes <- MCAxes
    ObservationOrder <- MCObservationOrder
    PackageOrder <- MCPackageOrder
    Policy = "structural-exact-v1"
    MaxResults = 100
    None = None
    Inquiry = "parent"
    Context = "here"
    Recorded <- MCRecorded
    Recordable <- MCRecordable
    RecordOf <- MCRecordOf
    QueryHorizon = 54
    Registrations <- MCRegistrations
    Queries <- MCQueries
    Requests <- MCRequests
    Links <- MCLinks
    Observations <- MCObservations
    Comparisons <- MCComparisons
SPECIFICATION Spec
INVARIANTS
    AdvantageIsReal
    DecideAgreesWithFold
PROPERTIES
    RetrievalIsExact
CHECK_DEADLOCK FALSE
