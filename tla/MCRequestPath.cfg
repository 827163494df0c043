SPECIFICATION Spec
CONSTANTS
    r1 = r1
    r2 = r2
    NoConn = NoConn
    Req = {r1, r2}
    Workloads <- MCWorkloads
    FailureThreshold = 1
    HalfOpenSuccesses = 1
    OpenDuration = 1
    RequestsPerSecond = 1
    MaxClock = 1
    MaxExponent = 2
    MaxRequestBody = 1
    MaxResponse = 1
    BodyQueue = 1
    MaxIdlePerHost = 1
    MaxRequests = 2
    EventCapacity = 1
INVARIANTS
    ExclusiveH1
    NothingInvented
    StatusTellsTruth
    WithinBodyLimit
    PermitsConserved
    HistoryFaithful
PROPERTIES
    ReadyH2Kept
    EveryRequestEnds
CHECK_DEADLOCK FALSE
