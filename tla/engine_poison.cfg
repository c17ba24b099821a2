\* A record without headers among others in a batch: the loop throws.
SPECIFICATION Spec
CONSTANTS
    m1 = m1
    m2 = m2
    j1 = j1
    j2 = j2
    p1 = p1
    p2 = p2
    Msgs = {m1, m2}
    Jobs = {j1, j2}
    Instances = {p1}
    Home <- OneHome
    BusinessOf <- TransbankAndSfc
    NoHeaders = {m2}
    Rules <- ThreeRetriesOnly
    AcquirerErrors <- TimeoutOnly
    TokenErrors = {}
    AnswerStatuses = {"0"}
    PendingConfigured = TRUE
    BatchSize = 2
    MongoMayFail = FALSE
    CacheMayFail = FALSE
    ProducerMayFail = FALSE
    FlagLifetime = "none"
    MayCrash = FALSE
    TicksApart = FALSE
    LastArrival = 0
    MaxTime = 2
    PublishBound = 1
    UnitsPerMinute = 1
    MinutesPerDay = 4
    TimeSerie <- SerieOneTwo
    DefaultDelay = 1
    DefaultFailCodes = {"500", "3", "5"}
    TimeoutCodes = {"ETIMEDOUT"}
    CodesToThrowError = {}
INVARIANTS
    RetriesBounded
PROPERTIES
    FirstAcceptIsFinal
