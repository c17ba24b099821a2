\* Two processes, a flag that expires under a batch, cache calls that fail, crashes.
SPECIFICATION Spec
CONSTANTS
    m1 = m1
    m2 = m2
    j1 = j1
    j2 = j2
    p1 = p1
    p2 = p2
    Msgs = {m1}
    Jobs = {j1, j2}
    Instances = {p1, p2}
    Home <- TwoHomes
    BusinessOf <- Transbank
    NoHeaders = {}
    Rules <- ThreeRetriesOnly
    AcquirerErrors <- TimeoutOnly
    TokenErrors = {}
    AnswerStatuses = {"0"}
    PendingConfigured = TRUE
    BatchSize = 2
    MongoMayFail = FALSE
    CacheMayFail = TRUE
    ProducerMayFail = FALSE
    FlagLifetime = "short"
    MayCrash = TRUE
    TicksApart = FALSE
    LastArrival = 0
    MaxTime = 2
    PublishBound = 1
    UnitsPerMinute = 1
    MinutesPerDay = 4
    TimeSerie <- SerieOneTwo
    DefaultDelay = 1
    DefaultFailCodes = {"500", "3", "5"}
    TimeoutCodes = {"ETIMEDOUT"}
    CodesToThrowError = {}
INVARIANTS
    RetriesBounded
PROPERTIES
    FirstAcceptIsFinal
