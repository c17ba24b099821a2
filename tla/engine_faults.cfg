\* One process that may be killed, database and producer calls that fail.
SPECIFICATION Spec
CONSTANTS
    m1 = m1
    m2 = m2
    j1 = j1
    j2 = j2
    p1 = p1
    p2 = p2
    Msgs = {m1, m2}
    Jobs = {j1, j2}
    Instances = {p1}
    Home <- OneHome
    BusinessOf <- TbkMall
    NoHeaders = {}
    Rules <- FewRules
    AcquirerErrors <- SomeErrors
    TokenErrors <- SomeErrors
    AnswerStatuses = {"0"}
    PendingConfigured = TRUE
    BatchSize = 2
    MongoMayFail = TRUE
    CacheMayFail = FALSE
    ProducerMayFail = TRUE
    FlagLifetime = "long"
    MayCrash = TRUE
    TicksApart = TRUE
    LastArrival = 1
    MaxTime = 3
    PublishBound = 2
    UnitsPerMinute = 1
    MinutesPerDay = 5
    TimeSerie <- SerieOneTwo
    DefaultDelay = 1
    DefaultFailCodes = {"500", "3", "5"}
    TimeoutCodes = {"ETIMEDOUT"}
    CodesToThrowError = {}
INVARIANTS
    TypeOK
    OneReprocessing
    CallsCounted
    CounterExact
    CallsBounded
PROPERTIES
    NoResendAfterAccept
