\* tbk-mall: the token cannot be fetched, the error is one to retry.
SPECIFICATION Spec
CONSTANTS
    m1 = m1
    m2 = m2
    j1 = j1
    j2 = j2
    p1 = p1
    p2 = p2
    Msgs = {m1}
    Jobs = {j1}
    Instances = {p1}
    Home <- OneHome
    BusinessOf <- TbkMall
    NoHeaders = {}
    Rules <- FewRules
    AcquirerErrors <- TimeoutOnly
    TokenErrors <- TimeoutOnly
    AnswerStatuses = {"0"}
    PendingConfigured = TRUE
    BatchSize = 2
    MongoMayFail = FALSE
    CacheMayFail = FALSE
    ProducerMayFail = FALSE
    FlagLifetime = "long"
    MayCrash = FALSE
    TicksApart = TRUE
    LastArrival = 1
    MaxTime = 3
    PublishBound = 2
    UnitsPerMinute = 1
    MinutesPerDay = 4
    TimeSerie <- SerieOneTwo
    DefaultDelay = 1
    DefaultFailCodes = {"500", "3", "5"}
    TimeoutCodes = {"ETIMEDOUT"}
    CodesToThrowError = {}
INVARIANTS
    OneVerdict
