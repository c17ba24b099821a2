\* No faults, two days, and a clock that waits for nobody.
SPECIFICATION FairSpec
CONSTANTS
    m1 = m1
    m2 = m2
    j1 = j1
    j2 = j2
    p1 = p1
    p2 = p2
    Msgs = {m1, m2}
    Jobs = {j1}
    Instances = {p1}
    Home <- OneHome
    BusinessOf <- BfAndRedeban
    NoHeaders = {}
    Rules <- SettleRules
    AcquirerErrors <- NotFoundErrors
    TokenErrors = {}
    AnswerStatuses = {"0", "3"}
    PendingConfigured = TRUE
    BatchSize = 1
    MongoMayFail = FALSE
    CacheMayFail = FALSE
    ProducerMayFail = FALSE
    FlagLifetime = "none"
    MayCrash = FALSE
    TicksApart = TRUE
    LastArrival = 1
    MaxTime = 7
    PublishBound = 2
    UnitsPerMinute = 2
    MinutesPerDay = 2
    TimeSerie <- SerieOneTwoOne
    DefaultDelay = 1
    DefaultFailCodes = {"500", "3", "5"}
    TimeoutCodes = {"ETIMEDOUT"}
    CodesToThrowError = {"3", "5"}
INVARIANTS
    OneVerdict
    AttemptsRecorded
PROPERTIES
    ImplementsOutcome
    EventuallySettled
    PlannedForItsDay
