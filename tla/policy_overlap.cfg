\* Requests and lookups that overlap, calls that fail, crashes, entries that expire.
SPECIFICATION FairSpec
CONSTANTS
    r1 = r1
    r2 = r2
    pe = pe
    bf = bf
    sfc = sfc
    c1 = c1
    c2 = c2
    a1 = a1
    a2 = a2
    l1 = l1
    Ids = {r1, r2}
    NoId = NoId
    Countries = {pe}
    Country = pe
    Acquirers = {bf, sfc}
    Contents = {c1}
    Keep = Keep
    Creations <- SomeCreations
    Changes <- SomeChanges
    Absent = Absent
    NoRule = NoRule
    Admins = {a1, a2}
    Readers = {l1}
    MongoMayFail = TRUE
    CacheMayFail = TRUE
    MayCrash = TRUE
    EntriesExpire = TRUE
    MaxRequests = 3
INVARIANTS
    TypeOK
    CheckHolds
    CheckInv
    OnlyPastRules
PROPERTIES
    ImplementsRegister
    EventuallyCurrent
