\* One request at a time, no faults: a lookup before the first rule is created.
SPECIFICATION Spec
CONSTANTS
    r1 = r1
    r2 = r2
    pe = pe
    bf = bf
    sfc = sfc
    c1 = c1
    c2 = c2
    a1 = a1
    a2 = a2
    l1 = l1
    Ids = {r1, r2}
    NoId = NoId
    Countries = {pe}
    Country = pe
    Acquirers = {bf, sfc}
    Contents = {c1}
    Keep = Keep
    Creations <- EnabledRules
    Changes <- Switches
    Absent = Absent
    NoRule = NoRule
    Admins = {a1}
    Readers = {l1}
    MongoMayFail = FALSE
    CacheMayFail = FALSE
    MayCrash = FALSE
    EntriesExpire = FALSE
    MaxRequests = 3
INVARIANTS
    OneActiveRule
