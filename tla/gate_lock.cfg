\* One process, a cache that answers, a flag that outlives a batch, crashes.
SPECIFICATION CalmSpec
CONSTANTS
    j1 = j1
    j2 = j2
    j3 = j3
    j4 = j4
    j5 = j5
    p1 = p1
    p2 = p2
    Jobs = {j1, j2, j3, j4, j5}
    Instances = {p1}
    Home <- OneHome
    CacheMayFail = FALSE
    FlagLifetime = "long"
    MayCrash = TRUE
    TicksApart = TRUE
INVARIANTS
    OneBatchAtATime
    GateInv
PROPERTIES
    GateReopens
    KeepsFetching
