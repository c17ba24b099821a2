\* Two processes, cache calls that fail, crashes: the flag is no lock here,
\* but it must not shut the job out.
SPECIFICATION CalmSpec
CONSTANTS
    j1 = j1
    j2 = j2
    j3 = j3
    j4 = j4
    j5 = j5
    p1 = p1
    p2 = p2
    Jobs = {j1, j2, j3}
    Instances = {p1, p2}
    Home <- TwoHomes
    CacheMayFail = TRUE
    FlagLifetime = "long"
    MayCrash = TRUE
    TicksApart = FALSE
PROPERTIES
    KeepsFetching
