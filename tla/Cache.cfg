SPECIFICATION Spec
CONSTANTS
    t1 = t1
    t2 = t2
    t3 = t3
    Threads = {t1, t2, t3}
    j1 = j1
    j2 = j2
    Jobs = {j1, j2}
    Closed = {t3}
    PoolSize = 2
    Connections = 2
    f1 = f1
    f2 = f2
    Fields = {f1, f2}
    pl1 = pl1
    Places = {pl1}
    a = a
    Ids = {a}
    v = v
    Values = {v}
    NoValue = NoValue
    EvictFields <- MCEvictFields
    JobList <- MCJobList
    MaxFaults = 2
    MaxCalls = 3
INVARIANTS
    CountsExact
    StaleOnlyByRace
PROPERTIES
    CacheCallsReturn
CHECK_DEADLOCK FALSE
