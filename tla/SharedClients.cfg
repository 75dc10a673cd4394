SPECIFICATION ClientSpec
CONSTANTS
    t1 = t1  t2 = t2  t3 = t3
    c1 = c1  c2 = c2
    l1 = l1  l2 = l2  l3 = l3  l4 = l4
    short = short  long = long  base = base  top = top  other = other  side = side
    Threads = {t1, t2, t3}
    Clients = {c1, c2}
    Locks = {l1, l2, l3, l4}
    Resources = {short, long}
    Roots = {base}
    Paths = {top}
    RetryTimes = 0
    Lossy = FALSE
    ClientOf <- MCClientOf
    ZkOf <- MCZkOf
    ResOf <- MCResOf
    RootOf <- MCRootOf
    PathOf <- MCPathOf
    NameContains <- MCContains
INVARIANTS ClientTypeOK SharedExclusion HolderAhead ReentrySound
CHECK_DEADLOCK FALSE
