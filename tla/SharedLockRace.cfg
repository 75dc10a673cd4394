SPECIFICATION Spec
CONSTANTS
    t1 = t1  t2 = t2
    c1 = c1
    l1 = l1  l2 = l2
    res = res  base = base  top = top
    Threads = {t1, t2}
    Clients = {c1}
    Locks = {l1}
    Resources = {res}
    Roots = {base}
    Paths = {top}
    RetryTimes = 0
    Lossy = FALSE
    ClientOf <- MCClientOf
    ZkOf <- MCZkOf
    ResOf <- MCResOf
    RootOf <- MCRootOf
    PathOf <- MCPathOf
    NameContains <- MCContains
INVARIANTS SharedExclusion
CHECK_DEADLOCK FALSE
