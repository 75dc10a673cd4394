SPECIFICATION ClientSpec
CONSTANTS
    t1 = t1  t2 = t2  t3 = t3
    c1 = c1  c2 = c2
    l1 = l1  l2 = l2  l3 = l3  l4 = l4
    r1 = r1  r2 = r2  base = base  top = top
    Threads = {t1, t2, t3}
    Clients = {c1, c2}
    Locks = {l1, l2, l3, l4}
    Resources = {r1, r2}
    Roots = {base}
    Paths = {top}
    NoLock = NoLock
    NoThread = NoThread
    RetryTimes = 0
    Lossy = TRUE
    ClientOf <- MCClientOf
    ZkOf <- MCZkOf
    ResOf <- MCResOf
    RootOf <- MCRootOf
    PathOf <- MCPathOf
INVARIANTS ClientTypeOK MutualExclusion SessionMatchesFrames ReentryHonoured ReentrantUnderHolder ClientInv
PROPERTIES ImplementsPromise
CHECK_DEADLOCK FALSE
