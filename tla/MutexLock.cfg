SPECIFICATION FairSpec
CONSTANTS
    t1 = t1  t2 = t2  t3 = t3
    c1 = c1  c2 = c2
    l1 = l1  l2 = l2  l3 = l3
    res = res  base = base  top = top  leaf = leaf
    Threads = {t1, t2, t3}
    Clients = {c1, c2}
    Locks = {l1, l2, l3}
    Resources = {res}
    Roots = {base}
    Paths = {top, leaf}
    NoLock = NoLock
    NoThread = NoThread
    RetryTimes = 2
    Lossy = TRUE
    ClientOf <- MCClientOf
    ZkOf <- MCZkOf
    ResOf <- MCResOf
    RootOf <- MCRootOf
    PathOf <- MCPathOf
INVARIANTS MutexTypeOK HolderOwnsNode BasePathReady RefusedAfterAllTries LockInv
PROPERTIES NodeLivesWithSession LockReturns
CHECK_DEADLOCK FALSE
