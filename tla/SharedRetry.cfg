SPECIFICATION ClientFairSpec
CONSTANTS
    t1 = t1  t2 = t2  t3 = t3
    c1 = c1  c2 = c2
    l1 = l1  l2 = l2  l3 = l3  l4 = l4
    short = short  long = long  base = base  top = top  other = other  side = side
    Threads = {t1, t3}
    Clients = {c1, c2}
    Locks = {l1, l4}
    Resources = {short}
    Roots = {base}
    Paths = {top}
    RetryTimes = 3
    Lossy = TRUE
    ClientOf <- MCClientOf
    ZkOf <- MCZkOf
    ResOf <- MCAllShort
    RootOf <- MCRootOf
    PathOf <- MCPathOf
    NameContains <- MCShortOnly
INVARIANTS SharedInv
PROPERTIES CallReturns
CHECK_DEADLOCK FALSE
