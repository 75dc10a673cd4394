SPECIFICATION GroupFairSpec
CONSTANTS
    t1 = t1  t2 = t2  c1 = c1  c2 = c2
    g1 = g1  g2 = g2  g3 = g3  g4 = g4
    a1 = a1  b1 = b1  x1 = x1  x2 = x2  x3 = x3  a3 = a3  x4 = x4
    a = a  b = b  x = x  base = base  other = other  top = top  side = side
    idX = idX  idXA = idXA  idABX = idABX
    Threads = {t1, t2}
    Clients = {c1, c2}
    Locks = {a1, b1, x1, x2, x3, a3, x4}
    Resources = {a, b, x}
    Roots = {base, other}
    Paths = {top, side}
    Groups = {g1, g2, g3, g4}
    SessionIds = {idX, idXA, idABX}
    NoLock = NoLock
    NoThread = NoThread
    NoGroup = NoGroup
    RetryTimes = 0
    Lossy = FALSE
    ClientOf <- MCClientOf
    ZkOf <- MCZkOf
    ResOf <- MCResOf
    RootOf <- MCRootOf
    PathOf <- MCPathOf
    Items <- MCItems
    BasePaths <- MCBasePaths
    SessionIdOf <- MCSessionIdOf
INVARIANTS FirstGroupOwnsAll RefusedGroupHoldsNone
PROPERTIES GroupReturns
CHECK_DEADLOCK FALSE
