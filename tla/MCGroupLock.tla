---------------------------- MODULE MCGroupLock ----------------------------
\* Combinations of resources a and x below one base path and b below another.
\* Thread t1 has three (a, b and x; x; x again), t2, in another JVM, one of x and
\* a, so that the third inner lock of the first may be refused.
EXTENDS GroupLock

CONSTANTS t1, t2, c1, c2, g1, g2, g3, g4, a1, b1, x1, x2, x3, a3, x4, a, b, x,
          base, other, top, side, idX, idXA, idABX

MCClientOf == [t \in Threads |-> IF t = t1 THEN c1 ELSE c2]
MCZkOf == [l \in Locks |-> IF l \in {x3, a3} THEN c2 ELSE c1]
MCResOf ==
    [l \in Locks |-> CASE l \in {a1, a3} -> a [] l \in {x1, x2, x3, x4} -> x [] OTHER -> b]
MCRootOf == [r \in Resources |-> IF r = b THEN other ELSE base]
MCPathOf == [r \in Roots |-> IF r = base THEN <<top>> ELSE <<side>>]
MCItems ==
    [g \in Groups |-> CASE g = g1 -> <<a1, b1, x1>>
                        [] g = g2 -> <<x2>>
                        [] g = g3 -> <<x3, a3>>
                        [] g = g4 -> <<x4>>]
MCBasePaths ==
    [g \in Groups |-> [i \in DOMAIN MCItems[g] |-> MCRootOf[MCResOf[MCItems[g][i]]]]]
MCSessionIdOf == [g \in Groups |-> CASE g = g1 -> idABX [] g = g3 -> idXA [] OTHER -> idX]
=============================================================================
