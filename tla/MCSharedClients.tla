--------------------------- MODULE MCSharedClients ---------------------------
\* Threads of two JVMs nesting blocks; the name of long ("user10") contains the
\* name of short ("user1").
EXTENDS SharedClients

CONSTANTS t1, t2, t3, c1, c2, l1, l2, l3, l4, short, long, base, top, other, side

MCClientOf == [t \in Threads |-> IF t = t3 THEN c2 ELSE c1]
MCZkOf == [l \in Locks |-> IF l = l4 THEN c2 ELSE c1]
MCResOf == [l \in Locks |-> IF l = l3 THEN long ELSE short]
MCAllShort == [l \in Locks |-> short]
MCRootOf == [l \in Locks |-> base]
MCTwoRoots == [l \in Locks |-> IF l = l1 THEN base ELSE other]
MCPathOf == [r \in Roots |-> IF r = base THEN <<top>> ELSE <<side>>]
MCContains == {<<short, short>>, <<long, long>>, <<long, short>>}
MCShortOnly == {<<short, short>>}
=============================================================================
