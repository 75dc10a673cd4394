---------------------------- MODULE MCSharedLock ----------------------------
\* Two threads of one JVM and two objects on one resource, which both may use.
EXTENDS SharedLock

CONSTANTS t1, t2, c1, l1, l2, res, base, top

MCClientOf == [t \in Threads |-> c1]
MCZkOf == [l \in Locks |-> c1]
MCResOf == [l \in Locks |-> res]
MCRootOf == [l \in Locks |-> base]
MCPathOf == [r \in Roots |-> <<top>>]
MCContains == {<<res, res>>}
=============================================================================
