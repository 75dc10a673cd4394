----------------------------- MODULE MCMutexLock -----------------------------
\* Two threads of one JVM and a third one in another JVM, on one resource whose
\* base path has two prefixes.
EXTENDS MutexLock, TLC

CONSTANTS t1, t2, t3, c1, c2, l1, l2, l3, res, base, top, leaf

MCClientOf == (t1 :> c1) @@ (t2 :> c1) @@ (t3 :> c2)
MCZkOf == (l1 :> c1) @@ (l2 :> c1) @@ (l3 :> c2)
MCResOf == [l \in Locks |-> res]
MCRootOf == [r \in Resources |-> base]
MCPathOf == [r \in Roots |-> <<top, leaf>>]
=============================================================================
