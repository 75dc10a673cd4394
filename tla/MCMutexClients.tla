--------------------------- MODULE MCMutexClients ---------------------------
\* Two threads of one JVM and a third one in another JVM, each nesting blocks on
\* two resources below a one-prefix base path.
EXTENDS MutexClients

CONSTANTS t1, t2, t3, c1, c2, l1, l2, l3, l4, r1, r2, base, top

MCClientOf == (t1 :> c1) @@ (t2 :> c1) @@ (t3 :> c2)
MCZkOf == (l1 :> c1) @@ (l2 :> c1) @@ (l3 :> c1) @@ (l4 :> c2)
MCResOf == (l1 :> r1) @@ (l2 :> r1) @@ (l3 :> r2) @@ (l4 :> r1)
MCRootOf == [r \in Resources |-> base]
MCPathOf == [r \in Roots |-> <<top>>]
=============================================================================
