--------------------------- MODULE EphemeralMutex ---------------------------
(***************************************************************************)
(* What ZookeeperMutexLock promises, without threads' sessions, lock()'s   *)
(* steps or ZooKeeper: each resource has at most one owner, a thread; only *)
(* the owner adds locks to the set held on the resource; the owner keeps   *)
(* the resource after leaving the last of them; and ownership ends with    *)
(* the owner's ZooKeeper session, never otherwise.                         *)
(***************************************************************************)
CONSTANTS Threads, Clients, ClientOf, Resources, Locks, NoThread

VARIABLES
    ended,      \* the ZooKeeper sessions that have ended
    owner,      \* the thread a resource belongs to
    inside      \* the locks held on a resource

Init ==
    /\ ended = {}
    /\ owner = [r \in Resources |-> NoThread]
    /\ inside = [r \in Resources |-> {}]

Take(t, r, held) ==
    /\ ClientOf[t] \notin ended
    /\ owner[r] = NoThread
    /\ owner' = [owner EXCEPT ![r] = t]
    /\ inside' = [inside EXCEPT ![r] = held]
    /\ UNCHANGED ended

Acquire(t, r, l) == Take(t, r, {l})

\* The request of t succeeded but its answer was lost: t owns the resource and
\* does not know it.
AcquireUnnoticed(t, r) == Take(t, r, {})

Reenter(t, r, l) ==
    /\ owner[r] = t
    /\ inside[r] # {}
    /\ l \notin inside[r]
    /\ inside' = [inside EXCEPT ![r] = @ \cup {l}]
    /\ UNCHANGED <<ended, owner>>

Exit(r, l) ==
    /\ l \in inside[r]
    /\ inside' = [inside EXCEPT ![r] = @ \ {l}]
    /\ UNCHANGED <<ended, owner>>

EndSession(c) ==
    /\ c \notin ended
    /\ ended' = ended \cup {c}
    /\ LET gone == {r \in Resources : owner[r] # NoThread /\ ClientOf[owner[r]] = c}
       IN  /\ owner' = [r \in Resources |-> IF r \in gone THEN NoThread ELSE owner[r]]
           /\ inside' = [r \in Resources |-> IF r \in gone THEN {} ELSE inside[r]]

Next ==
    \/ \E t \in Threads, r \in Resources, l \in Locks :
          Acquire(t, r, l) \/ Reenter(t, r, l) \/ Exit(r, l)
    \/ \E t \in Threads, r \in Resources : AcquireUnnoticed(t, r)
    \/ \E c \in Clients : EndSession(c)

Spec == Init /\ [][Next]_<<ended, owner, inside>>
=============================================================================
