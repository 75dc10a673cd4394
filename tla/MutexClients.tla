---------------------------- MODULE MutexClients ----------------------------
(***************************************************************************)
(* ZookeeperMutexLock used the way its README and its test show:           *)
(*                                                                         *)
(*     try { lock = new ...; lock.lock(); /* body */ }                     *)
(*     catch (LockException e) { }                                         *)
(*     finally { lock.release(); }                                         *)
(*                                                                         *)
(* The body may hold another such block, on the same resource (reentry) or *)
(* not.  Each thread has a stack of the blocks it is in, innermost last;   *)
(* an object belongs to the block that made it.  release() is called       *)
(* whether or not lock() threw.                                            *)
(***************************************************************************)
EXTENDS MutexLock, SequencesExt

VARIABLE frames     \* per thread, the lock objects of the blocks it is in

clientVars == <<vars, frames>>

ClientTypeOK ==
    /\ MutexTypeOK
    /\ frames \in [Threads -> Seq(Locks)]

ClientInit ==
    /\ Init
    /\ frames = [t \in Threads |-> << >>]

\* The thread runs the body of its innermost block, or is outside all blocks.
InBody(t) ==
    /\ pc[t] = "idle"
    /\ frames[t] # << >> => Held(Last(frames[t]))

Enter(t, l) ==
    /\ InBody(t)
    /\ Lock(t, l)
    /\ frames' = [frames EXCEPT ![t] = Append(@, l)]

\* The finally block, after the body or after lock() threw.
Leave(t) ==
    /\ frames[t] # << >>
    /\ Release(t, Last(frames[t]))
    /\ frames' = [frames EXCEPT ![t] = Front(@)]

Inside(t) ==
    /\ InLock(t)
    /\ UNCHANGED frames

EndOfSession(c) ==
    /\ SessionEnd(c)
    /\ UNCHANGED frames

ClientNext ==
    \/ \E t \in Threads : Inside(t) \/ Leave(t)
    \/ \E t \in Threads, l \in Locks : Enter(t, l)
    \/ \E c \in Clients : EndOfSession(c)

ClientSpec == ClientInit /\ [][ClientNext]_clientVars
-----------------------------------------------------------------------------
FrameSet(t) == ToSet(frames[t])

(***************************************************************************)
(* The thread-local session says exactly which resources the thread is     *)
(* locking, has locked or failed to lock in init(), in blocks it has not   *)
(* left: nothing is forgotten while a lock is held, nothing stays behind   *)
(* when the outermost block is left.  (init, closeLocalThread)             *)
(***************************************************************************)
SessionMatchesFrames ==
    \A t \in Threads, r \in Resources :
        r \in session[t] <=>
            \E l \in FrameSet(t) :
                /\ ResOf[l] = r
                /\ ~isReentry[l]
                /\ outcome[l] = "refused" => tryCount[l] = 0

\* The objects of the blocks a thread is in: each in one block, all but the
\* innermost held, and on a resource exactly the outermost one not reentrant.
BlocksNest(t) ==
    \A i \in DOMAIN frames[t] :
        /\ Reaches(t, frames[t][i])
        /\ caller[frames[t][i]] = t
        /\ step[frames[t][i]] = 2
        /\ i < Len(frames[t]) => Held(frames[t][i])
        /\ \A j \in 1 .. i - 1 : frames[t][j] # frames[t][i]
        /\ isReentry[frames[t][i]] =>
              \E j \in 1 .. i - 1 : /\ ResOf[frames[t][j]] = ResOf[frames[t][i]]
                                   /\ ~isReentry[frames[t][j]]
        /\ ~isReentry[frames[t][i]] =>
              \A j \in 1 .. i - 1 : ResOf[frames[t][j]] # ResOf[frames[t][i]]

\* Every object between its lock() and its release() is in a block of its
\* caller, the one that is in lock() in the innermost block.
BlocksComplete ==
    /\ \A t \in Threads : cur[t] # NoLock => frames[t] # << >> /\ cur[t] = Last(frames[t])
    /\ \A l \in Locks : step[l] = 2 => caller[l] \in Threads /\ l \in FrameSet(caller[l])

(***************************************************************************)
(* The blocks of a thread, its thread-local session and the reentry flags  *)
(* of the objects agree at every step of lock() and release().             *)
(***************************************************************************)
ClientInv == (\A t \in Threads : BlocksNest(t)) /\ BlocksComplete /\ SessionMatchesFrames

(***************************************************************************)
(* Reentry: a thread that holds a lock is never refused another one on the *)
(* same resource by ZooKeeper, because it does not ask for it.             *)
(***************************************************************************)
ReentryHonoured ==
    \A t \in Threads :
        cur[t] # NoLock /\ (\E l \in FrameSet(t) : Held(l) /\ ResOf[l] = ResOf[cur[t]])
            => isReentry[cur[t]]

(***************************************************************************)
(* A reentrant lock is never held on its own: the lock that has the znode  *)
(* is held too, further out in the same thread.                            *)
(***************************************************************************)
ReentrantUnderHolder ==
    \A t \in Threads, l \in Locks :
        Held(l) /\ isReentry[l] /\ caller[l] = t =>
            \E m \in FrameSet(t) :
                /\ Held(m) /\ ~isReentry[m] /\ ResOf[m] = ResOf[l]
                /\ Alive(m) => znode[ResOf[m]] = m

(***************************************************************************)
(* README of the module: "at last the lock is released, lock.release()".   *)
(* Once every thread has left all its blocks no resource is locked.        *)
(***************************************************************************)
ReleasedWhenUnused ==
    (\A t \in Threads : frames[t] = << >>) =>
        \A r \in Resources : znode[r] = NoLock
-----------------------------------------------------------------------------
(***************************************************************************)
(* What the lock promises its users, in the terms of EphemeralMutex: a     *)
(* resource belongs to the thread whose lock created its znode, and the    *)
(* locks held on it are those that came back normally in a live session.   *)
(***************************************************************************)
Promise ==
    INSTANCE EphemeralMutex WITH
        ended  <- expired,
        owner  <- [r \in Resources |->
                      IF znode[r] = NoLock THEN NoThread ELSE caller[znode[r]]],
        inside <- [r \in Resources |->
                      {l \in Locks : ResOf[l] = r /\ Held(l) /\ Alive(l)}]

ImplementsPromise == Promise!Spec
=============================================================================
