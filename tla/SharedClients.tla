---------------------------- MODULE SharedClients ----------------------------
(***************************************************************************)
(* ZookeeperSharedLock used the way its README shows: a block makes a lock *)
(* object, calls read() or write(), runs its body unless the call threw,   *)
(* and calls release() in any case.  Bodies nest such blocks.              *)
(***************************************************************************)
EXTENDS SharedLock, SequencesExt

VARIABLE frames     \* per thread, the lock objects of the blocks it is in

clientVars == <<vars, frames>>

ClientTypeOK ==
    /\ SharedTypeOK
    /\ frames \in [Threads -> Seq(Locks)]

ClientInit ==
    /\ Init
    /\ frames = [t \in Threads |-> << >>]

InUse(l) == \E t \in Threads : l \in ToSet(frames[t])

Body(t) ==
    /\ pc[t] = "idle"
    /\ frames[t] # << >> => \E h \in held : h.lock = Last(frames[t])

Enter(t, l) ==
    /\ Body(t)
    /\ ~InUse(l)
    /\ Write(t, l) \/ ReadEnter(t, l)
    /\ frames' = [frames EXCEPT ![t] = Append(@, l)]

\* The finally block; only then may the innermost call be over.
Leave(t) ==
    /\ frames[t] # << >>
    /\ Release(t, Last(frames[t]))
    /\ frames' = [frames EXCEPT ![t] = Front(@)]

Inside(t) ==
    /\ InCall(t)
    /\ UNCHANGED frames

EndOfSession(c) ==
    /\ SessionEnd(c)
    /\ UNCHANGED frames

ClientNext ==
    \/ \E t \in Threads : Inside(t) \/ Leave(t)
    \/ \E t \in Threads, l \in Locks : Enter(t, l)
    \/ \E c \in Clients : EndOfSession(c)

ClientSpec == ClientInit /\ [][ClientNext]_clientVars

\* A thread inside read() or write() keeps running.
ClientFairSpec == ClientSpec /\ \A t \in Threads : WF_clientVars(Inside(t))
-----------------------------------------------------------------------------
HoldsBase(t, r, ks) ==
    \E h \in held : h.thread = t /\ ResOf[h.lock] = r /\ h.kind \in ks /\ h.base

(***************************************************************************)
(* A write lock that was not got by reentry stands at the head of the      *)
(* queue of its resource while its session lives, ahead of every znode of  *)
(* another object, and a read lock has no writer of another object ahead.  *)
(***************************************************************************)
HolderAhead ==
    \A h \in held :
        LET q == children[RootOf[h.lock]]
            mine == {n \in q : n.lock = h.lock}
        IN  h.base /\ Alive(h.lock) =>
                /\ mine # {}
                /\ \A n \in q \ mine :
                      /\ <<ResOf[n.lock], ResOf[h.lock]>> \in NameContains
                      /\ h.kind = "write" \/ n.kind = "write"
                      => \E m \in mine : m.seq < n.seq

(***************************************************************************)
(* Reentry does not raise a reader to a writer: a write() that asked no    *)
(* znode of ZooKeeper is inside a write lock of the same thread that did,  *)
(* and a read() is inside a read or a write lock.                          *)
(***************************************************************************)
ReentrySound ==
    \A h \in held :
        ~h.base => HoldsBase(h.thread, ResOf[h.lock],
                             IF h.kind = "write" THEN {"write"} ELSE Kinds)

-----------------------------------------------------------------------------
InExecution(t) == pc[t] \notin {"idle", "enter"}

\* The call did not find an entry of its thread and asks ZooKeeper.
Asks(t) == InExecution(t) /\ ~isReentry[job[t].lock]

\* A thread's blocks are objects of its own handle, each entered once, and only
\* the innermost call may be running or have failed.
BlocksNest(t) ==
    /\ \A i \in DOMAIN frames[t] :
          LET l == frames[t][i]
          IN  /\ Reaches(t, l)
              /\ step[l] = IF i = Len(frames[t]) /\ pc[t] = "enter" THEN 1 ELSE 2
              /\ \A j \in 1 .. i - 1 : frames[t][j] # l
              /\ i < Len(frames[t]) => \E h \in held : h.lock = l
    /\ pc[t] # "idle" => /\ frames[t] # << >>
                         /\ job[t].lock = Last(frames[t])

\* Only a call before its loop is reentrant, and then its thread has an entry.
EntryFound(t) ==
    InExecution(t) /\ ~Asks(t) => pc[t] = "loop" /\ Reenters(t, job[t].lock, job[t].kind)

BlocksApart ==
    \A t, u \in Threads : t # u =>
        \A i \in DOMAIN frames[t], j \in DOMAIN frames[u] : frames[t][i] # frames[u][j]

\* What is held belongs to a block whose call came back; isReentry tells how.
HoldsInBlocks ==
    /\ \A h \in held :
          /\ \E i \in DOMAIN frames[h.thread] : frames[h.thread][i] = h.lock
          /\ pc[h.thread] # "idle" => job[h.thread].lock # h.lock
          /\ h.base <=> ~isReentry[h.lock]
    /\ \A g, h \in held : g.lock = h.lock => g = h

\* A reentrant hold has the hold it rests on in a block around its own.
ReentryInside ==
    \A h \in held : ~h.base =>
        LET f == frames[h.thread]
        IN  \E g \in held :
                /\ g.thread = h.thread /\ ResOf[g.lock] = ResOf[h.lock]
                /\ g.base
                /\ h.kind = "write" => g.kind = "write"
                /\ \A i, j \in DOMAIN f : f[i] = g.lock /\ f[j] = h.lock => i < j

\* An entry in the thread's session is there for a hold or for the running call.
EntriesEarned ==
    \A t \in Threads : \A e \in session[t] :
        \/ \E h \in held : h.thread = t /\ h.base /\ Entry(h.lock, h.kind) = e
        \/ Asks(t) /\ Entry(job[t].lock, job[t].kind) = e

\* The znodes below a base path have numbers of their own and belong to calls
\* that were made: a lock object's are all of the kind it was called for.
NodesNumbered ==
    \A r \in Roots :
        /\ \A n \in children[r] :
              /\ n.seq < nextSeq[r]
              /\ step[n.lock] # 1
              /\ \A h \in held : h.lock = n.lock => h.kind = n.kind
              /\ \A t \in Threads : pc[t] # "idle" /\ job[t].lock = n.lock => job[t].kind = n.kind
        /\ \A m, n \in children[r] : m.seq = n.seq => m = n

\* A call that reads the children of a live session finds its own znode.
NodeListed ==
    \A t \in Threads : pc[t] = "list" /\ Connected(t) => NodeOf(t) \in children[RootAt(t)]

(***************************************************************************)
(* Blocks, holds, session entries and znodes agree at every step of read() *)
(* and write(): together with HolderAhead an invariant of each step, from  *)
(* which the exclusion follows.                                            *)
(***************************************************************************)
SharedInv ==
    /\ \A t \in Threads : BlocksNest(t) /\ EntryFound(t)
    /\ BlocksApart
    /\ HoldsInBlocks
    /\ ReentryInside
    /\ EntriesEarned
    /\ NodesNumbered
    /\ NodeListed
    /\ HolderAhead

(***************************************************************************)
(* README of the module: "the same thread can get the same lock repeatedly *)
(* in different places".  A thread that has the lock is not turned down by *)
(* other threads' znodes when it reads once more.                          *)
(***************************************************************************)
ReadersReenter ==
    \A t \in Threads :
        pc[t] = "delete" /\ job[t].kind = "read" =>
            ~HoldsBase(t, ResOf[job[t].lock], Kinds)
=============================================================================
