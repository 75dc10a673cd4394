------------------------------ MODULE MutexLock ------------------------------
(***************************************************************************)
(* ZookeeperMutexLock: one resource, one ephemeral znode.                  *)
(*                                                                         *)
(* A lock object serves one lock() and one release() (its field step).     *)
(* lock() notes the resource in a set that belongs to the calling thread   *)
(* (the ThreadLocal session); if it was there already the lock is          *)
(* reentrant and nothing is asked of ZooKeeper but the base path.          *)
(* Otherwise lock() tries to create the znode, up to retryTimes times.     *)
(* release() takes the resource out of the thread's set.  It does not      *)
(* delete the znode: that happens when the ZooKeeper session ends.         *)
(*                                                                         *)
(* The callers are left free here: a thread may call lock() and release()  *)
(* on any object of its JVM, in any order.  MutexClients adds the calling  *)
(* pattern of the README.                                                  *)
(***************************************************************************)
EXTENDS ZKPathUtil

CONSTANTS
    Locks,      \* lock objects
    Resources,  \* full resource paths (ProviderConfig.getResId)
    ResOf,      \* the resource of a lock object
    RootOf,     \* the base path of a resource
    ZkOf,       \* the ZooKeeper handle of a lock object
    RetryTimes, \* ProviderConfig.retryTimes
    NoLock,
    NoThread

ASSUME LockAssumption ==
    /\ ResOf \in [Locks -> Resources]
    /\ RootOf \in [Resources -> Roots]
    /\ ZkOf \in [Locks -> Clients]
    /\ RetryTimes \in Nat
    /\ NoLock \notin Locks
    /\ NoThread \notin Threads

VARIABLES
    step,       \* 1: new, 2: lock() was called, 3: release() was called
    isReentry,
    tryCount,   \* currentTryCount
    session,    \* the thread-local set of resources
    pc,         \* where a thread is in lock()
    cur,        \* the object whose lock() a thread is in (it has its monitor)
    znode,      \* per resource, the lock object that created its znode
    outcome,    \* how lock() came back to the caller of an object
    caller      \* the thread that called lock()

lockVars == <<step, isReentry, tryCount, session, pc, cur, znode, outcome, caller>>
vars == <<expired, paths, mkpath, lockVars>>

MutexTypeOK ==
    /\ PathTypeOK
    /\ step \in [Locks -> 1 .. 3]
    /\ isReentry \in [Locks -> BOOLEAN]
    /\ tryCount \in [Locks -> Nat]
    /\ session \in [Threads -> SUBSET Resources]
    /\ pc \in [Threads -> {"idle", "init", "execute", "sleep"}]
    /\ cur \in [Threads -> Locks \cup {NoLock}]
    /\ znode \in [Resources -> Locks \cup {NoLock}]
    /\ outcome \in [Locks -> {"new", "locking", "held", "refused", "released"}]
    /\ caller \in [Locks -> Threads \cup {NoThread}]

Init ==
    /\ expired = {}
    /\ paths = {}
    /\ mkpath = [t \in Threads |-> NoCall]
    /\ step = [l \in Locks |-> 1]
    /\ isReentry = [l \in Locks |-> FALSE]
    /\ tryCount = [l \in Locks |-> 0]
    /\ session = [t \in Threads |-> {}]
    /\ pc = [t \in Threads |-> "idle"]
    /\ cur = [t \in Threads |-> NoLock]
    /\ znode = [r \in Resources |-> NoLock]
    /\ outcome = [l \in Locks |-> "new"]
    /\ caller = [l \in Locks |-> NoThread]
-----------------------------------------------------------------------------
\* Mutant: lock() and release() are not synchronized.
MonitorIgnored(l) == TRUE

\* lock() and release() are synchronized: t can enter when no thread is inside.
MonitorFree(l) == \A u \in Threads : cur[u] # l

\* The object is in the hands of the JVM of t.
Reaches(t, l) == ZkOf[l] = ClientOf[t]

LeaveLock(t, result) ==
    /\ pc' = [pc EXCEPT ![t] = "idle"]
    /\ cur' = [cur EXCEPT ![t] = NoLock]
    /\ outcome' = [outcome EXCEPT ![cur[t]] = result]

\* Mutant: the session is one set for the whole JVM, no ThreadLocal.
HasEntryInJvm(t, l) ==
    \E u \in Threads : ClientOf[u] = ClientOf[t] /\ ResOf[l] \in session[u]

\* session.get().contains(resId)
HasEntry(t, l) == ResOf[l] \in session[t]

\* Mutant: session.set(set) is forgotten.
AddEntryLost(t, l) == UNCHANGED session

\* Mutant: the set is keyed by lock objects.
AddEntryOfObject(t, l) == session' = [session EXCEPT ![t] = @ \cup {l}]

\* set.add(resId)
AddEntry(t, l) == session' = [session EXCEPT ![t] = @ \cup {ResOf[l]}]

\* Mutant: a reentrant lock removes the entry of the lock around it.
CloseLocalThreadAlways(t, l) ==
    session' = [session EXCEPT ![t] = @ \ {ResOf[l]}]

\* Mutant: the entry stays.
CloseLocalThreadNever(t, l) == UNCHANGED session

\* closeLocalThread(), called by thread t on object l
CloseLocalThread(t, l) ==
    session' = IF isReentry[l] THEN session
               ELSE [session EXCEPT ![t] = @ \ {ResOf[l]}]

(***************************************************************************)
(* lock() up to the base path: the step check, the test and update of the  *)
(* thread's session, and the call of createPersistentPath.  On an object   *)
(* whose step is not 1 lock() throws and nothing changes.                  *)
(***************************************************************************)
Lock(t, l) ==
    /\ pc[t] = "idle"
    /\ Reaches(t, l)
    /\ MonitorFree(l)
    /\ step[l] = 1
    /\ step' = [step EXCEPT ![l] = 2]
    /\ isReentry' = [isReentry EXCEPT ![l] = HasEntry(t, l)]
    /\ AddEntry(t, l)
    /\ CreatePersistentPath(t, RootOf[ResOf[l]])
    /\ pc' = [pc EXCEPT ![t] = "init"]
    /\ cur' = [cur EXCEPT ![t] = l]
    /\ outcome' = [outcome EXCEPT ![l] = "locking"]
    /\ caller' = [caller EXCEPT ![l] = t]
    /\ UNCHANGED <<expired, paths, tryCount, znode>>

\* createPersistentPath came back: a reentrant lock is done.
InitDone(t) ==
    /\ pc[t] = "init"
    /\ mkpath[t].st = "ok"
    /\ PathReturn(t)
    /\ IF isReentry[cur[t]]
       THEN LeaveLock(t, "held")
       ELSE /\ pc' = [pc EXCEPT ![t] = "execute"]
            /\ UNCHANGED <<cur, outcome>>
    /\ UNCHANGED <<expired, paths, step, isReentry, tryCount, session, znode, caller>>

(***************************************************************************)
(* createPersistentPath threw: init() is called outside the try block of   *)
(* lock(), so the exception leaves lock() and closeLocalThread() is not    *)
(* run: the resource stays in the thread's session.                        *)
(***************************************************************************)
InitThrows(t) ==
    /\ pc[t] = "init"
    /\ mkpath[t].st = "error"
    /\ PathReturn(t)
    /\ LeaveLock(t, "refused")
    /\ UNCHANGED <<expired, paths, step, isReentry, tryCount, session, znode, caller>>

\* The answers of zk.create(resId, EPHEMERAL) when it throws: the znode
\* exists, or the request failed before or after the server applied it.
CreateThrows(t) ==
    LET r == ResOf[cur[t]]
    IN  \/ /\ Connected(t)
           /\ znode[r] # NoLock
           /\ UNCHANGED znode
        \/ /\ MayFail(t)
           /\ UNCHANGED znode
        \/ /\ Lossy
           /\ Connected(t)
           /\ znode[r] = NoLock
           /\ znode' = [znode EXCEPT ![r] = cur[t]]

\* Mutant: currentTryCount++ is forgotten.
CountTryNot(t) == UNCHANGED tryCount

CountTry(t) == tryCount' = [tryCount EXCEPT ![cur[t]] = @ + 1]

\* Mutant: one try more than retryTimes.
TriesUsedUpLate(t) == tryCount[cur[t]] + 1 > RetryTimes

\* currentTryCount >= config.getRetryTimes(), after currentTryCount++
TriesUsedUp(t) == tryCount[cur[t]] + 1 >= RetryTimes

\* Mutant: a znode that is there already is no obstacle.
ExecuteOverwrites(t) ==
    /\ pc[t] = "execute"
    /\ Connected(t)
    /\ znode' = [znode EXCEPT ![ResOf[cur[t]]] = cur[t]]
    /\ CountTry(t)
    /\ LeaveLock(t, "held")
    /\ UNCHANGED <<expired, paths, mkpath, step, isReentry, session, caller>>

\* execute() created the znode: the lock is acquired.
ExecuteOk(t) ==
    LET r == ResOf[cur[t]]
    IN  /\ pc[t] = "execute"
        /\ Connected(t)
        /\ znode[r] = NoLock
        /\ znode' = [znode EXCEPT ![r] = cur[t]]
        /\ CountTry(t)
        /\ LeaveLock(t, "held")
        /\ UNCHANGED <<expired, paths, mkpath, step, isReentry, session, caller>>

\* execute() threw and the tries are used up.
ExecuteRefused(t) ==
    /\ pc[t] = "execute"
    /\ TriesUsedUp(t)
    /\ CreateThrows(t)
    /\ CountTry(t)
    /\ CloseLocalThread(t, cur[t])
    /\ LeaveLock(t, "refused")
    /\ UNCHANGED <<expired, paths, mkpath, step, isReentry, caller>>

\* execute() threw and another try is left: sleep for retryTimeout.
ExecuteRetry(t) ==
    /\ pc[t] = "execute"
    /\ ~TriesUsedUp(t)
    /\ CreateThrows(t)
    /\ CountTry(t)
    /\ pc' = [pc EXCEPT ![t] = "sleep"]
    /\ UNCHANGED <<expired, paths, mkpath, step, isReentry, session, cur, outcome, caller>>

WakeUp(t) ==
    /\ pc[t] = "sleep"
    /\ pc' = [pc EXCEPT ![t] = "execute"]
    /\ UNCHANGED <<expired, paths, mkpath, step, isReentry, tryCount, session, cur,
                   znode, outcome, caller>>

\* Mutant: release() does not look at step.
ReleaseAnyStep(t, l) ==
    /\ pc[t] = "idle"
    /\ Reaches(t, l)
    /\ MonitorFree(l)
    /\ step' = [step EXCEPT ![l] = @ + 1]
    /\ CloseLocalThread(t, l)
    /\ outcome' = [outcome EXCEPT ![l] = "released"]
    /\ UNCHANGED <<expired, paths, mkpath, isReentry, tryCount, pc, cur, znode, caller>>

\* Mutant: release() deletes the path, whoever made the znode.
ReleaseDeletes(t, l) ==
    /\ pc[t] = "idle"
    /\ Reaches(t, l)
    /\ MonitorFree(l)
    /\ step[l] = 2
    /\ step' = [step EXCEPT ![l] = 3]
    /\ CloseLocalThread(t, l)
    /\ outcome' = [outcome EXCEPT ![l] = "released"]
    /\ znode' = [znode EXCEPT ![ResOf[l]] = NoLock]
    /\ UNCHANGED <<expired, paths, mkpath, isReentry, tryCount, pc, cur, caller>>

(***************************************************************************)
(* release(), on an object whose lock() was called, came it back or threw. *)
(* On any other object release() throws and nothing changes.               *)
(***************************************************************************)
Release(t, l) ==
    /\ pc[t] = "idle"
    /\ Reaches(t, l)
    /\ MonitorFree(l)
    /\ step[l] = 2
    /\ step' = [step EXCEPT ![l] = 3]
    /\ CloseLocalThread(t, l)
    /\ outcome' = [outcome EXCEPT ![l] = "released"]
    /\ UNCHANGED <<expired, paths, mkpath, isReentry, tryCount, pc, cur, znode, caller>>

\* A step of createPersistentPath inside lock().
InitPath(t) ==
    /\ PathStep(t)
    /\ UNCHANGED <<expired, lockVars>>

(***************************************************************************)
(* The ZooKeeper session of a handle ends: the handle is closed, its JVM   *)
(* dies or its heartbeats stay away too long.  Its ephemeral znodes go.    *)
(***************************************************************************)
SessionEnd(c) ==
    /\ c \notin expired
    /\ expired' = expired \cup {c}
    /\ znode' = [r \in Resources |->
                    IF znode[r] # NoLock /\ ZkOf[znode[r]] = c THEN NoLock ELSE znode[r]]
    /\ UNCHANGED <<paths, mkpath, step, isReentry, tryCount, session, pc, cur,
                   outcome, caller>>

InLock(t) ==
    \/ InitPath(t)
    \/ InitDone(t)
    \/ InitThrows(t)
    \/ ExecuteOk(t)
    \/ ExecuteRefused(t)
    \/ ExecuteRetry(t)
    \/ WakeUp(t)

Next ==
    \/ \E t \in Threads : InLock(t)
    \/ \E t \in Threads, l \in Locks : Lock(t, l) \/ Release(t, l)
    \/ \E c \in Clients : SessionEnd(c)

Spec == Init /\ [][Next]_vars

\* A thread inside lock() keeps running: every request is answered or fails,
\* and every sleep ends.
Fairness == \A t \in Threads : WF_vars(InLock(t))

FairSpec == Spec /\ Fairness
-----------------------------------------------------------------------------
\* The threads that have come out of lock() on l normally and not released it.
Held(l) == outcome[l] = "held"

\* The session that keeps the znode of l is alive.
Alive(l) == ZkOf[l] \notin expired

(***************************************************************************)
(* A lock that came back from lock() having really asked ZooKeeper, owns   *)
(* the znode of its resource for as long as its session lives: whatever    *)
(* the other threads, their retries, their releases and the failures of    *)
(* requests do.  (lock(), execute() and the absence of a delete)           *)
(***************************************************************************)
HolderOwnsNode ==
    \A l \in Locks :
        Held(l) /\ ~isReentry[l] /\ Alive(l) => znode[ResOf[l]] = l

\* Where a thread is in lock(), and what the fields of the object say of it.
CallsMatchObjects ==
    /\ \A t \in Threads :
          /\ pc[t] = "idle" <=> cur[t] = NoLock
          /\ pc[t] = "init" <=> mkpath[t].st # "none"
          /\ pc[t] = "init" => mkpath[t].root = RootOf[ResOf[cur[t]]]
          /\ pc[t] # "idle" =>
                /\ Reaches(t, cur[t])
                /\ caller[cur[t]] = t
                /\ outcome[cur[t]] = "locking"
          /\ pc[t] \in {"execute", "sleep"} => ~isReentry[cur[t]]
    /\ \A l \in Locks :
          /\ step[l] = 1 <=> outcome[l] = "new"
          /\ step[l] = 3 <=> outcome[l] = "released"

\* Whose znode it is: of a lock that was called by a thread of its JVM, in a
\* session that lives.
NodesMatchObjects ==
    \A r \in Resources :
        znode[r] # NoLock =>
            /\ ResOf[znode[r]] = r
            /\ Alive(znode[r])
            /\ step[znode[r]] # 1
            /\ caller[znode[r]] \in Threads
            /\ Reaches(caller[znode[r]], znode[r])

\* No try is made before init() came back, none after retryTimes of them.
TriesCounted ==
    /\ \A l \in Locks : outcome[l] = "new" => tryCount[l] = 0
    /\ \A t \in Threads :
          /\ pc[t] = "init" => tryCount[cur[t]] = 0
          /\ pc[t] \in {"execute", "sleep"} =>
                tryCount[cur[t]] = 0 \/ tryCount[cur[t]] < RetryTimes

(***************************************************************************)
(* The object a thread is inside of is in its hands alone: its fields, the *)
(* thread's place in lock() and createPersistentPath(), the prefixes made  *)
(* so far, the tries and the znodes all tell one story.  (lock() and       *)
(* release() are synchronized and look at step.)                           *)
(***************************************************************************)
LockInv == PrefixesMade /\ CallsMatchObjects /\ NodesMatchObjects /\ TriesCounted

(***************************************************************************)
(* The base path exists before execute() asks for a child of it: the loop  *)
(* over the prefixes misses none, and what exists() answered still holds.  *)
(***************************************************************************)
BasePathReady ==
    \A t \in Threads :
        pc[t] \in {"execute", "sleep"} => PathReady(RootOf[ResOf[cur[t]]])

(***************************************************************************)
(* lock() gives up either before its first try, because init() threw, or   *)
(* after exactly retryTimes tries (one when retryTimes is 0).              *)
(***************************************************************************)
RefusedAfterAllTries ==
    \A l \in Locks :
        outcome[l] = "refused" =>
            tryCount[l] \in {0, IF RetryTimes = 0 THEN 1 ELSE RetryTimes}

(***************************************************************************)
(* A znode never passes from one lock to another and only disappears when  *)
(* the session of its creator ends: neither a failed try, nor the release  *)
(* of this or another lock, takes it away.                                 *)
(***************************************************************************)
NodeLivesWithSession ==
    [][\A r \in Resources :
          znode[r] # NoLock /\ znode'[r] # znode[r] =>
             znode'[r] = NoLock /\ ZkOf[znode[r]] \in expired' \ expired]_vars

(***************************************************************************)
(* Every call of lock() comes back: the prefixes, the tries and the sleeps *)
(* are bounded and no thread waits for another inside lock().              *)
(***************************************************************************)
LockReturns == \A t \in Threads : pc[t] # "idle" ~> pc[t] = "idle"

(***************************************************************************)
(* README of the module: "when one thread has got the lock, another thread *)
(* cannot get it".  Two locks on one resource that are both held, with     *)
(* their sessions alive, were locked by the same thread.                   *)
(***************************************************************************)
MutualExclusion ==
    \A l, m \in Locks :
        /\ Held(l) /\ Alive(l)
        /\ Held(m) /\ Alive(m)
        /\ ResOf[l] = ResOf[m]
        => caller[l] = caller[m]
=============================================================================
