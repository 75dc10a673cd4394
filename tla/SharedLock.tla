----------------------------- MODULE SharedLock -----------------------------
(***************************************************************************)
(* ZookeeperSharedLock: readers and writers queue up as ephemeral          *)
(* sequential znodes below the base path.  A call creates its znode, reads *)
(* the children and has the lock unless an earlier znode of another lock   *)
(* object stands in its way: any for write(), a writer's for read().  A    *)
(* call that lost deletes its znode.  Like the mutex, release() leaves the *)
(* znode to the end of the ZooKeeper session.                              *)
(*                                                                         *)
(* write() and release() hold the object's monitor; read() does not, so    *)
(* its test of step, init() and the test of isReentry are three steps here *)
(* and calls on one object may come between them.                          *)
(***************************************************************************)
EXTENDS ZKPathUtil

CONSTANTS
    Locks,      \* lock objects, each with a zookeeperID of its own
    Resources,  \* ProviderConfig.getSubResId
    ResOf,      \* the resource of a lock object
    RootOf,     \* the base path of a lock object
    ZkOf,       \* the ZooKeeper handle of a lock object
    NameContains, \* <<r, s>>: the name of a znode for r contains the text s
    RetryTimes

ASSUME LockAssumption ==
    /\ Locks # {}
    /\ ResOf \in [Locks -> Resources]
    /\ RootOf \in [Locks -> Roots]
    /\ ZkOf \in [Locks -> Clients]
    /\ NameContains \subseteq Resources \X Resources
    /\ \A r \in Resources : <<r, r>> \in NameContains
    /\ RetryTimes \in Nat

VARIABLES
    step, isReentry, tryCount,  \* the fields of a lock object
    session,    \* per thread, the set of <<resource, kind>> (_r and _w entries)
    pc,         \* where a thread is in read() or write()
    job,        \* the call it is in
    children,   \* per base path, the sequential znodes below it
    nextSeq,    \* per base path, the sequence number ZooKeeper gives out next
    held        \* the calls that came back normally and are not released

queueVars == <<children, nextSeq>>
sharedVars == <<step, isReentry, tryCount, session, pc, job, queueVars, held>>
vars == <<expired, paths, mkpath, sharedVars>>

Kinds == {"read", "write"}

\* A call of read() or write(); seq is the number at the end of its actualPath.
Calls == [lock : Locks, kind : Kinds, seq : Nat]

\* The name of a znode: zookeeperID, "write" or "read", sequence number.
Nodes == [lock : Locks, kind : Kinds, seq : Nat]
Holds == [thread : Threads, lock : Locks, kind : Kinds, base : BOOLEAN]

SharedTypeOK ==
    /\ PathTypeOK
    /\ step \in [Locks -> 1 .. 3]
    /\ isReentry \in [Locks -> BOOLEAN]
    /\ tryCount \in [Locks -> Nat]
    /\ session \in [Threads -> SUBSET (Resources \X Kinds)]
    /\ pc \in [Threads -> {"idle", "enter", "loop", "path", "create", "list", "delete"}]
    /\ job \in [Threads -> Calls]
    /\ children \in [Roots -> SUBSET Nodes]
    /\ nextSeq \in [Roots -> Nat]
    /\ held \subseteq Holds

NoJob == [lock |-> CHOOSE l \in Locks : TRUE, kind |-> "read", seq |-> 0]

Init ==
    /\ expired = {}
    /\ paths = {}
    /\ mkpath = [t \in Threads |-> NoCall]
    /\ step = [l \in Locks |-> 1]
    /\ isReentry = [l \in Locks |-> FALSE]
    /\ tryCount = [l \in Locks |-> 0]
    /\ session = [t \in Threads |-> {}]
    /\ pc = [t \in Threads |-> "idle"]
    /\ job = [t \in Threads |-> NoJob]
    /\ children = [r \in Roots |-> {}]
    /\ nextSeq = [r \in Roots |-> 1]
    /\ held = {}
-----------------------------------------------------------------------------
Reaches(t, l) == ZkOf[l] = ClientOf[t]

MonitorFree(l) ==
    \A u \in Threads : pc[u] # "idle" => job[u].lock # l \/ job[u].kind # "write"

\* Mutant: no suffix tells the entries of readers and writers apart.
EntryWithoutSuffix(l, k) == ResOf[l]

\* resId + READ_LOCK_SUFFIX or resId + WRITE_LOCK_SUFFIX
Entry(l, k) == <<ResOf[l], k>>

Entered(t, l, k) == Entry(l, k) \in session[t]

\* Mutant: write() is reentrant for a reader too.
ReentersUpgrading(t, l, k) == \E e \in Kinds : Entered(t, l, e)

\* A writer may write and read again, a reader may read again.
Reenters(t, l, k) ==
    Entered(t, l, "write") \/ (k = "read" /\ Entered(t, l, "read"))

\* closeLocalThread() removes both entries, whichever this object made.
CloseLocalThread(t, l) ==
    session' = IF isReentry[l] THEN session
               ELSE [session EXCEPT ![t] = @ \ {Entry(l, k) : k \in Kinds}]

Idle(t) ==
    /\ pc' = [pc EXCEPT ![t] = "idle"]
    /\ job' = [job EXCEPT ![t] = NoJob]

Obtain(t, l, k, base) ==
    held' = held \cup {[thread |-> t, lock |-> l, kind |-> k, base |-> base]}

\* Mutant: currentTryCount++ is forgotten.
BeginTryUncounted(t, l) ==
    /\ CreatePersistentPath(t, RootOf[l])
    /\ pc' = [pc EXCEPT ![t] = "path"]
    /\ UNCHANGED tryCount

\* The head of the loop body: currentTryCount++ and createPersistentPath(root).
BeginTry(t, l) ==
    /\ tryCount' = [tryCount EXCEPT ![l] = @ + 1]
    /\ CreatePersistentPath(t, RootOf[l])
    /\ pc' = [pc EXCEPT ![t] = "path"]

\* The catch block of the loop: it gives up, or sleeps and goes round again.
TryFailed(t) ==
    LET l == job[t].lock
    IN  IF tryCount[l] >= RetryTimes
        THEN CloseLocalThread(t, l) /\ Idle(t)
        ELSE /\ pc' = [pc EXCEPT ![t] = "loop"]
             /\ UNCHANGED <<session, job>>

\* step = 2 and init(), which makes an entry unless it finds one; the call then
\* stands before its loop.
StartCall(t, l, k) ==
    /\ step' = [step EXCEPT ![l] = 2]
    /\ isReentry' = [isReentry EXCEPT ![l] = Reenters(t, l, k)]
    /\ session' = IF Reenters(t, l, k) THEN session
                  ELSE [session EXCEPT ![t] = @ \cup {Entry(l, k)}]
    /\ pc' = [pc EXCEPT ![t] = "loop"]
    /\ job' = [job EXCEPT ![t] = [lock |-> l, kind |-> k, seq |-> 0]]

Write(t, l) ==
    /\ pc[t] = "idle"
    /\ Reaches(t, l)
    /\ MonitorFree(l)
    /\ step[l] = 1
    /\ \/ \* initWriteLock throws: the thread reads, write() leaves with step 2
          /\ ~Reenters(t, l, "write")
          /\ Entered(t, l, "read")
          /\ step' = [step EXCEPT ![l] = 2]
          /\ UNCHANGED <<isReentry, session, pc, job>>
       \/ /\ Reenters(t, l, "write") \/ ~Entered(t, l, "read")
          /\ StartCall(t, l, "write")
    /\ UNCHANGED <<expired, paths, mkpath, tryCount, queueVars, held>>

\* read() has seen step = 1 and not yet assigned it.
ReadEnter(t, l) ==
    /\ pc[t] = "idle"
    /\ Reaches(t, l)
    /\ step[l] = 1
    /\ pc' = [pc EXCEPT ![t] = "enter"]
    /\ job' = [job EXCEPT ![t] = [lock |-> l, kind |-> "read", seq |-> 0]]
    /\ UNCHANGED <<expired, paths, mkpath, step, isReentry, tryCount, session, queueVars, held>>

Read(t) ==
    /\ pc[t] = "enter"
    /\ StartCall(t, job[t].lock, "read")
    /\ UNCHANGED <<expired, paths, mkpath, tryCount, queueVars, held>>

\* while (!isReentry), which another call on the object may have set meanwhile.
LoopTest(t) ==
    LET l == job[t].lock
    IN  /\ pc[t] = "loop"
        /\ \/ /\ isReentry[l]
              /\ Obtain(t, l, job[t].kind, FALSE)
              /\ Idle(t)
              /\ UNCHANGED <<mkpath, tryCount>>
           \/ /\ ~isReentry[l]
              /\ BeginTry(t, l)
              /\ UNCHANGED <<job, held>>
        /\ UNCHANGED <<expired, paths, step, isReentry, session, queueVars>>

PathMade(t) ==
    /\ pc[t] = "path"
    /\ mkpath[t].st = "ok"
    /\ PathReturn(t)
    /\ pc' = [pc EXCEPT ![t] = "create"]
    /\ UNCHANGED <<expired, paths, step, isReentry, tryCount, session, job, queueVars, held>>

PathFailed(t) ==
    /\ pc[t] = "path"
    /\ mkpath[t].st = "error"
    /\ PathReturn(t)
    /\ TryFailed(t)
    /\ UNCHANGED <<expired, paths, step, isReentry, tryCount, queueVars, held>>

\* actualPath
NodeOf(t) == [lock |-> job[t].lock, kind |-> job[t].kind, seq |-> job[t].seq]

RootAt(t) == RootOf[job[t].lock]

AddNode(t) ==
    LET r == RootAt(t)
    IN  /\ children' = [children EXCEPT ![r] = @ \cup {[NodeOf(t) EXCEPT !.seq = nextSeq[r]]}]
        /\ nextSeq' = [nextSeq EXCEPT ![r] = @ + 1]

CreateNode(t) ==
    /\ pc[t] = "create"
    /\ Connected(t)
    /\ AddNode(t)
    /\ job' = [job EXCEPT ![t].seq = nextSeq[RootAt(t)]]
    /\ pc' = [pc EXCEPT ![t] = "list"]
    /\ UNCHANGED <<expired, paths, mkpath, step, isReentry, tryCount, session, held>>

\* create() throws; its znode may have been made and is then never deleted.
CreateNodeFails(t) ==
    /\ pc[t] = "create"
    /\ MayFail(t)
    /\ TryFailed(t)
    /\ UNCHANGED queueVars \/ (Connected(t) /\ AddNode(t))
    /\ UNCHANGED <<expired, paths, mkpath, step, isReentry, tryCount, held>>

\* Mutant: names are compared for equality.
InQueueExact(t) == {n \in children[RootAt(t)] : ResOf[n.lock] = ResOf[job[t].lock]}

\* The children whose name contains the resource.
InQueue(t) ==
    {n \in children[RootAt(t)] : <<ResOf[n.lock], ResOf[job[t].lock]>> \in NameContains}

\* Sorted by sequence number, what the loop looks at before it meets the first
\* znode of this object.
Rivals(t) ==
    {n \in InQueue(t) : \A m \in InQueue(t) : m.lock = job[t].lock => n.seq < m.seq}

\* Mutant: a writer only gives way to writers.
BeatenByWriters(t) == \E n \in Rivals(t) : n.kind = "write"

Beaten(t) ==
    IF job[t].kind = "write" THEN Rivals(t) # {}
    ELSE \E n \in Rivals(t) : n.kind = "write"

\* getChildren() and the decision
Won(t) ==
    /\ pc[t] = "list"
    /\ Connected(t)
    /\ ~Beaten(t)
    /\ Obtain(t, job[t].lock, job[t].kind, TRUE)
    /\ Idle(t)
    /\ UNCHANGED <<expired, paths, mkpath, step, isReentry, tryCount, session, queueVars>>

Lost(t) ==
    /\ pc[t] = "list"
    /\ Connected(t)
    /\ Beaten(t)
    /\ pc' = [pc EXCEPT ![t] = "delete"]
    /\ UNCHANGED <<expired, paths, mkpath, step, isReentry, tryCount, session, job,
                   queueVars, held>>

\* getChildren() throws a KeeperException: the znode of this try stays behind.
ListFails(t) ==
    /\ pc[t] = "list"
    /\ MayFail(t)
    /\ TryFailed(t)
    /\ UNCHANGED <<expired, paths, mkpath, step, isReentry, tryCount, queueVars, held>>

\* delete(actualPath), whose own exceptions are ignored; then the catch block.
DeleteNode(t) ==
    /\ pc[t] = "delete"
    /\ \/ /\ Connected(t)
          /\ children' = [children EXCEPT ![RootAt(t)] = @ \ {NodeOf(t)}]
       \/ /\ MayFail(t)
          /\ UNCHANGED children
    /\ TryFailed(t)
    /\ UNCHANGED <<expired, paths, mkpath, step, isReentry, tryCount, nextSeq, held>>

Release(t, l) ==
    /\ pc[t] = "idle"
    /\ Reaches(t, l)
    /\ MonitorFree(l)
    /\ step[l] = 2
    /\ step' = [step EXCEPT ![l] = 3]
    /\ CloseLocalThread(t, l)
    /\ held' = {h \in held : h.lock # l}
    /\ UNCHANGED <<expired, paths, mkpath, isReentry, tryCount, pc, job, queueVars>>

TryPath(t) ==
    /\ PathStep(t)
    /\ UNCHANGED <<expired, sharedVars>>

SessionEnd(c) ==
    /\ c \notin expired
    /\ expired' = expired \cup {c}
    /\ children' = [r \in Roots |-> {n \in children[r] : ZkOf[n.lock] # c}]
    /\ UNCHANGED <<paths, mkpath, step, isReentry, tryCount, session, pc, job, nextSeq, held>>

InCall(t) ==
    \/ Read(t)
    \/ LoopTest(t)
    \/ TryPath(t)
    \/ PathMade(t)
    \/ PathFailed(t)
    \/ CreateNode(t)
    \/ CreateNodeFails(t)
    \/ Won(t)
    \/ Lost(t)
    \/ ListFails(t)
    \/ DeleteNode(t)

Next ==
    \/ \E t \in Threads : InCall(t)
    \/ \E t \in Threads, l \in Locks : Write(t, l) \/ ReadEnter(t, l) \/ Release(t, l)
    \/ \E c \in Clients : SessionEnd(c)

Spec == Init /\ [][Next]_vars
-----------------------------------------------------------------------------
Alive(l) == ZkOf[l] \notin expired

(***************************************************************************)
(* SharedLock.java: while one thread has the write state no other thread   *)
(* has the lock.  Two calls that hold the same resource on behalf of two   *)
(* threads, in live sessions, are both reads.                              *)
(***************************************************************************)
SharedExclusion ==
    \A g, h \in held :
        /\ g.thread # h.thread
        /\ ResOf[g.lock] = ResOf[h.lock]
        /\ RootOf[g.lock] = RootOf[h.lock]
        /\ Alive(g.lock) /\ Alive(h.lock)
        => g.kind = "read" /\ h.kind = "read"

(***************************************************************************)
(* Every call of read() or write() comes back: tries and sleeps are        *)
(* bounded, and nobody waits for a znode to disappear.                     *)
(***************************************************************************)
CallReturns == \A t \in Threads : pc[t] # "idle" ~> pc[t] = "idle"
=============================================================================
