-------------------------- MODULE SharedClients_proofs --------------------------
(***************************************************************************)
(* Proofs about ZookeeperSharedLock, with free callers and used in nested  *)
(* blocks, for every number of threads, handles, lock objects, base paths, *)
(* resources and tries.                                                    *)
(***************************************************************************)
EXTENDS SharedClients, ZKPathUtil_proofs, WellFoundedInduction

PcType == [Threads -> {"idle", "enter", "loop", "path", "create", "list", "delete"}]
SessionType == [Threads -> SUBSET (Resources \X Kinds)]

LEMMA NoJobType == NoJob \in Calls
  BY LockAssumption DEF NoJob, Calls, Kinds

LEMMA EntryType ==
  ASSUME NEW l \in Locks, NEW k \in Kinds
  PROVE  Entry(l, k) \in Resources \X Kinds
  BY LockAssumption DEF Entry

LEMMA SharedTypeInit == Init => SharedTypeOK
<1> SUFFICES ASSUME Init PROVE SharedTypeOK
  OBVIOUS
<1>1. PathTypeOK
  BY NoCallType DEF Init, PathTypeOK
<1> QED
  BY <1>1, NoJobType DEF Init, SharedTypeOK

LEMMA IdleType ==
  ASSUME SharedTypeOK, NEW t \in Threads, Idle(t)
  PROVE  pc' \in PcType /\ job' \in [Threads -> Calls]
  BY NoJobType DEF SharedTypeOK, Idle, PcType

LEMMA CloseType ==
  ASSUME SharedTypeOK, NEW t \in Threads, NEW l, CloseLocalThread(t, l)
  PROVE  session' \in SessionType
<1>1. session' = session \/ session' = [session EXCEPT ![t] = session[t] \ {Entry(l, k) : k \in Kinds}]
  BY DEF CloseLocalThread
<1>2. session[t] \ {Entry(l, k) : k \in Kinds} \in SUBSET (Resources \X Kinds)
  BY DEF SharedTypeOK
<1> QED
  BY <1>1, <1>2 DEF SharedTypeOK, SessionType

LEMMA TryFailedType ==
  ASSUME SharedTypeOK, NEW t \in Threads, TryFailed(t)
  PROVE  pc' \in PcType /\ job' \in [Threads -> Calls] /\ session' \in SessionType
<1>1. CASE tryCount[job[t].lock] >= RetryTimes
  BY <1>1, IdleType, CloseType DEF TryFailed
<1>2. CASE ~(tryCount[job[t].lock] >= RetryTimes)
  BY <1>2 DEF TryFailed, SharedTypeOK, PcType, SessionType
<1> QED
  BY <1>1, <1>2

LEMMA ObtainType ==
  ASSUME SharedTypeOK, NEW t \in Threads, NEW l \in Locks, NEW k \in Kinds, NEW b \in BOOLEAN,
         Obtain(t, l, k, b)
  PROVE  held' \subseteq Holds
<1>1. [thread |-> t, lock |-> l, kind |-> k, base |-> b] \in Holds
  BY DEF Holds
<1> QED
  BY <1>1 DEF Obtain, SharedTypeOK

LEMMA BeginTryType ==
  ASSUME SharedTypeOK, NEW t \in Threads, NEW l \in Locks, BeginTry(t, l),
         UNCHANGED <<expired, paths>>
  PROVE  PathTypeOK' /\ tryCount' \in [Locks -> Nat] /\ pc' \in PcType
<1>1. RootOf[l] \in Roots
  BY LockAssumption
<1>2. PathTypeOK'
  BY <1>1, PathBeginType DEF BeginTry, SharedTypeOK
<1> QED
  BY <1>2 DEF BeginTry, SharedTypeOK, PcType

LEMMA StartCallType ==
  ASSUME SharedTypeOK, NEW t \in Threads, NEW l \in Locks, NEW k \in Kinds, StartCall(t, l, k)
  PROVE  /\ step' \in [Locks -> 1 .. 3]
         /\ isReentry' \in [Locks -> BOOLEAN]
         /\ session' \in SessionType
         /\ pc' \in PcType
         /\ job' \in [Threads -> Calls]
<1>1. session' \in SessionType
  BY EntryType DEF StartCall, SharedTypeOK, SessionType
<1>2. [lock |-> l, kind |-> k, seq |-> 0] \in Calls
  BY DEF Calls
<1>3. Reenters(t, l, k) \in BOOLEAN
  BY DEF Reenters, Entered
<1> QED
  BY <1>1, <1>2, <1>3 DEF StartCall, SharedTypeOK, PcType

LEMMA AddNodeType ==
  ASSUME SharedTypeOK, NEW t \in Threads, AddNode(t)
  PROVE  /\ RootAt(t) \in Roots
         /\ children' \in [Roots -> SUBSET Nodes]
         /\ nextSeq' \in [Roots -> Nat]
         /\ nextSeq[RootAt(t)] \in Nat
<1>1. job[t] \in Calls /\ RootAt(t) \in Roots
  BY LockAssumption DEF SharedTypeOK, Calls, RootAt
<1>2. [NodeOf(t) EXCEPT !.seq = nextSeq[RootAt(t)]] \in Nodes
  BY <1>1 DEF SharedTypeOK, NodeOf, Nodes, Calls
<1> QED
  BY <1>1, <1>2 DEF AddNode, SharedTypeOK

LEMMA SharedTypeNext == SharedTypeOK /\ [Next]_vars => SharedTypeOK'
<1> SUFFICES ASSUME SharedTypeOK, [Next]_vars PROVE SharedTypeOK'
  OBVIOUS
<1>0. /\ PathTypeOK
      /\ UNCHANGED <<expired, paths, mkpath>> => PathTypeOK'
      /\ \A t \in Threads : job[t] \in Calls /\ job[t].lock \in Locks /\ job[t].kind \in Kinds
  BY DEF SharedTypeOK, PathTypeOK, Calls
<1> USE DEF PcType, SessionType
<1>1. ASSUME NEW t \in Threads, NEW l \in Locks, Write(t, l) PROVE SharedTypeOK'
  <2>1. UNCHANGED <<expired, paths, mkpath, tryCount, queueVars, held>>
    BY <1>1 DEF Write
  <2>2. CASE StartCall(t, l, "write")
    BY <1>0, <2>1, <2>2, StartCallType DEF SharedTypeOK, queueVars, Kinds
  <2>3. CASE step' = [step EXCEPT ![l] = 2] /\ UNCHANGED <<isReentry, session, pc, job>>
    BY <1>0, <2>1, <2>3 DEF SharedTypeOK, queueVars
  <2> QED
    BY <1>1, <2>2, <2>3 DEF Write
<1>2. ASSUME NEW t \in Threads, NEW l \in Locks, ReadEnter(t, l) PROVE SharedTypeOK'
  <2>1. [lock |-> l, kind |-> "read", seq |-> 0] \in Calls
    BY DEF Calls, Kinds
  <2> QED
    BY <1>0, <1>2, <2>1 DEF ReadEnter, SharedTypeOK, queueVars
<1>3. ASSUME NEW t \in Threads, NEW l \in Locks, Release(t, l) PROVE SharedTypeOK'
  BY <1>0, <1>3, CloseType DEF Release, SharedTypeOK, queueVars
<1>4. ASSUME NEW c \in Clients, SessionEnd(c) PROVE SharedTypeOK'
  BY <1>0, <1>4 DEF SessionEnd, SharedTypeOK, PathTypeOK
<1>5. ASSUME NEW t \in Threads, Read(t) PROVE SharedTypeOK'
  BY <1>0, <1>5, StartCallType DEF Read, SharedTypeOK, queueVars, Kinds
<1>6. ASSUME NEW t \in Threads, TryPath(t) PROVE SharedTypeOK'
  <2>1. PathTypeOK'
    BY <1>0, <1>6, PathStepType DEF TryPath
  <2> QED
    BY <1>6, <2>1 DEF TryPath, sharedVars, queueVars, SharedTypeOK
<1>7. ASSUME NEW t \in Threads, PathMade(t) PROVE SharedTypeOK'
  <2>1. PathTypeOK'
    BY <1>0, <1>7, PathReturnType DEF PathMade
  <2> QED
    BY <1>7, <2>1 DEF PathMade, queueVars, SharedTypeOK
<1>8. ASSUME NEW t \in Threads, PathFailed(t) PROVE SharedTypeOK'
  <2>1. PathTypeOK'
    BY <1>0, <1>8, PathReturnType DEF PathFailed
  <2> QED
    BY <1>8, <2>1, TryFailedType DEF PathFailed, queueVars, SharedTypeOK
<1>9. ASSUME NEW t \in Threads, CreateNode(t) PROVE SharedTypeOK'
  <2>1. job' \in [Threads -> Calls]
    BY <1>9, AddNodeType DEF CreateNode, SharedTypeOK, Calls
  <2> QED
    BY <1>0, <1>9, <2>1, AddNodeType DEF CreateNode, SharedTypeOK
<1>10. ASSUME NEW t \in Threads, CreateNodeFails(t) PROVE SharedTypeOK'
  BY <1>0, <1>10, AddNodeType, TryFailedType DEF CreateNodeFails, queueVars, SharedTypeOK
<1>11. ASSUME NEW t \in Threads, Won(t) PROVE SharedTypeOK'
  BY <1>0, <1>11, ObtainType, IdleType DEF Won, queueVars, SharedTypeOK
<1>12. ASSUME NEW t \in Threads, Lost(t) PROVE SharedTypeOK'
  BY <1>0, <1>12 DEF Lost, queueVars, SharedTypeOK
<1>13. ASSUME NEW t \in Threads, ListFails(t) PROVE SharedTypeOK'
  BY <1>0, <1>13, TryFailedType DEF ListFails, queueVars, SharedTypeOK
<1>14. ASSUME NEW t \in Threads, DeleteNode(t) PROVE SharedTypeOK'
  <2>1. children' \in [Roots -> SUBSET Nodes]
    BY <1>14 DEF DeleteNode, SharedTypeOK
  <2> QED
    BY <1>0, <1>14, <2>1, TryFailedType DEF DeleteNode, SharedTypeOK
<1>15. ASSUME NEW t \in Threads, LoopTest(t) PROVE SharedTypeOK'
  <2>1. CASE isReentry[job[t].lock]
    BY <1>0, <1>15, <2>1, ObtainType, IdleType DEF LoopTest, queueVars, SharedTypeOK
  <2>2. CASE ~isReentry[job[t].lock]
    BY <1>0, <1>15, <2>2, BeginTryType DEF LoopTest, queueVars, SharedTypeOK
  <2> QED
    BY <2>1, <2>2
<1>16. CASE UNCHANGED vars
  BY <1>0, <1>16 DEF vars, sharedVars, queueVars, SharedTypeOK
<1> QED
  BY <1>1, <1>2, <1>3, <1>4, <1>5, <1>6, <1>7, <1>8, <1>9, <1>10, <1>11, <1>12, <1>13,
     <1>14, <1>15, <1>16 DEF Next, InCall

(***************************************************************************)
(* Every variable of the shared lock keeps its type, whoever calls it: a   *)
(* session only holds entries of readers and writers, a call is of a lock  *)
(* object, and what ZooKeeper stores below a base path are its znodes.     *)
(***************************************************************************)
THEOREM SharedTypeCorrect == Spec => []SharedTypeOK
  BY SharedTypeInit, SharedTypeNext, PTL DEF Spec
-----------------------------------------------------------------------------
\* A block that is left is the innermost one.
LEMMA Innermost ==
  ASSUME NEW s \in Seq(Locks), s # << >>
  PROVE  /\ Len(s) \in Nat \ {0} /\ DOMAIN s = 1 .. Len(s)
         /\ Last(s) = s[Len(s)] /\ Last(s) \in Locks
         /\ Front(s) \in Seq(Locks)
         /\ Len(Front(s)) = Len(s) - 1
         /\ \A i \in 1 .. Len(s) - 1 : Front(s)[i] = s[i]
<1>1. Len(s) \in Nat \ {0} /\ DOMAIN s = 1 .. Len(s)
  OBVIOUS
<1> QED
  BY <1>1 DEF Front, Last

(***************************************************************************)
(* The clients only call what free callers may call.                       *)
(***************************************************************************)
LEMMA ClientsCallLocks ==
  ASSUME ClientTypeOK, [ClientNext]_clientVars
  PROVE  [Next]_vars
<1>1. ASSUME NEW t \in Threads, Leave(t) PROVE Next
  <2>1. Last(frames[t]) \in Locks
    BY <1>1, Innermost DEF Leave, ClientTypeOK
  <2> QED
    BY <1>1, <2>1 DEF Leave, Next
<1>2. ASSUME UNCHANGED clientVars PROVE UNCHANGED vars
  BY <1>2 DEF clientVars
<1> QED
  BY <1>1, <1>2 DEF ClientNext, Inside, Enter, EndOfSession, Next

LEMMA ClientTypeNext ==
  ASSUME ClientTypeOK, [ClientNext]_clientVars
  PROVE  ClientTypeOK'
<1> USE DEF ClientTypeOK
<1>1. SharedTypeOK'
  BY SharedTypeNext, ClientsCallLocks
<1>2. ASSUME NEW t \in Threads, Leave(t) PROVE frames' \in [Threads -> Seq(Locks)]
  <2>1. Front(frames[t]) \in Seq(Locks)
    BY <1>2, Innermost DEF Leave
  <2> QED
    BY <1>2, <2>1 DEF Leave
<1>3. ASSUME NEW t \in Threads, NEW l \in Locks, Enter(t, l)
      PROVE  frames' \in [Threads -> Seq(Locks)]
  BY <1>3 DEF Enter
<1> QED
  BY <1>1, <1>2, <1>3 DEF ClientNext, clientVars, Inside, EndOfSession

(***************************************************************************)
(* Every variable keeps its type: a thread's blocks are lock objects.      *)
(***************************************************************************)
THEOREM SharedClientTypeCorrect == ClientSpec => []ClientTypeOK
<1>1. ClientInit => ClientTypeOK
  BY SharedTypeInit DEF ClientInit, ClientTypeOK
<1> QED
  BY <1>1, ClientTypeNext, PTL DEF ClientSpec
-----------------------------------------------------------------------------
(***************************************************************************)
(* A thread inside read() or write() runs its innermost block, whose lock  *)
(* object nobody else uses and nobody holds.                               *)
(***************************************************************************)
LEMMA Calling ==
  ASSUME ClientTypeOK, SharedInv, NEW t \in Threads, pc[t] # "idle"
  PROVE  /\ frames[t] \in Seq(Locks) /\ Len(frames[t]) \in Nat \ {0}
         /\ DOMAIN frames[t] = 1 .. Len(frames[t])
         /\ job[t].lock \in Locks /\ job[t].kind \in Kinds /\ job[t].seq \in Nat
         /\ job[t].lock = frames[t][Len(frames[t])]
         /\ Reaches(t, job[t].lock)
         /\ \A i \in DOMAIN frames[t] : i < Len(frames[t]) => frames[t][i] # job[t].lock
         /\ \A u \in Threads \ {t} : /\ \A i \in DOMAIN frames[u] : frames[u][i] # job[t].lock
                                     /\ pc[u] # "idle" => job[u].lock # job[t].lock
         /\ \A h \in held : h.lock # job[t].lock
<1>1. /\ frames[t] \in Seq(Locks) /\ frames[t] # << >>
      /\ job[t].lock = Last(frames[t])
      /\ job[t] \in Calls
  BY DEF ClientTypeOK, SharedTypeOK, SharedInv, BlocksNest
<1>2. /\ Len(frames[t]) \in Nat \ {0} /\ DOMAIN frames[t] = 1 .. Len(frames[t])
      /\ job[t].lock = frames[t][Len(frames[t])]
      /\ job[t].lock \in Locks /\ job[t].kind \in Kinds /\ job[t].seq \in Nat
  BY <1>1, Innermost DEF Calls
<1>3. \A i \in DOMAIN frames[t] : i < Len(frames[t]) => frames[t][i] # job[t].lock
  BY <1>1, <1>2 DEF SharedInv, BlocksNest
<1>4. Reaches(t, job[t].lock)
  BY <1>2 DEF SharedInv, BlocksNest
<1>5. ASSUME NEW u \in Threads \ {t}
      PROVE  /\ \A i \in DOMAIN frames[u] : frames[u][i] # job[t].lock
             /\ pc[u] # "idle" => job[u].lock # job[t].lock
  <2>1. \A i \in DOMAIN frames[u] : frames[u][i] # job[t].lock
    BY <1>2 DEF SharedInv, BlocksApart
  <2>2. ASSUME pc[u] # "idle" PROVE job[u].lock # job[t].lock
    <3>1. frames[u] \in Seq(Locks) /\ frames[u] # << >> /\ job[u].lock = Last(frames[u])
      BY <2>2 DEF ClientTypeOK, SharedInv, BlocksNest
    <3> QED
      BY <2>1, <3>1, Innermost
  <2> QED
    BY <2>1, <2>2
<1>6. ASSUME NEW h \in held PROVE h.lock # job[t].lock
  <2>1. h.thread \in Threads
    BY DEF ClientTypeOK, SharedTypeOK, Holds
  <2> QED
    BY <1>5, <2>1 DEF SharedInv, HoldsInBlocks
<1> QED
  BY <1>1, <1>2, <1>3, <1>4, <1>5, <1>6

(***************************************************************************)
(* A step of executeRead() or executeWrite() other than the one that wins: *)
(* the call goes on, or gives up and closes the thread's session entries.  *)
(***************************************************************************)
Carries(t) ==
    /\ Asks(t)
    /\ UNCHANGED <<expired, step, isReentry, held, frames>>
    /\ job' = [job EXCEPT ![t] = job'[t]]
    /\ pc' = [pc EXCEPT ![t] = pc'[t]]
    /\ \/ /\ InExecution(t)'
          /\ job'[t].lock = job[t].lock /\ job'[t].kind = job[t].kind
          /\ UNCHANGED session
       \/ /\ pc'[t] = "idle"
          /\ CloseLocalThread(t, job[t].lock)
    /\ \/ UNCHANGED queueVars
       \/ AddNode(t)
       \/ /\ children' = [children EXCEPT ![RootAt(t)] = @ \ {NodeOf(t)}]
          /\ UNCHANGED nextSeq
    /\ pc'[t] = "list" =>
          /\ AddNode(t)
          /\ job'[t] = [NodeOf(t) EXCEPT !.seq = nextSeq[RootAt(t)]]

LEMMA TryFailedCarries ==
  ASSUME ClientTypeOK, NEW t \in Threads, TryFailed(t)
  PROVE  /\ job' = [job EXCEPT ![t] = job'[t]]
         /\ pc' = [pc EXCEPT ![t] = pc'[t]]
         /\ pc'[t] # "list"
         /\ \/ pc'[t] = "loop" /\ UNCHANGED <<session, job>>
            \/ pc'[t] = "idle" /\ CloseLocalThread(t, job[t].lock)
<1>0. pc \in PcType /\ job \in [Threads -> Calls]
  BY DEF ClientTypeOK, SharedTypeOK, PcType
<1>1. CASE tryCount[job[t].lock] >= RetryTimes
  BY <1>0, <1>1 DEF TryFailed, Idle, PcType
<1>2. CASE ~(tryCount[job[t].lock] >= RetryTimes)
  BY <1>0, <1>2 DEF TryFailed, PcType
<1> QED
  BY <1>1, <1>2

\* What the invariant is about.
blockVars == <<expired, step, isReentry, session, pc, job, queueVars, held, frames>>

LEMMA InsideSteps ==
  ASSUME ClientTypeOK, SharedInv, NEW t \in Threads, Inside(t)
  PROVE  \/ Read(t) \/ Won(t) \/ Carries(t) \/ UNCHANGED blockVars
         \/ LoopTest(t) /\ isReentry[job[t].lock]
<1>0. /\ pc \in PcType /\ job \in [Threads -> Calls] /\ UNCHANGED frames
      /\ InExecution(t) /\ pc[t] # "loop" => Asks(t)
  BY DEF ClientTypeOK, SharedTypeOK, PcType, Inside, SharedInv, EntryFound
<1>1. CASE TryPath(t)
  BY <1>0, <1>1 DEF TryPath, sharedVars, blockVars, queueVars
<1>2. CASE PathMade(t)
  BY <1>0, <1>2 DEF PathMade, Carries, InExecution, PcType
<1>3. CASE PathFailed(t)
  BY <1>0, <1>3, TryFailedCarries DEF PathFailed, Carries, InExecution
<1>4. CASE CreateNode(t)
  BY <1>0, <1>4 DEF CreateNode, Carries, InExecution, PcType, NodeOf, Calls
<1>5. CASE CreateNodeFails(t)
  BY <1>0, <1>5, TryFailedCarries DEF CreateNodeFails, Carries, InExecution
<1>6. CASE Lost(t)
  BY <1>0, <1>6 DEF Lost, Carries, InExecution, PcType
<1>7. CASE ListFails(t)
  BY <1>0, <1>7, TryFailedCarries DEF ListFails, Carries, InExecution
<1>8. CASE DeleteNode(t)
  BY <1>0, <1>8, TryFailedCarries DEF DeleteNode, Carries, InExecution, queueVars
<1>9. CASE LoopTest(t)
  <2>1. CASE isReentry[job[t].lock]
    BY <1>9, <2>1
  <2>2. CASE ~isReentry[job[t].lock]
    BY <1>0, <1>9, <2>2 DEF LoopTest, BeginTry, Carries, InExecution, Asks, PcType
  <2> QED
    BY <2>1, <2>2
<1> QED
  BY <1>1, <1>2, <1>3, <1>4, <1>5, <1>6, <1>7, <1>8, <1>9 DEF Inside, InCall

(***************************************************************************)
(* Entering a block: frames grows by a fresh lock object at most, which is *)
(* then the innermost one, in blocks that all hold theirs.                 *)
(***************************************************************************)
EntersInnermost(t, l) ==
    LET f == frames[t]
        g == frames'[t]
    IN  /\ l \in Locks /\ Reaches(t, l) /\ step[l] = 1
        /\ frames' = [frames EXCEPT ![t] = g]
        /\ g \in Seq(Locks) /\ Len(g) \in Nat \ {0} /\ DOMAIN g = 1 .. Len(g)
        /\ g[Len(g)] = l
        /\ \A i \in DOMAIN f : i \in DOMAIN g /\ g[i] = f[i]
        /\ \A i \in 1 .. Len(g) - 1 :
              /\ i \in DOMAIN f /\ g[i] = f[i] /\ g[i] # l
              /\ \E h \in held : h.lock = g[i]
        /\ \A u \in Threads \ {t} : /\ \A i \in DOMAIN frames[u] : frames[u][i] # l
                                    /\ pc[u] # "idle" => job[u].lock # l
        /\ \A h \in held : h.lock # l

\* read() or write() begins on an object: it throws, or init() is done.
Begins(t, l, k) ==
    /\ EntersInnermost(t, l)
    /\ pc[t] \in {"idle", "enter"}
    /\ UNCHANGED <<expired, queueVars>>
    /\ step' = [step EXCEPT ![l] = 2]
    /\ pc' = [pc EXCEPT ![t] = pc'[t]]
    /\ job' = [job EXCEPT ![t] = job'[t]]
    /\ UNCHANGED held
    /\ \/ /\ pc'[t] = "idle"
          /\ UNCHANGED <<isReentry, session>>
       \/ /\ pc'[t] = "loop"
          /\ job'[t].lock = l /\ job'[t].kind = k
          /\ \/ /\ Reenters(t, l, k)
                /\ isReentry' = [isReentry EXCEPT ![l] = TRUE]
                /\ UNCHANGED session
             \/ /\ isReentry' = [isReentry EXCEPT ![l] = FALSE]
                /\ session' = [session EXCEPT ![t] = @ \cup {Entry(l, k)}]

LEMMA StartCallBegins ==
  ASSUME ClientTypeOK, NEW t \in Threads, NEW l \in Locks, NEW k \in Kinds,
         EntersInnermost(t, l), pc[t] \in {"idle", "enter"}, StartCall(t, l, k),
         UNCHANGED <<expired, queueVars, held>>
  PROVE  Begins(t, l, k)
<1>1. pc \in PcType /\ job \in [Threads -> Calls]
  BY DEF ClientTypeOK, SharedTypeOK, PcType
<1>2. CASE Reenters(t, l, k)
  BY <1>1, <1>2 DEF StartCall, Begins, PcType
<1>3. CASE ~Reenters(t, l, k)
  <2>1. Reenters(t, l, k) = FALSE
    BY <1>3 DEF Reenters, Entered
  <2>2. isReentry' = [isReentry EXCEPT ![l] = FALSE]
    BY <2>1 DEF StartCall
  <2> QED
    BY <1>1, <1>3, <2>2 DEF StartCall, Begins, PcType
<1> QED
  BY <1>2, <1>3

LEMMA ReadBegins ==
  ASSUME ClientTypeOK, SharedInv, NEW t \in Threads, Read(t), UNCHANGED frames
  PROVE  Begins(t, job[t].lock, "read")
<1> DEFINE l == job[t].lock
<1>1. pc[t] = "enter" /\ pc[t] # "idle" /\ l \in Locks
  BY Calling DEF Read
<1>2. BlocksNest(t) /\ pc \in PcType /\ job \in [Threads -> Calls] /\ frames \in [Threads -> Seq(Locks)]
  BY DEF SharedInv, ClientTypeOK, SharedTypeOK, PcType
<1>3. EntersInnermost(t, l)
  <2>0. Len(frames[t]) \in Nat \ {0} /\ DOMAIN frames[t] = 1 .. Len(frames[t])
    BY <1>1, Calling
  <2>1. ASSUME NEW i \in 1 .. Len(frames[t]) - 1
        PROVE  /\ i \in DOMAIN frames[t] /\ i < Len(frames[t])
               /\ frames[t][i] # l
               /\ \E h \in held : h.lock = frames[t][i]
    <3>1. i \in DOMAIN frames[t] /\ i < Len(frames[t])
      BY <2>0
    <3> QED
      BY <1>1, <1>2, <3>1, Calling DEF BlocksNest
  <2>2. step[l] = 1
    BY <1>1, <1>2, Calling DEF BlocksNest, InExecution
  <2>3. frames' = [frames EXCEPT ![t] = frames'[t]]
    BY <1>2
  <2> HIDE DEF l
  <2>4. /\ frames[t][Len(frames[t])] = l /\ Reaches(t, l)
        /\ \A u \in Threads \ {t} : /\ \A i \in DOMAIN frames[u] : frames[u][i] # l
                                    /\ pc[u] # "idle" => job[u].lock # l
        /\ \A h \in held : h.lock # l
    BY <1>1, Calling DEF l
  <2> QED
    BY <1>1, <1>2, <2>0, <2>1, <2>2, <2>3, <2>4 DEF EntersInnermost
<1> QED
  BY <1>1, <1>3, StartCallBegins DEF Read, Kinds

\* read() has tested step.
ReadEnters(t, l) ==
    /\ EntersInnermost(t, l)
    /\ pc[t] = "idle"
    /\ pc' = [pc EXCEPT ![t] = "enter"]
    /\ job' = [job EXCEPT ![t] = job'[t]]
    /\ job'[t].lock = l /\ job'[t].kind = "read"
    /\ UNCHANGED <<expired, step, isReentry, session, queueVars, held>>

LEMMA EnterBegins ==
  ASSUME ClientTypeOK, SharedInv, NEW t \in Threads, NEW l \in Locks, Enter(t, l)
  PROVE  Begins(t, l, "write") \/ ReadEnters(t, l)
<1>1. /\ pc[t] = "idle"
      /\ step[l] = 1 /\ Reaches(t, l)
      /\ frames' = [frames EXCEPT ![t] = Append(frames[t], l)]
      /\ frames[t] \in Seq(Locks) /\ frames \in [Threads -> Seq(Locks)]
      /\ pc \in PcType /\ job \in [Threads -> Calls]
      /\ frames[t] # << >> => \E h \in held : h.lock = Last(frames[t])
  BY DEF Enter, Body, Write, ReadEnter, ClientTypeOK, SharedTypeOK, PcType
<1>2. \A u \in Threads : \A i \in DOMAIN frames[u] : frames[u][i] # l
  BY DEF Enter, InUse, ToSet
<1>3. ASSUME NEW u \in Threads, pc[u] # "idle" PROVE job[u].lock # l
  <2>1. job[u].lock = frames[u][Len(frames[u])] /\ Len(frames[u]) \in DOMAIN frames[u]
    BY <1>3, Calling
  <2> QED
    BY <1>2, <2>1
<1>4. ASSUME NEW h \in held PROVE h.lock # l
  <2>1. h.thread \in Threads
    BY DEF ClientTypeOK, SharedTypeOK, Holds
  <2> QED
    BY <1>2, <2>1 DEF SharedInv, HoldsInBlocks
<1>5. EntersInnermost(t, l)
  <2> DEFINE f == frames[t]
             g == frames'[t]
  <2>1. /\ g = Append(f, l) /\ g \in Seq(Locks)
        /\ Len(f) \in Nat /\ DOMAIN f = 1 .. Len(f)
        /\ Len(g) = Len(f) + 1 /\ DOMAIN g = 1 .. Len(g)
        /\ g[Len(g)] = l
        /\ \A i \in DOMAIN f : g[i] = f[i]
    BY <1>1
  <2>2. ASSUME NEW i \in DOMAIN f PROVE \E h \in held : h.lock = f[i]
    <3>1. CASE i < Len(f)
      BY <3>1 DEF SharedInv, BlocksNest
    <3>2. CASE i = Len(f)
      BY <1>1, <2>1, <3>2, Innermost
    <3> QED
      BY <2>1, <3>1, <3>2
  <2>3. frames' = [frames EXCEPT ![t] = g]
    BY <1>1
  <2>4. /\ \A i \in DOMAIN f : i \in DOMAIN g
        /\ \A i \in 1 .. Len(g) - 1 : i \in DOMAIN f
        /\ Len(g) \in Nat \ {0}
    BY <2>1
  <2>5. \A i \in 1 .. Len(g) - 1 :
           i \in DOMAIN f /\ g[i] = f[i] /\ g[i] # l /\ \E h \in held : h.lock = g[i]
    BY <1>2, <2>1, <2>2, <2>4
  <2> HIDE DEF f, g
  <2> QED
    BY <1>1, <1>2, <1>3, <1>4, <2>1, <2>3, <2>4, <2>5 DEF EntersInnermost, f, g
<1>6. CASE ReadEnter(t, l)
  BY <1>1, <1>5, <1>6 DEF ReadEnter, ReadEnters
<1>7. CASE Write(t, l)
  <2>1. /\ step' = [step EXCEPT ![l] = 2]
        /\ UNCHANGED <<expired, queueVars, held>>
        /\ \/ UNCHANGED <<isReentry, session, pc, job>>
           \/ StartCall(t, l, "write")
    BY <1>7 DEF Write, StartCall
  <2>2. CASE StartCall(t, l, "write")
    BY <1>1, <1>5, <2>1, <2>2, StartCallBegins DEF Kinds
  <2>3. CASE UNCHANGED <<isReentry, session, pc, job>>
    BY <1>1, <1>5, <2>1, <2>3 DEF Begins, PcType
  <2> QED
    BY <2>1, <2>2, <2>3
<1> QED
  BY <1>6, <1>7 DEF Enter

\* The call has the lock and comes back: it won in ZooKeeper (b) or reenters.
Obtains(t, b) ==
    /\ InExecution(t)
    /\ b => pc[t] = "list" /\ Connected(t) /\ ~Beaten(t) /\ ~isReentry[job[t].lock]
    /\ ~b => pc[t] = "loop" /\ isReentry[job[t].lock]
    /\ pc' = [pc EXCEPT ![t] = "idle"]
    /\ job' = [job EXCEPT ![t] = job'[t]]
    /\ held' = held \cup {[thread |-> t, lock |-> job[t].lock, kind |-> job[t].kind, base |-> b]}
    /\ UNCHANGED <<expired, step, isReentry, session, queueVars, frames>>

LEMMA WonObtains ==
  ASSUME ClientTypeOK, SharedInv, NEW t \in Threads, Won(t), UNCHANGED frames
  PROVE  Obtains(t, TRUE)
<1>1. pc[t] = "list" /\ Asks(t) /\ InExecution(t)
  BY DEF Won, SharedInv, EntryFound, InExecution
<1> QED
  BY <1>1 DEF Won, Obtains, Obtain, Idle, Asks, ClientTypeOK, SharedTypeOK

LEMMA ReenteringObtains ==
  ASSUME ClientTypeOK, NEW t \in Threads, LoopTest(t), isReentry[job[t].lock], UNCHANGED frames
  PROVE  Obtains(t, FALSE)
  BY DEF LoopTest, Obtains, Obtain, Idle, InExecution, ClientTypeOK, SharedTypeOK

(***************************************************************************)
(* Leaving a block: its lock object is released and used no more.          *)
(***************************************************************************)
Ends(t, l) ==
    LET f == frames[t]
        g == frames'[t]
    IN  /\ pc[t] = "idle" /\ l \in Locks /\ step[l] = 2 /\ step' = [step EXCEPT ![l] = 3]
        /\ f \in Seq(Locks) /\ Len(f) \in Nat \ {0} /\ DOMAIN f = 1 .. Len(f)
        /\ f[Len(f)] = l
        /\ frames' = [frames EXCEPT ![t] = g]
        /\ Len(g) = Len(f) - 1 /\ DOMAIN g = 1 .. Len(f) - 1
        /\ \A i \in DOMAIN g : i \in DOMAIN f /\ i < Len(f) /\ g[i] = f[i] /\ f[i] # l
        /\ \A u \in Threads \ {t} : /\ \A i \in DOMAIN frames[u] : frames[u][i] # l
                                    /\ pc[u] # "idle" => job[u].lock # l
        /\ \A h \in held : h.lock = l => h.thread = t
        /\ held' = {h \in held : h.lock # l}
        /\ CloseLocalThread(t, l)
        /\ UNCHANGED <<expired, isReentry, pc, job, queueVars>>

LEMMA LeaveEnds ==
  ASSUME ClientTypeOK, SharedInv, NEW t \in Threads, Leave(t)
  PROVE  Ends(t, Last(frames[t]))
<1> DEFINE l == Last(frames[t])
<1>1. /\ pc[t] = "idle" /\ step[l] = 2 /\ step' = [step EXCEPT ![l] = 3]
      /\ frames[t] \in Seq(Locks) /\ frames[t] # << >>
      /\ frames' = [frames EXCEPT ![t] = Front(frames[t])]
      /\ frames \in [Threads -> Seq(Locks)]
      /\ held' = {h \in held : h.lock # l}
      /\ CloseLocalThread(t, l)
      /\ UNCHANGED <<expired, isReentry, pc, job, queueVars>>
  BY DEF Leave, Release, ClientTypeOK
<1>2. /\ l \in Locks /\ Len(frames[t]) \in Nat \ {0} /\ DOMAIN frames[t] = 1 .. Len(frames[t])
      /\ frames[t][Len(frames[t])] = l
      /\ Len(frames'[t]) = Len(frames[t]) - 1
      /\ DOMAIN frames'[t] = 1 .. Len(frames[t]) - 1
      /\ \A i \in DOMAIN frames'[t] : frames'[t][i] = frames[t][i]
  <2>1. frames'[t] = Front(frames[t])
    BY <1>1
  <2>2. /\ Front(frames[t]) \in Seq(Locks) /\ Len(Front(frames[t])) = Len(frames[t]) - 1
        /\ \A i \in 1 .. Len(frames[t]) - 1 : Front(frames[t])[i] = frames[t][i]
        /\ l \in Locks /\ Len(frames[t]) \in Nat \ {0} /\ DOMAIN frames[t] = 1 .. Len(frames[t])
        /\ frames[t][Len(frames[t])] = l
    BY <1>1, Innermost, Zenon
  <2>3. DOMAIN Front(frames[t]) = 1 .. Len(Front(frames[t]))
    BY <2>2
  <2> QED
    BY <2>1, <2>2, <2>3
<1>3. ASSUME NEW i \in DOMAIN frames'[t]
      PROVE  i \in DOMAIN frames[t] /\ i < Len(frames[t]) /\ frames[t][i] # l
  <2>1. i \in DOMAIN frames[t] /\ i \in 1 .. Len(frames[t]) - 1 /\ i < Len(frames[t])
    BY <1>2
  <2> QED
    BY <1>2, <2>1 DEF SharedInv, BlocksNest
<1>4. ASSUME NEW u \in Threads \ {t}
      PROVE  /\ \A i \in DOMAIN frames[u] : frames[u][i] # l
             /\ pc[u] # "idle" => job[u].lock # l
  <2>1. Len(frames[t]) \in DOMAIN frames[t]
    BY <1>2
  <2>2. \A i \in DOMAIN frames[u] : frames[u][i] # l
    BY <1>2, <2>1 DEF SharedInv, BlocksApart
  <2>3. pc[u] # "idle" => job[u].lock = frames[u][Len(frames[u])] /\ Len(frames[u]) \in DOMAIN frames[u]
    BY Calling
  <2> QED
    BY <2>2, <2>3
<1>5. ASSUME NEW h \in held, h.lock = l PROVE h.thread = t
  <2>1. h.thread \in Threads
    BY DEF ClientTypeOK, SharedTypeOK, Holds
  <2> QED
    BY <1>4, <1>5, <2>1 DEF SharedInv, HoldsInBlocks
<1>6. frames' = [frames EXCEPT ![t] = frames'[t]]
  BY <1>1
<1> HIDE DEF l
<1>7. Ends(t, l)
  BY <1>1, <1>2, <1>3, <1>4, <1>5, <1>6 DEF Ends
<1> QED
  BY <1>7 DEF l

(***************************************************************************)
(* Every step of the clients is one of these.                              *)
(***************************************************************************)
Expires(c) ==
    /\ expired' = expired \cup {c}
    /\ children' = [r \in Roots |-> {n \in children[r] : ZkOf[n.lock] # c}]
    /\ UNCHANGED <<step, isReentry, session, pc, job, nextSeq, held, frames>>

LEMMA ClientSteps ==
  ASSUME ClientTypeOK, SharedInv, [ClientNext]_clientVars
  PROVE  \/ UNCHANGED blockVars
         \/ \E t \in Threads : Carries(t) \/ \E b \in BOOLEAN : Obtains(t, b)
         \/ \E t \in Threads, l \in Locks :
               Begins(t, l, "read") \/ Begins(t, l, "write") \/ ReadEnters(t, l) \/ Ends(t, l)
         \/ \E c \in Clients : Expires(c)
<1>1. ASSUME NEW t \in Threads, Inside(t)
      PROVE  \/ UNCHANGED blockVars \/ Carries(t) \/ \E b \in BOOLEAN : Obtains(t, b)
             \/ \E l \in Locks : Begins(t, l, "read")
  <2>1. UNCHANGED frames
    BY <1>1 DEF Inside
  <2>2. CASE Read(t)
    <3>1. job[t].lock \in Locks
      BY <2>2, Calling DEF Read
    <3> QED
      BY <2>1, <2>2, <3>1, ReadBegins
  <2> QED
    BY <1>1, <2>1, <2>2, InsideSteps, WonObtains, ReenteringObtains
<1>2. ASSUME NEW t \in Threads, Leave(t) PROVE \E l \in Locks : Ends(t, l)
  <2>1. Last(frames[t]) \in Locks
    BY <1>2, Innermost DEF Leave, ClientTypeOK
  <2> QED
    BY <1>2, <2>1, LeaveEnds
<1>3. ASSUME NEW c \in Clients, EndOfSession(c) PROVE Expires(c)
  BY <1>3 DEF EndOfSession, SessionEnd, Expires
<1>4. CASE UNCHANGED clientVars
  BY <1>4 DEF clientVars, vars, sharedVars, blockVars
<1> QED
  BY <1>1, <1>2, <1>3, <1>4, EnterBegins DEF ClientNext
-----------------------------------------------------------------------------
(***************************************************************************)
(* SharedInv is inductive, conjunct by conjunct.                           *)
(***************************************************************************)
LEMMA SharedTypes ==
  ASSUME ClientTypeOK
  PROVE  /\ step \in [Locks -> 1 .. 3] /\ isReentry \in [Locks -> BOOLEAN]
         /\ session \in SessionType /\ pc \in PcType /\ job \in [Threads -> Calls]
         /\ children \in [Roots -> SUBSET Nodes] /\ nextSeq \in [Roots -> Nat]
         /\ held \subseteq Holds /\ frames \in [Threads -> Seq(Locks)]
         /\ \A u \in Threads : /\ frames[u] \in Seq(Locks)
                               /\ Len(frames[u]) \in Nat /\ DOMAIN frames[u] = 1 .. Len(frames[u])
                               /\ job[u].lock \in Locks /\ RootOf[job[u].lock] \in Roots
         /\ \A h \in held : h.thread \in Threads /\ h.lock \in Locks
<1>1. \A u \in Threads : job[u] \in Calls /\ job[u].lock \in Locks
  BY DEF ClientTypeOK, SharedTypeOK, Calls
<1> QED
  BY <1>1, LockAssumption DEF ClientTypeOK, SharedTypeOK, PcType, SessionType, Holds

LEMMA NestNext ==
  ASSUME ClientTypeOK, SharedInv, [ClientNext]_clientVars, NEW u \in Threads
  PROVE  BlocksNest(u)'
<1>0. BlocksNest(u) /\ (pc[u] # "idle" => frames[u] # << >> /\ job[u].lock = Last(frames[u]))
  BY DEF SharedInv, BlocksNest
<1>1. ASSUME NEW t \in Threads, Carries(t) PROVE BlocksNest(u)'
  <2>1. UNCHANGED <<step, held, frames>> /\ InExecution(t)
    BY <1>1 DEF Carries, Asks
  <2>2. (pc'[u] = pc[u] /\ job'[u] = job[u]) \/ u = t
    BY <1>1, SharedTypes DEF Carries, PcType
  <2>3. u = t => pc'[u] = "idle" \/ (InExecution(u)' /\ job'[u].lock = job[u].lock)
    BY <1>1 DEF Carries
  <2>4. /\ pc'[u] = "enter" <=> pc[u] = "enter"
        /\ pc'[u] # "idle" => pc[u] # "idle" /\ job'[u].lock = job[u].lock
    BY <2>1, <2>2, <2>3 DEF InExecution
  <2> QED
    BY <1>0, <2>1, <2>4 DEF BlocksNest, Reaches
<1>2. ASSUME NEW t \in Threads, NEW b \in BOOLEAN, Obtains(t, b) PROVE BlocksNest(u)'
  <2>1. UNCHANGED <<step, frames>> /\ held \subseteq held' /\ pc[t] \in {"list", "loop"}
    BY <1>2 DEF Obtains
  <2>2. (pc'[u] = pc[u] /\ job'[u] = job[u]) \/ (u = t /\ pc'[u] = "idle")
    BY <1>2, SharedTypes DEF Obtains, PcType
  <2>3. pc'[u] = "enter" <=> pc[u] = "enter"
    BY <2>1, <2>2
  <2> QED
    BY <1>0, <2>1, <2>2, <2>3 DEF BlocksNest, Reaches
<1>3. ASSUME NEW t \in Threads, NEW l \in Locks, NEW k \in Kinds, Begins(t, l, k)
      PROVE  BlocksNest(u)'
  <2>1. /\ EntersInnermost(t, l)
        /\ step' = [step EXCEPT ![l] = 2]
        /\ held \subseteq held'
        /\ pc'[t] \in {"idle", "loop"}
        /\ \A m \in Locks \ {l} : step'[m] = step[m]
        /\ pc'[t] = "loop" => job'[t].lock = l
        /\ step'[l] = 2
    BY <1>3, SharedTypes DEF Begins, EntersInnermost
  <2>2. CASE u # t
    <3>1. frames'[u] = frames[u] /\ pc'[u] = pc[u] /\ job'[u] = job[u]
      BY <1>3, <2>2, SharedTypes DEF Begins, EntersInnermost, PcType
    <3>2. /\ \A i \in DOMAIN frames[u] : frames[u][i] \in Locks \ {l}
          /\ pc[u] # "idle" => job[u].lock \in Locks \ {l}
      BY <2>1, <2>2, SharedTypes DEF EntersInnermost
    <3> QED
      BY <1>0, <2>1, <3>1, <3>2 DEF BlocksNest, Reaches
  <2>3. CASE u = t
    <3> DEFINE g == frames'[u]
    <3>1. /\ g \in Seq(Locks) /\ Len(g) \in Nat \ {0} /\ DOMAIN g = 1 .. Len(g) /\ g[Len(g)] = l
          /\ \A i \in 1 .. Len(g) - 1 : /\ i \in DOMAIN frames[u] /\ g[i] = frames[u][i]
                                        /\ g[i] # l /\ \E h \in held : h.lock = g[i]
          /\ Reaches(u, l)
      BY <2>1, <2>3 DEF EntersInnermost
    <3>2. ASSUME NEW i \in 1 .. Len(g) - 1
          PROVE  /\ ZkOf[g[i]] = ClientOf[u] /\ step'[g[i]] = 2
                 /\ \A j \in 1 .. i - 1 : g[j] # g[i]
                 /\ \E h \in held' : h.lock = g[i]
      <4>1. /\ i \in DOMAIN frames[u] /\ g[i] = frames[u][i] /\ g[i] \in Locks \ {l}
            /\ \A j \in 1 .. i - 1 : j \in 1 .. Len(g) - 1
        BY <3>1
      <4>2. \A j \in 1 .. i - 1 : g[j] = frames[u][j]
        BY <3>1, <4>1
      <4>3. step[g[i]] = 2
        <5>1. ~(i = Len(frames[u]) /\ pc[u] = "enter")
          <6>1. \E h \in held : h.lock = frames[u][i]
            BY <3>1, <4>1
          <6> QED
            BY <6>1, Calling
        <5> QED
          BY <1>0, <4>1, <5>1 DEF BlocksNest
      <4>4. /\ ZkOf[frames[u][i]] = ClientOf[u]
            /\ \A j \in 1 .. i - 1 : frames[u][j] # frames[u][i]
        BY <1>0, <4>1 DEF BlocksNest, Reaches
      <4> QED
        BY <2>1, <3>1, <4>1, <4>2, <4>3, <4>4
    <3>3. /\ ZkOf[g[Len(g)]] = ClientOf[u] /\ step'[g[Len(g)]] = 2
          /\ \A j \in 1 .. Len(g) - 1 : g[j] # g[Len(g)]
      BY <2>1, <3>1 DEF Reaches
    <3>4. pc'[u] # "idle" => g # << >> /\ job'[u].lock = Last(g)
      BY <2>1, <2>3, <3>1 DEF Last
    <3>5. pc'[u] # "enter"
      BY <2>1, <2>3
    <3>6. ASSUME NEW i \in DOMAIN g
          PROVE  /\ ZkOf[g[i]] = ClientOf[u] /\ step'[g[i]] = 2
                 /\ \A j \in 1 .. i - 1 : g[j] # g[i]
                 /\ i < Len(g) => \E h \in held' : h.lock = g[i]
      <4>1. i = Len(g) \/ i \in 1 .. Len(g) - 1
        BY <3>1
      <4>2. CASE i = Len(g)
        BY <3>1, <3>3, <4>2
      <4> QED
        BY <3>2, <4>1, <4>2
    <3> QED
      BY <3>4, <3>5, <3>6 DEF BlocksNest, Reaches
  <2> QED
    BY <2>2, <2>3
<1>4. ASSUME NEW t \in Threads, NEW l \in Locks, ReadEnters(t, l) PROVE BlocksNest(u)'
  <2>1. EntersInnermost(t, l) /\ pc[t] = "idle" /\ UNCHANGED <<step, isReentry, held>>
    BY <1>4 DEF ReadEnters
  <2>2. CASE u # t
    <3>1. frames'[u] = frames[u] /\ pc'[u] = pc[u] /\ job'[u] = job[u]
      BY <1>4, <2>2, SharedTypes DEF ReadEnters, EntersInnermost, PcType
    <3> QED
      BY <1>0, <2>1, <3>1 DEF BlocksNest, Reaches
  <2>3. CASE u = t
    <3> DEFINE g == frames'[u]
    <3>1. /\ g \in Seq(Locks) /\ Len(g) \in Nat \ {0} /\ DOMAIN g = 1 .. Len(g) /\ g[Len(g)] = l
          /\ \A i \in 1 .. Len(g) - 1 : /\ i \in DOMAIN frames[u] /\ g[i] = frames[u][i]
                                        /\ g[i] # l /\ \E h \in held : h.lock = g[i]
          /\ Reaches(u, l) /\ step[l] = 1
          /\ pc'[u] = "enter" /\ job'[u].lock = l
      BY <1>4, <2>1, <2>3, SharedTypes DEF EntersInnermost, ReadEnters, PcType
    <3>2. ASSUME NEW i \in 1 .. Len(g) - 1
          PROVE  /\ ZkOf[g[i]] = ClientOf[u] /\ step[g[i]] = 2
                 /\ \A j \in 1 .. i - 1 : g[j] # g[i]
      <4>1. /\ i \in DOMAIN frames[u] /\ g[i] = frames[u][i]
            /\ \A j \in 1 .. i - 1 : j \in 1 .. Len(g) - 1
        BY <3>1
      <4>2. \A j \in 1 .. i - 1 : g[j] = frames[u][j]
        BY <3>1, <4>1
      <4>3. /\ ZkOf[frames[u][i]] = ClientOf[u] /\ step[frames[u][i]] = 2
            /\ \A j \in 1 .. i - 1 : frames[u][j] # frames[u][i]
        BY <1>0, <2>1, <2>3, <4>1 DEF BlocksNest, Reaches
      <4> QED
        BY <4>1, <4>2, <4>3
    <3>3. \A j \in 1 .. Len(g) - 1 : g[j] # g[Len(g)]
      BY <3>1
    <3>4. g # << >> /\ job'[u].lock = Last(g)
      BY <3>1 DEF Last
    <3>5. ASSUME NEW i \in DOMAIN g
          PROVE  /\ ZkOf[g[i]] = ClientOf[u]
                 /\ step'[g[i]] = IF i = Len(g) /\ pc'[u] = "enter" THEN 1 ELSE 2
                 /\ \A j \in 1 .. i - 1 : g[j] # g[i]
                 /\ i < Len(g) => \E h \in held' : h.lock = g[i]
      <4>1. i = Len(g) \/ (i \in 1 .. Len(g) - 1 /\ i # Len(g))
        BY <3>1
      <4>2. CASE i = Len(g)
        BY <2>1, <3>1, <3>3, <4>2 DEF Reaches
      <4>3. CASE i \in 1 .. Len(g) - 1 /\ i # Len(g)
        BY <2>1, <3>1, <3>2, <4>3
      <4> QED
        BY <4>1, <4>2, <4>3
    <3> QED
      BY <3>1, <3>4, <3>5 DEF BlocksNest, Reaches
  <2> QED
    BY <2>2, <2>3
<1>5. ASSUME NEW t \in Threads, NEW l \in Locks, Ends(t, l) PROVE BlocksNest(u)'
  <2>1. /\ pc[t] = "idle" /\ UNCHANGED <<isReentry, pc, job>>
        /\ frames' = [frames EXCEPT ![t] = frames'[t]]
        /\ \A m \in Locks \ {l} : step'[m] = step[m]
        /\ \A h \in held : h.lock # l => h \in held'
    BY <1>5, SharedTypes DEF Ends
  <2>2. CASE u # t
    <3>1. frames'[u] = frames[u]
      BY <2>1, <2>2, SharedTypes
    <3>2. /\ \A i \in DOMAIN frames[u] : frames[u][i] \in Locks \ {l}
          /\ pc[u] # "idle" => job[u].lock # l
      BY <1>5, <2>2, SharedTypes DEF Ends
    <3> QED
      BY <1>0, <2>1, <3>1, <3>2 DEF BlocksNest, Reaches
  <2>3. CASE u = t
    <3>1. /\ Len(frames'[u]) = Len(frames[u]) - 1 /\ Len(frames[u]) \in Nat
          /\ DOMAIN frames'[u] = 1 .. Len(frames[u]) - 1
          /\ pc'[u] = "idle"
      BY <1>5, <2>1, <2>3 DEF Ends
    <3>2. ASSUME NEW i \in DOMAIN frames'[u]
          PROVE  /\ i \in DOMAIN frames[u] /\ i < Len(frames[u])
                 /\ frames'[u][i] = frames[u][i] /\ frames[u][i] \in Locks \ {l}
      BY <1>5, <2>3, SharedTypes DEF Ends
    <3>3. ASSUME NEW i \in DOMAIN frames'[u]
          PROVE  /\ ZkOf[frames[u][i]] = ClientOf[u] /\ step'[frames[u][i]] = 2
                 /\ \A j \in 1 .. i - 1 : frames'[u][j] # frames[u][i]
                 /\ \E h \in held' : h.lock = frames[u][i]
      <4>1. \A j \in 1 .. i - 1 : j \in DOMAIN frames'[u]
        BY <3>1
      <4>2. \A j \in 1 .. i - 1 : frames'[u][j] = frames[u][j]
        BY <3>2, <4>1
      <4>3. /\ ZkOf[frames[u][i]] = ClientOf[u] /\ step[frames[u][i]] = 2
            /\ \A j \in 1 .. i - 1 : frames[u][j] # frames[u][i]
            /\ \E h \in held : h.lock = frames[u][i]
        BY <1>0, <2>1, <2>3, <3>2 DEF BlocksNest, Reaches
      <4> QED
        BY <2>1, <3>2, <4>2, <4>3
    <3> QED
      BY <3>1, <3>2, <3>3 DEF BlocksNest, Reaches
  <2> QED
    BY <2>2, <2>3
<1>6. CASE UNCHANGED blockVars \/ \E c \in Clients : Expires(c)
  BY <1>0, <1>6 DEF blockVars, Expires, BlocksNest, Reaches
<1> QED
  BY <1>1, <1>2, <1>3, <1>4, <1>5, <1>6, ClientSteps DEF Kinds

LEMMA FoundNext ==
  ASSUME ClientTypeOK, SharedInv, [ClientNext]_clientVars, NEW u \in Threads
  PROVE  EntryFound(u)'
<1>0. InExecution(u) /\ isReentry[job[u].lock] =>
         pc[u] = "loop" /\ Reenters(u, job[u].lock, job[u].kind)
  BY DEF SharedInv, EntryFound, Asks
<1>1. ASSUME pc'[u] = pc[u], job'[u] = job[u], session'[u] = session[u],
             InExecution(u) => isReentry'[job[u].lock] = isReentry[job[u].lock]
      PROVE  EntryFound(u)'
  BY <1>0, <1>1 DEF EntryFound, Asks, InExecution, Reenters, Entered, Entry
<1>2. ASSUME pc'[u] \in {"idle", "enter"} PROVE EntryFound(u)'
  BY <1>2 DEF EntryFound, InExecution
<1>3. ASSUME NEW t \in Threads, Carries(t) PROVE EntryFound(u)'
  <2>1. CASE u = t
    <3>1. pc'[u] = "idle" \/ (job'[u].lock = job[u].lock /\ ~isReentry'[job[u].lock])
      BY <1>3, <2>1 DEF Carries, Asks
    <3> QED
      BY <1>2, <3>1 DEF EntryFound, Asks
  <2>2. CASE u # t
    <3>1. pc'[u] = pc[u] /\ job'[u] = job[u] /\ session'[u] = session[u] /\ UNCHANGED isReentry
      BY <1>3, <2>2, SharedTypes DEF Carries, CloseLocalThread, PcType, SessionType
    <3> QED
      BY <1>1, <3>1
  <2> QED
    BY <2>1, <2>2
<1>4. ASSUME NEW t \in Threads, NEW b \in BOOLEAN, Obtains(t, b) PROVE EntryFound(u)'
  BY <1>1, <1>2, <1>4, SharedTypes DEF Obtains, PcType
<1>5. ASSUME NEW t \in Threads, NEW l \in Locks, NEW k \in Kinds, Begins(t, l, k)
      PROVE  EntryFound(u)'
  <2>1. CASE u = t /\ pc'[t] = "loop"
    <3>1. /\ job'[u].lock = l /\ job'[u].kind = k
          /\ isReentry'[l] => Reenters(u, l, k) /\ UNCHANGED session
      BY <1>5, <2>1, SharedTypes DEF Begins
    <3> QED
      BY <2>1, <3>1 DEF EntryFound, Asks, Reenters, Entered, Entry
  <2>2. CASE u = t /\ pc'[t] # "loop"
    BY <1>2, <1>5, <2>2 DEF Begins
  <2>3. CASE u # t
    <3>1. pc'[u] = pc[u] /\ job'[u] = job[u] /\ session'[u] = session[u]
      BY <1>5, <2>3, SharedTypes DEF Begins, PcType, SessionType
    <3>2. InExecution(u) => job[u].lock \in Locks /\ job[u].lock # l
      BY <1>5, <2>3, SharedTypes DEF Begins, EntersInnermost, InExecution
    <3>3. \A m \in Locks \ {l} : isReentry'[m] = isReentry[m]
      BY <1>5, SharedTypes DEF Begins
    <3> QED
      BY <1>1, <3>1, <3>2, <3>3
  <2> QED
    BY <2>1, <2>2, <2>3
<1>6. ASSUME NEW t \in Threads, NEW l \in Locks, ReadEnters(t, l) PROVE EntryFound(u)'
  BY <1>1, <1>2, <1>6, SharedTypes DEF ReadEnters, PcType
<1>7. ASSUME NEW t \in Threads, NEW l \in Locks, Ends(t, l) PROVE EntryFound(u)'
  <2>1. CASE u = t
    BY <1>2, <1>7, <2>1 DEF Ends
  <2>2. CASE u # t
    <3>1. UNCHANGED <<pc, job, isReentry>> /\ session'[u] = session[u]
      BY <1>7, <2>2, SharedTypes DEF Ends, CloseLocalThread, SessionType
    <3> QED
      BY <1>1, <3>1
  <2> QED
    BY <2>1, <2>2
<1>8. CASE UNCHANGED blockVars \/ \E c \in Clients : Expires(c)
  BY <1>1, <1>8 DEF blockVars, Expires
<1> QED
  BY <1>3, <1>4, <1>5, <1>6, <1>7, <1>8, ClientSteps DEF Kinds

\* What entering a block does to the blocks of every thread.
LEMMA EnteredFrames ==
  ASSUME ClientTypeOK, NEW t \in Threads, NEW l \in Locks, EntersInnermost(t, l)
  PROVE  /\ \A u \in Threads \ {t} : frames'[u] = frames[u]
         /\ \A i \in DOMAIN frames[t] : i \in DOMAIN frames'[t] /\ frames'[t][i] = frames[t][i]
         /\ \A i \in DOMAIN frames'[t] :
               \/ i \in DOMAIN frames[t] /\ frames'[t][i] = frames[t][i] /\ i < Len(frames'[t])
               \/ i = Len(frames'[t]) /\ frames'[t][i] = l
         /\ \A i \in DOMAIN frames'[t] : frames'[t][i] = l <=> i = Len(frames'[t])
<1>1. /\ \A u \in Threads \ {t} : frames'[u] = frames[u]
      /\ DOMAIN frames'[t] = 1 .. Len(frames'[t]) /\ Len(frames'[t]) \in Nat \ {0}
      /\ frames'[t][Len(frames'[t])] = l
  BY SharedTypes DEF EntersInnermost
<1>2. ASSUME NEW i \in DOMAIN frames'[t]
      PROVE  \/ /\ i \in DOMAIN frames[t] /\ frames'[t][i] = frames[t][i]
                /\ i < Len(frames'[t]) /\ frames'[t][i] # l
             \/ i = Len(frames'[t]) /\ frames'[t][i] = l
  <2>1. i = Len(frames'[t]) \/ (i \in 1 .. Len(frames'[t]) - 1 /\ i < Len(frames'[t]))
    BY <1>1
  <2> QED
    BY <1>1, <2>1 DEF EntersInnermost
<1>3. \A i \in DOMAIN frames[t] : i \in DOMAIN frames'[t] /\ frames'[t][i] = frames[t][i]
  BY DEF EntersInnermost
<1> QED
  BY <1>1, <1>2, <1>3

LEMMA EndedFrames ==
  ASSUME ClientTypeOK, NEW t \in Threads, NEW l \in Locks, Ends(t, l)
  PROVE  \A u \in Threads :
            /\ \A i \in DOMAIN frames'[u] : i \in DOMAIN frames[u] /\ frames'[u][i] = frames[u][i]
            /\ \A i \in DOMAIN frames[u] : frames[u][i] # l => i \in DOMAIN frames'[u]
<1> SUFFICES ASSUME NEW u \in Threads
             PROVE  /\ \A i \in DOMAIN frames'[u] : i \in DOMAIN frames[u] /\ frames'[u][i] = frames[u][i]
                    /\ \A i \in DOMAIN frames[u] : frames[u][i] # l => i \in DOMAIN frames'[u]
  OBVIOUS
<1>1. CASE u # t
  BY <1>1, SharedTypes DEF Ends
<1>2. CASE u = t
  BY <1>2 DEF Ends
<1> QED
  BY <1>1, <1>2

LEMMA ApartNext ==
  ASSUME ClientTypeOK, SharedInv, [ClientNext]_clientVars
  PROVE  BlocksApart'
<1> SUFFICES ASSUME NEW u \in Threads, NEW v \in Threads, u # v,
                    NEW i \in DOMAIN frames'[u], NEW j \in DOMAIN frames'[v]
             PROVE  frames'[u][i] # frames'[v][j]
  BY DEF BlocksApart
<1>0. i \in DOMAIN frames[u] /\ j \in DOMAIN frames[v] => frames[u][i] # frames[v][j]
  BY DEF SharedInv, BlocksApart
<1>1. ASSUME NEW t \in Threads, NEW l \in Locks, EntersInnermost(t, l)
      PROVE  frames'[u][i] # frames'[v][j]
  <2>1. \A w \in Threads \ {t} : \A k \in DOMAIN frames[w] : frames[w][k] # l
    BY <1>1 DEF EntersInnermost
  <2> QED
    BY <1>0, <1>1, <2>1, EnteredFrames
<1>2. ASSUME NEW t \in Threads, NEW l \in Locks, Ends(t, l)
      PROVE  frames'[u][i] # frames'[v][j]
  BY <1>0, <1>2, EndedFrames
<1>3. CASE UNCHANGED frames
  BY <1>0, <1>3
<1> QED
  BY <1>1, <1>2, <1>3, ClientSteps DEF blockVars, Carries, Obtains, Begins, ReadEnters, Expires

LEMMA HoldsNext ==
  ASSUME ClientTypeOK, SharedInv, [ClientNext]_clientVars
  PROVE  HoldsInBlocks'
<1>0. /\ HoldsInBlocks
      /\ \A h \in held : h.thread \in Threads /\ h.lock \in Locks
  BY SharedTypes DEF SharedInv
<1>1. ASSUME NEW t \in Threads, Carries(t) PROVE HoldsInBlocks'
  <2>1. /\ UNCHANGED <<isReentry, held, frames>> /\ pc[t] # "idle"
        /\ pc'[t] = "idle" \/ job'[t].lock = job[t].lock
    BY <1>1 DEF Carries, Asks, InExecution
  <2>2. \A u \in Threads : pc'[u] # "idle" => pc[u] # "idle" /\ job'[u].lock = job[u].lock
    BY <1>1, <2>1, SharedTypes DEF Carries, PcType
  <2> QED
    BY <1>0, <2>1, <2>2 DEF HoldsInBlocks
<1>2. ASSUME NEW t \in Threads, NEW b \in BOOLEAN, Obtains(t, b) PROVE HoldsInBlocks'
  <2> DEFINE new == [thread |-> t, lock |-> job[t].lock, kind |-> job[t].kind, base |-> b]
  <2>1. /\ UNCHANGED <<isReentry, frames>> /\ held' = held \cup {new} /\ pc[t] # "idle"
        /\ b <=> ~isReentry[job[t].lock]
    BY <1>2 DEF Obtains, InExecution
  <2>2. \A u \in Threads : pc'[u] # "idle" => u # t /\ pc[u] # "idle" /\ job'[u].lock = job[u].lock
    BY <1>2, SharedTypes DEF Obtains, PcType
  <2>3. /\ \E i \in DOMAIN frames[t] : frames[t][i] = job[t].lock
        /\ \A h \in held : h.lock # job[t].lock
    BY <2>1, Calling
  <2>4. ASSUME NEW h \in held'
        PROVE  /\ \E i \in DOMAIN frames'[h.thread] : frames'[h.thread][i] = h.lock
               /\ pc'[h.thread] # "idle" => job'[h.thread].lock # h.lock
               /\ h.base <=> ~isReentry'[h.lock]
    <3>1. CASE h \in held
      BY <1>0, <2>1, <2>2, <3>1 DEF HoldsInBlocks
    <3>2. CASE h = new
      BY <2>1, <2>2, <2>3, <3>2
    <3> QED
      BY <2>1, <3>1, <3>2
  <2>5. ASSUME NEW g \in held', NEW h \in held', g.lock = h.lock PROVE g = h
    <3>1. (g \in held \/ g = new) /\ (h \in held \/ h = new) /\ new.lock = job[t].lock
      BY <2>1
    <3> HIDE DEF new
    <3> QED
      BY <1>0, <2>3, <2>5, <3>1 DEF HoldsInBlocks
  <2> QED
    BY <2>4, <2>5 DEF HoldsInBlocks
<1>3. ASSUME NEW t \in Threads, NEW l \in Locks, NEW k \in Kinds, Begins(t, l, k)
      PROVE  HoldsInBlocks'
  <2>1. /\ EntersInnermost(t, l) /\ UNCHANGED held
        /\ \A h \in held : h.lock # l
        /\ \A m \in Locks \ {l} : isReentry'[m] = isReentry[m]
    BY <1>3, SharedTypes DEF Begins, EntersInnermost
  <2>2. \A u \in Threads : pc'[u] # "idle" =>
           \/ u = t /\ job'[u].lock = l
           \/ pc[u] # "idle" /\ job'[u].lock = job[u].lock
    BY <1>3, SharedTypes DEF Begins, PcType
  <2> QED
    BY <1>0, <2>1, <2>2, EnteredFrames DEF HoldsInBlocks
<1>4. ASSUME NEW t \in Threads, NEW l \in Locks, ReadEnters(t, l) PROVE HoldsInBlocks'
  <2>1. EntersInnermost(t, l) /\ UNCHANGED <<isReentry, held>> /\ \A h \in held : h.lock # l
    BY <1>4 DEF ReadEnters, EntersInnermost
  <2>2. \A u \in Threads : pc'[u] # "idle" =>
           \/ u = t /\ job'[u].lock = l
           \/ pc[u] # "idle" /\ job'[u].lock = job[u].lock
    BY <1>4, SharedTypes DEF ReadEnters, PcType
  <2> QED
    BY <1>0, <2>1, <2>2, EnteredFrames DEF HoldsInBlocks
<1>5. ASSUME NEW t \in Threads, NEW l \in Locks, Ends(t, l) PROVE HoldsInBlocks'
  <2>1. held' = {h \in held : h.lock # l} /\ UNCHANGED <<isReentry, pc, job>>
    BY <1>5 DEF Ends
  <2> QED
    BY <1>0, <1>5, <2>1, EndedFrames DEF HoldsInBlocks
<1>6. CASE UNCHANGED blockVars \/ \E c \in Clients : Expires(c)
  BY <1>0, <1>6 DEF blockVars, Expires, HoldsInBlocks
<1> QED
  BY <1>1, <1>2, <1>3, <1>4, <1>5, <1>6, ClientSteps DEF Kinds

\* The hold that h rests on is in a block around its own, seen from the blocks f.
RestsOn(h, g, f) ==
    /\ g.thread = h.thread /\ ResOf[g.lock] = ResOf[h.lock]
    /\ g.base
    /\ h.kind = "write" => g.kind = "write"
    /\ \A i, j \in DOMAIN f : f[i] = g.lock /\ f[j] = h.lock => i < j

LEMMA InsideNext ==
  ASSUME ClientTypeOK, SharedInv, [ClientNext]_clientVars
  PROVE  ReentryInside'
<1> SUFFICES ASSUME NEW h \in held', ~h.base
             PROVE  \E g \in held' : RestsOn(h, g, frames'[h.thread])
  BY DEF ReentryInside, RestsOn
<1>0. ASSUME h \in held
      PROVE  \E g \in held : RestsOn(h, g, frames[h.thread])
  BY <1>0 DEF SharedInv, ReentryInside, RestsOn
<1>1. CASE h \in held /\ held \subseteq held' /\ UNCHANGED frames
  BY <1>0, <1>1
<1>2. ASSUME NEW t \in Threads, NEW b \in BOOLEAN, Obtains(t, b)
      PROVE  \E g \in held' : RestsOn(h, g, frames'[h.thread])
  <2> DEFINE l == job[t].lock
             k == job[t].kind
  <2>1. held \subseteq held' /\ UNCHANGED frames /\ pc[t] # "idle"
    BY <1>2 DEF Obtains, InExecution
  <2>2. CASE h \notin held
    <3>1. /\ h.thread = t /\ h.lock = l /\ h.kind = k
          /\ InExecution(t) /\ ~Asks(t)
      BY <1>2, <2>2 DEF Obtains, Asks
    <3>2. Reenters(t, l, k)
      BY <3>1 DEF SharedInv, EntryFound
    <3>3. PICK e \in session[t] : e = Entry(l, "write") \/ (k = "read" /\ e = Entry(l, "read"))
      BY <3>2 DEF Reenters, Entered
    <3>4. PICK g \in held : g.thread = t /\ g.base /\ Entry(g.lock, g.kind) = e
      BY <3>1, <3>3 DEF SharedInv, EntriesEarned
    <3>5. ResOf[g.lock] = ResOf[l] /\ (k = "write" => g.kind = "write") /\ g.lock # l
      BY <2>1, <3>3, <3>4, Calling DEF Entry
    <3>6. ASSUME NEW i \in DOMAIN frames[t], NEW j \in DOMAIN frames[t],
                 frames[t][i] = g.lock, frames[t][j] = l
          PROVE  i < j
      <4>1. Len(frames[t]) \in Nat \ {0} /\ DOMAIN frames[t] = 1 .. Len(frames[t])
        BY <2>1, Calling
      <4>2. ~(j < Len(frames[t])) /\ i # j
        BY <2>1, <3>5, <3>6, Calling
      <4> QED
        BY <4>1, <4>2
    <3>7. RestsOn(h, g, frames'[h.thread])
      BY <2>1, <3>1, <3>4, <3>5, <3>6 DEF RestsOn
    <3> QED
      BY <2>1, <3>7
  <2> QED
    BY <1>1, <2>1, <2>2
<1>3. ASSUME NEW t \in Threads, NEW l \in Locks, EntersInnermost(t, l), h \in held,
             held \subseteq held'
      PROVE  \E g \in held' : RestsOn(h, g, frames'[h.thread])
  <2>1. PICK g \in held : RestsOn(h, g, frames[h.thread])
    BY <1>0, <1>3
  <2>2. h.lock # l /\ g.lock # l /\ h.thread \in Threads
    BY <1>3, SharedTypes DEF EntersInnermost
  <2>3. RestsOn(h, g, frames'[h.thread])
    BY <1>3, <2>1, <2>2, EnteredFrames DEF RestsOn
  <2> QED
    BY <1>3, <2>1, <2>3
<1>4. ASSUME NEW t \in Threads, NEW l \in Locks, NEW k \in Kinds, Begins(t, l, k)
      PROVE  \E g \in held' : RestsOn(h, g, frames'[h.thread])
  BY <1>3, <1>4 DEF Begins
<1>5. ASSUME NEW t \in Threads, NEW l \in Locks, ReadEnters(t, l)
      PROVE  \E g \in held' : RestsOn(h, g, frames'[h.thread])
  BY <1>3, <1>5 DEF ReadEnters
<1>6. ASSUME NEW t \in Threads, NEW l \in Locks, Ends(t, l)
      PROVE  \E g \in held' : RestsOn(h, g, frames'[h.thread])
  <2>1. h \in held /\ h.lock # l /\ held' = {x \in held : x.lock # l}
    BY <1>6 DEF Ends
  <2>2. PICK g \in held : RestsOn(h, g, frames[h.thread])
    BY <1>0, <2>1
  <2>3. g.lock # l
    <3>1. SUFFICES ASSUME g.lock = l PROVE FALSE
      OBVIOUS
    <3>2. g.thread = t /\ h.thread = t
      BY <1>6, <2>2, <3>1 DEF Ends, RestsOn
    <3>3. PICK j \in DOMAIN frames[t] : frames[t][j] = h.lock
      BY <2>1, <3>2 DEF SharedInv, HoldsInBlocks
    <3>4. /\ Len(frames[t]) \in DOMAIN frames[t] /\ frames[t][Len(frames[t])] = l
          /\ ~(Len(frames[t]) < j)
      BY <1>6, <3>3 DEF Ends
    <3> QED
      BY <2>2, <3>1, <3>2, <3>3, <3>4 DEF RestsOn
  <2>4. RestsOn(h, g, frames'[h.thread])
    <3>1. h.thread \in Threads
      BY <2>1, SharedTypes
    <3> QED
      BY <1>6, <2>2, <3>1, EndedFrames DEF RestsOn
  <2> QED
    BY <2>1, <2>3, <2>4
<1> QED
  BY <1>1, <1>2, <1>4, <1>5, <1>6, ClientSteps DEF blockVars, Carries, Expires, Kinds

LEMMA EarnedNext ==
  ASSUME ClientTypeOK, SharedInv, [ClientNext]_clientVars
  PROVE  EntriesEarned'
<1> DEFINE Earned(u, e) ==
        \/ \E h \in held' : h.thread = u /\ h.base /\ Entry(h.lock, h.kind) = e
        \/ Asks(u)' /\ Entry(job'[u].lock, job'[u].kind) = e
<1> SUFFICES ASSUME NEW u \in Threads, NEW e \in session'[u] PROVE Earned(u, e)
  BY DEF EntriesEarned, Entry
<1>0. e \in session[u] =>
        \/ \E h \in held : h.thread = u /\ h.base /\ Entry(h.lock, h.kind) = e
        \/ Asks(u) /\ Entry(job[u].lock, job[u].kind) = e
  BY DEF SharedInv, EntriesEarned
<1>1. ASSUME NEW t \in Threads, Carries(t) PROVE Earned(u, e)
  <2>1. UNCHANGED <<held, isReentry>> /\ InExecution(t) /\ ~isReentry[job[t].lock]
    BY <1>1 DEF Carries, Asks
  <2>2. CASE u # t
    <3>1. pc'[u] = pc[u] /\ job'[u] = job[u] /\ session'[u] = session[u]
      BY <1>1, <2>2, SharedTypes DEF Carries, CloseLocalThread, PcType, SessionType
    <3> QED
      BY <1>0, <2>1, <3>1 DEF Asks, InExecution
  <2>3. CASE u = t /\ InExecution(t)'
    <3>1. /\ InExecution(t)' /\ session'[t] = session[t]
          /\ job'[t].lock = job[t].lock /\ job'[t].kind = job[t].kind
      BY <1>1, <2>3 DEF Carries, InExecution
    <3> QED
      BY <1>0, <2>1, <2>3, <3>1 DEF Asks
  <2>4. CASE u = t /\ ~InExecution(t)'
    <3>1. CloseLocalThread(t, job[t].lock)
      BY <1>1, <2>4 DEF Carries
    <3>2. session'[t] = session[t] \ {Entry(job[t].lock, k) : k \in Kinds}
      BY <2>1, <3>1, SharedTypes DEF CloseLocalThread, SessionType
    <3>3. e \in session[t] /\ e # Entry(job[t].lock, job[t].kind)
      BY <2>1, <2>4, <3>2, Calling DEF InExecution
    <3> QED
      BY <1>0, <2>1, <2>4, <3>3
  <2> QED
    BY <2>2, <2>3, <2>4
<1>2. ASSUME NEW t \in Threads, NEW b \in BOOLEAN, Obtains(t, b) PROVE Earned(u, e)
  <2> DEFINE new == [thread |-> t, lock |-> job[t].lock, kind |-> job[t].kind, base |-> b]
  <2>1. /\ UNCHANGED <<session, isReentry>> /\ held' = held \cup {new}
        /\ b <=> Asks(t)
    BY <1>2 DEF Obtains, Asks
  <2>2. CASE u = t /\ Asks(t) /\ Entry(job[t].lock, job[t].kind) = e
    <3>1. new \in held' /\ new.thread = u /\ new.base /\ Entry(new.lock, new.kind) = e
      BY <2>1, <2>2
    <3> QED
      BY <3>1
  <2>3. u # t => pc'[u] = pc[u] /\ job'[u] = job[u]
    BY <1>2, SharedTypes DEF Obtains, PcType
  <2> HIDE DEF new
  <2> QED
    BY <1>0, <2>1, <2>2, <2>3 DEF Asks, InExecution
<1>3. ASSUME NEW t \in Threads, NEW l \in Locks, NEW k \in Kinds, Begins(t, l, k)
      PROVE  Earned(u, e)
  <2>1. UNCHANGED held /\ ~InExecution(t)
    BY <1>3 DEF Begins, InExecution
  <2>2. CASE u # t
    <3>1. pc'[u] = pc[u] /\ job'[u] = job[u] /\ session'[u] = session[u]
      BY <1>3, <2>2, SharedTypes DEF Begins, PcType, SessionType
    <3>2. InExecution(u) => job[u].lock \in Locks /\ job[u].lock # l
      BY <1>3, <2>2, SharedTypes DEF Begins, EntersInnermost, InExecution
    <3>3. \A m \in Locks \ {l} : isReentry'[m] = isReentry[m]
      BY <1>3, SharedTypes DEF Begins
    <3> QED
      BY <1>0, <2>1, <3>1, <3>2, <3>3 DEF Asks, InExecution
  <2>3. CASE u = t /\ e \in session[u]
    BY <1>0, <2>1, <2>3 DEF Asks
  <2>4. CASE u = t /\ e \notin session[u]
    <3>1. /\ e = Entry(l, k) /\ pc'[t] = "loop" /\ job'[t].lock = l /\ job'[t].kind = k
          /\ ~isReentry'[l]
      BY <1>3, <2>4, SharedTypes DEF Begins, SessionType
    <3> QED
      BY <2>4, <3>1 DEF Asks, InExecution
  <2> QED
    BY <2>2, <2>3, <2>4
<1>4. ASSUME NEW t \in Threads, NEW l \in Locks, ReadEnters(t, l) PROVE Earned(u, e)
  <2>1. u # t => pc'[u] = pc[u] /\ job'[u] = job[u]
    BY <1>4, SharedTypes DEF ReadEnters, PcType
  <2>2. UNCHANGED <<session, isReentry, held>> /\ ~InExecution(t)
    BY <1>4 DEF ReadEnters, InExecution
  <2> QED
    BY <1>0, <2>1, <2>2 DEF Asks, InExecution
<1>5. ASSUME NEW t \in Threads, NEW l \in Locks, Ends(t, l) PROVE Earned(u, e)
  <2>1. /\ held' = {h \in held : h.lock # l} /\ UNCHANGED <<isReentry, pc, job>>
        /\ CloseLocalThread(t, l)
        /\ \A h \in held : h.lock = l => h.thread = t
        /\ ~InExecution(t)
    BY <1>5 DEF Ends, InExecution
  <2>2. e \in session[u]
    BY <2>1, SharedTypes DEF CloseLocalThread, SessionType
  <2>3. ASSUME NEW h \in held, h.thread = u, h.base, Entry(h.lock, h.kind) = e PROVE h.lock # l
    <3>1. SUFFICES ASSUME h.lock = l PROVE FALSE
      OBVIOUS
    <3>2. u = t /\ ~isReentry[l] /\ h.kind \in Kinds
      BY <2>1, <2>3, <3>1 DEF SharedInv, HoldsInBlocks, ClientTypeOK, SharedTypeOK, Holds
    <3>3. session'[t] = session[t] \ {Entry(l, k) : k \in Kinds}
      BY <2>1, <3>2, SharedTypes DEF CloseLocalThread, SessionType
    <3> QED
      BY <2>3, <3>1, <3>2, <3>3
  <2> QED
    BY <1>0, <2>1, <2>2, <2>3 DEF Asks, InExecution
<1>6. CASE UNCHANGED blockVars \/ \E c \in Clients : Expires(c)
  BY <1>0, <1>6 DEF blockVars, Expires, Asks, InExecution
<1> QED
  BY <1>1, <1>2, <1>3, <1>4, <1>5, <1>6, ClientSteps DEF Kinds

\* The znodes of a step are those before it, but for the one the step creates.
LEMMA NodesOfStep ==
  ASSUME ClientTypeOK, NEW t \in Threads, Carries(t), NEW r \in Roots
  PROVE  /\ nextSeq[r] <= nextSeq'[r]
         /\ \A n \in children'[r] :
               \/ n \in children[r]
               \/ /\ n.lock = job[t].lock /\ n.kind = job[t].kind
                  /\ n.seq = nextSeq[r] /\ nextSeq'[r] = nextSeq[r] + 1
                  /\ n = [lock |-> job[t].lock, kind |-> job[t].kind, seq |-> nextSeq[r]]
                  /\ r = RootAt(t)
         /\ \A n \in children[r] : n \in children'[r] \/ n = NodeOf(t)
<1> USE SharedTypes
<1>1. RootAt(t) \in Roots
  BY DEF RootAt
<1>2. CASE UNCHANGED queueVars
  BY <1>2 DEF queueVars
<1>3. CASE AddNode(t)
  BY <1>1, <1>3 DEF AddNode, NodeOf
<1>4. CASE children' = [children EXCEPT ![RootAt(t)] = @ \ {NodeOf(t)}] /\ UNCHANGED nextSeq
  BY <1>1, <1>4
<1> QED
  BY <1>2, <1>3, <1>4 DEF Carries

LEMMA NumberedNext ==
  ASSUME ClientTypeOK, SharedInv, [ClientNext]_clientVars
  PROVE  NodesNumbered'
<1> DEFINE Fits(n) ==
        /\ step'[n.lock] # 1
        /\ \A h \in held' : h.lock = n.lock => h.kind = n.kind
        /\ \A u \in Threads : pc'[u] # "idle" /\ job'[u].lock = n.lock => job'[u].kind = n.kind
<1> SUFFICES ASSUME NEW r \in Roots
             PROVE  /\ \A n \in children'[r] : n.seq < nextSeq'[r] /\ Fits(n)
                    /\ \A m, n \in children'[r] : m.seq = n.seq => m = n
  BY DEF NodesNumbered
<1>0. /\ \A n \in children[r] :
            /\ n.lock \in Locks /\ n.seq \in Nat /\ n.seq < nextSeq[r]
            /\ step[n.lock] # 1
            /\ \A h \in held : h.lock = n.lock => h.kind = n.kind
            /\ \A u \in Threads : pc[u] # "idle" /\ job[u].lock = n.lock => job[u].kind = n.kind
      /\ \A m, n \in children[r] : m.seq = n.seq => m = n
      /\ nextSeq[r] \in Nat
  BY SharedTypes DEF SharedInv, NodesNumbered, Nodes
<1>1. ASSUME NEW t \in Threads, Carries(t)
      PROVE  /\ \A n \in children'[r] : n.seq < nextSeq'[r] /\ Fits(n)
             /\ \A m, n \in children'[r] : m.seq = n.seq => m = n
  <2>1. /\ UNCHANGED <<step, held>> /\ pc[t] # "idle"
        /\ \A u \in Threads : pc'[u] # "idle" =>
              pc[u] # "idle" /\ job'[u].lock = job[u].lock /\ job'[u].kind = job[u].kind
    BY <1>1, SharedTypes DEF Carries, Asks, InExecution, PcType
  <2>2. ASSUME NEW n \in children[r] PROVE Fits(n)
    BY <1>0, <2>1
  <2>3. ASSUME NEW n, n.lock = job[t].lock, n.kind = job[t].kind PROVE Fits(n)
    <3>1. step[job[t].lock] # 1
      BY <1>1, <2>1, Calling DEF Carries, Asks, InExecution, SharedInv, BlocksNest
    <3>2. \A u \in Threads \ {t} : pc[u] # "idle" => job[u].lock # job[t].lock
      BY <2>1, Calling
    <3>3. \A h \in held : h.lock # job[t].lock
      BY <2>1, Calling
    <3> QED
      BY <2>1, <2>3, <3>1, <3>2, <3>3
  <2> HIDE DEF Fits
  <2>4. /\ nextSeq'[r] \in Nat /\ nextSeq[r] <= nextSeq'[r]
        /\ \A n \in children'[r] :
              \/ n \in children[r]
              \/ /\ n.lock = job[t].lock /\ n.kind = job[t].kind
                 /\ n.seq = nextSeq[r] /\ nextSeq'[r] = nextSeq[r] + 1
                 /\ n = [lock |-> job[t].lock, kind |-> job[t].kind, seq |-> nextSeq[r]]
    <3>1. nextSeq' \in [Roots -> Nat]
      BY ClientTypeNext DEF ClientTypeOK, SharedTypeOK
    <3> QED
      BY <1>1, <3>1, NodesOfStep
  <2>5. \A n \in children'[r] : Fits(n)
    BY <2>2, <2>3, <2>4
  <2>6. \A n \in children'[r] : n.seq < nextSeq'[r]
    BY <1>0, <2>4
  <2>7. ASSUME NEW m \in children'[r], NEW n \in children'[r], m.seq = n.seq PROVE m = n
    <3>1. \A x \in children[r] : x.seq # nextSeq[r]
      BY <1>0
    <3> QED
      BY <1>0, <2>4, <2>7, <3>1
  <2> QED
    BY <2>5, <2>6, <2>7
<1>2. ASSUME \A n \in children[r] : Fits(n), UNCHANGED nextSeq, children'[r] \subseteq children[r]
      PROVE  /\ \A n \in children'[r] : n.seq < nextSeq'[r] /\ Fits(n)
             /\ \A m, n \in children'[r] : m.seq = n.seq => m = n
  <2> HIDE DEF Fits
  <2> QED
    BY <1>0, <1>2
<1>3. ASSUME NEW t \in Threads, NEW b \in BOOLEAN, Obtains(t, b), NEW n \in children[r]
      PROVE  Fits(n)
  <2> DEFINE new == [thread |-> t, lock |-> job[t].lock, kind |-> job[t].kind, base |-> b]
  <2>1. /\ UNCHANGED step /\ held' = held \cup {new} /\ pc[t] # "idle"
        /\ \A u \in Threads : pc'[u] # "idle" => pc[u] # "idle" /\ job'[u] = job[u]
    BY <1>3, SharedTypes DEF Obtains, InExecution, PcType
  <2>2. ASSUME NEW h \in held', h.lock = n.lock PROVE h.kind = n.kind
    BY <1>0, <2>1, <2>2
  <2> QED
    BY <1>0, <2>1, <2>2
<1>4. ASSUME NEW t \in Threads, NEW l \in Locks, NEW k \in Kinds, Begins(t, l, k),
             NEW n \in children[r]
      PROVE  Fits(n)
  <2>1. /\ step[l] = 1 /\ step' = [step EXCEPT ![l] = 2]
        /\ \A h \in held' : h \in held \/ h.lock = l
        /\ \A u \in Threads : pc'[u] # "idle" =>
              (pc[u] # "idle" /\ job'[u] = job[u]) \/ job'[u].lock = l
    BY <1>4, SharedTypes DEF Begins, EntersInnermost, PcType
  <2>2. n.lock # l /\ step'[n.lock] = step[n.lock]
    BY <1>0, <2>1, SharedTypes
  <2> QED
    BY <1>0, <2>1, <2>2
<1>5. ASSUME NEW t \in Threads, NEW l \in Locks, ReadEnters(t, l), NEW n \in children[r]
      PROVE  Fits(n)
  <2>1. /\ step[l] = 1 /\ UNCHANGED <<step, held>>
        /\ \A u \in Threads : pc'[u] # "idle" =>
              (pc[u] # "idle" /\ job'[u] = job[u]) \/ job'[u].lock = l
    BY <1>5, SharedTypes DEF ReadEnters, EntersInnermost, PcType
  <2>2. n.lock # l
    BY <1>0, <2>1
  <2> QED
    BY <1>0, <2>1, <2>2
<1>6. ASSUME NEW t \in Threads, NEW l \in Locks, Ends(t, l), NEW n \in children[r]
      PROVE  Fits(n)
  <2>1. /\ \A m \in Locks : step[m] # 1 => step'[m] # 1
        /\ held' \subseteq held /\ UNCHANGED <<pc, job>>
    BY <1>6, SharedTypes DEF Ends
  <2> QED
    BY <1>0, <2>1
<1>7. CASE UNCHANGED blockVars \/ \E c \in Clients : Expires(c)
  <2>1. /\ UNCHANGED <<step, held, pc, job, nextSeq>> /\ children'[r] \subseteq children[r]
    BY <1>7 DEF blockVars, queueVars, Expires
  <2> QED
    BY <1>0, <1>2, <2>1
<1> HIDE DEF Fits
<1>8. ASSUME NEW t \in Threads, NEW l \in Locks, NEW k \in Kinds, Begins(t, l, k)
      PROVE  UNCHANGED nextSeq /\ children'[r] \subseteq children[r]
  BY <1>8 DEF Begins, queueVars
<1>9. ASSUME NEW t \in Threads, NEW l \in Locks, ReadEnters(t, l) \/ Ends(t, l)
      PROVE  UNCHANGED nextSeq /\ children'[r] \subseteq children[r]
  BY <1>9 DEF ReadEnters, Ends, queueVars
<1>10. ASSUME NEW t \in Threads, NEW b \in BOOLEAN, Obtains(t, b)
       PROVE  UNCHANGED nextSeq /\ children'[r] \subseteq children[r]
  BY <1>10 DEF Obtains, queueVars
<1> QED
  BY <1>1, <1>2, <1>3, <1>4, <1>5, <1>6, <1>7, <1>8, <1>9, <1>10, ClientSteps DEF Kinds

LEMMA ListedNext ==
  ASSUME ClientTypeOK, SharedInv, [ClientNext]_clientVars
  PROVE  NodeListed'
<1> SUFFICES ASSUME NEW u \in Threads, pc'[u] = "list", ClientOf[u] \notin expired'
             PROVE  [lock |-> job'[u].lock, kind |-> job'[u].kind, seq |-> job'[u].seq]
                        \in children'[RootOf[job'[u].lock]]
  BY DEF NodeListed, Connected, NodeOf, RootAt
<1>0. pc[u] = "list" /\ Connected(u) => NodeOf(u) \in children[RootAt(u)]
  BY DEF SharedInv, NodeListed
<1>1. ASSUME NEW t \in Threads, Carries(t), u = t
      PROVE  [lock |-> job'[u].lock, kind |-> job'[u].kind, seq |-> job'[u].seq]
                 \in children'[RootOf[job'[u].lock]]
  <2>1. /\ AddNode(t) /\ job'[t] = [NodeOf(t) EXCEPT !.seq = nextSeq[RootAt(t)]]
    BY <1>1 DEF Carries
  <2>2. RootAt(t) \in Roots
    BY SharedTypes DEF RootAt
  <2>3. /\ job'[t].lock = job[t].lock /\ job'[t].kind = job[t].kind
        /\ job'[t].seq = nextSeq[RootAt(t)]
        /\ [lock |-> job[t].lock, kind |-> job[t].kind, seq |-> nextSeq[RootAt(t)]]
               \in children'[RootAt(t)]
    BY <2>1, <2>2, SharedTypes DEF AddNode, NodeOf
  <2> QED
    BY <1>1, <2>3 DEF RootAt
<1>2. ASSUME pc[u] = "list", job'[u] = job[u], Connected(u),
             NodeOf(u) \in children'[RootAt(u)]
      PROVE  [lock |-> job'[u].lock, kind |-> job'[u].kind, seq |-> job'[u].seq]
                 \in children'[RootOf[job'[u].lock]]
  BY <1>2 DEF NodeOf, RootAt
<1>3. ASSUME NEW t \in Threads, Carries(t), u # t
      PROVE  /\ pc[u] = "list" /\ job'[u] = job[u] /\ Connected(u)
             /\ NodeOf(u) \in children'[RootAt(u)]
  <2>1. pc[u] = "list" /\ job'[u] = job[u] /\ Connected(u) /\ pc[t] # "idle"
    BY <1>3, SharedTypes DEF Carries, Connected, PcType, Asks, InExecution
  <2>2. NodeOf(u) # NodeOf(t)
    <3>1. job[u].lock # job[t].lock
      BY <1>3, <2>1, Calling
    <3>2. NodeOf(u).lock = job[u].lock /\ NodeOf(t).lock = job[t].lock
      BY DEF NodeOf
    <3> QED
      BY <3>1, <3>2
  <2>3. RootAt(u) \in Roots
    BY SharedTypes DEF RootAt
  <2> QED
    BY <1>0, <1>3, <2>1, <2>2, <2>3, NodesOfStep
<1>4. ASSUME NEW t \in Threads, NEW l \in Locks,
             \/ \E b \in BOOLEAN : Obtains(t, b)
             \/ ReadEnters(t, l) \/ Ends(t, l) \/ \E k \in Kinds : Begins(t, l, k)
      PROVE  /\ pc[u] = "list" /\ job'[u] = job[u] /\ Connected(u)
             /\ NodeOf(u) \in children'[RootAt(u)]
  <2>1. UNCHANGED <<expired, queueVars>>
    BY <1>4 DEF Obtains, ReadEnters, Ends, Begins
  <2>2. pc[u] = "list" /\ job'[u] = job[u]
    BY <1>4, SharedTypes DEF Obtains, ReadEnters, Ends, Begins, PcType
  <2> QED
    BY <1>0, <2>1, <2>2 DEF queueVars, Connected
<1>5. ASSUME NEW c \in Clients, Expires(c)
      PROVE  /\ pc[u] = "list" /\ job'[u] = job[u] /\ Connected(u)
             /\ NodeOf(u) \in children'[RootAt(u)]
  <2>1. pc[u] = "list" /\ job'[u] = job[u] /\ Connected(u) /\ ClientOf[u] # c
    BY <1>5 DEF Expires, Connected
  <2>2. ZkOf[NodeOf(u).lock] = ClientOf[u]
    BY <2>1, Calling DEF NodeOf, Reaches
  <2>3. RootAt(u) \in Roots
    BY SharedTypes DEF RootAt
  <2> QED
    BY <1>0, <1>5, <2>1, <2>2, <2>3 DEF Expires
<1>6. CASE UNCHANGED blockVars
  BY <1>0, <1>2, <1>6 DEF blockVars, queueVars, Connected
<1>7. ASSUME NEW t \in Threads, Carries(t) \/ \E b \in BOOLEAN : Obtains(t, b)
      PROVE  [lock |-> job'[u].lock, kind |-> job'[u].kind, seq |-> job'[u].seq]
                 \in children'[RootOf[job'[u].lock]]
  <2>1. \E l \in Locks : TRUE
    BY LockAssumption
  <2> QED
    BY <1>1, <1>2, <1>3, <1>4, <1>7, <2>1
<1> QED
  BY <1>2, <1>4, <1>5, <1>6, <1>7, ClientSteps DEF Kinds

\* What HolderAhead says of one hold and the znodes q below its base path.
Leads(h, q) ==
    LET mine == {n \in q : n.lock = h.lock}
    IN  /\ mine # {}
        /\ \A n \in q \ mine :
              /\ <<ResOf[n.lock], ResOf[h.lock]>> \in NameContains
              /\ h.kind = "write" \/ n.kind = "write"
              => \E m \in mine : m.seq < n.seq

\* A hold keeps its place when its own znodes stay and others come later.
LEMMA LeadsStays ==
  ASSUME NEW h, NEW q, NEW p, Leads(h, q),
         \A n \in q : n.lock = h.lock => n \in p,
         \A n \in p : n \in q \/ (n.lock # h.lock /\ \A m \in q : m.seq < n.seq)
  PROVE  Leads(h, p)
<1>1. PICK m \in q : m.lock = h.lock
  BY DEF Leads
<1>2. m \in p
  BY <1>1
<1>3. ASSUME NEW n \in p, n.lock # h.lock,
             <<ResOf[n.lock], ResOf[h.lock]>> \in NameContains,
             h.kind = "write" \/ n.kind = "write"
      PROVE  \E x \in p : x.lock = h.lock /\ x.seq < n.seq
  <2>1. CASE n \in q
    BY <1>3, <2>1 DEF Leads
  <2>2. CASE n \notin q
    BY <1>1, <1>2, <1>3, <2>2
  <2> QED
    BY <2>1, <2>2
<1> QED
  BY <1>1, <1>2, <1>3 DEF Leads

\* Who is not beaten has no znode of another object ahead that counts.
LEMMA WinnerLeads ==
  ASSUME ClientTypeOK, SharedInv, NEW t \in Threads, pc[t] = "list", Connected(t), ~Beaten(t)
  PROVE  Leads([thread |-> t, lock |-> job[t].lock, kind |-> job[t].kind, base |-> TRUE],
               children[RootAt(t)])
<1> DEFINE l == job[t].lock
           k == job[t].kind
           q == children[RootAt(t)]
<1>1. /\ NodeOf(t) \in q /\ NodeOf(t).lock = l
      /\ l \in Locks /\ ResOf[l] \in Resources /\ RootAt(t) \in Roots
  BY LockAssumption, SharedTypes DEF SharedInv, NodeListed, NodeOf, RootAt
<1>2. /\ q \in SUBSET Nodes
      /\ \A m, n \in q : m.seq = n.seq => m = n
      /\ \A n \in q : n.seq \in Nat
  BY <1>1, SharedTypes DEF SharedInv, NodesNumbered, Nodes
<1>3. \A n \in q : n.lock = l => n \in InQueue(t)
  BY <1>1, LockAssumption DEF InQueue
<1>4. ASSUME NEW n \in q, n.lock # l, <<ResOf[n.lock], ResOf[l]>> \in NameContains,
             k = "write" \/ n.kind = "write"
      PROVE  \E m \in q : m.lock = l /\ m.seq < n.seq
  <2>1. n \in InQueue(t)
    BY <1>4 DEF InQueue
  <2>2. n \notin Rivals(t)
    BY <1>4 DEF Beaten
  <2>3. PICK m \in InQueue(t) : m.lock = l /\ ~(n.seq < m.seq)
    BY <2>1, <2>2 DEF Rivals
  <2>4. m \in q /\ m # n
    BY <1>4, <2>3 DEF InQueue
  <2>5. m.seq # n.seq /\ m.seq \in Nat /\ n.seq \in Nat
    BY <1>2, <1>4, <2>4
  <2> QED
    BY <2>3, <2>4, <2>5
<1> HIDE DEF l, k, q
<1> QED
  BY <1>1, <1>4 DEF Leads, l, k, q

LEMMA AheadNext ==
  ASSUME ClientTypeOK, SharedInv, [ClientNext]_clientVars
  PROVE  HolderAhead'
<1> SUFFICES ASSUME NEW h \in held', h.base, Alive(h.lock)'
             PROVE  Leads(h, children'[RootOf[h.lock]])
  BY DEF HolderAhead, Leads
<1> DEFINE r == RootOf[h.lock]
<1>0. ASSUME h \in held, Alive(h.lock)
      PROVE  /\ r \in Roots /\ h.lock \in Locks
             /\ Leads(h, children[r])
             /\ \A n \in children[r] : n.seq < nextSeq[r]
  BY <1>0, SharedTypes, LockAssumption DEF SharedInv, HolderAhead, Leads, NodesNumbered
<1>1. ASSUME h \in held, Alive(h.lock), \A n \in children[r] : n \in children'[r],
             \A n \in children'[r] : n \in children[r]
      PROVE  Leads(h, children'[r])
  BY <1>0, <1>1, LeadsStays
<1>2. ASSUME NEW t \in Threads, Carries(t) PROVE Leads(h, children'[r])
  <2>1. h \in held /\ Alive(h.lock) /\ pc[t] # "idle"
    BY <1>2 DEF Carries, Alive, Asks, InExecution
  <2>2. h.lock # job[t].lock
    BY <2>1, Calling
  <2>3. ASSUME NEW n \in children[r], n.lock = h.lock PROVE n \in children'[r]
    <3>1. n # NodeOf(t)
      BY <2>2, <2>3 DEF NodeOf
    <3> QED
      BY <1>0, <1>2, <2>1, <3>1, NodesOfStep
  <2>4. ASSUME NEW n \in children'[r], n \notin children[r]
        PROVE  n.lock # h.lock /\ \A m \in children[r] : m.seq < n.seq
    <3>1. n.lock = job[t].lock /\ n.seq = nextSeq[r]
      BY <1>0, <1>2, <2>1, <2>4, NodesOfStep
    <3> QED
      BY <1>0, <2>1, <2>2, <3>1
  <2> HIDE DEF r
  <2> QED
    BY <1>0, <2>1, <2>3, <2>4, LeadsStays DEF r
<1>3. ASSUME NEW t \in Threads, NEW b \in BOOLEAN, Obtains(t, b) PROVE Leads(h, children'[r])
  <2>1. UNCHANGED <<expired, children>>
    BY <1>3 DEF Obtains, queueVars
  <2>2. CASE h \in held
    BY <1>1, <2>1, <2>2 DEF Alive
  <2>3. CASE h \notin held
    <3>1. b /\ h = [thread |-> t, lock |-> job[t].lock, kind |-> job[t].kind, base |-> TRUE]
      BY <1>3, <2>3 DEF Obtains
    <3> QED
      BY <1>3, <2>1, <3>1, WinnerLeads DEF Obtains, RootAt
  <2> QED
    BY <2>2, <2>3
<1>4. ASSUME NEW t \in Threads, NEW l \in Locks,
             ReadEnters(t, l) \/ Ends(t, l) \/ \E k \in Kinds : Begins(t, l, k)
      PROVE  Leads(h, children'[r])
  <2>1. UNCHANGED <<expired, children>>
    BY <1>4 DEF ReadEnters, Ends, Begins, queueVars
  <2>2. h \in held
    BY <1>4 DEF ReadEnters, Ends, Begins
  <2> QED
    BY <1>1, <2>1, <2>2 DEF Alive
<1>5. ASSUME NEW c \in Clients, Expires(c) PROVE Leads(h, children'[r])
  <2>1. h \in held /\ Alive(h.lock) /\ ZkOf[h.lock] # c
    BY <1>5 DEF Expires, Alive
  <2>2. children'[r] = {n \in children[r] : ZkOf[n.lock] # c}
    BY <1>0, <1>5, <2>1 DEF Expires
  <2> HIDE DEF r
  <2> QED
    BY <1>0, <2>1, <2>2, LeadsStays DEF r
<1>6. CASE UNCHANGED blockVars
  BY <1>1, <1>6 DEF blockVars, queueVars, Alive
<1> QED
  BY <1>2, <1>3, <1>4, <1>5, <1>6, ClientSteps DEF Kinds

LEMMA SharedInvInit ==
  ASSUME ClientInit
  PROVE  SharedInv
<1>1. \A t \in Threads : frames[t] = << >> /\ pc[t] = "idle" /\ session[t] = {}
  BY DEF ClientInit, Init
<1>2. held = {} /\ \A r \in Roots : children[r] = {}
  BY DEF ClientInit, Init
<1>3. BlocksApart /\ \A t \in Threads : BlocksNest(t) /\ EntryFound(t)
  BY <1>1 DEF BlocksNest, EntryFound, InExecution, BlocksApart
<1>4. HoldsInBlocks /\ ReentryInside /\ HolderAhead
  BY <1>2 DEF HoldsInBlocks, ReentryInside, HolderAhead
<1>5. EntriesEarned /\ NodesNumbered /\ NodeListed
  BY <1>1, <1>2 DEF EntriesEarned, NodesNumbered, NodeListed
<1> QED
  BY <1>3, <1>4, <1>5 DEF SharedInv

LEMMA SharedInvNext ==
  ASSUME ClientTypeOK, SharedInv, [ClientNext]_clientVars
  PROVE  SharedInv'
<1>1. \A t \in Threads : BlocksNest(t)' /\ EntryFound(t)'
  BY NestNext, FoundNext
<1> QED
  BY <1>1, ApartNext, HoldsNext, InsideNext, EarnedNext, NumberedNext, ListedNext, AheadNext
  DEF SharedInv

(***************************************************************************)
(* Blocks, holds, entries and znodes agree in every state the clients can  *)
(* reach, whatever sessions end and whichever requests fail.               *)
(***************************************************************************)
THEOREM SharedInvariant == ClientSpec => []SharedInv
<1>1. ClientInit => ClientTypeOK
  BY SharedTypeInit DEF ClientInit, ClientTypeOK
<1> QED
  BY <1>1, ClientTypeNext, SharedInvInit, SharedInvNext, PTL DEF ClientSpec

(***************************************************************************)
(* The holder of a write lock stands at the head of its queue, the holder  *)
(* of a read lock behind no writer of another object.                      *)
(***************************************************************************)
THEOREM HolderAheadAlways == ClientSpec => []HolderAhead
<1>1. SharedInv => HolderAhead
  BY DEF SharedInv
<1> QED
  BY <1>1, SharedInvariant, PTL

(***************************************************************************)
(* Reentry never raises a reader to a writer.                              *)
(***************************************************************************)
THEOREM ReentryAlwaysSound == ClientSpec => []ReentrySound
<1>1. ASSUME ClientTypeOK, SharedInv PROVE ReentrySound
  <2>1. \A h \in held : h.kind \in Kinds
    BY <1>1 DEF ClientTypeOK, SharedTypeOK, Holds
  <2> QED
    BY <1>1, <2>1 DEF SharedInv, ReentryInside, ReentrySound, HoldsBase
<1> QED
  BY <1>1, SharedInvariant, SharedClientTypeCorrect, PTL
-----------------------------------------------------------------------------
\* A nonempty set of numbers has a least one.
LEMMA LeastNumber ==
  ASSUME NEW S \in SUBSET Nat, S # {}
  PROVE  \E x \in S : \A y \in S : x <= y
<1> DEFINE R == {ij \in Nat \X Nat : ij[1] < ij[2]}
<1>1. IsWellFoundedOn(R, Nat)
  BY NatLessThanWellFounded, Zenon DEF OpToRel
<1> HIDE DEF R
<1>2. PICK x \in S : \A y \in S : ~(<<y, x>> \in R)
  BY <1>1, WFMin
<1>3. ASSUME NEW y \in S PROVE x <= y
  <2>1. x \in Nat /\ y \in Nat
    OBVIOUS
  <2>2. <<y, x>> \in R <=> y < x
    BY <2>1 DEF R
  <2> QED
    BY <1>2, <2>1, <2>2
<1> QED
  BY <1>3

\* Two objects cannot each have a znode before every znode of the other.
LEMMA NoMutualLead ==
  ASSUME NEW A, NEW B, A # {}, \A a \in A : a.seq \in Nat, \A b \in B : b.seq \in Nat,
         \A a \in A : \E b \in B : b.seq < a.seq,
         \A b \in B : \E a \in A : a.seq < b.seq
  PROVE  FALSE
<1>1. PICK x \in {a.seq : a \in A} : \A y \in {a.seq : a \in A} : x <= y
  <2>1. {a.seq : a \in A} \in SUBSET Nat /\ {a.seq : a \in A} # {}
    OBVIOUS
  <2> QED
    BY <2>1, LeastNumber
<1>2. PICK a \in A : a.seq = x
  BY <1>1
<1>3. PICK b \in B : b.seq < a.seq
  OBVIOUS
<1>4. PICK c \in A : c.seq < b.seq
  OBVIOUS
<1>5. c.seq \in {d.seq : d \in A} /\ a.seq \in Nat /\ b.seq \in Nat /\ c.seq \in Nat
  OBVIOUS
<1>6. x <= c.seq
  BY <1>1, <1>5
<1> QED
  BY <1>2, <1>3, <1>4, <1>5, <1>6

(***************************************************************************)
(* Two calls that won in ZooKeeper on one base path, for two threads with  *)
(* live sessions, are not a writer and anybody else.                       *)
(***************************************************************************)
LEMMA WinnersShare ==
  ASSUME ClientTypeOK, SharedInv, NEW g \in held, NEW h \in held,
         g.thread # h.thread, g.base, h.base,
         ResOf[g.lock] = ResOf[h.lock], RootOf[g.lock] = RootOf[h.lock],
         Alive(g.lock), Alive(h.lock)
  PROVE  g.kind # "write"
<1> SUFFICES ASSUME g.kind = "write" PROVE FALSE
  OBVIOUS
<1> DEFINE q == children[RootOf[g.lock]]
           G == {n \in q : n.lock = g.lock}
           H == {n \in q : n.lock = h.lock}
<1>1. g.lock # h.lock
  BY DEF SharedInv, HoldsInBlocks
<1>2. /\ g.lock \in Locks /\ RootOf[g.lock] \in Roots /\ ResOf[g.lock] \in Resources
      /\ <<ResOf[g.lock], ResOf[g.lock]>> \in NameContains
  BY SharedTypes, LockAssumption
<1>3. /\ \A n \in q : n.seq \in Nat
      /\ \A n \in G : n.kind = "write"
  BY <1>2, SharedTypes DEF SharedInv, NodesNumbered, Nodes
<1>4. Leads(g, q) /\ Leads(h, q)
  BY DEF SharedInv, HolderAhead, Leads
<1>5. \A n \in H : \E m \in G : m.seq < n.seq
  BY <1>1, <1>2, <1>4 DEF Leads
<1>6. \A m \in G : \E n \in H : n.seq < m.seq
  BY <1>1, <1>2, <1>3, <1>4 DEF Leads
<1>7. H # {}
  BY <1>4 DEF Leads
<1> HIDE DEF q
<1> QED
  BY <1>3, <1>5, <1>6, <1>7, NoMutualLead

\* A hold rests on one that won in ZooKeeper, of the same thread and handle.
LEMMA Rests ==
  ASSUME ClientTypeOK, SharedInv, NEW h \in held
  PROVE  \E b \in held : /\ b.thread = h.thread /\ b.base
                         /\ ResOf[b.lock] = ResOf[h.lock]
                         /\ ZkOf[b.lock] = ZkOf[h.lock]
                         /\ h.kind = "write" => b.kind = "write"
<1>1. PICK b \in held : /\ b.thread = h.thread /\ b.base
                        /\ ResOf[b.lock] = ResOf[h.lock]
                        /\ h.kind = "write" => b.kind = "write"
  BY DEF SharedInv, ReentryInside
<1>2. ASSUME NEW x \in held PROVE ZkOf[x.lock] = ClientOf[x.thread]
  <2>1. x.thread \in Threads
    BY SharedTypes
  <2> QED
    BY <2>1 DEF SharedInv, HoldsInBlocks, BlocksNest, Reaches
<1> QED
  BY <1>1, <1>2

\* A resource is locked below one base path: the session entries do not tell
\* two base paths apart, so with two of them a thread reenters a lock it lacks.
OnePathPerResource ==
    \A l, m \in Locks : ResOf[l] = ResOf[m] => RootOf[l] = RootOf[m]

(***************************************************************************)
(* SharedLock.java: "while one thread has the write state no other has the *)
(* lock", for locks used in blocks on one base path per resource.          *)
(***************************************************************************)
THEOREM SharedExclusionHolds ==
  ASSUME OnePathPerResource
  PROVE  ClientSpec => []SharedExclusion
<1>1. ASSUME ClientTypeOK, SharedInv,
             NEW g \in held, NEW h \in held, g.thread # h.thread,
             ResOf[g.lock] = ResOf[h.lock], Alive(g.lock), Alive(h.lock)
      PROVE  g.kind # "write"
  <2>1. PICK a \in held : /\ a.thread = g.thread /\ a.base
                          /\ ResOf[a.lock] = ResOf[g.lock]
                          /\ ZkOf[a.lock] = ZkOf[g.lock]
                          /\ g.kind = "write" => a.kind = "write"
    BY <1>1, Rests
  <2>2. PICK b \in held : /\ b.thread = h.thread /\ b.base
                          /\ ResOf[b.lock] = ResOf[h.lock]
                          /\ ZkOf[b.lock] = ZkOf[h.lock]
    BY <1>1, Rests
  <2>3. /\ a.thread # b.thread /\ ResOf[a.lock] = ResOf[b.lock]
        /\ Alive(a.lock) /\ Alive(b.lock)
    BY <1>1, <2>1, <2>2 DEF Alive
  <2>4. RootOf[a.lock] = RootOf[b.lock]
    BY <1>1, <2>3, SharedTypes DEF OnePathPerResource
  <2>5. a.kind # "write"
    BY <1>1, <2>1, <2>2, <2>3, <2>4, WinnersShare
  <2> QED
    BY <2>1, <2>5
<1>2. ASSUME ClientTypeOK, SharedInv PROVE SharedExclusion
  <2>1. \A h \in held : h.kind \in {"read", "write"}
    BY <1>2 DEF ClientTypeOK, SharedTypeOK, Holds, Kinds
  <2> QED
    BY <1>1, <1>2, <2>1 DEF SharedExclusion
<1> QED
  BY <1>2, SharedInvariant, SharedClientTypeCorrect, PTL
=============================================================================
