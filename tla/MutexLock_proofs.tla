--------------------------- MODULE MutexLock_proofs ---------------------------
(***************************************************************************)
(* Proofs about ZookeeperMutexLock with free callers, for every number of  *)
(* threads, handles, locks, resources, prefixes and tries.                 *)
(***************************************************************************)
EXTENDS MutexLock, ZKPathUtil_proofs

LEMMA TypeInit == Init => MutexTypeOK
<1> SUFFICES ASSUME Init PROVE MutexTypeOK
  OBVIOUS
<1>1. PathTypeOK
  BY NoCallType DEF Init, PathTypeOK
<1> QED
  BY <1>1 DEF Init, MutexTypeOK

LEMMA LeaveLockType ==
  ASSUME MutexTypeOK, NEW t \in Threads,
         NEW result \in {"held", "refused"}, LeaveLock(t, result)
  PROVE  /\ pc' \in [Threads -> {"idle", "init", "execute", "sleep"}]
         /\ cur' \in [Threads -> Locks \cup {NoLock}]
         /\ outcome' \in [Locks -> {"new", "locking", "held", "refused", "released"}]
  BY DEF MutexTypeOK, LeaveLock

LEMMA CloseType ==
  ASSUME MutexTypeOK, NEW t \in Threads, NEW l, CloseLocalThread(t, l)
  PROVE  session' \in [Threads -> SUBSET Resources]
<1>1. CASE isReentry[l]
  BY <1>1 DEF MutexTypeOK, CloseLocalThread
<1>2. CASE ~isReentry[l]
  <2>1. session' = [session EXCEPT ![t] = session[t] \ {ResOf[l]}]
    BY <1>2 DEF CloseLocalThread
  <2>2. session[t] \ {ResOf[l]} \in SUBSET Resources
    BY DEF MutexTypeOK
  <2> QED
    BY <2>1, <2>2 DEF MutexTypeOK
<1> QED
  BY <1>1, <1>2

LEMMA CreateThrowsType ==
  ASSUME MutexTypeOK, NEW t \in Threads, CreateThrows(t)
  PROVE  znode' \in [Resources -> Locks \cup {NoLock}]
  BY DEF MutexTypeOK, CreateThrows

LEMMA CountTryType ==
  ASSUME MutexTypeOK, NEW t \in Threads, CountTry(t)
  PROVE  tryCount' \in [Locks -> Nat]
<1>1. CASE cur[t] \in Locks
  BY <1>1 DEF MutexTypeOK, CountTry
<1>2. CASE cur[t] \notin Locks
  BY <1>2 DEF MutexTypeOK, CountTry
<1> QED
  BY <1>1, <1>2

LEMMA TypeNext == MutexTypeOK /\ [Next]_vars => MutexTypeOK'
<1> SUFFICES ASSUME MutexTypeOK, [Next]_vars PROVE MutexTypeOK'
  OBVIOUS
<1>0. PathTypeOK
  BY DEF MutexTypeOK
<1>1. ASSUME NEW t \in Threads, InitPath(t) PROVE MutexTypeOK'
  <2>1. PathStep(t) /\ UNCHANGED <<expired, lockVars>>
    BY <1>1 DEF InitPath
  <2>2. PathTypeOK'
    BY <1>0, <2>1, PathStepType
  <2> QED
    BY <2>1, <2>2 DEF MutexTypeOK, lockVars
<1>2. ASSUME NEW t \in Threads, InitDone(t) PROVE MutexTypeOK'
  <2>1. PathTypeOK'
    BY <1>0, <1>2, PathReturnType DEF InitDone
  <2>2. CASE LeaveLock(t, "held")
    BY <1>2, <2>1, <2>2, LeaveLockType DEF InitDone, MutexTypeOK
  <2>3. CASE pc' = [pc EXCEPT ![t] = "execute"] /\ UNCHANGED <<cur, outcome>>
    BY <1>2, <2>1, <2>3 DEF InitDone, MutexTypeOK
  <2> QED
    BY <1>2, <2>2, <2>3 DEF InitDone
<1>3. ASSUME NEW t \in Threads, InitThrows(t) PROVE MutexTypeOK'
  <2>1. PathTypeOK'
    BY <1>0, <1>3, PathReturnType DEF InitThrows
  <2> QED
    BY <1>3, <2>1, LeaveLockType DEF InitThrows, MutexTypeOK
<1>4. ASSUME NEW t \in Threads, ExecuteOk(t) PROVE MutexTypeOK'
  <2>1. znode' \in [Resources -> Locks \cup {NoLock}]
    BY <1>4 DEF ExecuteOk, MutexTypeOK
  <2> QED
    BY <1>4, <2>1, LeaveLockType, CountTryType DEF ExecuteOk, MutexTypeOK, PathTypeOK
<1>5. ASSUME NEW t \in Threads, ExecuteRefused(t) PROVE MutexTypeOK'
  BY <1>5, LeaveLockType, CountTryType, CloseType, CreateThrowsType
     DEF ExecuteRefused, MutexTypeOK, PathTypeOK
<1>6. ASSUME NEW t \in Threads, ExecuteRetry(t) PROVE MutexTypeOK'
  BY <1>6, CountTryType, CreateThrowsType DEF ExecuteRetry, MutexTypeOK, PathTypeOK
<1>7. ASSUME NEW t \in Threads, WakeUp(t) PROVE MutexTypeOK'
  BY <1>7 DEF WakeUp, MutexTypeOK, PathTypeOK
<1>8. ASSUME NEW t \in Threads, NEW l \in Locks, Lock(t, l) PROVE MutexTypeOK'
  <2>1. ResOf[l] \in Resources /\ RootOf[ResOf[l]] \in Roots
    BY LockAssumption
  <2>2. PathTypeOK'
    BY <1>0, <1>8, <2>1, PathBeginType DEF Lock
  <2>3. session' \in [Threads -> SUBSET Resources]
    BY <1>8, <2>1 DEF Lock, AddEntry, MutexTypeOK
  <2>4. isReentry' \in [Locks -> BOOLEAN]
    <3>1. HasEntry(t, l) \in BOOLEAN
      BY DEF HasEntry
    <3>2. isReentry' = [isReentry EXCEPT ![l] = HasEntry(t, l)]
      BY <1>8 DEF Lock
    <3> QED
      BY <3>1, <3>2, Zenon DEF MutexTypeOK
  <2>5. /\ step' = [step EXCEPT ![l] = 2]
        /\ pc' = [pc EXCEPT ![t] = "init"]
        /\ cur' = [cur EXCEPT ![t] = l]
        /\ outcome' = [outcome EXCEPT ![l] = "locking"]
        /\ caller' = [caller EXCEPT ![l] = t]
        /\ UNCHANGED <<tryCount, znode>>
    BY <1>8 DEF Lock
  <2> QED
    BY <2>2, <2>3, <2>4, <2>5 DEF MutexTypeOK
<1>9. ASSUME NEW t \in Threads, NEW l \in Locks, Release(t, l) PROVE MutexTypeOK'
  BY <1>9, CloseType DEF Release, MutexTypeOK, PathTypeOK
<1>10. ASSUME NEW c \in Clients, SessionEnd(c) PROVE MutexTypeOK'
  <2>1. znode' \in [Resources -> Locks \cup {NoLock}]
    BY <1>10 DEF SessionEnd, MutexTypeOK
  <2> QED
    BY <1>10, <2>1 DEF SessionEnd, MutexTypeOK, PathTypeOK
<1>11. CASE UNCHANGED vars
  BY <1>11 DEF vars, lockVars, MutexTypeOK, PathTypeOK
<1> QED
  BY <1>1, <1>2, <1>3, <1>4, <1>5, <1>6, <1>7, <1>8, <1>9, <1>10, <1>11 DEF Next, InLock

(***************************************************************************)
(* Every variable of the lock keeps its type: the step of an object never  *)
(* leaves 1 .. 3, a session only holds resources, and a call inside        *)
(* createPersistentPath is at a prefix that exists in its path.            *)
(***************************************************************************)
THEOREM TypeCorrect == Spec => []MutexTypeOK
  BY TypeInit, TypeNext, PTL DEF Spec
-----------------------------------------------------------------------------
(***************************************************************************)
(* LockInv is inductive.  One lemma per part.                              *)
(***************************************************************************)
LEMMA PrefixesNext ==
  ASSUME MutexTypeOK, PrefixesMade, [Next]_vars
  PROVE  PrefixesMade'
<1>0. PathTypeOK
  BY DEF MutexTypeOK
<1>1. ASSUME NEW t \in Threads, InitPath(t) PROVE PrefixesMade'
  BY <1>0, <1>1, PathStepPrefixes DEF InitPath
<1>2. ASSUME NEW t \in Threads, NEW c, mkpath' = [mkpath EXCEPT ![t] = c],
             \/ c = NoCall
             \/ \E r \in Roots : c = [root |-> r, at |-> 1, st |-> "exists"],
             UNCHANGED paths
      PROVE  PrefixesMade'
  BY <1>0, <1>2, NoCallType DEF PathTypeOK, PrefixesMade, PathReady
<1>3. ASSUME UNCHANGED <<paths, mkpath>> PROVE PrefixesMade'
  BY <1>3 DEF PrefixesMade, PathReady
<1>4. ASSUME NEW t \in Threads, PathReturn(t), UNCHANGED paths PROVE PrefixesMade'
  BY <1>2, <1>4 DEF PathReturn
<1>5. ASSUME NEW t \in Threads, InLock(t) PROVE PrefixesMade'
  BY <1>1, <1>3, <1>4, <1>5
     DEF InLock, InitDone, InitThrows, ExecuteOk, ExecuteRefused, ExecuteRetry, WakeUp
<1>6. ASSUME NEW t \in Threads, NEW l \in Locks, Lock(t, l) PROVE PrefixesMade'
  <2>1. RootOf[ResOf[l]] \in Roots
    BY LockAssumption
  <2> QED
    BY <1>2, <1>6, <2>1 DEF Lock, CreatePersistentPath
<1>7. ASSUME NEW t \in Threads, NEW l \in Locks, Release(t, l) PROVE PrefixesMade'
  BY <1>3, <1>7 DEF Release
<1>8. ASSUME NEW c \in Clients, SessionEnd(c) PROVE PrefixesMade'
  BY <1>3, <1>8 DEF SessionEnd
<1>9. CASE UNCHANGED vars
  BY <1>3, <1>9 DEF vars
<1> QED
  BY <1>5, <1>6, <1>7, <1>8, <1>9 DEF Next

(***************************************************************************)
(* No two threads are inside calls on one object, and a thread inside a    *)
(* call has an object.                                                     *)
(***************************************************************************)
LEMMA OneThreadInside ==
  ASSUME MutexTypeOK, CallsMatchObjects, NEW t \in Threads, pc[t] # "idle"
  PROVE  /\ cur[t] \in Locks
         /\ \A u \in Threads \ {t} : cur[u] # cur[t]
  BY LockAssumption DEF MutexTypeOK, CallsMatchObjects

LEMMA CallsNext ==
  ASSUME MutexTypeOK, CallsMatchObjects, [Next]_vars
  PROVE  CallsMatchObjects'
<1> USE DEF MutexTypeOK
<1>1. ASSUME NEW t \in Threads, InitPath(t) PROVE CallsMatchObjects'
  <2>1. /\ mkpath' = [mkpath EXCEPT ![t] = mkpath'[t]]
        /\ mkpath'[t].root = mkpath[t].root
        /\ mkpath[t].st # "none"
        /\ mkpath'[t].st # "none"
    BY <1>1, PathStepCall DEF InitPath
  <2>2. UNCHANGED lockVars
    BY <1>1 DEF InitPath
  <2> QED
    BY <2>1, <2>2 DEF lockVars, CallsMatchObjects, Reaches, PathTypeOK
<1>2. ASSUME NEW t \in Threads, InitDone(t) PROVE CallsMatchObjects'
  <2>1. cur[t] \in Locks /\ \A u \in Threads \ {t} : cur[u] # cur[t]
    BY <1>2, OneThreadInside DEF InitDone
  <2>2. mkpath' = [mkpath EXCEPT ![t] = NoCall]
    BY <1>2 DEF InitDone, PathReturn
  <2>3. CASE isReentry[cur[t]]
    BY <1>2, <2>1, <2>2, <2>3, NoCallType, LockAssumption
       DEF InitDone, LeaveLock, CallsMatchObjects, Reaches, PathTypeOK
  <2>4. CASE ~isReentry[cur[t]]
    BY <1>2, <2>1, <2>2, <2>4, NoCallType, LockAssumption
       DEF InitDone, CallsMatchObjects, Reaches, PathTypeOK
  <2> QED
    BY <2>3, <2>4
<1>3. ASSUME NEW t \in Threads, InitThrows(t) PROVE CallsMatchObjects'
  <2>1. cur[t] \in Locks /\ \A u \in Threads \ {t} : cur[u] # cur[t]
    BY <1>3, OneThreadInside DEF InitThrows
  <2>2. mkpath' = [mkpath EXCEPT ![t] = NoCall]
    BY <1>3 DEF InitThrows, PathReturn
  <2> QED
    BY <1>3, <2>1, <2>2, NoCallType, LockAssumption
       DEF InitThrows, LeaveLock, CallsMatchObjects, Reaches, PathTypeOK
<1>4. ASSUME NEW t \in Threads, NEW result \in {"held", "refused"},
             pc[t] = "execute", LeaveLock(t, result),
             UNCHANGED <<mkpath, step, isReentry, caller>>
      PROVE  CallsMatchObjects'
  <2>1. cur[t] \in Locks /\ \A u \in Threads \ {t} : cur[u] # cur[t]
    BY <1>4, OneThreadInside
  <2> QED
    BY <1>4, <2>1, LockAssumption DEF LeaveLock, CallsMatchObjects, Reaches
<1>5. ASSUME NEW t \in Threads, ExecuteOk(t) \/ ExecuteRefused(t) PROVE CallsMatchObjects'
  BY <1>4, <1>5 DEF ExecuteOk, ExecuteRefused
<1>6. ASSUME NEW t \in Threads, ExecuteRetry(t) \/ WakeUp(t) PROVE CallsMatchObjects'
  BY <1>6 DEF ExecuteRetry, WakeUp, CallsMatchObjects, Reaches
<1>7. ASSUME NEW t \in Threads, NEW l \in Locks, Lock(t, l) PROVE CallsMatchObjects'
  <2>1. /\ pc[t] = "idle" /\ Reaches(t, l) /\ \A u \in Threads : cur[u] # l
        /\ step[l] = 1
        /\ step' = [step EXCEPT ![l] = 2]
        /\ mkpath' = [mkpath EXCEPT ![t] = [root |-> RootOf[ResOf[l]], at |-> 1, st |-> "exists"]]
        /\ pc' = [pc EXCEPT ![t] = "init"]
        /\ cur' = [cur EXCEPT ![t] = l]
        /\ outcome' = [outcome EXCEPT ![l] = "locking"]
        /\ caller' = [caller EXCEPT ![l] = t]
    BY <1>7 DEF Lock, MonitorFree, CreatePersistentPath
  <2>2. \A m \in Locks \ {l} : isReentry'[m] = isReentry[m]
    BY <1>7 DEF Lock
  <2> QED
    BY <2>1, <2>2, LockAssumption DEF CallsMatchObjects, Reaches, PathTypeOK
<1>8. ASSUME NEW t \in Threads, NEW l \in Locks, Release(t, l) PROVE CallsMatchObjects'
  BY <1>8, LockAssumption DEF Release, MonitorFree, CallsMatchObjects, Reaches
<1>9. ASSUME NEW c \in Clients, SessionEnd(c) PROVE CallsMatchObjects'
  BY <1>9 DEF SessionEnd, CallsMatchObjects, Reaches
<1>10. CASE UNCHANGED vars
  BY <1>10 DEF vars, lockVars, CallsMatchObjects, Reaches
<1> QED
  BY <1>1, <1>2, <1>3, <1>5, <1>6, <1>7, <1>8, <1>9, <1>10 DEF Next, InLock

LEMMA NodesNext ==
  ASSUME MutexTypeOK, CallsMatchObjects, NodesMatchObjects, [Next]_vars
  PROVE  NodesMatchObjects'
<1> USE DEF MutexTypeOK
<1>1. ASSUME NEW t \in Threads, pc[t] = "execute", Connected(t),
             znode' = [znode EXCEPT ![ResOf[cur[t]]] = cur[t]],
             UNCHANGED <<expired, step, caller>>
      PROVE  NodesMatchObjects'
  <2>1. /\ cur[t] \in Locks /\ ResOf[cur[t]] \in Resources
        /\ Alive(cur[t]) /\ step[cur[t]] # 1 /\ caller[cur[t]] = t /\ Reaches(t, cur[t])
    BY <1>1, OneThreadInside, LockAssumption DEF CallsMatchObjects, Reaches, Alive, Connected
  <2> QED
    BY <1>1, <2>1 DEF NodesMatchObjects, Alive, Reaches
<1>2. ASSUME UNCHANGED <<expired, znode, step, caller>> PROVE NodesMatchObjects'
  BY <1>2 DEF NodesMatchObjects, Alive, Reaches
<1>3. ASSUME NEW t \in Threads, pc[t] = "execute", CreateThrows(t),
             UNCHANGED <<expired, step, caller>>
      PROVE  NodesMatchObjects'
  BY <1>1, <1>2, <1>3 DEF CreateThrows
<1>4. ASSUME NEW t \in Threads, InLock(t) PROVE NodesMatchObjects'
  <2>1. CASE ExecuteOk(t)
    BY <1>1, <2>1 DEF ExecuteOk
  <2>2. CASE ExecuteRefused(t) \/ ExecuteRetry(t)
    BY <1>3, <2>2 DEF ExecuteRefused, ExecuteRetry
  <2>3. CASE InitPath(t) \/ InitDone(t) \/ InitThrows(t) \/ WakeUp(t)
    BY <1>2, <2>3 DEF InitPath, InitDone, InitThrows, WakeUp, lockVars
  <2> QED
    BY <1>4, <2>1, <2>2, <2>3 DEF InLock
<1>5. ASSUME NEW t \in Threads, NEW l \in Locks, Lock(t, l) PROVE NodesMatchObjects'
  <2>1. /\ step' = [step EXCEPT ![l] = 2] /\ caller' = [caller EXCEPT ![l] = t]
        /\ UNCHANGED <<expired, znode>>
    BY <1>5 DEF Lock
  <2>2. \A r \in Resources : znode[r] # l
    BY <1>5, LockAssumption DEF Lock, NodesMatchObjects
  <2> QED
    BY <2>1, <2>2 DEF NodesMatchObjects, Alive, Reaches
<1>6. ASSUME NEW t \in Threads, NEW l \in Locks, Release(t, l) PROVE NodesMatchObjects'
  BY <1>6 DEF Release, NodesMatchObjects, Alive, Reaches
<1>7. ASSUME NEW c \in Clients, SessionEnd(c) PROVE NodesMatchObjects'
  BY <1>7 DEF SessionEnd, NodesMatchObjects, Alive, Reaches
<1>8. CASE UNCHANGED vars
  BY <1>2, <1>8 DEF vars, lockVars
<1> QED
  BY <1>4, <1>5, <1>6, <1>7, <1>8 DEF Next

LEMMA TriesNext ==
  ASSUME MutexTypeOK, CallsMatchObjects, TriesCounted, [Next]_vars
  PROVE  TriesCounted'
<1> USE DEF MutexTypeOK
<1>1. ASSUME NEW t \in Threads, InitDone(t) \/ InitThrows(t) PROVE TriesCounted'
  <2>1. cur[t] \in Locks /\ \A u \in Threads \ {t} : cur[u] # cur[t]
    BY <1>1, OneThreadInside DEF InitDone, InitThrows
  <2>2. CASE \E result \in {"held", "refused"} : LeaveLock(t, result)
    BY <1>1, <2>1, <2>2 DEF InitDone, InitThrows, LeaveLock, TriesCounted
  <2>3. CASE pc' = [pc EXCEPT ![t] = "execute"] /\ UNCHANGED <<cur, outcome>>
    BY <1>1, <2>1, <2>3 DEF InitDone, InitThrows, TriesCounted
  <2> QED
    BY <1>1, <2>2, <2>3 DEF InitDone, InitThrows
<1>2. ASSUME NEW t \in Threads, pc[t] = "execute", CountTry(t),
             \/ \E result \in {"held", "refused"} : LeaveLock(t, result)
             \/ /\ ~TriesUsedUp(t)
                /\ pc' = [pc EXCEPT ![t] = "sleep"]
                /\ UNCHANGED <<cur, outcome>>
      PROVE  TriesCounted'
  <2>1. cur[t] \in Locks /\ \A u \in Threads \ {t} : cur[u] # cur[t]
    BY <1>2, OneThreadInside
  <2>2. outcome[cur[t]] = "locking"
    BY <1>2 DEF CallsMatchObjects
  <2>3. \A l \in Locks \ {cur[t]} : tryCount'[l] = tryCount[l]
    BY <1>2, <2>1 DEF CountTry
  <2>4. \A u \in Threads \ {t} : pc[u] # "idle" => cur[u] \in Locks \ {cur[t]}
    BY <2>1, OneThreadInside
  <2>5. CASE \E result \in {"held", "refused"} : LeaveLock(t, result)
    BY <2>1, <2>2, <2>3, <2>4, <2>5 DEF LeaveLock, TriesCounted
  <2>6. CASE ~TriesUsedUp(t) /\ pc' = [pc EXCEPT ![t] = "sleep"] /\ UNCHANGED <<cur, outcome>>
    <3>1. tryCount'[cur[t]] < RetryTimes
      BY <1>2, <2>1, <2>6, LockAssumption DEF TriesUsedUp, CountTry
    <3> QED
      BY <2>1, <2>2, <2>3, <2>4, <2>6, <3>1 DEF TriesCounted
  <2> QED
    BY <1>2, <2>5, <2>6
<1>3. ASSUME NEW t \in Threads, InitPath(t) \/ WakeUp(t) PROVE TriesCounted'
  BY <1>3 DEF InitPath, WakeUp, lockVars, TriesCounted
<1>4. ASSUME NEW t \in Threads, InLock(t) PROVE TriesCounted'
  BY <1>1, <1>2, <1>3, <1>4 DEF InLock, ExecuteOk, ExecuteRefused, ExecuteRetry
<1>5. ASSUME NEW t \in Threads, NEW l \in Locks, Lock(t, l) PROVE TriesCounted'
  <2>1. /\ step[l] = 1
        /\ pc' = [pc EXCEPT ![t] = "init"]
        /\ cur' = [cur EXCEPT ![t] = l]
        /\ outcome' = [outcome EXCEPT ![l] = "locking"]
        /\ UNCHANGED tryCount
    BY <1>5 DEF Lock
  <2>2. tryCount[l] = 0
    BY <2>1 DEF CallsMatchObjects, TriesCounted
  <2> QED
    BY <2>1, <2>2 DEF TriesCounted
<1>6. ASSUME NEW t \in Threads, NEW l \in Locks, Release(t, l) PROVE TriesCounted'
  BY <1>6 DEF Release, TriesCounted
<1>7. ASSUME NEW c \in Clients, SessionEnd(c) PROVE TriesCounted'
  BY <1>7 DEF SessionEnd, TriesCounted
<1>8. CASE UNCHANGED vars
  BY <1>8 DEF vars, lockVars, TriesCounted
<1> QED
  BY <1>4, <1>5, <1>6, <1>7, <1>8 DEF Next

LEMMA LockInvInit == Init => LockInv
<1> SUFFICES ASSUME Init PROVE LockInv
  OBVIOUS
<1>1. \A t \in Threads : mkpath[t].st = "none"
  BY NoCallType DEF Init
<1> QED
  BY <1>1 DEF Init, LockInv, PrefixesMade, CallsMatchObjects, NodesMatchObjects, TriesCounted

LEMMA LockInvNext == MutexTypeOK /\ LockInv /\ [Next]_vars => LockInv'
  BY PrefixesNext, CallsNext, NodesNext, TriesNext DEF LockInv

(***************************************************************************)
(* The fields of a lock object, the place of its caller in lock(), the     *)
(* prefixes of the base path, the tries and the znodes agree.              *)
(***************************************************************************)
THEOREM FieldsAgree == Spec => []LockInv
  BY TypeCorrect, LockInvInit, LockInvNext, PTL DEF Spec

-----------------------------------------------------------------------------
LEMMA BasePathNext ==
  ASSUME MutexTypeOK, LockInv, BasePathReady, [Next]_vars
  PROVE  BasePathReady'
<1> USE DEF MutexTypeOK
<1>0. CallsMatchObjects /\ PrefixesMade
  BY DEF LockInv
<1>1. ASSUME NEW root, PathReady(root), paths \subseteq paths' PROVE PathReady(root)'
  BY <1>1 DEF PathReady
<1>2. ASSUME paths \subseteq paths',
             \A u \in Threads : pc'[u] \in {"execute", "sleep"} =>
                               pc[u] \in {"execute", "sleep"} /\ cur'[u] = cur[u]
      PROVE  BasePathReady'
  BY <1>1, <1>2 DEF BasePathReady
<1>3. ASSUME NEW t \in Threads, InitPath(t) PROVE BasePathReady'
  <2>1. paths \subseteq paths'
    BY <1>3, PathStepCall DEF InitPath
  <2> QED
    BY <1>2, <1>3, <2>1 DEF InitPath, lockVars
<1>4. ASSUME NEW t \in Threads, InitDone(t) PROVE BasePathReady'
  <2>1. PathReady(RootOf[ResOf[cur[t]]])
    BY <1>0, <1>4 DEF InitDone, CallsMatchObjects, PrefixesMade
  <2>2. CASE LeaveLock(t, "held")
    BY <1>2, <1>4, <2>2 DEF InitDone, LeaveLock
  <2>3. CASE pc' = [pc EXCEPT ![t] = "execute"] /\ UNCHANGED <<cur, outcome>>
    BY <1>4, <2>1, <2>3 DEF InitDone, BasePathReady, PathReady
  <2> QED
    BY <1>4, <2>2, <2>3 DEF InitDone
<1>5. ASSUME NEW t \in Threads,
             InitThrows(t) \/ ExecuteOk(t) \/ ExecuteRefused(t) \/ ExecuteRetry(t) \/ WakeUp(t)
      PROVE  BasePathReady'
  BY <1>2, <1>5 DEF InitThrows, ExecuteOk, ExecuteRefused, ExecuteRetry, WakeUp, LeaveLock
<1>6. ASSUME NEW t \in Threads, NEW l \in Locks, Lock(t, l) \/ Release(t, l)
      PROVE  BasePathReady'
  BY <1>2, <1>6 DEF Lock, Release
<1>7. CASE UNCHANGED vars \/ \E c \in Clients : SessionEnd(c)
  BY <1>2, <1>7 DEF vars, lockVars, SessionEnd
<1> QED
  BY <1>3, <1>4, <1>5, <1>6, <1>7 DEF Next, InLock

(***************************************************************************)
(* execute() is only reached with the whole base path in place.            *)
(***************************************************************************)
THEOREM BasePathThere == Spec => []BasePathReady
<1>1. Init => BasePathReady
  BY DEF Init, BasePathReady
<1> QED
  BY <1>1, TypeCorrect, FieldsAgree, BasePathNext, PTL DEF Spec

(***************************************************************************)
(* What a step can do to a znode that is there: it goes with its session.  *)
(***************************************************************************)
LEMMA ZnodeStep ==
  ASSUME MutexTypeOK, [Next]_vars, NEW r \in Resources,
         znode[r] # NoLock, znode'[r] # znode[r]
  PROVE  \E c \in Clients : SessionEnd(c) /\ ZkOf[znode[r]] = c /\ znode'[r] = NoLock
<1> USE DEF MutexTypeOK
<1>1. ASSUME NEW t \in Threads, CreateThrows(t) PROVE FALSE
  BY <1>1 DEF CreateThrows
<1>2. ASSUME NEW t \in Threads, InLock(t) PROVE FALSE
  BY <1>1, <1>2 DEF InLock, InitPath, lockVars, InitDone, InitThrows, ExecuteOk,
                    ExecuteRefused, ExecuteRetry, WakeUp
<1>3. ASSUME NEW t \in Threads, NEW l \in Locks, Lock(t, l) \/ Release(t, l) PROVE FALSE
  BY <1>3 DEF Lock, Release
<1>4. ~UNCHANGED vars
  BY DEF vars, lockVars
<1>5. PICK c \in Clients : SessionEnd(c)
  BY <1>2, <1>3, <1>4 DEF Next
<1> QED
  BY <1>5 DEF SessionEnd

(***************************************************************************)
(* A znode is never handed over and only goes with the session of the lock *)
(* object that created it.                                                 *)
(***************************************************************************)
THEOREM NodeLives == Spec => NodeLivesWithSession
<1>1. MutexTypeOK /\ [Next]_vars =>
        [\A r \in Resources :
            znode[r] # NoLock /\ znode'[r] # znode[r] =>
               znode'[r] = NoLock /\ ZkOf[znode[r]] \in expired' \ expired]_vars
  BY ZnodeStep DEF SessionEnd, MutexTypeOK, PathTypeOK
<1> QED
  BY <1>1, TypeCorrect, PTL DEF Spec, NodeLivesWithSession

(***************************************************************************)
(* A holder keeps its znode.                                               *)
(***************************************************************************)
LEMMA HolderNext ==
  ASSUME MutexTypeOK, CallsMatchObjects, HolderOwnsNode, [Next]_vars
  PROVE  HolderOwnsNode'
<1> USE DEF MutexTypeOK
<1>1. ASSUME NEW l \in Locks, Held(l)', ~isReentry'[l], Alive(l)',
             Held(l), isReentry'[l] = isReentry[l]
      PROVE  znode'[ResOf[l]] = l
  <2>1. ResOf[l] \in Resources /\ l # NoLock
    BY LockAssumption
  <2>2. expired \subseteq expired'
    BY DEF Next, InLock, InitPath, InitDone, InitThrows, ExecuteOk, ExecuteRefused,
           ExecuteRetry, WakeUp, Lock, Release, SessionEnd, vars
  <2>3. znode[ResOf[l]] = l
    BY <1>1, <2>2 DEF HolderOwnsNode, Alive
  <2>4. ASSUME znode'[ResOf[l]] # l PROVE FALSE
    <3>1. PICK c \in Clients : SessionEnd(c) /\ ZkOf[l] = c
      BY <2>1, <2>3, <2>4, ZnodeStep
    <3> QED
      BY <1>1, <3>1 DEF SessionEnd, Alive
  <2> QED
    BY <2>4
<1>2. ASSUME NEW l \in Locks, Held(l)', ~isReentry'[l],
             ~(Held(l) /\ isReentry'[l] = isReentry[l])
      PROVE  znode'[ResOf[l]] = l
  <2>1. ASSUME NEW t \in Threads, InLock(t) PROVE ExecuteOk(t) /\ cur[t] = l
    <3>1. pc[t] # "idle" => cur[t] \in Locks
      BY OneThreadInside
    <3> QED
      BY <1>2, <2>1, <3>1
         DEF InLock, InitPath, lockVars, InitDone, InitThrows, ExecuteOk, ExecuteRefused,
             ExecuteRetry, WakeUp, LeaveLock, Held
  <2>2. ASSUME NEW t \in Threads, NEW m \in Locks, Lock(t, m) PROVE FALSE
    BY <1>2, <2>2 DEF Lock, Held, CallsMatchObjects
  <2>3. ASSUME NEW t \in Threads, NEW m \in Locks, Release(t, m) PROVE FALSE
    BY <1>2, <2>3 DEF Release, Held
  <2>4. ASSUME UNCHANGED vars \/ \E c \in Clients : SessionEnd(c) PROVE FALSE
    BY <1>2, <2>4 DEF vars, lockVars, SessionEnd, Held
  <2>5. PICK t \in Threads : ExecuteOk(t) /\ cur[t] = l
    BY <2>1, <2>2, <2>3, <2>4 DEF Next
  <2> QED
    BY <2>5, LockAssumption DEF ExecuteOk
<1> QED
  BY <1>1, <1>2 DEF HolderOwnsNode

(***************************************************************************)
(* lock() that asked ZooKeeper and came back has the znode of its          *)
(* resource, whatever other threads do, until its session ends.            *)
(***************************************************************************)
THEOREM HolderKeepsNode == Spec => []HolderOwnsNode
<1>1. Init => HolderOwnsNode
  BY DEF Init, HolderOwnsNode, Held
<1>2. LockInv => CallsMatchObjects
  BY DEF LockInv
<1> QED
  BY <1>1, <1>2, TypeCorrect, FieldsAgree, HolderNext, PTL DEF Spec

LEMMA RefusedNext ==
  ASSUME MutexTypeOK, LockInv, RefusedAfterAllTries, [Next]_vars
  PROVE  RefusedAfterAllTries'
<1> USE DEF MutexTypeOK
<1>0. CallsMatchObjects /\ TriesCounted
  BY DEF LockInv
<1>1. ASSUME \A l \in Locks : outcome'[l] = "refused" =>
                                 outcome[l] = "refused" /\ tryCount'[l] = tryCount[l]
      PROVE  RefusedAfterAllTries'
  BY <1>1 DEF RefusedAfterAllTries
<1>2. ASSUME NEW t \in Threads, InitThrows(t) PROVE RefusedAfterAllTries'
  <2>1. tryCount[cur[t]] = 0
    BY <1>0, <1>2 DEF InitThrows, TriesCounted
  <2> QED
    BY <1>2, <2>1 DEF InitThrows, LeaveLock, RefusedAfterAllTries
<1>3. ASSUME NEW t \in Threads, ExecuteRefused(t) PROVE RefusedAfterAllTries'
  <2>1. /\ cur[t] \in Locks
        /\ tryCount[cur[t]] \in Nat
        /\ tryCount[cur[t]] = 0 \/ tryCount[cur[t]] < RetryTimes
        /\ tryCount[cur[t]] + 1 >= RetryTimes
    BY <1>0, <1>3, OneThreadInside DEF ExecuteRefused, TriesCounted, TriesUsedUp
  <2>2. tryCount'[cur[t]] \in {0, IF RetryTimes = 0 THEN 1 ELSE RetryTimes}
    BY <1>3, <2>1, LockAssumption DEF ExecuteRefused, CountTry
  <2>3. \A l \in Locks \ {cur[t]} : tryCount'[l] = tryCount[l] /\ outcome'[l] = outcome[l]
    BY <1>3, <2>1 DEF ExecuteRefused, CountTry, LeaveLock
  <2> QED
    BY <2>2, <2>3 DEF RefusedAfterAllTries
<1>4. ASSUME NEW t \in Threads, ExecuteOk(t) \/ ExecuteRetry(t) PROVE RefusedAfterAllTries'
  <2>1. cur[t] \in Locks /\ outcome[cur[t]] = "locking"
    BY <1>0, <1>4, OneThreadInside DEF ExecuteOk, ExecuteRetry, CallsMatchObjects
  <2> QED
    BY <1>1, <1>4, <2>1 DEF ExecuteOk, ExecuteRetry, CountTry, LeaveLock
<1>5. ASSUME NEW t \in Threads, InitPath(t) \/ InitDone(t) \/ WakeUp(t)
      PROVE  RefusedAfterAllTries'
  BY <1>1, <1>5 DEF InitPath, lockVars, InitDone, WakeUp, LeaveLock
<1>6. ASSUME NEW t \in Threads, NEW l \in Locks, Lock(t, l) \/ Release(t, l)
      PROVE  RefusedAfterAllTries'
  BY <1>1, <1>6 DEF Lock, Release
<1>7. CASE UNCHANGED vars \/ \E c \in Clients : SessionEnd(c)
  BY <1>1, <1>7 DEF vars, lockVars, SessionEnd
<1> QED
  BY <1>2, <1>3, <1>4, <1>5, <1>6, <1>7 DEF Next, InLock

(***************************************************************************)
(* lock() only gives up before its first try or after its last.            *)
(***************************************************************************)
THEOREM RefusedInTime == Spec => []RefusedAfterAllTries
<1>1. Init => RefusedAfterAllTries
  BY DEF Init, RefusedAfterAllTries
<1> QED
  BY <1>1, TypeCorrect, FieldsAgree, RefusedNext, PTL DEF Spec
=============================================================================
