-------------------------- MODULE MutexClients_proofs --------------------------
(***************************************************************************)
(* Proofs about ZookeeperMutexLock used as its README shows, in nested     *)
(* blocks, for every number of threads, handles, locks and resources.      *)
(***************************************************************************)
EXTENDS MutexClients, MutexLock_proofs

(***************************************************************************)
(* A block that is left is the innermost one.                              *)
(***************************************************************************)
LEMMA Innermost ==
  ASSUME NEW s \in Seq(Locks), s # << >>
  PROVE  /\ Len(s) \in Nat \ {0}
         /\ Last(s) = s[Len(s)] /\ Last(s) \in Locks
         /\ Front(s) \in Seq(Locks)
         /\ Len(Front(s)) = Len(s) - 1
         /\ \A i \in 1 .. Len(s) - 1 : Front(s)[i] = s[i]
  BY DEF Front, Last

(***************************************************************************)
(* The clients only call what free callers may call.                       *)
(***************************************************************************)
LEMMA ClientsCallLocks ==
  ASSUME ClientTypeOK, [ClientNext]_clientVars
  PROVE  [Next]_vars
<1>1. ASSUME NEW t \in Threads, Leave(t) PROVE Next
  <2>1. Last(frames[t]) \in Locks
    BY <1>1, Innermost DEF Leave, ClientTypeOK
  <2> QED
    BY <1>1, <2>1 DEF Leave, Next
<1>2. ASSUME UNCHANGED clientVars PROVE UNCHANGED vars
  BY <1>2 DEF clientVars
<1> QED
  BY <1>1, <1>2 DEF ClientNext, Inside, Enter, EndOfSession, Next

LEMMA ClientTypeNext ==
  ASSUME ClientTypeOK, [ClientNext]_clientVars
  PROVE  ClientTypeOK'
<1> USE DEF ClientTypeOK
<1>1. MutexTypeOK'
  BY TypeNext, ClientsCallLocks
<1>2. ASSUME NEW t \in Threads, Leave(t) PROVE frames' \in [Threads -> Seq(Locks)]
  <2>1. Front(frames[t]) \in Seq(Locks)
    BY <1>2, Innermost DEF Leave
  <2> QED
    BY <1>2, <2>1 DEF Leave
<1>3. ASSUME NEW t \in Threads, NEW l \in Locks, Enter(t, l)
      PROVE  frames' \in [Threads -> Seq(Locks)]
  BY <1>3 DEF Enter
<1> QED
  BY <1>1, <1>2, <1>3 DEF ClientNext, clientVars, Inside, EndOfSession

(***************************************************************************)
(* Every variable keeps its type: a thread's blocks are lock objects.      *)
(***************************************************************************)
THEOREM ClientTypeCorrect == ClientSpec => []ClientTypeOK
<1>1. ClientInit => ClientTypeOK
  BY TypeInit DEF ClientInit, ClientTypeOK
<1> QED
  BY <1>1, ClientTypeNext, PTL DEF ClientSpec

(***************************************************************************)
(* So everything proved of free callers holds of the clients.              *)
(***************************************************************************)
LEMMA ClientsAreCallers == ClientSpec => Spec
<1>1. ClientInit => Init
  BY DEF ClientInit
<1> QED
  BY <1>1, ClientsCallLocks, ClientTypeCorrect, PTL DEF ClientSpec, Spec
-----------------------------------------------------------------------------
(***************************************************************************)
(* ClientInv is inductive relative to LockInv.                             *)
(***************************************************************************)
LEMMA BlocksKept ==
  ASSUME NEW t \in Threads, BlocksNest(t), frames'[t] = frames[t],
         \A i \in DOMAIN frames[t] :
            LET l == frames[t][i] IN
            /\ caller'[l] = caller[l] /\ step'[l] = step[l] /\ isReentry'[l] = isReentry[l]
            /\ i < Len(frames[t]) => Held(l)' = Held(l)
  PROVE  BlocksNest(t)'
  BY DEF BlocksNest, Reaches

\* What a step inside lock() leaves alone, and whose outcome it can change.
LEMMA InsideKeeps ==
  ASSUME MutexTypeOK, LockInv, NEW t \in Threads, InLock(t)
  PROVE  /\ UNCHANGED <<step, isReentry, caller>>
         /\ cur[t] \in Locks
         /\ outcome[cur[t]] = "locking"
         /\ caller[cur[t]] = t
         /\ \A l \in Locks \ {cur[t]} : outcome'[l] = outcome[l] /\ tryCount'[l] = tryCount[l]
<1>1. pc[t] # "idle"
  BY DEF InLock, InitPath, PathStep, PathExists, PathCreate, InitDone, InitThrows, ExecuteOk,
         ExecuteRefused, ExecuteRetry, WakeUp, LockInv, CallsMatchObjects
<1>2. cur[t] \in Locks /\ outcome[cur[t]] = "locking" /\ caller[cur[t]] = t
  BY <1>1, OneThreadInside DEF LockInv, CallsMatchObjects
<1>3. UNCHANGED <<step, isReentry, caller>>
  BY DEF InLock, InitPath, lockVars, InitDone, InitThrows, ExecuteOk, ExecuteRefused,
         ExecuteRetry, WakeUp
<1>4. \A l \in Locks \ {cur[t]} : outcome'[l] = outcome[l] /\ tryCount'[l] = tryCount[l]
  BY <1>2 DEF MutexTypeOK, InLock, InitPath, lockVars, InitDone, InitThrows, ExecuteOk,
              ExecuteRefused, ExecuteRetry, WakeUp, LeaveLock, CountTry
<1> QED
  BY <1>2, <1>3, <1>4

\* The test of the session tells whether a block on the resource is around.
LEMMA EntryMeansBlock ==
  ASSUME ClientTypeOK, LockInv, ClientInv, NEW t \in Threads, NEW l \in Locks, InBody(t)
  PROVE  /\ HasEntry(t, l) => \E j \in DOMAIN frames[t] :
                                 /\ ResOf[frames[t][j]] = ResOf[l]
                                 /\ ~isReentry[frames[t][j]]
         /\ ~HasEntry(t, l) => \A j \in DOMAIN frames[t] : ResOf[frames[t][j]] # ResOf[l]
<1>1. ResOf[l] \in Resources
  BY LockAssumption
<1>2. ASSUME NEW j \in DOMAIN frames[t] PROVE outcome[frames[t][j]] = "held"
  BY <1>2 DEF InBody, ClientInv, BlocksNest, Held, Last, ClientTypeOK
<1>3. HasEntry(t, l) <=> \E j \in DOMAIN frames[t] :
                            ResOf[frames[t][j]] = ResOf[l] /\ ~isReentry[frames[t][j]]
  BY <1>1, <1>2 DEF ClientInv, SessionMatchesFrames, FrameSet, ToSet, HasEntry
<1>4. ASSUME NEW j \in DOMAIN frames[t], ResOf[frames[t][j]] = ResOf[l] PROVE HasEntry(t, l)
  <2>1. frames[t] \in Seq(Locks)
    BY DEF ClientTypeOK
  <2> QED
    BY <1>3, <1>4, <2>1 DEF ClientInv, BlocksNest
<1> QED
  BY <1>3, <1>4

LEMMA BlocksNext ==
  ASSUME ClientTypeOK, LockInv, ClientInv, [ClientNext]_clientVars, NEW u \in Threads
  PROVE  BlocksNest(u)'
<1>0. /\ BlocksNest(u) /\ frames[u] \in Seq(Locks)
      /\ MutexTypeOK
  BY DEF ClientInv, ClientTypeOK
<1>1. ASSUME NEW t \in Threads, Inside(t) PROVE BlocksNest(u)'
  <2>1. \A i \in DOMAIN frames[u] : i < Len(frames[u]) => frames[u][i] # cur[t]
    BY <1>0, <1>1, InsideKeeps DEF Inside, BlocksNest, Held
  <2>2. ASSUME NEW i \in DOMAIN frames[u], i < Len(frames[u])
        PROVE  Held(frames[u][i])' = Held(frames[u][i])
    BY <1>0, <1>1, <2>1, <2>2, InsideKeeps DEF Inside, Held
  <2> QED
    BY <1>0, <1>1, <2>2, InsideKeeps, BlocksKept DEF Inside
<1>2. ASSUME NEW t \in Threads, NEW l \in Locks, Enter(t, l) PROVE BlocksNest(u)'
  <2>1. /\ InBody(t) /\ Reaches(t, l) /\ step[l] = 1
        /\ frames' = [frames EXCEPT ![t] = Append(frames[t], l)]
        /\ step' = [step EXCEPT ![l] = 2]
        /\ isReentry' = [isReentry EXCEPT ![l] = HasEntry(t, l)]
        /\ outcome' = [outcome EXCEPT ![l] = "locking"]
        /\ caller' = [caller EXCEPT ![l] = t]
    BY <1>2 DEF Enter, Lock
  <2>2. \A i \in DOMAIN frames[u] : frames[u][i] \in Locks \ {l}
    BY <1>0, <2>1 DEF BlocksNest
  <2>3. \A i \in DOMAIN frames[u] :
           /\ caller'[frames[u][i]] = caller[frames[u][i]]
           /\ step'[frames[u][i]] = step[frames[u][i]]
           /\ isReentry'[frames[u][i]] = isReentry[frames[u][i]]
           /\ outcome'[frames[u][i]] = outcome[frames[u][i]]
    BY <1>0, <2>1, <2>2 DEF MutexTypeOK
  <2>4. CASE u # t
    BY <1>0, <2>1, <2>3, <2>4, BlocksKept DEF ClientTypeOK, Held
  <2>5. CASE u = t
    <3>1. /\ frames'[u] = Append(frames[u], l)
          /\ Len(frames'[u]) = Len(frames[u]) + 1
          /\ DOMAIN frames'[u] = 1 .. Len(frames[u]) + 1
          /\ DOMAIN frames[u] = 1 .. Len(frames[u])
          /\ Len(frames[u]) \in Nat
          /\ frames'[u][Len(frames[u]) + 1] = l
          /\ \A i \in DOMAIN frames[u] : frames'[u][i] = frames[u][i]
      BY <1>0, <2>1, <2>5 DEF ClientTypeOK
    <3>2. \A i \in DOMAIN frames[u] : outcome[frames[u][i]] = "held"
      BY <1>0, <2>1, <2>5 DEF InBody, BlocksNest, Held, Last
    <3>3. isReentry'[l] <=> HasEntry(t, l)
      BY <1>0, <2>1, Zenon DEF MutexTypeOK
    <3>4. step'[l] = 2 /\ caller'[l] = t
      BY <1>0, <2>1 DEF MutexTypeOK
    <3>5. \A i \in DOMAIN frames[u] :
             /\ Reaches(u, frames'[u][i])
             /\ caller'[frames'[u][i]] = u
             /\ step'[frames'[u][i]] = 2
             /\ outcome'[frames'[u][i]] = "held"
             /\ frames'[u][i] # l
             /\ isReentry'[frames'[u][i]] = isReentry[frames[u][i]]
      BY <1>0, <2>2, <2>3, <3>1, <3>2 DEF BlocksNest
    <3>6. ASSUME NEW i \in DOMAIN frames[u]
          PROVE  /\ \A j \in 1 .. i - 1 : frames'[u][j] # frames'[u][i]
                 /\ isReentry'[frames'[u][i]] =>
                       \E j \in 1 .. i - 1 : /\ ResOf[frames'[u][j]] = ResOf[frames'[u][i]]
                                             /\ ~isReentry'[frames'[u][j]]
                 /\ ~isReentry'[frames'[u][i]] =>
                       \A j \in 1 .. i - 1 : ResOf[frames'[u][j]] # ResOf[frames'[u][i]]
      <4>1. \A j \in 1 .. i - 1 : j \in DOMAIN frames[u]
        BY <3>1
      <4>2. \A j \in 1 .. i - 1 : /\ frames'[u][j] = frames[u][j]
                                  /\ isReentry'[frames'[u][j]] = isReentry[frames[u][j]]
        BY <3>1, <3>5, <4>1
      <4>3. frames'[u][i] = frames[u][i]
        BY <3>1
      <4>4. /\ \A j \in 1 .. i - 1 : frames[u][j] # frames[u][i]
            /\ isReentry[frames[u][i]] =>
                  \E j \in 1 .. i - 1 : /\ ResOf[frames[u][j]] = ResOf[frames[u][i]]
                                        /\ ~isReentry[frames[u][j]]
            /\ ~isReentry[frames[u][i]] =>
                  \A j \in 1 .. i - 1 : ResOf[frames[u][j]] # ResOf[frames[u][i]]
        BY <1>0 DEF BlocksNest
      <4>5. isReentry'[frames'[u][i]] = isReentry[frames[u][i]]
        BY <3>5
      <4> QED
        BY <4>2, <4>3, <4>4, <4>5
    <3>7. /\ isReentry'[l] => \E j \in 1 .. Len(frames[u]) :
                                 ResOf[frames'[u][j]] = ResOf[l] /\ ~isReentry'[frames'[u][j]]
          /\ ~isReentry'[l] => \A j \in 1 .. Len(frames[u]) : ResOf[frames'[u][j]] # ResOf[l]
      <4>1. /\ HasEntry(u, l) => \E j \in DOMAIN frames[u] :
                                    /\ ResOf[frames[u][j]] = ResOf[l]
                                    /\ ~isReentry[frames[u][j]]
            /\ ~HasEntry(u, l) => \A j \in DOMAIN frames[u] : ResOf[frames[u][j]] # ResOf[l]
        BY <2>1, <2>5, EntryMeansBlock
      <4>2. isReentry'[l] <=> HasEntry(u, l)
        BY <2>5, <3>3
      <4> QED
        BY <3>1, <3>5, <4>1, <4>2
    <3>8. ASSUME NEW i \in DOMAIN frames'[u], i \notin DOMAIN frames[u]
          PROVE  i = Len(frames[u]) + 1 /\ i - 1 = Len(frames[u]) /\ frames'[u][i] = l
      BY <3>1, <3>8
    <3>9. \A i \in DOMAIN frames[u] : i < Len(frames'[u])
      BY <3>1
    <3> DEFINE Nests(i) ==
            /\ ZkOf[frames'[u][i]] = ClientOf[u]
            /\ caller'[frames'[u][i]] = u
            /\ step'[frames'[u][i]] = 2
            /\ i < Len(frames'[u]) => outcome'[frames'[u][i]] = "held"
            /\ \A j \in 1 .. i - 1 : frames'[u][j] # frames'[u][i]
            /\ isReentry'[frames'[u][i]] =>
                  \E j \in 1 .. i - 1 : /\ ResOf[frames'[u][j]] = ResOf[frames'[u][i]]
                                        /\ ~isReentry'[frames'[u][j]]
            /\ ~isReentry'[frames'[u][i]] =>
                  \A j \in 1 .. i - 1 : ResOf[frames'[u][j]] # ResOf[frames'[u][i]]
    <3>10. ASSUME NEW i \in DOMAIN frames[u] PROVE Nests(i)
      BY <3>5, <3>6 DEF Reaches
    <3>11. ASSUME NEW i \in DOMAIN frames'[u], i \notin DOMAIN frames[u] PROVE Nests(i)
      <4>1. i = Len(frames[u]) + 1 /\ i - 1 = Len(frames[u]) /\ frames'[u][i] = l
        BY <3>8, <3>11
      <4>2. \A j \in 1 .. i - 1 : frames'[u][j] # l
        BY <3>1, <3>5, <4>1
      <4> QED
        <5>1. ZkOf[l] = ClientOf[u] /\ caller'[l] = u /\ step'[l] = 2
          BY <2>1, <2>5, <3>4 DEF Reaches
        <5>2. ~(i < Len(frames'[u]))
          BY <3>1, <4>1
        <5> QED
          BY <3>7, <4>1, <4>2, <5>1, <5>2
    <3> HIDE DEF Nests
    <3>12. \A i \in DOMAIN frames'[u] : Nests(i)
      BY <3>10, <3>11
    <3> QED
      BY <3>12 DEF Nests, BlocksNest, Reaches, Held
  <2> QED
    BY <2>4, <2>5
<1>3. ASSUME NEW t \in Threads, Leave(t) PROVE BlocksNest(u)'
  <2> DEFINE l == Last(frames[t])
  <2>1. /\ frames[t] # << >>
        /\ frames' = [frames EXCEPT ![t] = Front(frames[t])]
        /\ step' = [step EXCEPT ![l] = 3]
        /\ outcome' = [outcome EXCEPT ![l] = "released"]
        /\ UNCHANGED <<caller, isReentry>>
    BY <1>3 DEF Leave, Release
  <2>2. /\ frames[t] \in Seq(Locks)
        /\ Len(frames[t]) \in Nat \ {0} /\ DOMAIN frames[t] = 1 .. Len(frames[t])
        /\ l = frames[t][Len(frames[t])] /\ l \in Locks
        /\ caller[l] = t
    BY <2>1, Innermost DEF ClientInv, BlocksNest, ClientTypeOK
  <2>3. CASE u # t
    <3>1. frames'[u] = frames[u]
      BY <2>1, <2>3 DEF ClientTypeOK
    <3>2. \A i \in DOMAIN frames[u] : frames[u][i] \in Locks \ {l}
      BY <1>0, <2>2, <2>3 DEF BlocksNest
    <3>3. \A i \in DOMAIN frames[u] : /\ step'[frames[u][i]] = step[frames[u][i]]
                                      /\ outcome'[frames[u][i]] = outcome[frames[u][i]]
      BY <1>0, <2>1, <3>2 DEF MutexTypeOK
    <3> QED
      BY <1>0, <2>1, <3>1, <3>3, BlocksKept DEF Held
  <2>4. CASE u = t
    <3>1. /\ frames'[u] = Front(frames[u])
          /\ DOMAIN frames'[u] = 1 .. Len(frames[u]) - 1
          /\ DOMAIN frames[u] = 1 .. Len(frames[u])
          /\ \A i \in 1 .. Len(frames[u]) - 1 : frames'[u][i] = frames[u][i]
      BY <1>0, <2>1, <2>2, <2>4, Innermost DEF ClientTypeOK
    <3>2. \A i \in DOMAIN frames'[u] : /\ i \in DOMAIN frames[u]
                                       /\ i < Len(frames[u])
                                       /\ frames[u][i] \in Locks \ {l}
      BY <1>0, <2>2, <2>4, <3>1 DEF BlocksNest
    <3>3. \A i \in DOMAIN frames'[u] : /\ step'[frames[u][i]] = step[frames[u][i]]
                                       /\ outcome'[frames[u][i]] = outcome[frames[u][i]]
      BY <1>0, <2>1, <3>2 DEF MutexTypeOK
    <3>4. ASSUME NEW i \in DOMAIN frames'[u]
          PROVE  \A j \in 1 .. i - 1 : frames'[u][j] = frames[u][j]
      BY <2>2, <2>4, <3>1
    <3>5. ASSUME NEW i \in DOMAIN frames'[u]
          PROVE  /\ ZkOf[frames[u][i]] = ClientOf[u]
                 /\ caller'[frames[u][i]] = u
                 /\ step'[frames[u][i]] = 2
                 /\ outcome'[frames[u][i]] = "held"
                 /\ \A j \in 1 .. i - 1 : frames[u][j] # frames[u][i]
                 /\ isReentry'[frames[u][i]] =>
                       \E j \in 1 .. i - 1 : /\ ResOf[frames[u][j]] = ResOf[frames[u][i]]
                                             /\ ~isReentry'[frames[u][j]]
                 /\ ~isReentry'[frames[u][i]] =>
                       \A j \in 1 .. i - 1 : ResOf[frames[u][j]] # ResOf[frames[u][i]]
      BY <1>0, <2>1, <3>2, <3>3 DEF BlocksNest, Reaches, Held
    <3>6. \A i \in DOMAIN frames'[u] : frames'[u][i] = frames[u][i]
      BY <3>1
    <3> QED
      BY <3>4, <3>5, <3>6 DEF BlocksNest, Reaches, Held
  <2> QED
    BY <2>3, <2>4
<1>4. CASE UNCHANGED clientVars \/ \E c \in Clients : EndOfSession(c)
  BY <1>0, <1>4, BlocksKept DEF clientVars, vars, lockVars, EndOfSession, SessionEnd, Held
<1> QED
  BY <1>1, <1>2, <1>3, <1>4 DEF ClientNext

LEMMA CompleteNext ==
  ASSUME ClientTypeOK, LockInv, ClientInv, [ClientNext]_clientVars
  PROVE  BlocksComplete'
<1>0. /\ BlocksComplete /\ CallsMatchObjects /\ MutexTypeOK
      /\ frames \in [Threads -> Seq(Locks)]
  BY DEF ClientInv, LockInv, ClientTypeOK
<1>1. ASSUME NEW t \in Threads, Inside(t) PROVE BlocksComplete'
  <2>1. /\ UNCHANGED <<step, caller, frames>>
        /\ \A u \in Threads : cur'[u] \in {cur[u], NoLock}
    BY <1>0, <1>1, InsideKeeps
       DEF Inside, MutexTypeOK, InLock, InitPath, lockVars, InitDone, InitThrows, ExecuteOk,
           ExecuteRefused, ExecuteRetry, WakeUp, LeaveLock
  <2> QED
    BY <1>0, <2>1 DEF BlocksComplete, FrameSet
<1>2. ASSUME NEW t \in Threads, NEW l \in Locks, Enter(t, l) PROVE BlocksComplete'
  <2>1. /\ frames' = [frames EXCEPT ![t] = Append(frames[t], l)]
        /\ step[l] = 1
        /\ step' = [step EXCEPT ![l] = 2]
        /\ cur' = [cur EXCEPT ![t] = l]
        /\ caller' = [caller EXCEPT ![l] = t]
    BY <1>2 DEF Enter, Lock
  <2>2. /\ frames'[t] # << >> /\ Last(frames'[t]) = l
        /\ l \in ToSet(frames'[t])
        /\ \A u \in Threads : ToSet(frames[u]) \subseteq ToSet(frames'[u])
        /\ \A u \in Threads \ {t} : frames'[u] = frames[u]
    <3>1. /\ Len(frames[t]) \in Nat /\ DOMAIN frames[t] = 1 .. Len(frames[t])
          /\ frames'[t] = Append(frames[t], l)
          /\ \A u \in Threads \ {t} : frames'[u] = frames[u]
      BY <1>0, <2>1
    <3>2. /\ Len(frames'[t]) = Len(frames[t]) + 1
          /\ DOMAIN frames'[t] = 1 .. Len(frames[t]) + 1
          /\ frames'[t][Len(frames[t]) + 1] = l
          /\ \A i \in DOMAIN frames[t] : i \in DOMAIN frames'[t] /\ frames'[t][i] = frames[t][i]
      BY <1>0, <3>1
    <3>3. ToSet(frames[t]) \subseteq ToSet(frames'[t]) /\ l \in ToSet(frames'[t])
      BY <3>1, <3>2 DEF ToSet
    <3>4. frames'[t] # << >> /\ Last(frames'[t]) = l
      BY <3>2 DEF Last
    <3>5. \A u \in Threads : ToSet(frames[u]) \subseteq ToSet(frames'[u])
      BY <3>1, <3>3
    <3> QED
      BY <3>1, <3>3, <3>4, <3>5
  <2> QED
    BY <1>0, <2>1, <2>2 DEF BlocksComplete, FrameSet, MutexTypeOK
<1>3. ASSUME NEW t \in Threads, Leave(t) PROVE BlocksComplete'
  <2> DEFINE l == Last(frames[t])
  <2>1. /\ frames[t] # << >>
        /\ frames' = [frames EXCEPT ![t] = Front(frames[t])]
        /\ step' = [step EXCEPT ![l] = 3]
        /\ pc[t] = "idle"
        /\ UNCHANGED <<caller, cur>>
    BY <1>3 DEF Leave, Release
  <2>2. ASSUME NEW m \in Locks, m # l, NEW u \in Threads, m \in ToSet(frames[u])
        PROVE  m \in ToSet(frames'[u])
    <3>1. CASE u # t
      BY <1>0, <2>1, <2>2, <3>1
    <3>2. CASE u = t
      <4>1. /\ Len(frames[t]) \in Nat \ {0} /\ l = frames[t][Len(frames[t])]
            /\ DOMAIN frames[t] = 1 .. Len(frames[t])
            /\ frames'[t] = Front(frames[t])
            /\ DOMAIN Front(frames[t]) = 1 .. Len(frames[t]) - 1
            /\ \A i \in 1 .. Len(frames[t]) - 1 : Front(frames[t])[i] = frames[t][i]
        BY <1>0, <2>1, Innermost
      <4>2. PICK i \in 1 .. Len(frames[t]) - 1 : m = frames[t][i]
        BY <2>2, <3>2, <4>1 DEF ToSet
      <4> QED
        BY <3>2, <4>1, <4>2 DEF ToSet
    <3> QED
      BY <3>1, <3>2
  <2>3. l \in Locks
    BY <1>0, <2>1, Innermost
  <2>4. ASSUME NEW u \in Threads, cur'[u] # NoLock
        PROVE  frames'[u] # << >> /\ cur'[u] = Last(frames'[u])
    BY <1>0, <2>1, <2>4 DEF BlocksComplete, CallsMatchObjects
  <2>5. ASSUME NEW m \in Locks, step'[m] = 2
        PROVE  caller'[m] \in Threads /\ m \in FrameSet(caller[m])'
    BY <1>0, <2>1, <2>2, <2>3, <2>5 DEF BlocksComplete, FrameSet, MutexTypeOK
  <2> QED
    BY <2>1, <2>4, <2>5 DEF BlocksComplete, FrameSet
<1>4. CASE UNCHANGED clientVars \/ \E c \in Clients : EndOfSession(c)
  BY <1>0, <1>4 DEF clientVars, vars, lockVars, EndOfSession, SessionEnd, BlocksComplete, FrameSet
<1> QED
  BY <1>1, <1>2, <1>3, <1>4 DEF ClientNext

(***************************************************************************)
(* The thread-local session.  An object has its entry there unless it is   *)
(* reentrant or ran out of tries.                                          *)
(***************************************************************************)
Entered(reentry, result, tries, l) ==
    ~reentry[l] /\ (result[l] = "refused" => tries[l] = 0)

LEMMA SessionIsEntered ==
  SessionMatchesFrames <=>
    \A t \in Threads, r \in Resources :
       r \in session[t] <=>
         \E i \in DOMAIN frames[t] :
            ResOf[frames[t][i]] = r /\ Entered(isReentry, outcome, tryCount, frames[t][i])
  BY DEF SessionMatchesFrames, FrameSet, ToSet, Entered

\* Two blocks of a thread that are not reentrant lock different resources.
LEMMA OneEntered ==
  ASSUME ClientTypeOK, ClientInv, NEW t \in Threads,
         NEW i \in DOMAIN frames[t], NEW j \in DOMAIN frames[t], i # j,
         ~isReentry[frames[t][i]], ~isReentry[frames[t][j]]
  PROVE  ResOf[frames[t][i]] # ResOf[frames[t][j]]
<1>1. i \in Nat /\ j \in Nat /\ i \geq 1 /\ j \geq 1
  BY DEF ClientTypeOK
<1>2. i \in 1 .. j - 1 \/ j \in 1 .. i - 1
  BY <1>1
<1> QED
  BY <1>2 DEF ClientInv, BlocksNest

LEMMA SessionNext ==
  ASSUME ClientTypeOK, LockInv, ClientInv, [ClientNext]_clientVars,
         NEW u \in Threads, NEW r \in Resources
  PROVE  r \in session'[u] <=>
           \E i \in DOMAIN frames'[u] :
              ResOf[frames'[u][i]] = r /\ Entered(isReentry', outcome', tryCount', frames'[u][i])
<1> DEFINE Now(l)  == Entered(isReentry, outcome, tryCount, l)
           Then(l) == Entered(isReentry', outcome', tryCount', l)
           Goal    == r \in session'[u] <=>
                         \E i \in DOMAIN frames'[u] : ResOf[frames'[u][i]] = r /\ Then(frames'[u][i])
<1>0. /\ MutexTypeOK /\ frames \in [Threads -> Seq(Locks)]
      /\ BlocksNest(u) /\ BlocksComplete /\ CallsMatchObjects /\ TriesCounted
  BY DEF ClientInv, LockInv, ClientTypeOK
<1>1. r \in session[u] <=> \E i \in DOMAIN frames[u] : ResOf[frames[u][i]] = r /\ Now(frames[u][i])
  BY SessionIsEntered DEF ClientInv
<1>2. ASSUME r \in session'[u] <=> r \in session[u], frames'[u] = frames[u],
             \A i \in DOMAIN frames[u] : Then(frames[u][i]) <=> Now(frames[u][i])
      PROVE  Goal
  BY <1>1, <1>2
<1>3. ASSUME NEW t \in Threads, InLock(t), UNCHANGED frames, u # t PROVE Goal
  <2>1. \A i \in DOMAIN frames[u] : frames[u][i] \in Locks \ {cur[t]}
    BY <1>0, <1>3, InsideKeeps DEF BlocksNest
  <2>2. \A i \in DOMAIN frames[u] : Then(frames[u][i]) <=> Now(frames[u][i])
    BY <1>0, <1>3, <2>1, InsideKeeps DEF Entered
  <2>3. session'[u] = session[u]
    BY <1>0, <1>3 DEF InLock, InitPath, lockVars, InitDone, InitThrows, ExecuteOk, ExecuteRefused,
                      ExecuteRetry, WakeUp, CloseLocalThread, MutexTypeOK
  <2> QED
    BY <1>2, <1>3, <2>2, <2>3
<1>4. ASSUME NEW t \in Threads, InLock(t), UNCHANGED <<frames, session>>,
             outcome'[cur[t]] = "refused" => tryCount'[cur[t]] = 0
      PROVE  Goal
  <2>1. \A l \in Locks : Then(l) <=> Now(l)
    BY <1>0, <1>4, InsideKeeps DEF Entered
  <2> QED
    BY <1>0, <1>2, <1>4, <2>1
<1>5. ASSUME ExecuteRefused(u), UNCHANGED frames PROVE Goal
  <2> DEFINE n == Len(frames[u])
  <2>1. /\ cur[u] \in Locks /\ ~isReentry[cur[u]] /\ ResOf[cur[u]] \in Resources
        /\ cur[u] = frames[u][n] /\ n \in DOMAIN frames[u]
    BY <1>0, <1>5, OneThreadInside, Innermost, LockAssumption
       DEF ExecuteRefused, CallsMatchObjects, BlocksComplete
  <2>2. ~Then(cur[u])
    <3>1. tryCount'[cur[u]] = tryCount[cur[u]] + 1 /\ tryCount[cur[u]] \in Nat
      BY <1>0, <1>5, <2>1 DEF ExecuteRefused, CountTry, MutexTypeOK
    <3>2. outcome'[cur[u]] = "refused"
      BY <1>0, <1>5, <2>1 DEF ExecuteRefused, LeaveLock, MutexTypeOK
    <3> QED
      BY <3>1, <3>2 DEF Entered
  <2>3. ASSUME NEW i \in DOMAIN frames[u], i # n
        PROVE  /\ Then(frames[u][i]) <=> Now(frames[u][i])
               /\ Now(frames[u][i]) => ResOf[frames[u][i]] # ResOf[cur[u]]
    <3>1. frames[u][i] \in Locks \ {cur[u]}
      BY <1>0, <2>1, <2>3 DEF BlocksNest
    <3>2. InLock(u)
      BY <1>5 DEF InLock
    <3> QED
      BY <1>0, <2>1, <2>3, <3>1, <3>2, InsideKeeps, OneEntered DEF Entered
  <2>4. session'[u] = session[u] \ {ResOf[cur[u]]}
    BY <1>0, <1>5, <2>1 DEF ExecuteRefused, CloseLocalThread, MutexTypeOK
  <2>5. ASSUME r \in session'[u]
        PROVE  \E i \in DOMAIN frames[u] : ResOf[frames[u][i]] = r /\ Then(frames[u][i])
    BY <1>1, <2>1, <2>3, <2>4, <2>5
  <2>6. ASSUME NEW i \in DOMAIN frames[u], ResOf[frames[u][i]] = r, Then(frames[u][i])
        PROVE  r \in session'[u]
    BY <1>1, <2>1, <2>2, <2>3, <2>4, <2>6
  <2> HIDE DEF Now, Then
  <2> QED
    BY <1>5, <2>5, <2>6
<1>6. ASSUME NEW t \in Threads, Inside(t) PROVE Goal
  <2>1. CASE u = t /\ ExecuteRefused(t)
    BY <1>5, <1>6, <2>1 DEF Inside
  <2>2. CASE u # t
    BY <1>3, <1>6, <2>2 DEF Inside
  <2>3. CASE ~ExecuteRefused(t)
    <3>1. UNCHANGED session
      BY <1>6, <2>3 DEF Inside, InLock, InitPath, lockVars, InitDone, InitThrows, ExecuteOk,
                        ExecuteRetry, WakeUp
    <3>2. cur[t] \in Locks /\ outcome[cur[t]] = "locking"
      BY <1>0, <1>6, InsideKeeps DEF Inside
    <3>3. outcome'[cur[t]] = "refused" => InitThrows(t)
      BY <1>0, <1>6, <2>3, <3>2
         DEF Inside, MutexTypeOK, InLock, InitPath, lockVars, InitDone, LeaveLock, ExecuteOk,
             ExecuteRetry, WakeUp
    <3>4. InitThrows(t) => tryCount'[cur[t]] = 0
      BY <1>0 DEF InitThrows, TriesCounted
    <3> QED
      BY <1>4, <1>6, <3>1, <3>3, <3>4 DEF Inside
  <2> QED
    BY <2>1, <2>2, <2>3
<1>7. ASSUME NEW t \in Threads, NEW l \in Locks, Enter(t, l) PROVE Goal
  <2>1. /\ frames' = [frames EXCEPT ![t] = Append(frames[t], l)]
        /\ step[l] = 1
        /\ isReentry' = [isReentry EXCEPT ![l] = HasEntry(t, l)]
        /\ session' = [session EXCEPT ![t] = @ \cup {ResOf[l]}]
        /\ outcome' = [outcome EXCEPT ![l] = "locking"]
        /\ UNCHANGED tryCount
    BY <1>7 DEF Enter, Lock, AddEntry
  <2>2. ASSUME NEW i \in DOMAIN frames[u] PROVE Then(frames[u][i]) <=> Now(frames[u][i])
    <3>1. frames[u][i] \in Locks \ {l}
      BY <1>0, <2>1 DEF BlocksNest
    <3> QED
      BY <1>0, <2>1, <3>1 DEF Entered, MutexTypeOK
  <2>3. Then(l) <=> ResOf[l] \notin session[t]
    <3>1. isReentry'[l] <=> ResOf[l] \in session[t]
      BY <1>0, <2>1, Zenon DEF MutexTypeOK, HasEntry
    <3>2. outcome'[l] = "locking"
      BY <1>0, <2>1 DEF MutexTypeOK
    <3> QED
      BY <3>1, <3>2 DEF Entered
  <2> HIDE DEF Now, Then
  <2>4. CASE u # t
    BY <1>0, <1>2, <2>1, <2>2, <2>4 DEF MutexTypeOK
  <2>5. CASE u = t
    <3>1. /\ DOMAIN frames[u] = 1 .. Len(frames[u]) /\ Len(frames[u]) \in Nat
          /\ DOMAIN frames'[u] = 1 .. Len(frames[u]) + 1
          /\ frames'[u][Len(frames[u]) + 1] = l
          /\ \A i \in DOMAIN frames[u] : frames'[u][i] = frames[u][i]
      BY <1>0, <2>1, <2>5
    <3>2. session'[u] = session[u] \cup {ResOf[l]}
      BY <1>0, <2>1, <2>5 DEF MutexTypeOK
    <3>3. (\E i \in DOMAIN frames'[u] : ResOf[frames'[u][i]] = r /\ Then(frames'[u][i]))
          <=> \/ r = ResOf[l] /\ Then(l)
              \/ \E i \in DOMAIN frames[u] : ResOf[frames[u][i]] = r /\ Then(frames[u][i])
      BY <3>1
    <3> QED
      BY <1>1, <2>2, <2>3, <2>5, <3>2, <3>3
  <2> QED
    BY <2>4, <2>5
<1>8. ASSUME NEW t \in Threads, Leave(t) PROVE Goal
  <2> DEFINE l == Last(frames[t])
             n == Len(frames[t])
  <2>1. /\ frames[t] # << >>
        /\ frames' = [frames EXCEPT ![t] = Front(frames[t])]
        /\ outcome' = [outcome EXCEPT ![l] = "released"]
        /\ CloseLocalThread(t, l)
        /\ UNCHANGED <<isReentry, tryCount>>
    BY <1>8 DEF Leave, Release
  <2>2. /\ n \in Nat \ {0} /\ DOMAIN frames[t] = 1 .. n /\ l = frames[t][n] /\ l \in Locks
        /\ caller[l] = t
        /\ DOMAIN Front(frames[t]) = 1 .. n - 1
        /\ \A i \in 1 .. n - 1 : Front(frames[t])[i] = frames[t][i]
    BY <1>0, <2>1, Innermost DEF ClientInv, BlocksNest
  <2>3. ASSUME NEW i \in DOMAIN frames[u], frames[u][i] # l
        PROVE  Then(frames[u][i]) <=> Now(frames[u][i])
    BY <1>0, <2>1, <2>3 DEF Entered, MutexTypeOK
  <2>4. CASE u # t
    <3>1. \A i \in DOMAIN frames[u] : frames[u][i] # l
      BY <1>0, <2>2, <2>4 DEF BlocksNest
    <3>2. session'[u] = session[u] /\ frames'[u] = frames[u]
      BY <1>0, <2>1, <2>4 DEF CloseLocalThread, MutexTypeOK
    <3> QED
      BY <1>2, <2>3, <3>1, <3>2
  <2>5. CASE u = t
    <3>1. \A i \in 1 .. n - 1 : i \in DOMAIN frames[u] /\ frames[u][i] # l
      BY <1>0, <2>2, <2>5 DEF BlocksNest
    <3>2. (\E i \in DOMAIN frames'[u] : ResOf[frames'[u][i]] = r /\ Then(frames'[u][i]))
          <=> \E i \in 1 .. n - 1 : ResOf[frames[u][i]] = r /\ Now(frames[u][i])
      <4>1. frames'[u] = Front(frames[u])
        BY <1>0, <2>1, <2>5
      <4>2. DOMAIN frames'[u] = 1 .. n - 1 /\ \A i \in 1 .. n - 1 : frames'[u][i] = frames[u][i]
        BY <2>2, <2>5, <4>1
      <4>3. \A i \in 1 .. n - 1 : Then(frames[u][i]) <=> Now(frames[u][i])
        BY <2>3, <3>1
      <4> HIDE DEF Now, Then
      <4> QED
        BY <4>2, <4>3
    <3>3. (\E i \in DOMAIN frames[u] : ResOf[frames[u][i]] = r /\ Now(frames[u][i]))
          <=> \/ ResOf[l] = r /\ Now(l)
              \/ \E i \in 1 .. n - 1 : ResOf[frames[u][i]] = r /\ Now(frames[u][i])
      <4>1. DOMAIN frames[u] = (1 .. n - 1) \cup {n} /\ frames[u][n] = l
        BY <2>2, <2>5
      <4> HIDE DEF Now, n
      <4> QED
        BY <4>1
    <3>4. CASE isReentry[l]
      <4>1. session'[u] = session[u] /\ ~Now(l)
        BY <2>1, <3>4 DEF CloseLocalThread, Entered
      <4> QED
        BY <1>1, <3>2, <3>3, <4>1
    <3>5. CASE ~isReentry[l]
      <4>1. session'[u] = session[u] \ {ResOf[l]}
        BY <1>0, <2>1, <2>5, <3>5 DEF CloseLocalThread, MutexTypeOK
      <4>2. \A i \in 1 .. n - 1 : Now(frames[u][i]) => ResOf[frames[u][i]] # ResOf[l]
        <5>1. n \in DOMAIN frames[u] /\ l = frames[u][n]
          BY <2>2, <2>5
        <5> QED
          BY <2>2, <3>1, <3>5, <5>1, OneEntered DEF Entered
      <4> HIDE DEF Now, Then
      <4> QED
        BY <1>1, <3>2, <3>3, <4>1, <4>2
    <3> QED
      BY <3>4, <3>5
  <2> QED
    BY <2>4, <2>5
<1>9. CASE UNCHANGED clientVars \/ \E c \in Clients : EndOfSession(c)
  BY <1>2, <1>9 DEF clientVars, vars, lockVars, EndOfSession, SessionEnd
<1> QED
  BY <1>6, <1>7, <1>8, <1>9 DEF ClientNext

LEMMA ClientInvInit == ClientInit => ClientInv
  BY LockAssumption
     DEF ClientInit, Init, ClientInv, BlocksNest, BlocksComplete, SessionMatchesFrames,
         FrameSet, ToSet

LEMMA ClientInvNext ==
  ASSUME ClientTypeOK, LockInv, ClientInv, [ClientNext]_clientVars
  PROVE  ClientInv'
<1>1. \A t \in Threads : BlocksNest(t)'
  BY BlocksNext
<1>2. BlocksComplete'
  BY CompleteNext
<1>3. SessionMatchesFrames'
  BY SessionNext DEF SessionMatchesFrames, FrameSet, ToSet, Entered
<1> QED
  BY <1>1, <1>2, <1>3 DEF ClientInv

(***************************************************************************)
(* In nested blocks the thread-local session, the reentry flags and the    *)
(* blocks never disagree.                                                  *)
(***************************************************************************)
THEOREM BlocksAgree == ClientSpec => []ClientInv
  BY ClientInvInit, ClientInvNext, ClientTypeCorrect, ClientsAreCallers, FieldsAgree, PTL
     DEF ClientSpec

-----------------------------------------------------------------------------
(***************************************************************************)
(* Under a lock that is held there is the lock of the same thread that     *)
(* asked ZooKeeper for the resource: itself or one further out.            *)
(***************************************************************************)
LEMMA HolderUnder ==
  ASSUME ClientTypeOK, LockInv, ClientInv, NEW l \in Locks, Held(l)
  PROVE  /\ caller[l] \in Threads /\ l \in FrameSet(caller[l])
         /\ Reaches(caller[l], l)
         /\ \E m \in FrameSet(caller[l]) :
               /\ m \in Locks /\ Held(m) /\ ~isReentry[m]
               /\ ResOf[m] = ResOf[l] /\ caller[m] = caller[l]
               /\ Reaches(caller[l], m)
<1> DEFINE t == caller[l]
<1>1. step[l] = 2
  <2>1. step[l] \in 1 .. 3
    BY DEF ClientTypeOK, MutexTypeOK
  <2>2. step[l] # 1 /\ step[l] # 3
    BY DEF Held, LockInv, CallsMatchObjects
  <2> QED
    BY <2>1, <2>2
<1>2. t \in Threads /\ l \in FrameSet(t)
  BY <1>1 DEF ClientInv, BlocksComplete
<1>3. PICK i \in DOMAIN frames[t] : l = frames[t][i]
  BY <1>2 DEF FrameSet, ToSet
<1>4. /\ frames[t] \in Seq(Locks) /\ BlocksNest(t)
      /\ DOMAIN frames[t] = 1 .. Len(frames[t]) /\ Len(frames[t]) \in Nat
  BY <1>2 DEF ClientInv, ClientTypeOK
<1>5. Reaches(t, l)
  BY <1>3, <1>4 DEF BlocksNest
<1>6. CASE ~isReentry[l]
  BY <1>2, <1>5, <1>6
<1>7. CASE isReentry[l]
  <2>1. PICK j \in 1 .. i - 1 : ResOf[frames[t][j]] = ResOf[l] /\ ~isReentry[frames[t][j]]
    BY <1>3, <1>4, <1>7 DEF BlocksNest
  <2>2. j \in DOMAIN frames[t] /\ j < Len(frames[t])
    BY <1>4, <2>1
  <2>3. /\ frames[t][j] \in FrameSet(t) /\ frames[t][j] \in Locks
        /\ Held(frames[t][j]) /\ caller[frames[t][j]] = t /\ Reaches(t, frames[t][j])
    BY <1>4, <2>2 DEF FrameSet, ToSet, BlocksNest
  <2> QED
    BY <1>2, <1>5, <2>1, <2>3
<1> QED
  BY <1>6, <1>7

(***************************************************************************)
(* README of the module: while one thread has got the lock no other thread *)
(* gets it.  The znode of the resource can only be of one lock object, and *)
(* both holders would have it.                                             *)
(***************************************************************************)
THEOREM Exclusion == ClientSpec => []MutualExclusion
<1>1. ASSUME ClientTypeOK, LockInv, ClientInv, HolderOwnsNode PROVE MutualExclusion
  <2> SUFFICES ASSUME NEW l \in Locks, NEW m \in Locks, Held(l), Alive(l), Held(m), Alive(m),
                      ResOf[l] = ResOf[m]
               PROVE  caller[l] = caller[m]
    BY DEF MutualExclusion
  <2>1. ASSUME NEW k \in Locks, Held(k), Alive(k)
        PROVE  caller[znode[ResOf[k]]] = caller[k]
    BY <1>1, <2>1, HolderUnder DEF HolderOwnsNode, Alive, Reaches
  <2> QED
    BY <2>1
<1> QED
  BY <1>1, ClientTypeCorrect, ClientsAreCallers, FieldsAgree, HolderKeepsNode, BlocksAgree, PTL

(***************************************************************************)
(* The session of a thread is exact, so nothing stays behind after the     *)
(* outermost block.                                                        *)
(***************************************************************************)
THEOREM SessionExact == ClientSpec => []SessionMatchesFrames
<1>1. ClientInv => SessionMatchesFrames
  BY DEF ClientInv
<1> QED
  BY <1>1, BlocksAgree, PTL

(***************************************************************************)
(* A reentrant lock stands on the held lock with the znode.                *)
(***************************************************************************)
THEOREM ReentryStands == ClientSpec => []ReentrantUnderHolder
<1>1. ASSUME ClientTypeOK, LockInv, ClientInv, HolderOwnsNode PROVE ReentrantUnderHolder
  BY <1>1, HolderUnder DEF ReentrantUnderHolder, HolderOwnsNode
<1> QED
  BY <1>1, ClientTypeCorrect, ClientsAreCallers, FieldsAgree, HolderKeepsNode, BlocksAgree, PTL

(***************************************************************************)
(* A thread that holds a lock does not ask ZooKeeper for it again.         *)
(***************************************************************************)
THEOREM ReentryFound == ClientSpec => []ReentryHonoured
<1>1. ASSUME ClientTypeOK, LockInv, ClientInv PROVE ReentryHonoured
  <2> SUFFICES ASSUME NEW t \in Threads, cur[t] # NoLock, NEW l \in FrameSet(t),
                      Held(l), ResOf[l] = ResOf[cur[t]], ~isReentry[cur[t]]
               PROVE  FALSE
    BY DEF ReentryHonoured
  <2> DEFINE n == Len(frames[t])
  <2>1. /\ frames[t] \in Seq(Locks) /\ BlocksNest(t) /\ frames[t] # << >>
        /\ cur[t] = Last(frames[t])
        /\ outcome[cur[t]] = "locking"
    BY <1>1 DEF ClientInv, ClientTypeOK, BlocksComplete, LockInv, CallsMatchObjects
  <2>2. n \in DOMAIN frames[t] /\ cur[t] = frames[t][n] /\ DOMAIN frames[t] = 1 .. n /\ n \in Nat
    BY <2>1, Innermost
  <2>3. PICK i \in DOMAIN frames[t] : l = frames[t][i]
    BY DEF FrameSet, ToSet
  <2>4. i \in 1 .. n - 1
    BY <2>1, <2>2, <2>3 DEF Held
  <2>5. ResOf[frames[t][i]] # ResOf[frames[t][n]]
    BY <2>1, <2>2, <2>4 DEF BlocksNest
  <2> QED
    BY <2>2, <2>3, <2>5
<1> QED
  BY <1>1, ClientTypeCorrect, ClientsAreCallers, FieldsAgree, BlocksAgree, PTL

-----------------------------------------------------------------------------
(***************************************************************************)
(* The lock implements EphemeralMutex.  Owner and HeldOn are the two       *)
(* abstract variables of the refinement mapping.                           *)
(***************************************************************************)
Owner == [r \in Resources |-> IF znode[r] = NoLock THEN NoThread ELSE caller[znode[r]]]

HeldOn == [r \in Resources |-> {l \in Locks : ResOf[l] = r /\ Held(l) /\ Alive(l)}]

LEMMA HeldOnIsFunction ==
  /\ HeldOn = [r \in Resources |-> HeldOn[r]]
  /\ HeldOn' = [r \in Resources |-> HeldOn'[r]]
  BY DEF HeldOn

\* A lock that is held in a live session is held by the owner, in whose JVM the
\* lock that made the znode is too.
LEMMA HolderIsOwner ==
  ASSUME ClientTypeOK, LockInv, ClientInv, HolderOwnsNode,
         NEW l \in Locks, Held(l), Alive(l)
  PROVE  /\ znode[ResOf[l]] # NoLock
         /\ caller[znode[ResOf[l]]] = caller[l]
         /\ ZkOf[znode[ResOf[l]]] = ZkOf[l]
         /\ Owner[ResOf[l]] = caller[l]
<1>1. PICK m \in Locks : /\ Held(m) /\ ~isReentry[m] /\ ResOf[m] = ResOf[l]
                         /\ caller[m] = caller[l] /\ ZkOf[m] = ZkOf[l]
  BY HolderUnder DEF Reaches
<1>2. znode[ResOf[l]] = m
  BY <1>1 DEF HolderOwnsNode, Alive
<1>3. m # NoLock /\ ResOf[l] \in Resources
  BY LockAssumption
<1> QED
  BY <1>1, <1>2, <1>3 DEF Owner

\* Steps in which no lock is won, lost or left.
LEMMA Stutters ==
  ASSUME UNCHANGED <<expired, znode>>,
         \A l \in Locks : Held(l)' = Held(l),
         \A r \in Resources : znode[r] # NoLock => caller'[znode[r]] = caller[znode[r]]
  PROVE  UNCHANGED <<expired, Owner, HeldOn>>
  BY DEF Owner, HeldOn, Alive

\* execute() created the znode, or did so and threw.
LEMMA CreateImplements ==
  ASSUME ClientTypeOK, LockInv, ClientInv, HolderOwnsNode, NEW t \in Threads,
         NEW l \in Locks, NEW r \in Resources, cur[t] = l, ResOf[l] = r,
         pc[t] = "execute", Connected(t), znode[r] = NoLock,
         znode' = [znode EXCEPT ![r] = l],
         \A m \in Locks \ {l} : outcome'[m] = outcome[m],
         UNCHANGED <<expired, caller>>
  PROVE  Promise!Next
<1>1. /\ MutexTypeOK /\ CallsMatchObjects /\ NodesMatchObjects
  BY DEF ClientTypeOK, LockInv
<1>2. l # NoLock /\ caller[l] = t /\ Alive(l)
  BY <1>1, OneThreadInside, LockAssumption DEF CallsMatchObjects, Reaches, Alive, Connected
<1>3. Owner[r] = NoThread /\ Owner' = [Owner EXCEPT ![r] = t]
  BY <1>1, <1>2 DEF Owner, MutexTypeOK
<1>4. ASSUME NEW m \in Locks, Held(m), Alive(m) PROVE ResOf[m] # r
  BY <1>4, HolderIsOwner
<1>5. ASSUME NEW s \in Resources, s # r PROVE HeldOn'[s] = HeldOn[s]
  <2>1. \A m \in Locks : ResOf[m] = s => Held(m)' = Held(m) /\ Alive(m)' = Alive(m)
    BY <1>5 DEF Held, Alive
  <2> QED
    BY <2>1 DEF HeldOn
<1>6. HeldOn'[r] = IF outcome'[l] = "held" THEN {l} ELSE {}
  <2>1. \A m \in Locks \ {l} : ResOf[m] = r /\ Alive(m) => ~(Held(m)')
    BY <1>4 DEF Held
  <2>2. \A m \in Locks : Alive(m)' <=> Alive(m)
    BY DEF Alive
  <2> QED
    BY <1>2, <2>1, <2>2 DEF HeldOn, Held
<1>7. HeldOn' = [HeldOn EXCEPT ![r] = IF outcome'[l] = "held" THEN {l} ELSE {}]
  BY <1>5, <1>6, HeldOnIsFunction
<1>8. CASE outcome'[l] = "held"
  <2>1. Promise!Acquire(t, r, l)
    BY <1>2, <1>3, <1>7, <1>8 DEF Promise!Acquire, Promise!Take, Owner, HeldOn, Connected
  <2> QED
    BY <1>2, <2>1 DEF Promise!Next
<1>9. CASE outcome'[l] # "held"
  <2>1. Promise!AcquireUnnoticed(t, r)
    BY <1>2, <1>3, <1>7, <1>9 DEF Promise!AcquireUnnoticed, Promise!Take, Owner, HeldOn, Connected
  <2> QED
    BY <1>2, <2>1 DEF Promise!Next
<1> QED
  BY <1>8, <1>9

\* lock() found the resource in the thread's session.
LEMMA ReentryImplements ==
  ASSUME ClientTypeOK, LockInv, ClientInv, HolderOwnsNode, NEW t \in Threads,
         NEW l \in Locks, NEW r \in Resources, cur[t] = l, ResOf[l] = r,
         InitDone(t), isReentry[l]
  PROVE  Promise!Next \/ UNCHANGED <<expired, Owner, HeldOn>>
<1>1. /\ MutexTypeOK /\ CallsMatchObjects /\ NodesMatchObjects
  BY DEF ClientTypeOK, LockInv
<1>2. l # NoLock /\ Reaches(t, l) /\ outcome[l] = "locking"
  BY <1>1, OneThreadInside, LockAssumption DEF CallsMatchObjects, InitDone
<1>3. /\ outcome' = [outcome EXCEPT ![l] = "held"]
      /\ UNCHANGED <<expired, znode, caller>>
  BY DEF InitDone, LeaveLock
<1>4. /\ \A m \in Locks \ {l} : Held(m)' <=> Held(m)
      /\ Held(l)' /\ ~Held(l)
      /\ \A m \in Locks : Alive(m)' <=> Alive(m)
  BY <1>1, <1>2, <1>3 DEF Held, Alive, MutexTypeOK
<1>5. Owner' = Owner
  BY <1>3 DEF Owner
<1>6. CASE ~Alive(l)
  BY <1>3, <1>4, <1>5, <1>6 DEF HeldOn
<1>7. CASE Alive(l)
  <2>1. PICK m \in Locks : Held(m) /\ ResOf[m] = r /\ caller[m] = t /\ Reaches(t, m)
    <3>1. /\ frames[t] \in Seq(Locks) /\ frames[t] # << >> /\ BlocksNest(t) /\ l = Last(frames[t])
      BY <1>2 DEF ClientInv, BlocksComplete, ClientTypeOK
    <3>2. PICK n \in DOMAIN frames[t] : n = Len(frames[t]) /\ l = frames[t][n] /\ n \in Nat
      BY <3>1, Innermost
    <3>3. PICK j \in 1 .. n - 1 : ResOf[frames[t][j]] = r
      BY <3>1, <3>2 DEF BlocksNest
    <3>4. j \in DOMAIN frames[t] /\ j < Len(frames[t]) /\ frames[t][j] \in Locks
      BY <3>1, <3>2, <3>3
    <3> QED
      BY <3>1, <3>3, <3>4 DEF BlocksNest
  <2>2. Alive(m)
    BY <1>2, <1>7, <2>1 DEF Alive, Reaches
  <2>3. Owner[r] = t /\ m \in HeldOn[r]
    BY <1>2, <2>1, <2>2, HolderIsOwner DEF HeldOn
  <2>4. HeldOn' = [HeldOn EXCEPT ![r] = @ \cup {l}] /\ l \notin HeldOn[r]
    BY <1>2, <1>4, <1>7 DEF HeldOn
  <2>5. Promise!Reenter(t, r, l)
    BY <1>3, <1>5, <2>3, <2>4 DEF Promise!Reenter, Owner, HeldOn
  <2> QED
    BY <1>2, <2>5 DEF Promise!Next
<1> QED
  BY <1>6, <1>7

LEMMA LeaveImplements ==
  ASSUME ClientTypeOK, LockInv, ClientInv, HolderOwnsNode, NEW t \in Threads,
         NEW l \in Locks, NEW r \in Resources, l = Last(frames[t]), ResOf[l] = r, Leave(t)
  PROVE  Promise!Next \/ UNCHANGED <<expired, Owner, HeldOn>>
<1>1. MutexTypeOK
  BY DEF ClientTypeOK
<1>3. /\ outcome' = [outcome EXCEPT ![l] = "released"]
      /\ UNCHANGED <<expired, znode, caller>>
  BY DEF Leave, Release
<1>4. /\ \A m \in Locks \ {l} : Held(m)' <=> Held(m)
      /\ ~(Held(l)')
      /\ \A m \in Locks : Alive(m)' <=> Alive(m)
  BY <1>1, <1>3 DEF Held, Alive, MutexTypeOK
<1>5. Owner' = Owner
  BY <1>3 DEF Owner
<1>6. HeldOn' = [HeldOn EXCEPT ![r] = @ \ {l}]
  BY <1>4 DEF HeldOn
<1>7. CASE l \in HeldOn[r]
  <2>1. Promise!Exit(r, l)
    BY <1>3, <1>5, <1>6, <1>7 DEF Promise!Exit, Owner, HeldOn
  <2> QED
    BY <2>1 DEF Promise!Next
<1>8. CASE l \notin HeldOn[r]
  <2>1. HeldOn' = HeldOn
    BY <1>6, <1>8, HeldOnIsFunction
  <2> QED
    BY <1>3, <1>5, <2>1
<1> QED
  BY <1>7, <1>8

LEMMA SessionEndImplements ==
  ASSUME ClientTypeOK, LockInv, ClientInv, HolderOwnsNode, NEW c \in Clients, SessionEnd(c)
  PROVE  Promise!Next
<1> DEFINE gone == {r \in Resources : Owner[r] # NoThread /\ ClientOf[Owner[r]] = c}
<1>1. /\ MutexTypeOK /\ NodesMatchObjects
  BY DEF ClientTypeOK, LockInv
<1>2. ASSUME NEW r \in Resources
      PROVE  r \in gone <=> znode[r] # NoLock /\ ZkOf[znode[r]] = c
  BY <1>1, LockAssumption DEF Owner, NodesMatchObjects, Reaches
<1>3. Owner' = [r \in Resources |-> IF r \in gone THEN NoThread ELSE Owner[r]]
  <2>1. \A r \in Resources : znode'[r] = IF r \in gone THEN NoLock ELSE znode[r]
    BY <1>2 DEF SessionEnd
  <2>2. caller' = caller
    BY DEF SessionEnd
  <2> HIDE DEF gone
  <2> QED
    BY <2>1, <2>2 DEF Owner
<1>4. HeldOn' = [r \in Resources |-> IF r \in gone THEN {} ELSE HeldOn[r]]
  <2>1. ASSUME NEW l \in Locks, Held(l), Alive(l) PROVE Alive(l)' <=> ResOf[l] \notin gone
    <3>1. ResOf[l] \in Resources
      BY LockAssumption
    <3>2. ResOf[l] \in gone <=> ZkOf[l] = c
      BY <1>2, <2>1, <3>1, HolderIsOwner
    <3> QED
      BY <2>1, <3>2 DEF SessionEnd, Alive
  <2>2. ASSUME NEW l \in Locks PROVE /\ Held(l)' <=> Held(l)
                                     /\ Alive(l)' => Alive(l)
    BY DEF SessionEnd, Held, Alive
  <2> HIDE DEF gone
  <2> QED
    BY <2>1, <2>2 DEF HeldOn
<1>5. c \notin expired /\ expired' = expired \cup {c}
  BY DEF SessionEnd
<1>6. Promise!EndSession(c)
  BY <1>3, <1>4, <1>5 DEF Promise!EndSession, Owner, HeldOn
<1> QED
  BY <1>6 DEF Promise!Next

LEMMA StepImplements ==
  ASSUME ClientTypeOK, LockInv, ClientInv, HolderOwnsNode, [ClientNext]_clientVars
  PROVE  Promise!Next \/ UNCHANGED <<expired, Owner, HeldOn>>
<1> DEFINE Goal == Promise!Next \/ UNCHANGED <<expired, Owner, HeldOn>>
<1>0. MutexTypeOK /\ CallsMatchObjects /\ NodesMatchObjects
  BY DEF ClientTypeOK, LockInv
<1>1. ASSUME NEW t \in Threads, InLock(t), UNCHANGED <<expired, znode>>, outcome'[cur[t]] # "held"
      PROVE  Goal
  <2>1. \A l \in Locks : Held(l)' = Held(l)
    BY <1>0, <1>1, InsideKeeps DEF Held
  <2> QED
    BY <1>0, <1>1, <2>1, InsideKeeps, Stutters
<1>2. ASSUME NEW t \in Threads, InLock(t), pc[t] = "execute",
             ~(ExecuteOk(t)), CreateThrows(t), UNCHANGED expired, outcome'[cur[t]] # "held"
      PROVE  Goal
  <2>1. CASE UNCHANGED znode
    BY <1>1, <1>2, <2>1
  <2>2. CASE ~UNCHANGED znode
    BY <1>0, <1>2, <2>2, InsideKeeps, CreateImplements, LockAssumption DEF CreateThrows
  <2> QED
    BY <2>1, <2>2
<1>3. ASSUME NEW t \in Threads, Inside(t) PROVE Goal
  <2>0. /\ InLock(t) /\ cur[t] \in Locks /\ outcome[cur[t]] = "locking"
        /\ ResOf[cur[t]] \in Resources
    BY <1>0, <1>3, InsideKeeps, LockAssumption DEF Inside
  <2>1. CASE InitPath(t) \/ WakeUp(t) \/ (InitDone(t) /\ ~isReentry[cur[t]]) \/ InitThrows(t)
    BY <1>0, <1>1, <2>0, <2>1
       DEF InitPath, lockVars, WakeUp, InitDone, InitThrows, LeaveLock, MutexTypeOK
  <2>2. CASE InitDone(t) /\ isReentry[cur[t]]
    BY <2>0, <2>2, ReentryImplements
  <2>3. CASE ExecuteOk(t)
    BY <1>0, <2>0, <2>3, InsideKeeps, CreateImplements DEF ExecuteOk
  <2>4. CASE (ExecuteRefused(t) \/ ExecuteRetry(t)) /\ ~ExecuteOk(t)
    BY <1>0, <1>2, <2>0, <2>4 DEF ExecuteRefused, ExecuteRetry, LeaveLock, MutexTypeOK
  <2> QED
    BY <2>0, <2>1, <2>2, <2>3, <2>4 DEF InLock
<1>4. ASSUME NEW t \in Threads, NEW l \in Locks, Enter(t, l) PROVE Goal
  <2>1. /\ step[l] = 1
        /\ outcome' = [outcome EXCEPT ![l] = "locking"]
        /\ caller' = [caller EXCEPT ![l] = t]
        /\ UNCHANGED <<expired, znode>>
    BY <1>4 DEF Enter, Lock
  <2>2. outcome[l] = "new" /\ \A r \in Resources : znode[r] # NoLock => znode[r] # l
    BY <1>0, <2>1 DEF CallsMatchObjects, NodesMatchObjects
  <2>3. \A m \in Locks : Held(m)' = Held(m)
    BY <1>0, <2>1, <2>2 DEF Held, MutexTypeOK
  <2>4. \A r \in Resources : znode[r] # NoLock => caller'[znode[r]] = caller[znode[r]]
    BY <1>0, <2>1, <2>2 DEF MutexTypeOK
  <2> QED
    BY <2>1, <2>3, <2>4, Stutters
<1>5. ASSUME NEW c \in Clients, EndOfSession(c) PROVE Goal
  BY <1>5, SessionEndImplements DEF EndOfSession
<1>6. CASE UNCHANGED clientVars
  BY <1>6, Stutters DEF clientVars, vars, lockVars, Held
<1>7. ASSUME NEW t \in Threads, Leave(t) PROVE Goal
  <2>1. Last(frames[t]) \in Locks /\ ResOf[Last(frames[t])] \in Resources
    BY <1>7, Innermost, LockAssumption DEF Leave, ClientTypeOK
  <2> QED
    BY <1>7, <2>1, LeaveImplements
<1> QED
  BY <1>3, <1>4, <1>5, <1>6, <1>7 DEF ClientNext

LEMMA InitImplements == ClientInit => Promise!Init
  BY DEF ClientInit, Init, Promise!Init, Held

(***************************************************************************)
(* The lock keeps its promise to the users: every step of lock(),          *)
(* release(), createPersistentPath() and the ZooKeeper session is a step   *)
(* of EphemeralMutex or none.                                              *)
(***************************************************************************)
THEOREM Implements == ClientSpec => ImplementsPromise
<1>1. ASSUME ClientTypeOK, LockInv, ClientInv, HolderOwnsNode, [ClientNext]_clientVars
      PROVE  [Promise!Next]_<<expired, Owner, HeldOn>>
  BY <1>1, StepImplements
<1> QED
  BY <1>1, InitImplements, ClientTypeCorrect, ClientsAreCallers, FieldsAgree, HolderKeepsNode,
     BlocksAgree, PTL DEF ClientSpec, ImplementsPromise, Promise!Spec, Owner, HeldOn
=============================================================================
