--------------------------- MODULE GroupLock_proofs ---------------------------
(***************************************************************************)
(* Proofs about ZookeeperGroupMutexLock and ZookeeperCombinationMutexLock, *)
(* for every number of threads, handles, groups, inner locks and tries.    *)
(***************************************************************************)
EXTENDS GroupLock, MutexLock_proofs

LEMMA GroupTypes ==
  ASSUME GroupTypeOK
  PROVE  /\ step \in [Locks -> 1 .. 3] /\ isReentry \in [Locks -> BOOLEAN]
         /\ session \in [Threads -> SUBSET Resources]
         /\ pc \in [Threads -> {"idle", "init", "execute", "sleep"}]
         /\ cur \in [Threads -> Locks \cup {NoLock}]
         /\ znode \in [Resources -> Locks \cup {NoLock}]
         /\ outcome \in [Locks -> {"new", "locking", "held", "refused", "released"}]
         /\ caller \in [Locks -> Threads \cup {NoThread}]
         /\ gstep \in [Groups -> 1 .. 2] /\ gReentry \in [Groups -> BOOLEAN]
         /\ gpc \in [Threads -> {"idle", "init", "acquire", "inner", "undo", "release"}]
         /\ gcur \in [Threads -> Groups \cup {NoGroup}] /\ gat \in [Threads -> Nat]
         /\ gresult \in [Groups -> {"new", "locking", "held", "refused", "released"}]
         /\ gframes \in [Threads -> Seq(Groups)]
         /\ NoLock \notin Locks /\ NoGroup \notin Groups
  BY LockAssumption, GroupAssumption DEF GroupTypeOK, MutexTypeOK

\* The inner locks of a group, in their order; no two groups share one.
LEMMA InnerLocks ==
  ASSUME NEW g \in Groups
  PROVE  /\ Items[g] \in Seq(Locks)
         /\ Len(Items[g]) \in Nat \ {0} /\ DOMAIN Items[g] = 1 .. Len(Items[g])
         /\ 1 \in DOMAIN Items[g]
         /\ \A i \in DOMAIN Items[g] : Items[g][i] \in Locks /\ ResOf[Items[g][i]] \in Resources
         /\ \A h \in Groups : \A i \in DOMAIN Items[g], j \in DOMAIN Items[h] :
               Items[g][i] = Items[h][j] => g = h /\ i = j
         /\ ItemSet(g) = {Items[g][i] : i \in DOMAIN Items[g]}
         /\ BasePaths[g][1] \in Roots
         /\ \A i \in 1 .. Len(BasePaths[g]) : BasePaths[g][i] \in Roots
         /\ SessionIdOf[g] \in SessionIds
<1>1. Items[g] \in Seq(Locks) /\ Items[g] # << >> /\ BasePaths[g] \in Seq(Roots) /\ BasePaths[g] # << >>
  BY GroupAssumption
<1>2. \A h \in Groups : \A i \in DOMAIN Items[g], j \in DOMAIN Items[h] :
         Items[g][i] = Items[h][j] => g = h /\ i = j
  BY GroupAssumption
<1>3. SessionIdOf[g] \in SessionIds
  BY GroupAssumption
<1>4. ItemSet(g) = {Items[g][i] : i \in DOMAIN Items[g]}
  BY DEF ItemSet, ToSet
<1>5. \A i \in DOMAIN Items[g] : Items[g][i] \in Locks /\ ResOf[Items[g][i]] \in Resources
  BY <1>1, LockAssumption
<1> QED
  BY <1>1, <1>2, <1>3, <1>4, <1>5

LEMMA LastGroup ==
  ASSUME NEW s \in Seq(Groups), s # << >>
  PROVE  /\ Len(s) \in Nat \ {0} /\ DOMAIN s = 1 .. Len(s)
         /\ Last(s) = s[Len(s)] /\ Last(s) \in Groups
         /\ Front(s) \in Seq(Groups) /\ Len(Front(s)) = Len(s) - 1
         /\ DOMAIN Front(s) = 1 .. Len(s) - 1
         /\ \A i \in 1 .. Len(s) - 1 : Front(s)[i] = s[i]
<1>1. Len(s) \in Nat \ {0} /\ DOMAIN s = 1 .. Len(s)
  OBVIOUS
<1>2. Front(s) \in Seq(Groups) /\ Len(Front(s)) = Len(s) - 1 /\ \A i \in 1 .. Len(s) - 1 : Front(s)[i] = s[i]
  BY <1>1 DEF Front
<1> QED
  BY <1>1, <1>2 DEF Last

(***************************************************************************)
(* Where a thread is in a group, and the inner lock it is at.              *)
(***************************************************************************)
LEMMA AtHand ==
  ASSUME GroupTypeOK, GroupInv, NEW t \in Threads, gpc[t] # "idle"
  PROVE  /\ gcur[t] \in Groups /\ gstep[gcur[t]] = 2
         /\ gpc[t] \in {"acquire", "inner", "undo", "release"} =>
               /\ gat[t] \in DOMAIN Items[gcur[t]]
               /\ Item(t) \in Locks /\ Item(t) = Items[gcur[t]][gat[t]]
         /\ InGroupLock(t) => /\ Len(gframes[t]) \in DOMAIN gframes[t]
                              /\ gframes[t][Len(gframes[t])] = gcur[t]
                              /\ gresult[gcur[t]] = "locking"
<1>1. GroupsNest(t) /\ gframes[t] \in Seq(Groups)
  BY GroupTypes DEF GroupInv
<1>2. /\ gcur[t] \in Groups /\ gstep[gcur[t]] = 2
      /\ gpc[t] \in {"acquire", "inner", "undo", "release"} => gat[t] \in DOMAIN Items[gcur[t]]
  BY <1>1 DEF GroupsNest
<1>3. InGroupLock(t) => /\ gframes[t] # << >> /\ Last(gframes[t]) = gcur[t]
                        /\ gresult[gcur[t]] = "locking"
  BY <1>1 DEF GroupsNest
<1>4. InGroupLock(t) => Len(gframes[t]) \in DOMAIN gframes[t]
                        /\ gframes[t][Len(gframes[t])] = gcur[t]
  BY <1>1, <1>3, LastGroup
<1> QED
  BY <1>2, <1>3, <1>4, InnerLocks DEF Item

LEMMA ReturnType ==
  ASSUME GroupTypeOK, NEW t \in Threads, gcur[t] \in Groups,
         NEW result \in {"held", "refused", "released"}, Return(t, result)
  PROVE  /\ gpc' \in [Threads -> {"idle", "init", "acquire", "inner", "undo", "release"}]
         /\ gat' \in [Threads -> Nat]
         /\ gcur' \in [Threads -> Groups \cup {NoGroup}]
         /\ gresult' \in [Groups -> {"new", "locking", "held", "refused", "released"}]
  BY GroupTypes DEF Return, GoTo

\* A group calls lock() and release() of its inner locks; for the rest it makes
\* its base paths.
LEMMA GroupCallsMutex ==
  ASSUME GroupTypeOK, GroupInv, [GroupNext]_allVars
  PROVE  \/ [Next]_vars
         \/ /\ UNCHANGED <<expired, paths, lockVars>>
            /\ \E t \in Threads : \/ PathReturn(t)
                                  \/ \E r \in Roots : CreatePersistentPath(t, r)
<1> DEFINE Goal == \/ [Next]_vars
                   \/ /\ UNCHANGED <<expired, paths, lockVars>>
                      /\ \E t \in Threads : \/ PathReturn(t)
                                            \/ \E r \in Roots : CreatePersistentPath(t, r)
<1>1. ASSUME NEW t \in Threads, NEW g \in Groups, LockGroup(t, g) PROVE Goal
  BY <1>1, InnerLocks DEF LockGroup
<1>2. ASSUME NEW t \in Threads, InGroup(t) \/ GroupRelease(t) PROVE Goal
  <2>1. CASE InItem(t)
    BY <2>1 DEF InItem, Next
  <2>2. CASE NextBasePath(t)
    <3>1. gcur[t] \in Groups /\ gat[t] \in Nat
      BY <2>2, AtHand, GroupTypes DEF NextBasePath
    <3>2. Len(BasePaths[gcur[t]]) \in Nat
      BY <3>1, GroupAssumption
    <3>3. gat[t] + 1 \in 1 .. Len(BasePaths[gcur[t]])
      BY <2>2, <3>1, <3>2 DEF NextBasePath
    <3>4. BasePaths[gcur[t]][gat[t] + 1] \in Roots
      BY <3>1, <3>3, InnerLocks
    <3> QED
      BY <2>2, <3>4 DEF NextBasePath
  <2>3. CASE GroupInitDone(t) \/ GroupInitThrows(t)
    BY <2>3 DEF GroupInitDone, GroupInitThrows
  <2>4. CASE AcquireItem(t)
    <3>1. Item(t) \in Locks
      BY <2>4, AtHand DEF AcquireItem
    <3> QED
      BY <2>4, <3>1 DEF AcquireItem, Next
  <2>5. CASE ItemHeld(t) \/ ItemRefused(t) \/ UndoDone(t) \/ GroupRelease(t)
    BY <2>5 DEF ItemHeld, ItemRefused, UndoDone, GroupRelease
  <2>6. CASE UndoItem(t)
    <3>1. gcur[t] \in Groups /\ gat[t] \in DOMAIN Items[gcur[t]]
      BY <2>6, AtHand DEF UndoItem
    <3>2. \A i \in 1 .. gat[t] - 1 : i \in DOMAIN Items[gcur[t]]
      BY <3>1, InnerLocks
    <3>3. \A l \in Gotten(t) : l \in Locks
      BY <3>1, <3>2, InnerLocks DEF Gotten
    <3> QED
      BY <2>6, <3>3 DEF UndoItem, Next
  <2>7. CASE ReleaseItem(t)
    <3>1. Item(t) \in Locks
      BY <2>7, AtHand DEF ReleaseItem
    <3> QED
      BY <2>7, <3>1 DEF ReleaseItem, Next
  <2> QED
    BY <1>2, <2>1, <2>2, <2>3, <2>4, <2>5, <2>6, <2>7 DEF InGroup
<1>3. ASSUME NEW c \in Clients, GroupSessionEnd(c) PROVE Goal
  BY <1>3 DEF GroupSessionEnd, Next
<1>4. CASE UNCHANGED allVars
  BY <1>4 DEF allVars
<1> QED
  BY <1>1, <1>2, <1>3, <1>4 DEF GroupNext

LEMMA GroupTypeNext ==
  ASSUME GroupTypeOK, GroupInv, [GroupNext]_allVars
  PROVE  GroupTypeOK'
<1>0. MutexTypeOK
  BY DEF GroupTypeOK
<1>1. MutexTypeOK'
  <2>1. ASSUME UNCHANGED <<expired, paths, lockVars>>, PathTypeOK' PROVE MutexTypeOK'
    BY <1>0, <2>1 DEF MutexTypeOK, lockVars
  <2>2. PathTypeOK
    BY <1>0 DEF MutexTypeOK
  <2>3. ASSUME UNCHANGED <<expired, paths, lockVars>>, NEW t \in Threads, PathReturn(t)
        PROVE  PathTypeOK'
    BY <2>2, <2>3, PathReturnType
  <2>4. ASSUME UNCHANGED <<expired, paths, lockVars>>, NEW t \in Threads, NEW r \in Roots,
               CreatePersistentPath(t, r)
        PROVE  PathTypeOK'
    BY <2>2, <2>4, PathBeginType
  <2> QED
    BY <1>0, <2>1, <2>3, <2>4, TypeNext, GroupCallsMutex
<1> DEFINE Rest == /\ gstep \in [Groups -> 1 .. 2] /\ gReentry \in [Groups -> BOOLEAN]
                   /\ gsession \in [Threads -> SUBSET SessionIds]
                   /\ gpc \in [Threads -> {"idle", "init", "acquire", "inner", "undo", "release"}]
                   /\ gcur \in [Threads -> Groups \cup {NoGroup}] /\ gat \in [Threads -> Nat]
                   /\ gresult \in [Groups -> {"new", "locking", "held", "refused", "released"}]
                   /\ gframes \in [Threads -> Seq(Groups)]
<1>2. Rest
  BY DEF GroupTypeOK
<1>3. ASSUME NEW t \in Threads, NEW g \in Groups, LockGroup(t, g) PROVE Rest'
  BY <1>2, <1>3, InnerLocks DEF LockGroup, UseUp, GoTo
<1>4. ASSUME NEW t \in Threads, InGroup(t), ~InItem(t), ~UndoItem(t) PROVE Rest'
  <2>1. gpc[t] # "idle"
    BY <1>4 DEF InGroup, NextBasePath, GroupInitDone, GroupInitThrows, AcquireItem, ItemHeld,
                ItemRefused, UndoDone, ReleaseItem
  <2>2. gcur[t] \in Groups /\ gat[t] \in Nat
    BY <1>2, <2>1, AtHand
  <2>3. UNCHANGED <<gstep, gReentry, gsession, gframes>>
    BY <1>4 DEF InGroup, NextBasePath, GroupInitDone, GroupInitThrows, AcquireItem, ItemHeld,
                ItemRefused, UndoDone, ReleaseItem
  <2>4. \/ \E result \in {"held", "refused", "released"} : Return(t, result)
        \/ /\ \E place \in {"init", "acquire", "inner", "undo", "release"} :
                  \E i \in {gat[t], gat[t] + 1, 1} : GoTo(t, place, i)
           /\ UNCHANGED <<gcur, gresult>>
    BY <1>4 DEF InGroup, NextBasePath, GroupInitDone, GroupInitThrows, AcquireItem, ItemHeld,
                ItemRefused, UndoDone, ReleaseItem
  <2>5. CASE \E result \in {"held", "refused", "released"} : Return(t, result)
    BY <1>2, <2>2, <2>3, <2>5, ReturnType
  <2>6. CASE /\ \E place \in {"init", "acquire", "inner", "undo", "release"} :
                    \E i \in {gat[t], gat[t] + 1, 1} : GoTo(t, place, i)
             /\ UNCHANGED <<gcur, gresult>>
    BY <1>2, <2>2, <2>3, <2>6 DEF GoTo
  <2> QED
    BY <2>4, <2>5, <2>6
<1>5. ASSUME NEW t \in Threads, GroupRelease(t) PROVE Rest'
  <2>1. Last(gframes[t]) \in Groups /\ Front(gframes[t]) \in Seq(Groups)
    BY <1>2, <1>5, LastGroup DEF GroupRelease
  <2> QED
    BY <1>2, <1>5, <2>1 DEF GroupRelease, GoTo
<1>6. ASSUME UNCHANGED groupVars PROVE Rest'
  BY <1>2, <1>6 DEF groupVars
<1>7. Rest'
  BY <1>3, <1>4, <1>5, <1>6
     DEF GroupNext, InGroup, InItem, UndoItem, GroupSessionEnd, allVars
<1> QED
  BY <1>1, <1>7 DEF GroupTypeOK
-----------------------------------------------------------------------------
(***************************************************************************)
(* The steps of a group, as far as the inner locks do not matter.          *)
(***************************************************************************)
\* lock() is entered on a new group, in blocks whose groups are all locked.
Enters(t, g) ==
    LET f == gframes[t]
        e == gframes'[t]
    IN  /\ gpc[t] = "idle" /\ gstep[g] = 1
        /\ gstep' = [gstep EXCEPT ![g] = 2]
        /\ gReentry' = [gReentry EXCEPT ![g] = gReentry'[g]]
        /\ gpc' = [gpc EXCEPT ![t] = "init"]
        /\ gat' = [gat EXCEPT ![t] = 1]
        /\ gcur' = [gcur EXCEPT ![t] = g]
        /\ gresult' = [gresult EXCEPT ![g] = "locking"]
        /\ gframes' = [gframes EXCEPT ![t] = e]
        /\ e \in Seq(Groups) /\ e # << >> /\ Last(e) = g
        /\ Len(f) \in Nat /\ DOMAIN f = 1 .. Len(f)
        /\ Len(e) = Len(f) + 1 /\ DOMAIN e = 1 .. Len(e) /\ e[Len(e)] = g
        /\ \A i \in DOMAIN f : e[i] = f[i] /\ gresult[f[i]] = "held"

\* lock() goes on.
Stays(t) ==
    /\ InGroupLock(t) /\ InGroupLock(t)'
    /\ gpc' = [gpc EXCEPT ![t] = gpc'[t]]
    /\ gat' = [gat EXCEPT ![t] = gat'[t]]
    /\ gpc'[t] # "init" => gat'[t] \in DOMAIN Items[gcur[t]]
    /\ UNCHANGED <<gstep, gReentry, gcur, gresult, gframes>>

\* lock() comes back.
ComesBack(t) ==
    /\ InGroupLock(t)
    /\ \E result \in {"held", "refused"} : Return(t, result)
    /\ UNCHANGED <<gstep, gReentry, gframes>>

\* release() goes on or comes back.
Releases(t) ==
    /\ gpc[t] = "release"
    /\ \/ /\ GoTo(t, "release", gat[t] + 1)
          /\ gat[t] + 1 \in DOMAIN Items[gcur[t]]
          /\ UNCHANGED <<gcur, gresult>>
       \/ Return(t, "released")
    /\ UNCHANGED <<gstep, gReentry, gframes>>

LEMMA InGroupMoves ==
  ASSUME GroupTypeOK, GroupInv, NEW t \in Threads, InGroup(t) \/ GroupRelease(t),
         ~UNCHANGED groupVars
  PROVE  Stays(t) \/ ComesBack(t) \/ Releases(t) \/ GroupRelease(t)
<1>1. gpc[t] # "idle" => gcur[t] \in Groups /\ gat[t] \in Nat
  BY AtHand, GroupTypes
<1>2. gpc[t] \in {"acquire", "inner", "undo", "release"} =>
          /\ gat[t] \in DOMAIN Items[gcur[t]]
          /\ DOMAIN Items[gcur[t]] = 1 .. Len(Items[gcur[t]]) /\ Len(Items[gcur[t]]) \in Nat
  BY <1>1, AtHand, InnerLocks
<1>3. gpc[t] \in {"acquire", "inner", "undo", "release"} /\ MoreItems(t) =>
          gat[t] + 1 \in DOMAIN Items[gcur[t]]
  BY <1>2 DEF MoreItems
<1>4. CASE InItem(t) \/ UndoItem(t)
  BY <1>4 DEF InItem, UndoItem
<1>5. CASE NextBasePath(t) \/ AcquireItem(t) \/ ItemRefused(t)
  BY <1>1, <1>2, <1>5, GroupTypes
     DEF NextBasePath, AcquireItem, ItemRefused, GoTo, Stays, InGroupLock
<1>6. CASE GroupInitDone(t)
  <2>1. 1 \in DOMAIN Items[gcur[t]]
    BY <1>1, <1>6, InnerLocks DEF GroupInitDone
  <2>2. InGroupLock(t) /\ UNCHANGED <<gstep, gReentry, gframes>>
    BY <1>6 DEF GroupInitDone, InGroupLock
  <2>3. \/ Return(t, "held")
        \/ GoTo(t, "acquire", 1) /\ UNCHANGED <<gcur, gresult>>
    BY <1>6 DEF GroupInitDone
  <2>4. GoTo(t, "acquire", 1) /\ UNCHANGED <<gcur, gresult>> => Stays(t)
    BY <2>1, <2>2, GroupTypes DEF GoTo, Stays, InGroupLock
  <2> QED
    BY <2>2, <2>3, <2>4 DEF ComesBack
<1>7. CASE GroupInitThrows(t) \/ UndoDone(t)
  BY <1>7 DEF GroupInitThrows, UndoDone, InGroupLock, ComesBack
<1>8. CASE ItemHeld(t)
  <2>1. InGroupLock(t) /\ UNCHANGED <<gstep, gReentry, gframes>> /\ gpc[t] = "inner"
    BY <1>8 DEF ItemHeld, InGroupLock
  <2>2. \/ Return(t, "held")
        \/ MoreItems(t) /\ GoTo(t, "acquire", gat[t] + 1) /\ UNCHANGED <<gcur, gresult>>
    BY <1>8 DEF ItemHeld
  <2>3. MoreItems(t) /\ GoTo(t, "acquire", gat[t] + 1) /\ UNCHANGED <<gcur, gresult>> => Stays(t)
    BY <1>3, <2>1, GroupTypes DEF GoTo, Stays, InGroupLock
  <2> QED
    BY <2>1, <2>2, <2>3 DEF ComesBack
<1>9. CASE ReleaseItem(t)
  BY <1>3, <1>9 DEF ReleaseItem, Releases
<1> QED
  BY <1>4, <1>5, <1>6, <1>7, <1>8, <1>9 DEF InGroup

LEMMA GroupMoves ==
  ASSUME GroupTypeOK, GroupInv, [GroupNext]_allVars
  PROVE  \/ UNCHANGED groupVars
         \/ \E t \in Threads : Stays(t) \/ ComesBack(t) \/ Releases(t) \/ GroupRelease(t)
         \/ \E t \in Threads, g \in Groups : Enters(t, g)
<1>1. ASSUME NEW t \in Threads, NEW g \in Groups, LockGroup(t, g) PROVE Enters(t, g)
  <2> DEFINE f == gframes[t]
             e == gframes'[t]
  <2>1. /\ gpc[t] = "idle" /\ gstep[g] = 1 /\ f \in Seq(Groups)
        /\ f # << >> => gresult[Last(f)] = "held"
        /\ e = Append(f, g)
    BY <1>1, GroupTypes DEF LockGroup, GroupBody, UseUp
  <2>2. /\ Len(f) \in Nat /\ DOMAIN f = 1 .. Len(f)
        /\ e \in Seq(Groups) /\ e # << >>
        /\ Len(e) = Len(f) + 1 /\ DOMAIN e = 1 .. Len(e) /\ e[Len(e)] = g
        /\ \A i \in DOMAIN f : e[i] = f[i]
    BY <2>1
  <2>3. ASSUME NEW i \in DOMAIN f PROVE gresult[f[i]] = "held"
    <3>1. CASE i < Len(f)
      BY <3>1 DEF GroupInv, GroupsNest
    <3>2. CASE i = Len(f)
      BY <2>1, <2>2, <3>2, LastGroup
    <3> QED
      BY <2>2, <3>1, <3>2
  <2>4. Last(e) = g
    BY <2>2, LastGroup
  <2>5. /\ gstep' = [gstep EXCEPT ![g] = 2]
        /\ gReentry' = [gReentry EXCEPT ![g] = gReentry'[g]]
        /\ gpc' = [gpc EXCEPT ![t] = "init"]
        /\ gat' = [gat EXCEPT ![t] = 1]
        /\ gcur' = [gcur EXCEPT ![t] = g]
        /\ gresult' = [gresult EXCEPT ![g] = "locking"]
        /\ gframes' = [gframes EXCEPT ![t] = e]
    BY <1>1, GroupTypes DEF LockGroup, UseUp, GoTo
  <2> HIDE DEF f, e
  <2> QED
    BY <2>1, <2>2, <2>3, <2>4, <2>5 DEF Enters, f, e
<1> QED
  BY <1>1, InGroupMoves DEF GroupNext, GroupSessionEnd, allVars
-----------------------------------------------------------------------------
(***************************************************************************)
(* GroupInv is inductive, conjunct by conjunct.                            *)
(***************************************************************************)
LEMMA GroupsNestNext ==
  ASSUME GroupTypeOK, GroupInv, [GroupNext]_allVars, NEW u \in Threads
  PROVE  GroupsNest(u)'
<1>0. GroupsNest(u) /\ gframes[u] \in Seq(Groups) /\ Len(gframes[u]) \in Nat
      /\ DOMAIN gframes[u] = 1 .. Len(gframes[u])
  BY GroupTypes DEF GroupInv
<1>1. ASSUME NEW t \in Threads, gpc[t] # "idle"
      PROVE  gcur[t] \in Groups
             /\ (t # u => /\ \A i \in DOMAIN gframes[u] : gframes[u][i] # gcur[t]
                          /\ gcur[t] # gcur[u])
  BY <1>1, AtHand, GroupTypes DEF GroupInv, GroupsApart
<1>2. ASSUME NEW t \in Threads, NEW g \in Groups, Enters(t, g) PROVE GroupsNest(u)'
  <2>1. \A i \in DOMAIN gframes[u] : gframes[u][i] # g /\ gframes[u][i] \in Groups
    BY <1>0, <1>2 DEF Enters, GroupsNest
  <2>2. gpc[u] # "idle" => gcur[u] # g
    BY <1>0, <1>2 DEF Enters, GroupsNest
  <2>3. CASE u = t
    <3>1. /\ gpc'[u] = "init" /\ gcur'[u] = g /\ gstep'[g] = 2 /\ gresult'[g] = "locking"
          /\ InGroupLock(u)'
      BY <1>2, <2>3, GroupTypes DEF Enters, InGroupLock
    <3>2. \A h \in Groups \ {g} : gstep'[h] = gstep[h] /\ gresult'[h] = gresult[h]
      BY <1>2, GroupTypes DEF Enters
    <3>3. /\ gframes'[u] # << >> /\ Last(gframes'[u]) = g
          /\ Len(gframes'[u]) = Len(gframes[u]) + 1
          /\ DOMAIN gframes'[u] = 1 .. Len(gframes'[u])
          /\ gframes'[u][Len(gframes'[u])] = g
          /\ \A i \in DOMAIN gframes[u] : gframes'[u][i] = gframes[u][i] /\ gresult[gframes[u][i]] = "held"
      BY <1>2, <2>3 DEF Enters
    <3>4. ASSUME NEW i \in DOMAIN gframes'[u]
          PROVE  /\ gstep'[gframes'[u][i]] = 2
                 /\ gframes'[u][i] # g \/ i = Len(gframes'[u])
                 /\ \A j \in 1 .. i - 1 : gframes'[u][j] # gframes'[u][i]
                 /\ i < Len(gframes'[u]) => gresult'[gframes'[u][i]] = "held"
      <4>1. CASE i = Len(gframes'[u])
        <5>1. \A j \in 1 .. i - 1 : j \in DOMAIN gframes[u]
          BY <1>0, <3>3, <4>1
        <5> QED
          BY <2>1, <3>1, <3>3, <4>1, <5>1
      <4>2. CASE i # Len(gframes'[u])
        <5>1. i \in DOMAIN gframes[u] /\ \A j \in 1 .. i - 1 : j \in DOMAIN gframes[u]
          BY <1>0, <3>3, <4>2
        <5>2. /\ gframes'[u][i] = gframes[u][i] /\ gframes[u][i] \in Groups \ {g}
              /\ \A j \in 1 .. i - 1 : gframes'[u][j] = gframes[u][j]
              /\ gresult[gframes[u][i]] = "held"
          BY <2>1, <3>3, <5>1
        <5>3. gstep[gframes[u][i]] = 2 /\ \A j \in 1 .. i - 1 : gframes[u][j] # gframes[u][i]
          BY <1>0, <5>1 DEF GroupsNest
        <5> QED
          BY <3>2, <4>2, <5>2, <5>3
      <4> QED
        BY <4>1, <4>2
    <3> QED
      BY <3>1, <3>3, <3>4 DEF GroupsNest
  <2>4. CASE u # t
    <3>1. gpc'[u] = gpc[u] /\ gcur'[u] = gcur[u] /\ gframes'[u] = gframes[u]
      BY <1>2, <2>4, GroupTypes DEF Enters
    <3>2. \A h \in Groups \ {g} : gstep'[h] = gstep[h] /\ gresult'[h] = gresult[h]
      BY <1>2, GroupTypes DEF Enters
    <3>3. gframes[u] # << >> => Last(gframes[u]) \in Groups /\ Last(gframes[u]) # g
      <4>1. gframes[u] # << >> => /\ Len(gframes[u]) \in DOMAIN gframes[u]
                                  /\ Last(gframes[u]) = gframes[u][Len(gframes[u])]
        BY <1>0, LastGroup
      <4> QED
        BY <2>1, <4>1
    <3>4. gpc[u] # "idle" => gat'[u] = gat[u]
      BY <1>2, <2>4, GroupTypes DEF Enters
    <3> QED
      BY <1>0, <2>1, <2>2, <3>1, <3>2, <3>3, <3>4 DEF GroupsNest, InGroupLock
  <2> QED
    BY <2>3, <2>4
<1>3. ASSUME NEW t \in Threads, Stays(t) PROVE GroupsNest(u)'
  <2>1. UNCHANGED <<gstep, gcur, gresult, gframes>>
    BY <1>3 DEF Stays
  <2>2. \/ gpc'[u] = gpc[u] /\ gat'[u] = gat[u]
        \/ /\ InGroupLock(u) /\ InGroupLock(u)'
           /\ gpc'[u] # "init" => gat'[u] \in DOMAIN Items[gcur[u]]
    BY <1>3, GroupTypes DEF Stays
  <2> QED
    BY <1>0, <2>1, <2>2 DEF GroupsNest, InGroupLock
<1>4. ASSUME NEW t \in Threads, NEW result, Return(t, result), gpc[t] # "idle",
             UNCHANGED <<gstep, gframes>>, t # u
      PROVE  GroupsNest(u)'
  <2>1. /\ gcur[t] \in Groups /\ gcur[t] # gcur[u]
        /\ \A i \in DOMAIN gframes[u] : gframes[u][i] # gcur[t] /\ gframes[u][i] \in Groups
    BY <1>0, <1>1, <1>4
  <2>2. /\ gpc'[u] = gpc[u] /\ gcur'[u] = gcur[u] /\ gat'[u] = gat[u] /\ gframes'[u] = gframes[u]
        /\ \A h \in Groups : gstep'[h] = gstep[h] /\ (h # gcur[t] => gresult'[h] = gresult[h])
    BY <1>4, <2>1, GroupTypes DEF Return, GoTo
  <2>3. gframes[u] # << >> => Last(gframes[u]) \in Groups /\ Last(gframes[u]) # gcur[t]
    BY <1>0, <2>1, LastGroup
  <2> QED
    BY <1>0, <2>1, <2>2, <2>3 DEF GroupsNest, InGroupLock
<1>5. ASSUME ComesBack(u) PROVE GroupsNest(u)'
  <2>1. PICK result \in {"held", "refused"} : Return(u, result)
    BY <1>5 DEF ComesBack
  <2>2. /\ gpc'[u] = "idle" /\ gcur'[u] = NoGroup /\ UNCHANGED <<gstep, gframes>>
        /\ gresult' = [gresult EXCEPT ![gcur[u]] = result]
        /\ gpc[u] # "idle" /\ InGroupLock(u)
    BY <1>5, <2>1, GroupTypes DEF ComesBack, Return, GoTo, InGroupLock
  <2>3. /\ gcur[u] \in Groups /\ gframes[u] # << >> /\ Last(gframes[u]) = gcur[u]
        /\ gframes[u][Len(gframes[u])] = gcur[u]
    BY <1>0, <1>1, <2>2, LastGroup DEF GroupsNest
  <2>4. ASSUME NEW i \in DOMAIN gframes[u]
        PROVE  /\ gframes[u][i] # NoGroup /\ gstep[gframes[u][i]] = 2
               /\ \A j \in 1 .. i - 1 : gframes[u][j] # gframes[u][i]
               /\ i < Len(gframes[u]) => gresult'[gframes[u][i]] = "held"
    <3>1. gframes[u][i] \in Groups
      BY <1>0
    <3>2. i < Len(gframes[u]) => gframes[u][i] # gcur[u] /\ gresult[gframes[u][i]] = "held"
      BY <1>0 DEF GroupsNest
    <3> QED
      BY <1>0, <2>2, <3>1, <3>2, GroupTypes DEF GroupsNest
  <2>5. gresult'[Last(gframes[u])] \in {"held", "refused"}
    BY <2>2, <2>3, GroupTypes
  <2> QED
    BY <2>2, <2>4, <2>5 DEF GroupsNest, InGroupLock
<1>6. ASSUME NEW t \in Threads, Releases(t) PROVE GroupsNest(u)'
  <2>1. gpc[t] = "release" /\ UNCHANGED <<gstep, gframes>>
    BY <1>6 DEF Releases
  <2>2. CASE /\ GoTo(t, "release", gat[t] + 1) /\ gat[t] + 1 \in DOMAIN Items[gcur[t]]
             /\ UNCHANGED <<gcur, gresult>>
    <3>1. \/ gpc'[u] = gpc[u] /\ gat'[u] = gat[u]
          \/ gpc[u] = "release" /\ gpc'[u] = "release" /\ gat'[u] \in DOMAIN Items[gcur[u]]
      BY <2>1, <2>2, GroupTypes DEF GoTo
    <3> QED
      BY <1>0, <2>1, <2>2, <3>1 DEF GroupsNest, InGroupLock
  <2>3. CASE Return(t, "released") /\ t # u
    BY <1>4, <2>1, <2>3
  <2>4. CASE Return(t, "released") /\ t = u
    <3>1. /\ gpc'[u] = "idle" /\ gcur'[u] = NoGroup
          /\ gresult' = [gresult EXCEPT ![gcur[u]] = "released"]
      BY <2>4, GroupTypes DEF Return, GoTo
    <3>2. ASSUME NEW i \in DOMAIN gframes[u]
          PROVE  gframes[u][i] \in Groups /\ gresult'[gframes[u][i]] = "held"
      <4>1. gframes[u][i] \in Groups /\ gframes[u][i] # gcur[u] /\ gresult[gframes[u][i]] = "held"
        BY <1>0, <2>1, <2>4 DEF GroupsNest, InGroupLock
      <4> QED
        BY <3>1, <4>1, GroupTypes
    <3>3. ASSUME gframes[u] # << >> PROVE gresult'[Last(gframes[u])] = "held"
      <4>1. gframes[u] \in Seq(Groups)
        BY <1>0
      <4>2. Last(gframes[u]) = gframes[u][Len(gframes[u])] /\ Len(gframes[u]) \in DOMAIN gframes[u]
        BY <3>3, <4>1, LastGroup
      <4> QED
        BY <3>2, <4>2
    <3> QED
      BY <1>0, <2>1, <3>1, <3>2, <3>3, GroupTypes DEF GroupsNest, InGroupLock
  <2> QED
    BY <1>6, <2>2, <2>3, <2>4 DEF Releases
<1>7. ASSUME NEW t \in Threads, GroupRelease(t) PROVE GroupsNest(u)'
  <2>1. UNCHANGED <<gstep, gresult>> /\ gpc[t] = "idle" /\ gframes[t] # << >>
    BY <1>7 DEF GroupRelease
  <2>2. CASE t # u
    <3>1. gpc'[u] = gpc[u] /\ gat'[u] = gat[u] /\ gcur'[u] = gcur[u] /\ gframes'[u] = gframes[u]
      BY <1>7, <2>2, GroupTypes DEF GroupRelease, GoTo
    <3> QED
      BY <1>0, <2>1, <3>1 DEF GroupsNest, InGroupLock
  <2>3. CASE t = u
    <3> DEFINE g == Last(gframes[u])
    <3>1. /\ gpc'[u] = "release" /\ gat'[u] = 1 /\ gcur'[u] = g /\ gframes'[u] = Front(gframes[u])
      BY <1>7, <2>3, GroupTypes DEF GroupRelease, GoTo
    <3>2. /\ g \in Groups /\ g = gframes[u][Len(gframes[u])] /\ Len(gframes[u]) \in DOMAIN gframes[u]
          /\ DOMAIN Front(gframes[u]) = 1 .. Len(gframes[u]) - 1
          /\ Len(Front(gframes[u])) = Len(gframes[u]) - 1
          /\ \A i \in 1 .. Len(gframes[u]) - 1 : Front(gframes[u])[i] = gframes[u][i]
      BY <1>0, <2>1, <2>3, LastGroup
    <3>3. /\ gresult[g] \in {"held", "refused"} /\ gstep[g] = 2 /\ 1 \in DOMAIN Items[g]
      BY <1>0, <2>1, <2>3, <3>2, InnerLocks DEF GroupsNest
    <3>4. ASSUME NEW i \in DOMAIN Front(gframes[u])
          PROVE  /\ gstep[Front(gframes[u])[i]] = 2 /\ Front(gframes[u])[i] # g
                 /\ \A j \in 1 .. i - 1 : Front(gframes[u])[j] # Front(gframes[u])[i]
                 /\ gresult[Front(gframes[u])[i]] = "held"
      <4>1. i \in DOMAIN gframes[u] /\ i < Len(gframes[u]) /\ i \in 1 .. Len(gframes[u]) - 1
            /\ \A j \in 1 .. i - 1 : j \in 1 .. Len(gframes[u]) - 1
        BY <1>0, <3>2
      <4>2. Front(gframes[u])[i] = gframes[u][i]
            /\ \A j \in 1 .. i - 1 : Front(gframes[u])[j] = gframes[u][j]
        BY <3>2, <4>1
      <4>3. \A j \in 1 .. Len(gframes[u]) - 1 : gframes[u][j] # gframes[u][Len(gframes[u])]
        BY <1>0, <3>2 DEF GroupsNest
      <4> QED
        BY <1>0, <3>2, <4>1, <4>2, <4>3 DEF GroupsNest
    <3> HIDE DEF g
    <3> QED
      BY <2>1, <3>1, <3>2, <3>3, <3>4 DEF GroupsNest, InGroupLock
  <2> QED
    BY <2>2, <2>3
<1>8. CASE UNCHANGED groupVars
  BY <1>0, <1>8 DEF groupVars, GroupsNest, InGroupLock
<1>9. ASSUME NEW t \in Threads, ComesBack(t), t # u PROVE GroupsNest(u)'
  BY <1>4, <1>9 DEF ComesBack, InGroupLock
<1> QED
  BY <1>2, <1>3, <1>5, <1>6, <1>7, <1>8, <1>9, GroupMoves

LEMMA GroupsApartNext ==
  ASSUME GroupTypeOK, GroupInv, [GroupNext]_allVars
  PROVE  GroupsApart'
<1>0. GroupsApart
  BY DEF GroupInv
<1>1. ASSUME NEW t \in Threads, gpc[t] # "idle" PROVE gcur[t] \in Groups /\ gstep[gcur[t]] = 2
  BY <1>1, AtHand
<1>2. ASSUME NEW t \in Threads
      PROVE  /\ gframes[t] \in Seq(Groups)
             /\ \A i \in DOMAIN gframes[t] : gframes[t][i] \in Groups /\ gstep[gframes[t][i]] = 2
             /\ gpc[t] = "idle" => gcur[t] = NoGroup
  BY GroupTypes DEF GroupInv, GroupsNest
<1>3. ASSUME NEW t \in Threads, NEW g \in Groups, Enters(t, g) PROVE GroupsApart'
  <2>1. \A h \in Groups : gstep'[h] = 1 <=> gresult'[h] = "new"
    BY <1>0, <1>3, GroupTypes DEF Enters, GroupsApart
  <2>2. \A u \in Threads : /\ gcur[u] # g
                           /\ \A i \in DOMAIN gframes[u] : gframes[u][i] # g
    <3>1. gstep[g] # 2 /\ NoGroup # g
      BY <1>3, GroupTypes DEF Enters
    <3> QED
      BY <1>1, <1>2, <3>1
  <2>3. /\ gcur'[t] = g
        /\ \A i \in DOMAIN gframes'[t] :
              gframes'[t][i] = g \/ (i \in DOMAIN gframes[t] /\ gframes'[t][i] = gframes[t][i])
        /\ \A u \in Threads \ {t} : gcur'[u] = gcur[u] /\ gframes'[u] = gframes[u]
    BY <1>3, GroupTypes DEF Enters
  <2> QED
    BY <1>0, <2>1, <2>2, <2>3 DEF GroupsApart
<1>4. ASSUME NEW t \in Threads, UNCHANGED <<gstep, gframes>>,
             gcur' = gcur \/ gcur' = [gcur EXCEPT ![t] = NoGroup],
             \A h \in Groups : gresult'[h] = "new" <=> gresult[h] = "new"
      PROVE  GroupsApart'
  <2>1. \A u \in Threads : gcur'[u] = gcur[u] \/ gcur'[u] = NoGroup
    BY <1>4, GroupTypes
  <2>2. \A u \in Threads : \A i \in DOMAIN gframes[u] : gframes[u][i] # NoGroup
    BY <1>2, GroupTypes
  <2> QED
    BY <1>0, <1>4, <2>1, <2>2 DEF GroupsApart
<1>5. ASSUME NEW t \in Threads, NEW result \in {"held", "refused", "released"}, Return(t, result),
             gpc[t] # "idle", UNCHANGED <<gstep, gframes>>
      PROVE  GroupsApart'
  <2>1. gresult[gcur[t]] # "new" /\ gcur[t] \in Groups
    BY <1>0, <1>1, <1>5 DEF GroupsApart
  <2> QED
    BY <1>4, <1>5, <2>1, GroupTypes DEF Return
<1>6. ASSUME NEW t \in Threads, Stays(t) \/ ComesBack(t) \/ Releases(t) PROVE GroupsApart'
  BY <1>4, <1>5, <1>6 DEF Stays, ComesBack, Releases, InGroupLock
<1>7. ASSUME NEW t \in Threads, GroupRelease(t) PROVE GroupsApart'
  <2>1. /\ UNCHANGED <<gstep, gresult>> /\ gframes[t] # << >>
        /\ gcur'[t] = Last(gframes[t]) /\ gframes'[t] = Front(gframes[t])
        /\ \A u \in Threads \ {t} : gcur'[u] = gcur[u] /\ gframes'[u] = gframes[u]
    BY <1>7, GroupTypes DEF GroupRelease
  <2>2. /\ Last(gframes[t]) = gframes[t][Len(gframes[t])] /\ Len(gframes[t]) \in DOMAIN gframes[t]
        /\ Last(gframes[t]) # NoGroup
        /\ \A i \in DOMAIN Front(gframes[t]) : i \in DOMAIN gframes[t]
                                               /\ Front(gframes[t])[i] = gframes[t][i]
    <3>1. /\ gframes[t] \in Seq(Groups) /\ Len(gframes[t]) \in Nat \ {0}
          /\ DOMAIN gframes[t] = 1 .. Len(gframes[t])
          /\ Last(gframes[t]) = gframes[t][Len(gframes[t])] /\ Last(gframes[t]) \in Groups
          /\ DOMAIN Front(gframes[t]) = 1 .. Len(gframes[t]) - 1
          /\ \A i \in 1 .. Len(gframes[t]) - 1 : Front(gframes[t])[i] = gframes[t][i]
      BY <1>2, <2>1, LastGroup
    <3> QED
      BY <3>1, GroupTypes
  <2> QED
    BY <1>0, <2>1, <2>2 DEF GroupsApart
<1>8. CASE UNCHANGED groupVars
  BY <1>0, <1>8 DEF groupVars, GroupsApart
<1> QED
  BY <1>3, <1>6, <1>7, <1>8, GroupMoves
-----------------------------------------------------------------------------
(***************************************************************************)
(* The steps of the inner locks.                                           *)
(***************************************************************************)
LEMMA AtItem ==
  ASSUME GroupTypeOK, GroupInv, NEW t \in Threads, pc[t] # "idle"
  PROVE  /\ gpc[t] = "inner" /\ InGroupLock(t) /\ gpc[t] # "idle"
         /\ cur[t] = Item(t) /\ cur[t] \in Locks /\ ResOf[cur[t]] \in Resources
         /\ outcome[cur[t]] = "locking" /\ caller[cur[t]] = t /\ Reaches(t, cur[t])
         /\ step[cur[t]] = 2
         /\ \A u \in Threads \ {t} : cur[u] # cur[t]
<1>1. /\ gpc[t] = "inner" /\ InGroupLock(t) /\ gpc[t] # "idle" /\ cur[t] = Item(t)
      /\ Reaches(t, cur[t]) /\ outcome[cur[t]] = "locking"
  BY DEF GroupInv, ItemCalls, InGroupLock
<1>2. Item(t) \in Locks /\ gat[t] \in DOMAIN Items[gcur[t]] /\ Item(t) = Items[gcur[t]][gat[t]]
      /\ gat[t] \in Nat
  BY <1>1, AtHand, GroupTypes
<1>3. ASSUME NEW u \in Threads, pc[u] # "idle" PROVE caller[cur[u]] = u
  <2>1. gpc[u] = "inner" /\ InGroupLock(u) /\ gpc[u] # "idle" /\ cur[u] = Item(u)
    BY <1>3 DEF GroupInv, ItemCalls, InGroupLock
  <2>2. gat[u] \in DOMAIN Items[gcur[u]] /\ Item(u) = Items[gcur[u]][gat[u]] /\ gat[u] \in Nat
    BY <2>1, AtHand, GroupTypes
  <2>3. ItemsInOrder(u)
    BY DEF GroupInv
  <2> QED
    BY <2>1, <2>2, <2>3 DEF ItemsInOrder
<1>4. ASSUME NEW u \in Threads \ {t} PROVE cur[u] # cur[t]
  <2>1. pc[u] = "idle" => cur[u] = NoLock
    BY DEF GroupInv, ItemCalls
  <2> QED
    BY <1>1, <1>2, <1>3, <2>1, GroupTypes
<1>5. ResOf[cur[t]] \in Resources
  BY <1>1, <1>2, LockAssumption
<1>6. step[cur[t]] = 2
  BY <1>1, <1>2, GroupTypes DEF GroupInv, ItemCalls
<1> QED
  BY <1>1, <1>2, <1>3, <1>4, <1>5, <1>6

\* A try may create the znode, whatever the answer.
MayCreate(t) ==
    LET r == ResOf[cur[t]]
    IN  \/ UNCHANGED znode
        \/ /\ pc[t] = "execute" /\ Connected(t)
           /\ znode[r] = NoLock
           /\ znode' = [znode EXCEPT ![r] = cur[t]]

\* Only a try of execute() counts.
MayCount(t) ==
    \/ UNCHANGED tryCount
    \/ pc[t] = "execute" /\ tryCount' = [tryCount EXCEPT ![cur[t]] = @ + 1]

ItemRuns(t) ==
    /\ pc[t] # "idle" /\ pc' = [pc EXCEPT ![t] = pc'[t]] /\ pc'[t] \in {"execute", "sleep"}
    /\ ~isReentry[cur[t]]
    /\ MayCreate(t) /\ MayCount(t)
    /\ UNCHANGED <<expired, step, isReentry, session, cur, outcome, caller, groupVars>>

ItemEnds(t) ==
    /\ pc[t] # "idle" /\ pc' = [pc EXCEPT ![t] = "idle"] /\ cur' = [cur EXCEPT ![t] = NoLock]
    /\ outcome' = [outcome EXCEPT ![cur[t]] = outcome'[cur[t]]]
    /\ MayCreate(t) /\ MayCount(t)
    /\ \/ /\ outcome'[cur[t]] = "held" /\ UNCHANGED session
          /\ isReentry[cur[t]] \/ znode'[ResOf[cur[t]]] = cur[t]
       \/ /\ outcome'[cur[t]] = "refused"
          /\ \/ UNCHANGED <<session, tryCount>> /\ pc[t] = "init"
             \/ session' = [session EXCEPT ![t] = @ \ {ResOf[cur[t]]}]
    /\ UNCHANGED <<expired, step, isReentry, caller, groupVars>>

LEMMA ItemMoves ==
  ASSUME GroupTypeOK, GroupInv, NEW t \in Threads, InItem(t)
  PROVE  ItemRuns(t) \/ ItemEnds(t) \/ UNCHANGED <<expired, lockVars, groupVars>>
<1>0. UNCHANGED groupVars
  BY DEF InItem
<1>1. ASSUME pc[t] # "idle"
      PROVE  cur[t] \in Locks /\ ResOf[cur[t]] \in Resources
             /\ (pc[t] \in {"execute", "sleep"} => ~isReentry[cur[t]])
  BY <1>1, AtItem DEF GroupInv, ItemCalls
<1>2. ASSUME NEW result \in {"held", "refused"}, pc[t] # "idle", LeaveLock(t, result)
      PROVE  /\ pc' = [pc EXCEPT ![t] = "idle"] /\ cur' = [cur EXCEPT ![t] = NoLock]
             /\ outcome' = [outcome EXCEPT ![cur[t]] = outcome'[cur[t]]]
             /\ outcome'[cur[t]] = result
  BY <1>1, <1>2, GroupTypes DEF LeaveLock
<1>3. CASE InitPath(t)
  BY <1>0, <1>3 DEF InitPath
<1>4. CASE InitDone(t)
  <2>1. /\ pc[t] # "idle"
        /\ UNCHANGED <<expired, step, isReentry, session, znode, caller, tryCount>>
        /\ \/ isReentry[cur[t]] /\ LeaveLock(t, "held")
           \/ ~isReentry[cur[t]] /\ pc' = [pc EXCEPT ![t] = "execute"] /\ UNCHANGED <<cur, outcome>>
    BY <1>4 DEF InitDone
  <2> QED
    BY <1>0, <1>2, <2>1, GroupTypes DEF ItemEnds, ItemRuns, MayCreate, MayCount
<1>5. CASE InitThrows(t)
  BY <1>0, <1>2, <1>5 DEF InitThrows, ItemEnds, MayCreate, MayCount
<1>6. ASSUME pc[t] = "execute", CreateThrows(t) PROVE MayCreate(t)
  BY <1>6 DEF CreateThrows, MayCreate
<1>7. CASE ExecuteOk(t)
  <2>1. /\ pc[t] = "execute" /\ pc[t] # "idle" /\ Connected(t)
        /\ LeaveLock(t, "held")
        /\ MayCreate(t) /\ znode' = [znode EXCEPT ![ResOf[cur[t]]] = cur[t]]
        /\ MayCount(t)
        /\ UNCHANGED <<expired, step, isReentry, session, caller>>
    BY <1>7 DEF ExecuteOk, MayCreate, MayCount, CountTry
  <2> QED
    BY <1>0, <1>1, <1>2, <2>1, GroupTypes DEF ItemEnds
<1>8. CASE ExecuteRefused(t)
  <2>1. /\ pc[t] = "execute" /\ pc[t] # "idle"
        /\ LeaveLock(t, "refused")
        /\ session' = [session EXCEPT ![t] = @ \ {ResOf[cur[t]]}]
        /\ UNCHANGED <<expired, step, isReentry, caller>>
        /\ MayCreate(t) /\ MayCount(t)
    BY <1>1, <1>6, <1>8 DEF ExecuteRefused, CloseLocalThread, MayCount, CountTry
  <2> QED
    BY <1>0, <1>2, <2>1 DEF ItemEnds
<1>9. CASE ExecuteRetry(t) \/ WakeUp(t)
  <2>1. /\ pc[t] \in {"execute", "sleep"} /\ pc[t] # "idle"
        /\ pc' = [pc EXCEPT ![t] = "sleep"] \/ pc' = [pc EXCEPT ![t] = "execute"]
        /\ MayCreate(t) /\ MayCount(t)
        /\ UNCHANGED <<expired, step, isReentry, session, cur, outcome, caller>>
    BY <1>6, <1>9 DEF ExecuteRetry, WakeUp, MayCreate, MayCount, CountTry
  <2> QED
    BY <1>0, <1>1, <2>1, GroupTypes DEF ItemRuns
<1> QED
  BY <1>3, <1>4, <1>5, <1>7, <1>8, <1>9 DEF InItem, InLock

\* Steps of a group between those of its inner locks.
GroupOnly(t) ==
    /\ UNCHANGED <<expired, lockVars>>
    /\ pc[t] = "idle"
    /\ gpc' = [gpc EXCEPT ![t] = gpc'[t]]
    /\ gat' = [gat EXCEPT ![t] = gat'[t]]
    /\ gcur' = [gcur EXCEPT ![t] = gcur'[t]]

\* release() of an inner lock, in the undoing or the release() of its group.
ItemFreed(t, l) ==
    /\ Release(t, l)
    /\ gpc[t] \in {"undo", "release"} /\ l \in Locks
    /\ \/ gpc[t] = "undo" /\ l \in Gotten(t) /\ UNCHANGED groupVars
       \/ gpc[t] = "release" /\ l = Item(t) /\ ReleaseItem(t)

LEMMA LockMoves ==
  ASSUME GroupTypeOK, GroupInv, [GroupNext]_allVars
  PROVE  \/ UNCHANGED <<expired, lockVars, groupVars>>
         \/ \E t \in Threads : GroupOnly(t) \/ ItemRuns(t) \/ ItemEnds(t) \/ AcquireItem(t)
         \/ \E t \in Threads, l \in Locks : ItemFreed(t, l)
         \/ \E c \in Clients : GroupSessionEnd(c)
<1>1. ASSUME NEW t \in Threads, gpc[t] # "inner" PROVE pc[t] = "idle"
  BY <1>1, AtItem
<1>2. ASSUME NEW t \in Threads, NEW g \in Groups, LockGroup(t, g) PROVE GroupOnly(t)
  BY <1>1, <1>2, GroupTypes DEF LockGroup, GroupBody, GoTo, GroupOnly
<1>3. ASSUME NEW t \in Threads, GroupRelease(t) PROVE GroupOnly(t)
  BY <1>1, <1>3, GroupTypes DEF GroupRelease, GoTo, GroupOnly, vars
<1>4. ASSUME NEW t \in Threads, NEW result, Return(t, result) PROVE
             /\ gpc' = [gpc EXCEPT ![t] = gpc'[t]]
             /\ gat' = [gat EXCEPT ![t] = gat'[t]]
             /\ gcur' = [gcur EXCEPT ![t] = gcur'[t]]
  BY <1>4, GroupTypes DEF Return, GoTo
<1>5. ASSUME NEW t \in Threads, NEW place, NEW i, GoTo(t, place, i), UNCHANGED gcur PROVE
             /\ gpc' = [gpc EXCEPT ![t] = gpc'[t]]
             /\ gat' = [gat EXCEPT ![t] = gat'[t]]
             /\ gcur' = [gcur EXCEPT ![t] = gcur'[t]]
  BY <1>5, GroupTypes DEF GoTo
<1>6. ASSUME NEW t \in Threads, NextBasePath(t) \/ GroupInitDone(t) \/ GroupInitThrows(t) \/ UndoDone(t)
      PROVE  GroupOnly(t)
  <2>1. UNCHANGED <<expired, lockVars>> /\ gpc[t] # "inner"
    BY <1>6 DEF NextBasePath, GroupInitDone, GroupInitThrows, UndoDone, vars
  <2>2. \/ \E result \in {"held", "refused"} : Return(t, result)
        \/ \E place \in {"init", "acquire"} :
              \E i \in {1, gat[t] + 1} : GoTo(t, place, i) /\ UNCHANGED gcur
    BY <1>6 DEF NextBasePath, GroupInitDone, GroupInitThrows, UndoDone
  <2> QED
    BY <1>1, <1>4, <1>5, <2>1, <2>2 DEF GroupOnly
<1>7. ASSUME NEW t \in Threads, ItemHeld(t) \/ ItemRefused(t) PROVE GroupOnly(t)
  <2>1. outcome[Item(t)] # "locking" /\ UNCHANGED <<expired, lockVars>>
    BY <1>7 DEF ItemHeld, ItemRefused, Held, vars
  <2>2. pc[t] = "idle"
    BY <2>1, AtItem
  <2>3. \/ \E result \in {"held", "refused"} : Return(t, result)
        \/ \E place \in {"undo", "acquire"} :
              \E i \in {gat[t], gat[t] + 1} : GoTo(t, place, i) /\ UNCHANGED gcur
    BY <1>7 DEF ItemHeld, ItemRefused
  <2> QED
    BY <1>4, <1>5, <2>1, <2>2, <2>3 DEF GroupOnly
<1>8. ASSUME NEW t \in Threads, UndoItem(t) PROVE \E l \in Locks : ItemFreed(t, l)
  <2>1. gcur[t] \in Groups /\ gat[t] \in DOMAIN Items[gcur[t]] /\ gpc[t] = "undo"
    BY <1>8, AtHand DEF UndoItem
  <2>2. \A i \in 1 .. gat[t] - 1 : i \in DOMAIN Items[gcur[t]]
    BY <2>1, InnerLocks
  <2>3. \A l \in Gotten(t) : l \in Locks
    BY <2>1, <2>2, InnerLocks DEF Gotten
  <2> QED
    BY <1>8, <2>1, <2>3 DEF UndoItem, ItemFreed
<1>9. ASSUME NEW t \in Threads, ReleaseItem(t)
      PROVE  GroupOnly(t) \/ \E l \in Locks : ItemFreed(t, l)
  <2>1. gpc[t] = "release" /\ Item(t) \in Locks
    BY <1>9, AtHand DEF ReleaseItem
  <2>2. CASE Release(t, Item(t))
    BY <1>9, <2>1, <2>2 DEF ItemFreed
  <2>3. CASE UNCHANGED vars
    <3>1. \/ Return(t, "released")
          \/ GoTo(t, "release", gat[t] + 1) /\ UNCHANGED gcur
      BY <1>9 DEF ReleaseItem
    <3> QED
      BY <1>1, <1>4, <1>5, <2>1, <2>3, <3>1 DEF GroupOnly, vars
  <2> QED
    BY <1>9, <2>2, <2>3 DEF ReleaseItem
<1>10. CASE UNCHANGED allVars
  BY <1>10 DEF allVars, vars
<1> QED
  BY <1>2, <1>3, <1>6, <1>7, <1>8, <1>9, <1>10, ItemMoves DEF GroupNext, InGroup

LEMMA FreedAdvance ==
  ASSUME GroupTypeOK, GroupInv, NEW t \in Threads, NEW l \in Locks, ItemFreed(t, l)
  PROVE  /\ pc[t] = "idle" /\ Reaches(t, l) /\ \A u \in Threads : cur[u] # l
         /\ step[l] = 2 /\ step' = [step EXCEPT ![l] = 3]
         /\ CloseLocalThread(t, l)
         /\ outcome' = [outcome EXCEPT ![l] = "released"]
         /\ UNCHANGED <<expired, isReentry, tryCount, pc, cur, znode, caller>>
         /\ gpc' = [gpc EXCEPT ![t] = gpc'[t]]
         /\ gat' = [gat EXCEPT ![t] = gat'[t]]
         /\ gcur' = [gcur EXCEPT ![t] = gcur'[t]]
<1>1. CASE gpc[t] = "undo"
  BY <1>1, GroupTypes DEF ItemFreed, Release, MonitorFree, groupVars
<1>2. CASE gpc[t] = "release"
  <2>1. \/ Return(t, "released")
        \/ GoTo(t, "release", gat[t] + 1) /\ UNCHANGED gcur
    BY <1>2 DEF ItemFreed, ReleaseItem
  <2> QED
    BY <1>2, <2>1, GroupTypes DEF ItemFreed, Release, MonitorFree, Return, GoTo
<1> QED
  BY <1>1, <1>2 DEF ItemFreed

LEMMA AcquireAdvance ==
  ASSUME GroupTypeOK, GroupInv, NEW t \in Threads, AcquireItem(t)
  PROVE  /\ Item(t) \in Locks /\ ResOf[Item(t)] \in Resources
         /\ gpc[t] = "acquire" /\ pc[t] = "idle"
         /\ Reaches(t, Item(t)) /\ \A u \in Threads : cur[u] # Item(t)
         /\ step[Item(t)] = 1 /\ step' = [step EXCEPT ![Item(t)] = 2]
         /\ isReentry' = [isReentry EXCEPT ![Item(t)] = ResOf[Item(t)] \in session[t]]
         /\ session' = [session EXCEPT ![t] = @ \cup {ResOf[Item(t)]}]
         /\ pc' = [pc EXCEPT ![t] = "init"]
         /\ cur' = [cur EXCEPT ![t] = Item(t)]
         /\ outcome' = [outcome EXCEPT ![Item(t)] = "locking"]
         /\ caller' = [caller EXCEPT ![Item(t)] = t]
         /\ gpc' = [gpc EXCEPT ![t] = "inner"]
         /\ UNCHANGED <<expired, tryCount, znode, gstep, gReentry, gat, gcur, gresult, gframes>>
<1>1. Item(t) \in Locks /\ ResOf[Item(t)] \in Resources
  BY AtHand, LockAssumption DEF AcquireItem
<1>2. gat' = gat
  BY GroupTypes DEF AcquireItem, GoTo
<1> QED
  BY <1>1, <1>2, GroupTypes DEF AcquireItem, Lock, MonitorFree, HasEntry, AddEntry, GoTo

LEMMA ItemCallsNext ==
  ASSUME GroupTypeOK, GroupInv, [GroupNext]_allVars
  PROVE  ItemCalls'
<1>0. ItemCalls
  BY DEF GroupInv
<1>1. ASSUME NEW t \in Threads, GroupOnly(t) PROVE ItemCalls'
  <2>1. \A u \in Threads : pc[u] # "idle" => gpc'[u] = gpc[u] /\ gat'[u] = gat[u] /\ gcur'[u] = gcur[u]
    BY <1>1, GroupTypes DEF GroupOnly
  <2> QED
    BY <1>0, <1>1, <2>1 DEF GroupOnly, ItemCalls, lockVars, Item, Reaches
<1>2. ASSUME NEW t \in Threads, ItemRuns(t) PROVE ItemCalls'
  <2>1. \A u \in Threads : pc'[u] = pc[u] \/ (u = t /\ pc[u] # "idle" /\ pc'[u] # "idle" /\ ~isReentry[cur[u]])
    BY <1>2, GroupTypes DEF ItemRuns
  <2>2. UNCHANGED <<step, isReentry, cur, outcome, caller, gpc, gcur, gat>>
    BY <1>2 DEF ItemRuns, groupVars
  <2> QED
    BY <1>0, <2>1, <2>2 DEF ItemCalls, Item, Reaches
<1>3. ASSUME NEW t \in Threads, ItemEnds(t) PROVE ItemCalls'
  <2>1. /\ cur[t] \in Locks /\ outcome[cur[t]] = "locking" /\ caller[cur[t]] = t /\ Reaches(t, cur[t])
        /\ step[cur[t]] = 2 /\ \A u \in Threads \ {t} : cur[u] # cur[t]
    BY <1>3, AtItem DEF ItemEnds
  <2>2. /\ UNCHANGED <<step, isReentry, caller, gpc, gcur, gat>>
        /\ \A u \in Threads \ {t} : pc'[u] = pc[u] /\ cur'[u] = cur[u]
        /\ pc'[t] = "idle" /\ cur'[t] = NoLock
        /\ outcome'[cur[t]] \in {"held", "refused"}
        /\ \A l \in Locks \ {cur[t]} : outcome'[l] = outcome[l]
    BY <1>3, <2>1, GroupTypes DEF ItemEnds, groupVars
  <2>3. ASSUME NEW u \in Threads, pc'[u] # "idle"
        PROVE  /\ pc[u] # "idle" /\ cur'[u] = cur[u] /\ pc'[u] = pc[u]
               /\ outcome'[cur[u]] = outcome[cur[u]]
    <3>1. u # t /\ pc[u] # "idle"
      BY <2>2, <2>3
    <3>2. cur[u] \in Locks
      BY <3>1, AtItem
    <3> QED
      BY <2>1, <2>2, <3>1, <3>2
  <2>4. \A l \in Locks : /\ step[l] = 1 <=> outcome'[l] = "new"
                         /\ step[l] = 3 <=> outcome'[l] = "released"
                         /\ outcome'[l] # "new" => caller[l] \in Threads /\ Reaches(caller[l], l)
    BY <1>0, <2>1, <2>2 DEF ItemCalls
  <2>5. \A u \in Threads : pc'[u] = "idle" <=> cur'[u] = NoLock
    BY <1>0, <2>2 DEF ItemCalls
  <2> QED
    BY <1>0, <2>2, <2>3, <2>4, <2>5 DEF ItemCalls, Item, Reaches
<1>4. ASSUME NEW t \in Threads, AcquireItem(t) PROVE ItemCalls'
  <2> DEFINE l == Item(t)
  <2>1. /\ l \in Locks /\ Reaches(t, l) /\ \A u \in Threads : cur[u] # l
        /\ UNCHANGED <<gcur, gat>>
        /\ pc'[t] = "init" /\ cur'[t] = l /\ gpc'[t] = "inner"
        /\ step'[l] = 2 /\ outcome'[l] = "locking" /\ caller'[l] = t
        /\ \A u \in Threads \ {t} : pc'[u] = pc[u] /\ cur'[u] = cur[u] /\ gpc'[u] = gpc[u]
        /\ \A m \in Locks \ {l} : /\ step'[m] = step[m] /\ outcome'[m] = outcome[m]
                                  /\ caller'[m] = caller[m] /\ isReentry'[m] = isReentry[m]
    BY <1>4, AcquireAdvance, GroupTypes
  <2>2. Item(t)' = l
    BY <2>1 DEF Item
  <2>3. \A u \in Threads : pc[u] # "idle" => cur[u] \in Locks \ {l}
    BY <2>1, AtItem
  <2> HIDE DEF l
  <2>4. \A u \in Threads \ {t} : /\ pc'[u] = "idle" <=> cur'[u] = NoLock
                                 /\ pc'[u] # "idle" => gpc'[u] = "inner" /\ cur'[u] = Item(u)'
                                        /\ Reaches(u, cur'[u]) /\ outcome'[cur'[u]] = "locking"
                                 /\ pc'[u] \in {"execute", "sleep"} => ~isReentry'[cur'[u]]
    BY <1>0, <2>1, <2>3 DEF ItemCalls, Item
  <2>5. \A m \in Locks : /\ step'[m] = 1 <=> outcome'[m] = "new"
                         /\ step'[m] = 3 <=> outcome'[m] = "released"
                         /\ outcome'[m] # "new" => caller'[m] \in Threads /\ Reaches(caller'[m], m)
    BY <1>0, <2>1 DEF ItemCalls
  <2> QED
    BY <2>1, <2>2, <2>4, <2>5, GroupTypes DEF ItemCalls, Reaches
<1>5. ASSUME NEW t \in Threads, NEW l \in Locks, ItemFreed(t, l) PROVE ItemCalls'
  <2>1. /\ pc[t] = "idle" /\ \A u \in Threads : cur[u] # l
        /\ step'[l] = 3 /\ outcome'[l] = "released" /\ step[l] = 2
        /\ \A m \in Locks \ {l} : step'[m] = step[m] /\ outcome'[m] = outcome[m]
        /\ UNCHANGED <<isReentry, pc, cur, caller>>
        /\ \A u \in Threads \ {t} : gpc'[u] = gpc[u] /\ gat'[u] = gat[u] /\ gcur'[u] = gcur[u]
    BY <1>5, FreedAdvance, GroupTypes
  <2>2. \A u \in Threads : pc[u] # "idle" => cur[u] \in Locks \ {l}
    BY <2>1, AtItem
  <2>3. \A u \in Threads : pc[u] # "idle" =>
            gpc'[u] = gpc[u] /\ Item(u)' = Item(u) /\ outcome'[cur[u]] = outcome[cur[u]]
    BY <2>1, <2>2 DEF Item
  <2>4. \A m \in Locks : /\ step'[m] = 1 <=> outcome'[m] = "new"
                         /\ step'[m] = 3 <=> outcome'[m] = "released"
                         /\ outcome'[m] # "new" => caller[m] \in Threads /\ Reaches(caller[m], m)
    BY <1>0, <2>1 DEF ItemCalls
  <2> QED
    BY <1>0, <2>1, <2>3, <2>4 DEF ItemCalls, Reaches
<1>6. ASSUME NEW c \in Clients, GroupSessionEnd(c) PROVE ItemCalls'
  BY <1>0, <1>6 DEF GroupSessionEnd, SessionEnd, groupVars, ItemCalls, Item, Reaches
<1>7. CASE UNCHANGED <<expired, lockVars, groupVars>>
  BY <1>0, <1>7 DEF lockVars, groupVars, ItemCalls, Item, Reaches
<1> QED
  BY <1>1, <1>2, <1>3, <1>4, <1>5, <1>6, <1>7, LockMoves

LEMMA GroupNodesNext ==
  ASSUME GroupTypeOK, GroupInv, [GroupNext]_allVars
  PROVE  NodesMatchObjects'
<1>0. NodesMatchObjects
  BY DEF GroupInv
<1>1. ASSUME UNCHANGED <<expired, znode, step, caller>> PROVE NodesMatchObjects'
  BY <1>0, <1>1 DEF NodesMatchObjects, Alive, Reaches
<1>2. ASSUME NEW t \in Threads, ItemRuns(t) \/ ItemEnds(t) PROVE NodesMatchObjects'
  <2>1. pc[t] # "idle" /\ MayCreate(t) /\ UNCHANGED <<expired, step, caller>>
    BY <1>2 DEF ItemRuns, ItemEnds
  <2>2. CASE Connected(t) /\ znode' = [znode EXCEPT ![ResOf[cur[t]]] = cur[t]]
    <3>1. /\ cur[t] \in Locks /\ ResOf[cur[t]] \in Resources /\ Reaches(t, cur[t])
          /\ caller[cur[t]] = t /\ step[cur[t]] = 2 /\ Alive(cur[t])
      BY <2>1, <2>2, AtItem DEF Reaches, Alive, Connected
    <3>2. znode'[ResOf[cur[t]]] = cur[t]
          /\ \A r \in Resources \ {ResOf[cur[t]]} : znode'[r] = znode[r]
      BY <2>2, <3>1, GroupTypes
    <3> QED
      BY <1>0, <2>1, <3>1, <3>2 DEF NodesMatchObjects, Alive, Reaches
  <2> QED
    BY <1>1, <2>1, <2>2 DEF MayCreate
<1>3. ASSUME NEW t \in Threads, AcquireItem(t) PROVE NodesMatchObjects'
  <2>1. /\ Item(t) \in Locks /\ step[Item(t)] = 1
        /\ step' = [step EXCEPT ![Item(t)] = 2] /\ caller' = [caller EXCEPT ![Item(t)] = t]
        /\ UNCHANGED <<expired, znode>>
    BY <1>3, AcquireAdvance
  <2>2. \A r \in Resources : znode[r] # NoLock => znode[r] \in Locks \ {Item(t)}
    BY <1>0, <2>1, GroupTypes DEF NodesMatchObjects
  <2>3. \A m \in Locks \ {Item(t)} : step'[m] = step[m] /\ caller'[m] = caller[m]
    BY <2>1, GroupTypes
  <2> QED
    BY <1>0, <2>1, <2>2, <2>3 DEF NodesMatchObjects, Alive, Reaches
<1>4. ASSUME NEW t \in Threads, NEW l \in Locks, ItemFreed(t, l) PROVE NodesMatchObjects'
  <2>1. step' = [step EXCEPT ![l] = 3] /\ UNCHANGED <<expired, znode, caller>>
    BY <1>4, FreedAdvance
  <2>2. \A r \in Resources : znode[r] # NoLock => znode[r] \in Locks
    BY GroupTypes
  <2>3. \A m \in Locks : step[m] # 1 => step'[m] # 1
    BY <2>1, GroupTypes
  <2> QED
    BY <1>0, <2>1, <2>2, <2>3 DEF NodesMatchObjects, Alive, Reaches
<1>5. ASSUME NEW c \in Clients, GroupSessionEnd(c) PROVE NodesMatchObjects'
  BY <1>0, <1>5 DEF GroupSessionEnd, SessionEnd, NodesMatchObjects, Alive, Reaches
<1>6. ASSUME NEW t \in Threads, GroupOnly(t) PROVE NodesMatchObjects'
  BY <1>1, <1>6 DEF GroupOnly, lockVars
<1>7. CASE UNCHANGED <<expired, lockVars, groupVars>>
  BY <1>1, <1>7 DEF lockVars
<1> QED
  BY <1>2, <1>3, <1>4, <1>5, <1>6, <1>7, LockMoves

\* A thread owns a resource until its ZooKeeper session ends.
LEMMA OwnershipStays ==
  ASSUME GroupTypeOK, GroupInv, [GroupNext]_allVars,
         NEW t \in Threads, NEW r \in Resources, OwnedBy(r, t), LivesFor(t)'
  PROVE  OwnedBy(r, t)'
<1> DEFINE m == znode[r]
<1>1. m \in Locks /\ m # NoLock /\ caller[m] = t /\ ZkOf[m] = ClientOf[t] /\ step[m] # 1
  BY GroupTypes DEF OwnedBy, GroupInv, NodesMatchObjects, Reaches
<1> SUFFICES znode'[r] = m /\ caller'[m] = t
  BY <1>1 DEF OwnedBy
<1>2. ASSUME NEW u \in Threads, ItemRuns(u) \/ ItemEnds(u) PROVE znode'[r] = m /\ caller'[m] = t
  <2>1. MayCreate(u) /\ UNCHANGED caller /\ ResOf[cur[u]] \in Resources
    BY <1>2, AtItem DEF ItemRuns, ItemEnds
  <2>2. znode' = znode \/ (r # ResOf[cur[u]] /\ znode' = [znode EXCEPT ![ResOf[cur[u]]] = cur[u]])
    BY <1>1, <2>1 DEF MayCreate
  <2> QED
    BY <1>1, <2>1, <2>2, GroupTypes
<1>3. ASSUME NEW u \in Threads, AcquireItem(u) PROVE znode'[r] = m /\ caller'[m] = t
  BY <1>1, <1>3, AcquireAdvance, GroupTypes
<1>4. ASSUME NEW u \in Threads, NEW l \in Locks, ItemFreed(u, l) PROVE znode'[r] = m /\ caller'[m] = t
  BY <1>1, <1>4, FreedAdvance
<1>5. ASSUME NEW c \in Clients, GroupSessionEnd(c) PROVE znode'[r] = m /\ caller'[m] = t
  <2>1. ZkOf[m] # c
    BY <1>1, <1>5 DEF GroupSessionEnd, SessionEnd, LivesFor
  <2> QED
    BY <1>1, <1>5, <2>1 DEF GroupSessionEnd, SessionEnd
<1>6. ASSUME UNCHANGED lockVars PROVE znode'[r] = m /\ caller'[m] = t
  BY <1>1, <1>6 DEF lockVars
<1> QED
  BY <1>2, <1>3, <1>4, <1>5, <1>6, LockMoves DEF GroupOnly

LEMMA LivesBefore ==
  ASSUME [GroupNext]_allVars, GroupTypeOK, GroupInv, NEW t, LivesFor(t)'
  PROVE  LivesFor(t)
<1>1. expired \subseteq expired'
  BY LockMoves, FreedAdvance, AcquireAdvance
     DEF GroupOnly, ItemRuns, ItemEnds, GroupSessionEnd, SessionEnd
<1> QED
  BY <1>1 DEF LivesFor

LEMMA HeldOwnedNext ==
  ASSUME GroupTypeOK, GroupInv, [GroupNext]_allVars
  PROVE  HeldOwned'
<1> DEFINE Firm(l) == Held(l) \/ (outcome[l] = "locking" /\ isReentry[l])
<1> SUFFICES ASSUME NEW l \in Locks, Firm(l)', LivesFor(caller[l])'
             PROVE  OwnedBy(ResOf[l], caller[l])'
  BY DEF HeldOwned, LivesFor, OwnedBy
<1>0. ResOf[l] \in Resources
  BY LockAssumption
<1>1. ASSUME Firm(l), caller'[l] = caller[l] PROVE OwnedBy(ResOf[l], caller[l])'
  <2>1. PICK t \in Threads : t = caller[l]
    BY <1>1 DEF GroupInv, ItemCalls, Held
  <2>2. LivesFor(t)'
    BY <1>1, <2>1 DEF LivesFor
  <2>3. OwnedBy(ResOf[l], t)
    BY <1>1, <2>1, <2>2, LivesBefore DEF GroupInv, HeldOwned
  <2>4. OwnedBy(ResOf[l], t)'
    BY <1>0, <2>2, <2>3, OwnershipStays
  <2> QED
    BY <1>1, <2>1, <2>4 DEF OwnedBy
<1>2. ASSUME NEW t \in Threads, AcquireItem(t) PROVE OwnedBy(ResOf[l], caller[l])'
  <2>1. CASE l = Item(t)
    <3>1. /\ outcome'[l] = "locking" /\ isReentry'[l] = (ResOf[l] \in session[t])
          /\ caller'[l] = t /\ gpc[t] = "acquire"
      BY <1>2, <2>1, AcquireAdvance, GroupTypes
    <3>2. ResOf[l] \in session[t] /\ LivesFor(t)'
      BY <3>1 DEF Held, LivesFor
    <3>3. InDoubt(t) = {}
      BY <3>1 DEF InDoubt
    <3>4. OwnedBy(ResOf[l], t)
      BY <3>2, <3>3, LivesBefore DEF GroupInv, EntriesOwned
    <3>5. OwnedBy(ResOf[l], t)'
      BY <1>0, <3>2, <3>4, OwnershipStays
    <3> QED
      BY <3>1, <3>5 DEF OwnedBy
  <2>2. CASE l # Item(t)
    <3>1. outcome'[l] = outcome[l] /\ isReentry'[l] = isReentry[l] /\ caller'[l] = caller[l]
      BY <1>2, <2>2, AcquireAdvance, GroupTypes
    <3> QED
      BY <1>1, <3>1 DEF Held
  <2> QED
    BY <2>1, <2>2
<1>3. ASSUME NEW t \in Threads, ItemEnds(t) PROVE OwnedBy(ResOf[l], caller[l])'
  <2>1. UNCHANGED <<isReentry, caller>> /\ cur[t] \in Locks /\ caller[cur[t]] = t
        /\ outcome[cur[t]] = "locking"
    BY <1>3, AtItem DEF ItemEnds
  <2>2. CASE l # cur[t]
    <3>1. outcome'[l] = outcome[l]
      BY <1>3, <2>1, <2>2, GroupTypes DEF ItemEnds
    <3> QED
      BY <1>1, <2>1, <3>1 DEF Held
  <2>3. CASE l = cur[t]
    <3>1. isReentry[l] \/ znode'[ResOf[l]] = l
      BY <1>3, <2>1, <2>3 DEF ItemEnds, Held
    <3>2. l # NoLock
      BY GroupTypes
    <3>3. CASE isReentry[l]
      BY <1>1, <2>1, <2>3, <3>3
    <3>4. CASE znode'[ResOf[l]] = l
      BY <3>2, <3>4 DEF OwnedBy
    <3> QED
      BY <3>1, <3>3, <3>4
  <2> QED
    BY <2>2, <2>3
<1>4. ASSUME NEW t \in Threads, NEW m \in Locks, ItemFreed(t, m)
      PROVE  OwnedBy(ResOf[l], caller[l])'
  <2>1. outcome' = [outcome EXCEPT ![m] = "released"] /\ UNCHANGED <<isReentry, caller>>
    BY <1>4, FreedAdvance
  <2>2. outcome'[l] = outcome[l]
    BY <2>1, GroupTypes DEF Held
  <2> QED
    BY <1>1, <2>1, <2>2 DEF Held
<1>5. ASSUME UNCHANGED <<outcome, isReentry, caller>> PROVE OwnedBy(ResOf[l], caller[l])'
  BY <1>1, <1>5 DEF Held
<1>6. ASSUME NEW t \in Threads, GroupOnly(t) \/ ItemRuns(t)
      PROVE  UNCHANGED <<outcome, isReentry, caller>>
  BY <1>6 DEF GroupOnly, ItemRuns, lockVars
<1>7. ASSUME NEW c \in Clients, GroupSessionEnd(c) PROVE UNCHANGED <<outcome, isReentry, caller>>
  BY <1>7 DEF GroupSessionEnd, SessionEnd
<1>8. CASE UNCHANGED <<expired, lockVars, groupVars>>
  BY <1>5, <1>8 DEF lockVars
<1> HIDE DEF Firm
<1> QED
  BY <1>2, <1>3, <1>4, <1>5, <1>6, <1>7, <1>8, LockMoves

\* An inner lock in doubt is one of its thread's innermost group.
LEMMA DoubtAtHand ==
  ASSUME GroupTypeOK, GroupInv, NEW u \in Threads, NEW m \in InDoubt(u)
  PROVE  /\ m \in Locks /\ outcome[m] \in {"locking", "refused"}
         /\ \E g \in Groups : \E i \in DOMAIN Items[g] :
               /\ m = Items[g][i]
               /\ \/ gpc[u] \in {"inner", "undo"} /\ g = gcur[u] /\ i = gat[u]
                  \/ gpc[u] = "release" /\ g = gcur[u] /\ gat[u] <= i
                  \/ /\ gpc[u] = "idle" /\ gframes[u] # << >> /\ g = Last(gframes[u])
                     /\ gresult[g] = "refused"
<1>1. CASE gpc[u] \in {"inner", "undo"} /\ m = Item(u)
  BY <1>1, AtHand DEF InDoubt
<1>2. CASE gpc[u] = "release" /\ \E i \in DOMAIN Items[gcur[u]] : gat[u] <= i /\ m = Items[gcur[u]][i]
  BY <1>2, AtHand DEF InDoubt
<1>3. CASE /\ gpc[u] = "idle" /\ gframes[u] # << >>
           /\ gresult[Last(gframes[u])] = "refused" /\ m \in ItemSet(Last(gframes[u]))
  <2>1. Last(gframes[u]) \in Groups
    BY <1>3, GroupTypes, LastGroup
  <2>2. \E i \in DOMAIN Items[Last(gframes[u])] : m = Items[Last(gframes[u])][i]
    BY <1>3, <2>1, InnerLocks
  <2> QED
    BY <1>3, <2>1, <2>2 DEF InDoubt
<1> QED
  BY <1>1, <1>2, <1>3 DEF InDoubt

\* Threads are at different inner locks.
LEMMA ItemsApart ==
  ASSUME GroupTypeOK, GroupInv, NEW t \in Threads, NEW u \in Threads, t # u,
         gpc[t] # "idle", NEW i \in DOMAIN Items[gcur[t]], NEW m \in InDoubt(u)
  PROVE  Items[gcur[t]][i] # m
<1>1. PICK g \in Groups : \E j \in DOMAIN Items[g] :
         m = Items[g][j] /\ (g = gcur[u] \/ (gframes[u] # << >> /\ g = Last(gframes[u])))
  BY DoubtAtHand
<1>2. gcur[t] \in Groups
  BY AtHand
<1>3. g = gcur[u] => g # gcur[t]
  BY <1>1, <1>2, GroupTypes DEF GroupInv, GroupsApart
<1>4. gframes[u] # << >> /\ g = Last(gframes[u]) => g # gcur[t]
  <2>1. gframes[u] # << >> => /\ Last(gframes[u]) = gframes[u][Len(gframes[u])]
                              /\ Len(gframes[u]) \in DOMAIN gframes[u]
    BY GroupTypes, LastGroup
  <2> QED
    BY <2>1 DEF GroupInv, GroupsApart
<1> QED
  BY <1>1, <1>2, <1>3, <1>4, InnerLocks

\* A step of the group between its inner locks leaves in doubt what was.
LEMMA DoubtStays ==
  ASSUME GroupTypeOK, GroupInv, [GroupNext]_allVars, UNCHANGED lockVars, NEW u \in Threads
  PROVE  InDoubt(u) \subseteq InDoubt(u)'
<1> SUFFICES ASSUME NEW m \in InDoubt(u) PROVE m \in InDoubt(u)'
  OBVIOUS
<1>0. /\ m \in Locks /\ outcome[m] \in {"locking", "refused"} /\ UNCHANGED outcome
      /\ gframes[u] \in Seq(Groups)
  BY DoubtAtHand, GroupTypes DEF lockVars
<1>1. ASSUME gpc'[u] = gpc[u], gat'[u] = gat[u], gcur'[u] = gcur[u], gframes'[u] = gframes[u],
             gpc[u] = "idle" /\ gframes[u] # << >> =>
                gresult'[Last(gframes[u])] = gresult[Last(gframes[u])]
      PROVE  m \in InDoubt(u)'
  <2>1. Item(u)' = Item(u)
    BY <1>1 DEF Item
  <2> QED
    BY <1>0, <1>1, <2>1, Zenon DEF InDoubt
<1>2. ASSUME NEW t \in Threads, t # u, gpc[t] # "idle",
             Stays(t) \/ ComesBack(t) \/ Releases(t)
      PROVE  m \in InDoubt(u)'
  <2>1. gpc'[u] = gpc[u] /\ gat'[u] = gat[u] /\ gcur'[u] = gcur[u] /\ gframes'[u] = gframes[u]
    BY <1>2, GroupTypes DEF Stays, ComesBack, Releases, Return, GoTo
  <2>2. ASSUME gframes[u] # << >> PROVE gresult'[Last(gframes[u])] = gresult[Last(gframes[u])]
    <3>1. Last(gframes[u]) \in Groups /\ Last(gframes[u]) # gcur[t]
      <4>1. /\ Last(gframes[u]) \in Groups /\ Last(gframes[u]) = gframes[u][Len(gframes[u])]
            /\ Len(gframes[u]) \in DOMAIN gframes[u]
        BY <1>0, <2>2, LastGroup
      <4> QED
        BY <1>2, <4>1 DEF GroupInv, GroupsApart
    <3> QED
      BY <1>2, <3>1, GroupTypes DEF Stays, ComesBack, Releases, Return
  <2> QED
    BY <1>1, <2>1, <2>2
<1>3. ASSUME NEW t \in Threads, NEW g \in Groups, LockGroup(t, g) PROVE m \in InDoubt(u)'
  <2>1. CASE t # u
    <3>1. /\ gpc'[u] = gpc[u] /\ gat'[u] = gat[u] /\ gcur'[u] = gcur[u] /\ gframes'[u] = gframes[u]
          /\ gresult' = [gresult EXCEPT ![g] = "locking"]
      BY <1>3, <2>1, GroupTypes DEF LockGroup, GoTo
    <3>2. ASSUME gframes[u] # << >> PROVE Last(gframes[u]) \in Groups /\ Last(gframes[u]) # g
      <4>1. /\ Last(gframes[u]) \in Groups /\ Last(gframes[u]) = gframes[u][Len(gframes[u])]
            /\ Len(gframes[u]) \in DOMAIN gframes[u]
        BY <1>0, <3>2, LastGroup
      <4>2. gstep[Last(gframes[u])] = 2 /\ gstep[g] = 1
        BY <1>3, <4>1 DEF GroupInv, GroupsNest, LockGroup, UseUp
      <4> QED
        BY <4>1, <4>2
    <3> QED
      BY <1>1, <3>1, <3>2, GroupTypes
  <2>2. CASE t = u
    <3>1. gpc[u] = "idle" /\ (gframes[u] # << >> => gresult[Last(gframes[u])] = "held")
      BY <1>3, <2>2 DEF LockGroup, GroupBody
    <3> QED
      BY <3>1 DEF InDoubt
  <2> QED
    BY <2>1, <2>2
<1>4. ASSUME GroupRelease(u) PROVE m \in InDoubt(u)'
  <2>1. /\ gpc[u] = "idle" /\ gframes[u] # << >>
        /\ gpc'[u] = "release" /\ gat'[u] = 1 /\ gcur'[u] = Last(gframes[u])
    BY <1>4, GroupTypes DEF GroupRelease, GoTo
  <2>2. PICK i \in DOMAIN Items[Last(gframes[u])] : m = Items[Last(gframes[u])][i]
    BY <2>1, DoubtAtHand
  <2>3. 1 <= i
    BY <1>0, <2>1, <2>2, InnerLocks, LastGroup
  <2> QED
    BY <1>0, <2>1, <2>2, <2>3 DEF InDoubt
<1>5. ASSUME NEW t \in Threads, t # u, GroupRelease(t) PROVE m \in InDoubt(u)'
  BY <1>1, <1>5, GroupTypes DEF GroupRelease, GoTo
<1>6. ASSUME ItemRefused(u) PROVE m \in InDoubt(u)'
  <2>1. gpc[u] = "inner" /\ gpc'[u] = "undo" /\ gat'[u] = gat[u] /\ gcur'[u] = gcur[u]
    BY <1>6, GroupTypes DEF ItemRefused, GoTo
  <2>2. Item(u)' = Item(u)
    BY <2>1 DEF Item
  <2> QED
    BY <1>0, <2>1, <2>2 DEF InDoubt
<1>7. ASSUME UndoDone(u) PROVE m \in InDoubt(u)'
  <2>1. /\ gpc[u] = "undo" /\ gpc'[u] = "idle" /\ gframes'[u] = gframes[u]
        /\ gresult' = [gresult EXCEPT ![gcur[u]] = "refused"]
    BY <1>7, GroupTypes DEF UndoDone, Return, GoTo
  <2>2. /\ gcur[u] \in Groups /\ gframes[u] # << >> /\ Last(gframes[u]) = gcur[u]
        /\ m = Item(u) /\ gat[u] \in DOMAIN Items[gcur[u]]
    BY <2>1, AtHand DEF GroupInv, GroupsNest, InGroupLock, InDoubt
  <2>3. m \in ItemSet(gcur[u]) /\ gresult'[gcur[u]] = "refused"
    BY <2>1, <2>2, InnerLocks, GroupTypes DEF Item
  <2>4. ItemSet(gcur[u])' = ItemSet(gcur'[u])
    BY DEF ItemSet
  <2>5. m \in ItemSet(Last(gframes'[u]))
    BY <2>1, <2>2, <2>3
  <2> QED
    BY <1>0, <2>1, <2>2, <2>3, <2>5 DEF InDoubt, ItemSet
<1>8. ASSUME NextBasePath(u) \/ GroupInitDone(u) \/ GroupInitThrows(u) PROVE m \in InDoubt(u)'
  BY <1>8 DEF NextBasePath, GroupInitDone, GroupInitThrows, InDoubt
<1>9. ASSUME ItemHeld(u) PROVE m \in InDoubt(u)'
  BY <1>9 DEF ItemHeld, Held, InDoubt
<1>10. ASSUME ReleaseItem(u) PROVE m \in InDoubt(u)'
  <2>1. /\ gpc[u] = "release" /\ gcur[u] \in Groups /\ gat[u] \in DOMAIN Items[gcur[u]]
        /\ Item(u) = Items[gcur[u]][gat[u]] /\ Item(u) \in Locks
        /\ DOMAIN Items[gcur[u]] = 1 .. Len(Items[gcur[u]]) /\ Len(Items[gcur[u]]) \in Nat
    BY <1>10, AtHand, InnerLocks DEF ReleaseItem
  <2>2. step[Item(u)] # 2
    <3>1. ~Release(u, Item(u))
      BY <1>10, <2>1, GroupTypes DEF Release, lockVars
    <3>2. step[Item(u)] # 2 /\ UNCHANGED vars
      BY <1>10, <3>1 DEF ReleaseItem
    <3> QED
      BY <3>2
  <2>3. PICK i \in DOMAIN Items[gcur[u]] : gat[u] <= i /\ m = Items[gcur[u]][i]
    BY <2>1 DEF InDoubt
  <2>4. step[m] = 2
    <3>1. m \in Locks /\ outcome[m] # "new" /\ outcome[m] # "released"
      BY <1>0
    <3>2. step[m] # 1 /\ step[m] # 3
      BY <3>1 DEF GroupInv, ItemCalls
    <3>3. step[m] \in 1 .. 3
      BY <3>1, GroupTypes
    <3> QED
      BY <3>2, <3>3
  <2>5. i # gat[u] /\ gat[u] + 1 <= i /\ gat[u] < Len(Items[gcur[u]])
    BY <2>1, <2>2, <2>3, <2>4
  <2>6. gpc'[u] = "release" /\ gat'[u] = gat[u] + 1 /\ gcur'[u] = gcur[u]
    BY <1>10, <2>5, GroupTypes DEF ReleaseItem, MoreItems, GoTo
  <2> QED
    BY <1>0, <2>3, <2>5, <2>6 DEF InDoubt
<1>11. ASSUME AcquireItem(u) PROVE m \in InDoubt(u)'
  BY <1>11 DEF AcquireItem, InDoubt
<1>12. CASE UNCHANGED groupVars
  BY <1>1, <1>12 DEF groupVars
<1>13. ASSUME InGroup(u) PROVE m \in InDoubt(u)'
  BY <1>6, <1>7, <1>8, <1>9, <1>10, <1>11, <1>12, <1>13
     DEF InGroup, InItem, UndoItem
<1>14. ASSUME NEW t \in Threads, t # u, InGroup(t) PROVE m \in InDoubt(u)'
  BY <1>2, <1>5, <1>12, <1>14, InGroupMoves DEF Stays, ComesBack, Releases, InGroupLock
<1> QED
  BY <1>3, <1>4, <1>5, <1>12, <1>13, <1>14 DEF GroupNext, GroupSessionEnd, allVars

\* An inner lock in doubt, with the entry it put into the session still there,
\* stays in doubt, or its lock() comes back.
LEMMA DoubtMoves ==
  ASSUME GroupTypeOK, GroupInv, [GroupNext]_allVars, NEW u \in Threads,
         NEW m \in InDoubt(u), ~isReentry[m], ResOf[m] \in session'[u]
  PROVE  /\ ~isReentry'[m]
         /\ \/ m \in InDoubt(u)' /\ outcome'[m] = outcome[m]
               /\ (outcome[m] = "refused" => tryCount'[m] = tryCount[m])
            \/ /\ ItemEnds(u) /\ m = cur[u]
               /\ outcome'[m] = "refused" => /\ m \in InDoubt(u)' /\ pc[u] = "init"
                                             /\ tryCount'[m] = tryCount[m]
<1> DEFINE Stay == /\ ~isReentry'[m]
                   /\ m \in InDoubt(u)' /\ outcome'[m] = outcome[m]
                   /\ outcome[m] = "refused" => tryCount'[m] = tryCount[m]
           End == /\ ~isReentry'[m]
                  /\ ItemEnds(u) /\ m = cur[u]
                  /\ outcome'[m] = "refused" => /\ m \in InDoubt(u)' /\ pc[u] = "init"
                                                /\ tryCount'[m] = tryCount[m]
<1>0. /\ m \in Locks /\ outcome[m] \in {"locking", "refused"}
      /\ tryCount \in [Locks -> Nat]
  BY DoubtAtHand DEF GroupTypeOK, MutexTypeOK
<1>1. ASSUME UNCHANGED lockVars PROVE Stay
  BY <1>1, DoubtStays DEF lockVars
<1>2. ASSUME UNCHANGED groupVars, outcome'[m] \in {"locking", "refused"} PROVE m \in InDoubt(u)'
  <2>1. Item(u)' = Item(u)
    BY <1>2 DEF groupVars, Item
  <2> QED
    BY <1>2, <2>1, Zenon DEF InDoubt, groupVars
<1>3. ASSUME NEW t \in Threads, ItemRuns(t) PROVE Stay
  <2>1. /\ UNCHANGED <<groupVars, isReentry, outcome>> /\ MayCount(t)
        /\ cur[t] \in Locks /\ outcome[cur[t]] = "locking"
    BY <1>3, AtItem DEF ItemRuns
  <2>2. outcome[m] = "refused" => tryCount'[m] = tryCount[m]
    BY <1>0, <2>1 DEF MayCount
  <2>3. m \in InDoubt(u)'
    BY <1>0, <1>2, <2>1
  <2> QED
    BY <2>1, <2>2, <2>3
<1>4. ASSUME NEW t \in Threads, ItemEnds(t) PROVE Stay \/ End
  <2>1. /\ cur[t] = Item(t) /\ cur[t] \in Locks /\ gpc[t] # "idle" /\ gpc[t] = "inner"
    BY <1>4, AtItem DEF ItemEnds
  <2>2. UNCHANGED <<groupVars, isReentry>> /\ MayCount(t)
    BY <1>4 DEF ItemEnds
  <2>3. CASE m # cur[t]
    <3>1. outcome'[m] = outcome[m]
      BY <1>0, <1>4, <2>3, GroupTypes DEF ItemEnds
    <3>2. tryCount'[m] = tryCount[m]
      BY <1>0, <2>2, <2>3 DEF MayCount
    <3>3. m \in InDoubt(u)'
      BY <1>0, <1>2, <2>2, <3>1
    <3> QED
      BY <2>2, <3>1, <3>2, <3>3
  <2>4. CASE m = cur[t]
    <3>1. t = u
      <4>1. gat[t] \in DOMAIN Items[gcur[t]] /\ Item(t) = Items[gcur[t]][gat[t]]
        BY <2>1, AtHand
      <4> QED
        BY <2>1, <2>4, <4>1, ItemsApart
    <3>2. ASSUME outcome'[m] = "refused"
          PROVE  m \in InDoubt(u)' /\ pc[u] = "init" /\ tryCount'[m] = tryCount[m]
      <4>1. session' # [session EXCEPT ![u] = @ \ {ResOf[m]}]
        BY GroupTypes
      <4>2. UNCHANGED <<session, tryCount>> /\ pc[u] = "init"
        BY <1>4, <2>4, <3>1, <3>2, <4>1 DEF ItemEnds
      <4> QED
        BY <1>2, <2>2, <3>2, <4>2
    <3> QED
      BY <1>4, <2>2, <2>4, <3>1, <3>2
  <2> QED
    BY <2>3, <2>4
<1>5. ASSUME NEW t \in Threads, AcquireItem(t) PROVE Stay
  <2>1. /\ Item(t) \in Locks /\ gpc[t] = "acquire" /\ outcome[Item(t)] = "new"
        /\ isReentry' = [isReentry EXCEPT ![Item(t)] = ResOf[Item(t)] \in session[t]]
        /\ outcome' = [outcome EXCEPT ![Item(t)] = "locking"]
        /\ gpc' = [gpc EXCEPT ![t] = "inner"]
        /\ UNCHANGED <<tryCount, gat, gcur, gresult, gframes>>
    BY <1>5, AcquireAdvance DEF GroupInv, ItemCalls
  <2>2. t # u
    BY <2>1 DEF InDoubt
  <2>3. gpc'[u] = gpc[u] /\ Item(u)' = Item(u) /\ outcome'[m] = outcome[m] /\ ~isReentry'[m]
    BY <1>0, <2>1, <2>2, GroupTypes DEF Item
  <2>4. m \in InDoubt(u)'
    BY <1>0, <2>1, <2>3, Zenon DEF InDoubt
  <2> QED
    BY <2>1, <2>3, <2>4
<1>6. ASSUME NEW t \in Threads, NEW l \in Locks, ItemFreed(t, l) PROVE Stay
  <2>1. /\ outcome' = [outcome EXCEPT ![l] = "released"] /\ UNCHANGED <<isReentry, tryCount>>
        /\ session' = IF isReentry[l] THEN session
                      ELSE [session EXCEPT ![t] = @ \ {ResOf[l]}]
        /\ \A w \in Threads \ {t} : gpc'[w] = gpc[w] /\ gat'[w] = gat[w] /\ gcur'[w] = gcur[w]
        /\ gpc[t] \in {"undo", "release"} /\ gpc[t] # "idle"
    BY <1>6, FreedAdvance, GroupTypes DEF CloseLocalThread, ItemFreed
  <2>2. /\ gframes' = gframes
        /\ gpc[t] = "undo" => UNCHANGED groupVars
        /\ gpc[t] = "release" => ReleaseItem(t) /\ l = Item(t)
    BY <1>6 DEF ItemFreed, ReleaseItem, groupVars
  <2>3. PICK k \in DOMAIN Items[gcur[t]] : l = Items[gcur[t]][k] /\ (gpc[t] = "release" => k = gat[t])
    <3>1. /\ gcur[t] \in Groups /\ gat[t] \in DOMAIN Items[gcur[t]]
          /\ Item(t) = Items[gcur[t]][gat[t]]
          /\ DOMAIN Items[gcur[t]] = 1 .. Len(Items[gcur[t]]) /\ Len(Items[gcur[t]]) \in Nat
      BY <2>1, AtHand, InnerLocks
    <3>2. CASE gpc[t] = "undo"
      <4>1. PICK k \in 1 .. gat[t] - 1 : l = Items[gcur[t]][k]
        BY <1>6, <3>2 DEF ItemFreed, Gotten
      <4> QED
        BY <3>1, <3>2, <4>1
    <3> QED
      BY <2>1, <2>2, <3>1, <3>2
  <2>4. m # l
    <3>1. CASE t # u
      BY <2>1, <2>3, <3>1, ItemsApart
    <3>2. CASE t = u
      <4>1. m = l => session'[u] = session[u] \ {ResOf[m]}
        BY <2>1, <3>2, GroupTypes
      <4> QED
        BY <4>1
    <3> QED
      BY <3>1, <3>2
  <2>5. outcome'[m] = outcome[m] /\ ~isReentry'[m] /\ tryCount'[m] = tryCount[m]
    BY <1>0, <2>1, <2>4, GroupTypes
  <2>6. ASSUME t # u PROVE m \in InDoubt(u)'
    <3>1. gpc'[u] = gpc[u] /\ gat'[u] = gat[u] /\ gcur'[u] = gcur[u] /\ gframes'[u] = gframes[u]
          /\ Item(u)' = Item(u)
      BY <2>1, <2>2, <2>6 DEF Item
    <3>2. gpc[u] = "idle" /\ gframes[u] # << >> =>
             gresult'[Last(gframes[u])] = gresult[Last(gframes[u])]
      <4>1. gresult' = gresult \/ gresult' = [gresult EXCEPT ![gcur[t]] = "released"]
        BY <2>1, <2>2 DEF ReleaseItem, Return, groupVars
      <4>2. gframes[u] # << >> => /\ Last(gframes[u]) \in Groups
                                  /\ Last(gframes[u]) = gframes[u][Len(gframes[u])]
                                  /\ Len(gframes[u]) \in DOMAIN gframes[u]
        BY GroupTypes, LastGroup
      <4>3. gframes[u] # << >> => Last(gframes[u]) # gcur[t]
        BY <2>6, <4>2 DEF GroupInv, GroupsApart
      <4> QED
        BY <4>1, <4>2, <4>3, GroupTypes
    <3> QED
      BY <1>0, <2>5, <3>1, <3>2, Zenon DEF InDoubt
  <2>7. ASSUME t = u, gpc[u] = "undo" PROVE m \in InDoubt(u)'
    BY <1>0, <1>2, <2>2, <2>5, <2>7
  <2>8. ASSUME t = u, gpc[u] = "release" PROVE m \in InDoubt(u)'
    <3>1. PICK i \in DOMAIN Items[gcur[u]] : gat[u] <= i /\ m = Items[gcur[u]][i]
      BY <2>8 DEF InDoubt
    <3>2. /\ gcur[u] \in Groups /\ gat[u] \in DOMAIN Items[gcur[u]]
          /\ DOMAIN Items[gcur[u]] = 1 .. Len(Items[gcur[u]]) /\ Len(Items[gcur[u]]) \in Nat
      BY <2>1, <2>8, AtHand, InnerLocks
    <3>3. i # gat[u] /\ gat[u] + 1 <= i /\ gat[u] < Len(Items[gcur[u]])
      BY <2>3, <2>4, <2>8, <3>1, <3>2
    <3>4. gpc'[u] = "release" /\ gat'[u] = gat[u] + 1 /\ gcur'[u] = gcur[u]
      BY <2>2, <2>8, <3>3, GroupTypes DEF ReleaseItem, MoreItems, GoTo
    <3> QED
      BY <1>0, <2>5, <3>1, <3>3, <3>4 DEF InDoubt
  <2> QED
    BY <2>1, <2>5, <2>6, <2>7, <2>8
<1>7. ASSUME NEW c \in Clients, GroupSessionEnd(c) PROVE Stay
  <2>1. UNCHANGED <<groupVars, isReentry, tryCount, outcome>>
    BY <1>7 DEF GroupSessionEnd, SessionEnd
  <2> QED
    BY <1>0, <1>2, <2>1
<1> HIDE DEF Stay, End
<1>8. Stay \/ End
  BY <1>1, <1>3, <1>4, <1>5, <1>6, <1>7, LockMoves DEF GroupOnly
<1> QED
  BY <1>8 DEF Stay, End

\* Only lock() puts an entry into the session.
LEMMA NewEntry ==
  ASSUME GroupTypeOK, GroupInv, [GroupNext]_allVars, NEW u \in Threads,
         NEW r \in session'[u], r \notin session[u]
  PROVE  /\ Item(u) \in InDoubt(u)' /\ ResOf[Item(u)] = r
         /\ ~isReentry'[Item(u)] /\ outcome'[Item(u)] = "locking"
<1>1. PICK t \in Threads : AcquireItem(t)
  <2>1. ASSUME NEW t \in Threads, NEW l \in Locks,
               session' = session \/ session' = [session EXCEPT ![t] = @ \ {ResOf[l]}]
        PROVE  session'[u] \subseteq session[u]
    <3>1. session'[u] \in {session[u], session[u] \ {ResOf[l]}}
      BY <2>1, GroupTypes
    <3> QED
      BY <3>1
  <2>2. ASSUME NEW t \in Threads, ItemEnds(t) PROVE session'[u] \subseteq session[u]
    <3>1. pc[t] # "idle"
         /\ (session' = session \/ session' = [session EXCEPT ![t] = @ \ {ResOf[cur[t]]}])
      BY <2>2 DEF ItemEnds
    <3> QED
      BY <2>1, <3>1, AtItem
  <2>3. ASSUME NEW t \in Threads, NEW l \in Locks, ItemFreed(t, l)
        PROVE  session'[u] \subseteq session[u]
    BY <2>1, <2>3, FreedAdvance DEF CloseLocalThread
  <2> QED
    BY <2>2, <2>3, LockMoves DEF GroupOnly, lockVars, ItemRuns, GroupSessionEnd, SessionEnd
<1>2. /\ Item(t) \in Locks /\ gpc[t] = "acquire"
      /\ isReentry' = [isReentry EXCEPT ![Item(t)] = ResOf[Item(t)] \in session[t]]
      /\ session' = [session EXCEPT ![t] = @ \cup {ResOf[Item(t)]}]
      /\ outcome' = [outcome EXCEPT ![Item(t)] = "locking"]
      /\ gpc' = [gpc EXCEPT ![t] = "inner"]
      /\ UNCHANGED <<gat, gcur>>
  BY <1>1, AcquireAdvance
<1>3. t = u /\ r = ResOf[Item(u)] /\ ~isReentry'[Item(u)] /\ outcome'[Item(u)] = "locking"
      /\ gpc'[u] = "inner"
  BY <1>2, GroupTypes
<1>4. Item(u)' = Item(u)
  BY <1>2 DEF Item
<1> QED
  BY <1>2, <1>3, <1>4 DEF InDoubt

LEMMA EntriesOwnedNext ==
  ASSUME GroupTypeOK, GroupInv, [GroupNext]_allVars
  PROVE  EntriesOwned'
<1> SUFFICES ASSUME NEW u \in Threads, LivesFor(u)', NEW r \in session'[u]
             PROVE  OwnedBy(r, u)' \/ \E m \in InDoubt(u)' : ResOf[m] = r /\ ~isReentry'[m]
  BY DEF EntriesOwned
<1>1. LivesFor(u) /\ session[u] \in SUBSET Resources
  BY LivesBefore, GroupTypes
<1>2. CASE r \notin session[u]
  BY <1>2, NewEntry
<1>3. ASSUME OwnedBy(r, u), r \in session[u] PROVE OwnedBy(r, u)'
  BY <1>1, <1>3, OwnershipStays
<1>4. ASSUME NEW m \in InDoubt(u), ResOf[m] = r, ~isReentry[m]
      PROVE  OwnedBy(r, u)' \/ (m \in InDoubt(u)' /\ ~isReentry'[m])
  <2>1. CASE m \in InDoubt(u)'
    BY <1>4, <2>1, DoubtMoves
  <2>2. CASE m \notin InDoubt(u)'
    <3>1. ItemEnds(u) /\ m = cur[u] /\ outcome'[m] # "refused"
      BY <1>4, <2>2, DoubtMoves
    <3>2. pc[u] # "idle" /\ caller'[m] = caller[m] /\ znode'[r] = m
      BY <1>4, <3>1 DEF ItemEnds
    <3>3. cur[u] \in Locks /\ caller[cur[u]] = u
      BY <3>2, AtItem
    <3>4. caller[m] = u /\ m # NoLock
      BY <3>1, <3>3, GroupTypes
    <3> QED
      BY <3>2, <3>4 DEF OwnedBy
  <2> QED
    BY <2>1, <2>2
<1> QED
  BY <1>1, <1>2, <1>3, <1>4 DEF GroupInv, EntriesOwned
-----------------------------------------------------------------------------
(***************************************************************************)
(* The inner locks of a group change only while their thread is in lock()  *)
(* or release() of that group.                                             *)
(***************************************************************************)
LEMMA StepTouches ==
  ASSUME GroupTypeOK, GroupInv, NEW t \in Threads, InGroup(t) \/ GroupRelease(t)
  PROVE  \/ UNCHANGED <<outcome, caller>>
         \/ /\ gpc[t] # "idle"
            /\ \E i \in DOMAIN Items[gcur[t]] :
                  /\ InGroupLock(t) \/ outcome'[Items[gcur[t]][i]] = "released"
                  /\ \A m \in Locks \ {Items[gcur[t]][i]} :
                        outcome'[m] = outcome[m] /\ caller'[m] = caller[m]
<1> DEFINE Touched == /\ gpc[t] # "idle"
                      /\ \E i \in DOMAIN Items[gcur[t]] :
                            /\ InGroupLock(t) \/ outcome'[Items[gcur[t]][i]] = "released"
                            /\ \A m \in Locks \ {Items[gcur[t]][i]} :
                                  outcome'[m] = outcome[m] /\ caller'[m] = caller[m]
<1>1. ASSUME ItemEnds(t) PROVE Touched
  <2>1. InGroupLock(t) /\ gpc[t] # "idle" /\ gpc[t] = "inner" /\ cur[t] = Item(t) /\ cur[t] \in Locks
    BY <1>1, AtItem DEF ItemEnds
  <2>2. gat[t] \in DOMAIN Items[gcur[t]] /\ Item(t) = Items[gcur[t]][gat[t]]
    BY <2>1, AtHand
  <2>3. \A m \in Locks \ {cur[t]} : outcome'[m] = outcome[m] /\ caller'[m] = caller[m]
    BY <1>1, GroupTypes DEF ItemEnds
  <2> QED
    BY <2>1, <2>2, <2>3
<1>2. ASSUME AcquireItem(t) PROVE Touched
  <2>1. gpc[t] = "acquire" /\ gpc[t] # "idle" /\ InGroupLock(t)
    BY <1>2 DEF AcquireItem, InGroupLock
  <2>2. gat[t] \in DOMAIN Items[gcur[t]] /\ Item(t) = Items[gcur[t]][gat[t]]
    BY <2>1, AtHand
  <2>3. \A m \in Locks \ {Item(t)} : outcome'[m] = outcome[m] /\ caller'[m] = caller[m]
    BY <1>2, AcquireAdvance, GroupTypes
  <2> QED
    BY <2>1, <2>2, <2>3
<1>3. ASSUME NEW l \in Locks, ItemFreed(t, l)
      PROVE  Touched
  <2>1. /\ gpc[t] \in {"undo", "release"} /\ gpc[t] # "idle"
        /\ gcur[t] \in Groups /\ gat[t] \in DOMAIN Items[gcur[t]]
        /\ Item(t) = Items[gcur[t]][gat[t]]
        /\ DOMAIN Items[gcur[t]] = 1 .. Len(Items[gcur[t]]) /\ Len(Items[gcur[t]]) \in Nat
    BY <1>3, AtHand, InnerLocks DEF ItemFreed
  <2>2. \E i \in DOMAIN Items[gcur[t]] : l = Items[gcur[t]][i]
    <3>1. CASE gpc[t] = "undo"
      <4>1. PICK i \in 1 .. gat[t] - 1 : l = Items[gcur[t]][i]
        BY <1>3, <3>1 DEF ItemFreed, Gotten
      <4> QED
        BY <2>1, <4>1
    <3> QED
      BY <1>3, <2>1, <3>1 DEF ItemFreed
  <2>3. /\ outcome'[l] = "released"
        /\ \A m \in Locks \ {l} : outcome'[m] = outcome[m] /\ caller'[m] = caller[m]
    BY <1>3, FreedAdvance, GroupTypes
  <2> QED
    BY <2>1, <2>2, <2>3
<1>4. CASE InItem(t)
  BY <1>1, <1>4, ItemMoves DEF ItemRuns, lockVars
<1>5. CASE \/ NextBasePath(t) \/ GroupInitDone(t) \/ GroupInitThrows(t) \/ ItemHeld(t)
           \/ ItemRefused(t) \/ UndoDone(t) \/ GroupRelease(t)
  BY <1>5 DEF NextBasePath, GroupInitDone, GroupInitThrows, ItemHeld, ItemRefused, UndoDone,
              GroupRelease, vars, lockVars
<1>6. CASE UndoItem(t)
  <2>1. gpc[t] = "undo" /\ gcur[t] \in Groups /\ gat[t] \in DOMAIN Items[gcur[t]]
        /\ DOMAIN Items[gcur[t]] = 1 .. Len(Items[gcur[t]]) /\ Len(Items[gcur[t]]) \in Nat
    BY <1>6, AtHand, InnerLocks DEF UndoItem
  <2>2. \A l \in Gotten(t) : l \in Locks
    <3>1. \A i \in 1 .. gat[t] - 1 : i \in DOMAIN Items[gcur[t]]
      BY <2>1
    <3> QED
      BY <2>1, <3>1, InnerLocks DEF Gotten
  <2> QED
    BY <1>3, <1>6, <2>1, <2>2 DEF UndoItem, ItemFreed
<1>7. CASE ReleaseItem(t)
  <2>1. gpc[t] = "release" /\ Item(t) \in Locks
    BY <1>7, AtHand DEF ReleaseItem
  <2>2. CASE Release(t, Item(t))
    BY <1>3, <1>7, <2>1, <2>2 DEF ItemFreed
  <2> QED
    BY <1>7, <2>2 DEF ReleaseItem, vars, lockVars
<1> QED
  BY <1>2, <1>4, <1>5, <1>6, <1>7 DEF InGroup

LEMMA ItemTouched ==
  ASSUME GroupTypeOK, GroupInv, [GroupNext]_allVars
  PROVE  \/ UNCHANGED <<outcome, caller>>
         \/ \E t \in Threads : \E i \in DOMAIN Items[gcur[t]] :
               /\ gpc[t] # "idle"
               /\ \/ InGroupLock(t)
                  \/ outcome'[Items[gcur[t]][i]] = "released"
               /\ \A m \in Locks \ {Items[gcur[t]][i]} :
                     outcome'[m] = outcome[m] /\ caller'[m] = caller[m]
<1>1. ASSUME NEW t \in Threads, NEW g \in Groups, LockGroup(t, g) PROVE UNCHANGED <<outcome, caller>>
  BY <1>1 DEF LockGroup, lockVars
<1>2. ASSUME NEW c \in Clients, GroupSessionEnd(c) PROVE UNCHANGED <<outcome, caller>>
  BY <1>2 DEF GroupSessionEnd, SessionEnd
<1>3. ASSUME UNCHANGED allVars PROVE UNCHANGED <<outcome, caller>>
  BY <1>3 DEF allVars, vars, lockVars
<1> QED
  BY <1>1, <1>2, <1>3, StepTouches DEF GroupNext

\* The inner locks of a group that no thread is inside of rest.
LEMMA ItemsRest ==
  ASSUME GroupTypeOK, GroupInv, [GroupNext]_allVars, NEW g \in Groups,
         \A t \in Threads : gcur[t] # g
  PROVE  \A l \in ItemSet(g) : l \in Locks /\ outcome'[l] = outcome[l] /\ caller'[l] = caller[l]
<1>1. SUFFICES ASSUME NEW i \in DOMAIN Items[g]
               PROVE  /\ Items[g][i] \in Locks
                      /\ outcome'[Items[g][i]] = outcome[Items[g][i]]
                      /\ caller'[Items[g][i]] = caller[Items[g][i]]
  BY InnerLocks
<1>2. Items[g][i] \in Locks
  BY InnerLocks
<1>3. ASSUME NEW t \in Threads, gpc[t] # "idle", NEW j \in DOMAIN Items[gcur[t]]
      PROVE  Items[g][i] # Items[gcur[t]][j]
  BY <1>3, AtHand, InnerLocks
<1> QED
  BY <1>2, <1>3, ItemTouched

\* How the result of a group changes.
LEMMA ResultMoves ==
  ASSUME GroupTypeOK, GroupInv, [GroupNext]_allVars, NEW g \in Groups, gresult'[g] # gresult[g]
  PROVE  \/ gresult'[g] = "locking"
         \/ gresult'[g] = "released"
         \/ \E t \in Threads :
               /\ gcur[t] = g /\ UNCHANGED lockVars
               /\ \/ gresult'[g] = "held" /\ gReentry[g]
                  \/ gresult'[g] = "held" /\ ItemHeld(t) /\ ~MoreItems(t)
                  \/ gresult'[g] = "refused" /\ (GroupInitThrows(t) \/ UndoDone(t))
<1>1. ASSUME NEW t \in Threads, NEW h \in Groups, LockGroup(t, h) PROVE gresult'[g] = "locking"
  BY <1>1, GroupTypes DEF LockGroup
<1>2. ASSUME NEW t \in Threads, NEW result, Return(t, result)
      PROVE  gcur[t] = g /\ gresult'[g] = result
  BY <1>2, GroupTypes DEF Return
<1>3. ASSUME NEW t \in Threads, GroupInitDone(t)
      PROVE  gcur[t] = g /\ UNCHANGED lockVars /\ gresult'[g] = "held" /\ gReentry[g]
  BY <1>2, <1>3 DEF GroupInitDone
<1>4. ASSUME NEW t \in Threads, ItemHeld(t)
      PROVE  gcur[t] = g /\ UNCHANGED lockVars /\ gresult'[g] = "held" /\ ~MoreItems(t)
  BY <1>2, <1>4 DEF ItemHeld, vars
<1>5. ASSUME NEW t \in Threads, GroupInitThrows(t) \/ UndoDone(t)
      PROVE  gcur[t] = g /\ UNCHANGED lockVars /\ gresult'[g] = "refused"
  BY <1>2, <1>5 DEF GroupInitThrows, UndoDone, vars
<1>6. ASSUME NEW t \in Threads, ReleaseItem(t) PROVE gresult'[g] = "released"
  BY <1>2, <1>6 DEF ReleaseItem
<1>7. ASSUME NEW t \in Threads
      PROVE  ~InItem(t) /\ ~NextBasePath(t) /\ ~AcquireItem(t) /\ ~ItemRefused(t) /\ ~UndoItem(t)
             /\ ~GroupRelease(t)
  BY DEF InItem, NextBasePath, AcquireItem, ItemRefused, UndoItem, GroupRelease, groupVars
<1>8. ~(\E c \in Clients : GroupSessionEnd(c)) /\ ~UNCHANGED allVars
  BY DEF GroupSessionEnd, groupVars, allVars
<1> QED
  BY <1>1, <1>3, <1>4, <1>5, <1>6, <1>7, <1>8 DEF GroupNext, InGroup

\* A group in the block of a thread is in the hands of no other.
LEMMA BlockApart ==
  ASSUME GroupTypeOK, GroupInv, NEW t \in Threads, NEW i \in DOMAIN gframes[t], NEW u \in Threads,
         gcur[u] = gframes[t][i]
  PROVE  u = t /\ InGroupLock(t) /\ gresult[gcur[t]] = "locking"
<1>1. u = t
  BY DEF GroupInv, GroupsApart
<1>2. GroupsNest(t)
  BY DEF GroupInv
<1> QED
  BY <1>1, <1>2 DEF GroupsNest

LEMMA RefusedGroupNext ==
  ASSUME GroupTypeOK, GroupInv, [GroupNext]_allVars
  PROVE  \A g \in Groups : gresult'[g] = "refused" => NoneHeld(g)'
<1> DEFINE Gone == {"new", "refused", "released"}
<1>1. ASSUME NEW g \in Groups, gresult'[g] = "refused", NEW l \in ItemSet(g)
      PROVE  outcome'[l] \in Gone
  <2>1. PICK k \in DOMAIN Items[g] : l = Items[g][k] /\ l \in Locks
    BY InnerLocks
  <2>2. CASE gresult[g] = "refused"
    <3>1. outcome[l] \in Gone
      BY <1>1, <2>2 DEF GroupInv, NoneHeld
    <3>2. ASSUME NEW t \in Threads, NEW i \in DOMAIN Items[gcur[t]], gpc[t] # "idle",
                 l = Items[gcur[t]][i]
          PROVE  ~InGroupLock(t)
      <4>1. gcur[t] = g
        BY <2>1, <3>2, AtHand, InnerLocks
      <4> QED
        BY <2>2, <3>2, <4>1, AtHand
    <3> QED
      BY <2>1, <3>1, <3>2, ItemTouched
  <2>3. CASE gresult[g] # "refused"
    <3>1. PICK t \in Threads : gcur[t] = g /\ UNCHANGED lockVars /\ (GroupInitThrows(t) \/ UndoDone(t))
      BY <1>1, <2>3, ResultMoves
    <3>2. ItemsInOrder(t) /\ outcome' = outcome
      BY <3>1 DEF GroupInv, lockVars
    <3>3. CASE GroupInitThrows(t)
      BY <2>1, <3>1, <3>2, <3>3 DEF GroupInitThrows, ItemsInOrder, InGroupLock
    <3>4. CASE UndoDone(t)
      <4>1. /\ gpc[t] = "undo" /\ InGroupLock(t) /\ gat[t] \in DOMAIN Items[g]
            /\ DOMAIN Items[g] = 1 .. Len(Items[g]) /\ Len(Items[g]) \in Nat
        BY <3>1, <3>4, AtHand, InnerLocks DEF UndoDone, InGroupLock
      <4>2. k < gat[t] => outcome[l] # "held"
        BY <2>1, <3>1, <3>4, <4>1 DEF UndoDone, Gotten, Held
      <4>3. /\ k > gat[t] => outcome[l] = "new"
            /\ k = gat[t] => outcome[l] = "refused"
            /\ k < gat[t] => outcome[l] \in {"held", "released"}
        BY <2>1, <3>1, <3>2, <4>1 DEF ItemsInOrder
      <4> QED
        BY <3>2, <4>1, <4>2, <4>3
    <3> QED
      BY <3>1, <3>3, <3>4
  <2> QED
    BY <2>2, <2>3
<1> QED
  BY <1>1 DEF NoneHeld, ItemSet

\* A group goes from lock() to lock() or stays in the thread's blocks; while it
\* counts as locked nobody turns it into a reentrant one.
LEMMA BlockBefore ==
  ASSUME GroupTypeOK, GroupInv, [GroupNext]_allVars, NEW t \in Threads,
         NEW i \in DOMAIN gframes'[t], gresult'[gframes'[t][i]] = "held"
  PROVE  \E j \in DOMAIN gframes[t] :
            /\ gframes'[t][i] = gframes[t][j]
            /\ gReentry'[gframes[t][j]] = gReentry[gframes[t][j]]
<1> DEFINE Goal == \E j \in DOMAIN gframes[t] :
                      /\ gframes'[t][i] = gframes[t][j]
                      /\ gReentry'[gframes[t][j]] = gReentry[gframes[t][j]]
<1>1. ASSUME NEW u \in Threads, NEW g \in Groups, Enters(u, g) PROVE Goal
  <2>1. /\ gframes' = [gframes EXCEPT ![u] = gframes'[u]]
        /\ gReentry' = [gReentry EXCEPT ![g] = gReentry'[g]]
        /\ gresult'[g] = "locking" /\ gstep[g] = 1
    BY <1>1, GroupTypes DEF Enters
  <2>2. i \in DOMAIN gframes[t] /\ gframes'[t][i] = gframes[t][i]
    <3>1. CASE u # t
      BY <2>1, <3>1, GroupTypes
    <3>2. CASE u = t
      <4>1. /\ Len(gframes[t]) \in Nat /\ DOMAIN gframes[t] = 1 .. Len(gframes[t])
            /\ Len(gframes'[t]) = Len(gframes[t]) + 1
            /\ DOMAIN gframes'[t] = 1 .. Len(gframes'[t])
            /\ gframes'[t][Len(gframes'[t])] = g
            /\ \A j \in DOMAIN gframes[t] : gframes'[t][j] = gframes[t][j]
        BY <1>1, <3>2 DEF Enters
      <4>2. i # Len(gframes'[t])
        BY <2>1, <4>1
      <4> QED
        BY <4>1, <4>2
    <3> QED
      BY <3>1, <3>2
  <2>3. gframes[t][i] \in Groups /\ gstep[gframes[t][i]] = 2
    BY <2>2, GroupTypes DEF GroupInv, GroupsNest
  <2> QED
    BY <2>1, <2>2, <2>3, GroupTypes
<1>2. ASSUME NEW u \in Threads, GroupRelease(u) PROVE Goal
  <2>1. gReentry' = gReentry /\ gframes[u] # << >>
        /\ gframes' = [gframes EXCEPT ![u] = Front(gframes[u])]
    BY <1>2 DEF GroupRelease
  <2>2. CASE u # t
    BY <2>1, <2>2, GroupTypes
  <2>3. CASE u = t
    <3>1. /\ Len(gframes[t]) \in Nat /\ DOMAIN gframes[t] = 1 .. Len(gframes[t])
          /\ DOMAIN Front(gframes[t]) = 1 .. Len(gframes[t]) - 1
          /\ \A j \in 1 .. Len(gframes[t]) - 1 : Front(gframes[t])[j] = gframes[t][j]
      BY <2>1, <2>3, LastGroup, GroupTypes
    <3>2. gframes'[t] = Front(gframes[t])
      BY <2>1, <2>3, GroupTypes
    <3> QED
      BY <2>1, <3>1, <3>2
  <2> QED
    BY <2>2, <2>3
<1>3. ASSUME UNCHANGED <<gframes, gReentry>> PROVE Goal
  BY <1>3
<1>4. ASSUME NEW u \in Threads, Stays(u) \/ ComesBack(u) \/ Releases(u) PROVE Goal
  BY <1>3, <1>4 DEF Stays, ComesBack, Releases
<1>5. ASSUME UNCHANGED groupVars PROVE Goal
  BY <1>3, <1>5 DEF groupVars
<1> HIDE DEF Goal
<1>6. Goal
  BY <1>1, <1>2, <1>4, <1>5, GroupMoves
<1> QED
  BY <1>6 DEF Goal

LEMMA ItemsTellNext ==
  ASSUME GroupTypeOK, GroupInv, [GroupNext]_allVars
  PROVE  ItemsTell'
<1>1. ASSUME NEW g \in Groups, gresult'[g] = "new", NEW l \in ItemSet(g) PROVE outcome'[l] = "new"
  <2>1. gresult[g] = "new"
    BY <1>1, ResultMoves
  <2>2. \A t \in Threads : gcur[t] # g
    <3>1. gstep[g] = 1
      BY <2>1 DEF GroupInv, GroupsApart
    <3>2. ASSUME NEW t \in Threads, gcur[t] = g PROVE FALSE
      <4>1. gpc[t] # "idle"
        BY <3>2, GroupTypes DEF GroupInv, GroupsNest
      <4> QED
        BY <3>1, <3>2, <4>1, AtHand
    <3> QED
      BY <3>2
  <2>3. outcome[l] = "new"
    BY <1>1, <2>1 DEF GroupInv, ItemsTell
  <2> QED
    BY <1>1, <2>2, <2>3, ItemsRest
<1>2. ASSUME NEW t \in Threads, NEW i \in DOMAIN gframes'[t], gresult'[gframes'[t][i]] = "held",
             ~gReentry'[gframes'[t][i]], NEW l \in ItemSet(gframes'[t][i])
      PROVE  outcome'[l] = "held" /\ caller'[l] = t
  <2>1. PICK j \in DOMAIN gframes[t] :
           /\ gframes'[t][i] = gframes[t][j]
           /\ gReentry'[gframes[t][j]] = gReentry[gframes[t][j]]
    BY <1>2, BlockBefore
  <2>2. PICK g \in Groups : g = gframes[t][j]
    BY GroupTypes
  <2>3. ~gReentry[g] /\ gresult'[g] = "held" /\ l \in ItemSet(g)
    BY <1>2, <2>1, <2>2
  <2>4. CASE gresult[g] = "held"
    <3>1. outcome[l] = "held" /\ caller[l] = t
      BY <2>2, <2>3, <2>4 DEF GroupInv, ItemsTell, Held
    <3>2. \A u \in Threads : gcur[u] # g
      BY <2>2, <2>4, BlockApart
    <3> QED
      BY <2>3, <3>1, <3>2, ItemsRest
  <2>5. CASE gresult[g] # "held"
    <3>1. PICK u \in Threads : gcur[u] = g /\ UNCHANGED lockVars /\ ItemHeld(u) /\ ~MoreItems(u)
      BY <2>3, <2>5, ResultMoves
    <3>2. u = t
      BY <2>2, <3>1, BlockApart
    <3>3. /\ gpc[t] = "inner" /\ InGroupLock(t) /\ gat[t] \in DOMAIN Items[g]
          /\ Item(t) = Items[g][gat[t]] /\ outcome[Item(t)] = "held"
          /\ DOMAIN Items[g] = 1 .. Len(Items[g]) /\ Len(Items[g]) \in Nat
      BY <3>1, <3>2, AtHand, InnerLocks DEF ItemHeld, Held, InGroupLock
    <3>4. gat[t] = Len(Items[g])
      BY <3>1, <3>2, <3>3 DEF MoreItems
    <3>5. PICK k \in DOMAIN Items[g] : l = Items[g][k]
      BY <2>3, InnerLocks
    <3>6. k <= gat[t]
      BY <3>3, <3>4
    <3>7. ItemsInOrder(t)
      BY DEF GroupInv
    <3>8. caller[l] = t /\ outcome[l] = "held"
      <4>1. CASE k = gat[t]
        BY <3>1, <3>2, <3>3, <3>5, <3>7, <4>1 DEF ItemsInOrder
      <4>2. CASE k < gat[t]
        BY <3>1, <3>2, <3>3, <3>5, <3>7, <4>2 DEF ItemsInOrder
      <4> QED
        BY <3>3, <3>6, <4>1, <4>2
    <3> QED
      BY <3>1, <3>8 DEF lockVars
  <2> QED
    BY <2>4, <2>5
<1> QED
  BY <1>1, <1>2 DEF ItemsTell, ItemSet, Held

LEMMA ItemsInOrderNext ==
  ASSUME GroupTypeOK, GroupInv, [GroupNext]_allVars, NEW u \in Threads
  PROVE  ItemsInOrder(u)'
<1>0. ItemsInOrder(u)
  BY DEF GroupInv
\* Nothing happened to the group u is in.
<1>1. ASSUME gpc'[u] = gpc[u], gat'[u] = gat[u], gcur'[u] = gcur[u],
             InGroupLock(u) => \A i \in DOMAIN Items[gcur[u]] :
                /\ outcome'[Items[gcur[u]][i]] = outcome[Items[gcur[u]][i]]
                /\ caller'[Items[gcur[u]][i]] = caller[Items[gcur[u]][i]]
      PROVE  ItemsInOrder(u)'
  BY <1>0, <1>1 DEF ItemsInOrder, InGroupLock
<1>2. ASSUME gpc'[u] \in {"idle", "release"} PROVE ItemsInOrder(u)'
  BY <1>2 DEF ItemsInOrder, InGroupLock
<1>3. ASSUME NEW t \in Threads, t # u, \/ InGroup(t) \/ GroupRelease(t)
                                      \/ \E g \in Groups : LockGroup(t, g)
      PROVE  ItemsInOrder(u)'
  <2>1. gpc'[u] = gpc[u] /\ gat'[u] = gat[u] /\ gcur'[u] = gcur[u]
    <3>1. CASE InGroup(t) \/ GroupRelease(t)
      <4>1. UNCHANGED groupVars \/ Stays(t) \/ ComesBack(t) \/ Releases(t) \/ GroupRelease(t)
        BY <3>1, InGroupMoves
      <4>2. CASE UNCHANGED groupVars
        BY <4>2 DEF groupVars
      <4>3. CASE Stays(t)
        BY <1>3, <4>3, GroupTypes DEF Stays
      <4>4. CASE ComesBack(t) \/ Releases(t) \/ GroupRelease(t)
        BY <1>3, <4>4, GroupTypes DEF ComesBack, Releases, GroupRelease, Return, GoTo
      <4> QED
        BY <4>1, <4>2, <4>3, <4>4
    <3>2. CASE \E g \in Groups : LockGroup(t, g)
      BY <1>3, <3>2, GroupTypes DEF LockGroup, GoTo
    <3> QED
      BY <1>3, <3>1, <3>2
  <2>2. ASSUME InGroupLock(u), NEW i \in DOMAIN Items[gcur[u]]
        PROVE  /\ outcome'[Items[gcur[u]][i]] = outcome[Items[gcur[u]][i]]
               /\ caller'[Items[gcur[u]][i]] = caller[Items[gcur[u]][i]]
    <3>1. gcur[u] \in Groups /\ Items[gcur[u]][i] \in Locks
      BY <2>2, AtHand, InnerLocks DEF InGroupLock
    <3>2. ASSUME NEW v \in Threads, gpc[v] # "idle", NEW j \in DOMAIN Items[gcur[v]],
                 Items[gcur[v]][j] = Items[gcur[u]][i]
          PROVE  v = u
      BY <3>1, <3>2, AtHand, InnerLocks, GroupTypes DEF GroupInv, GroupsApart
    <3>3. CASE InGroup(t) \/ GroupRelease(t)
      <4>1. \/ UNCHANGED <<outcome, caller>>
            \/ \E j \in DOMAIN Items[gcur[t]] :
                  /\ gpc[t] # "idle"
                  /\ \A m \in Locks \ {Items[gcur[t]][j]} :
                        outcome'[m] = outcome[m] /\ caller'[m] = caller[m]
        BY <3>3, StepTouches
      <4> QED
        BY <1>3, <3>1, <3>2, <4>1
    <3>4. CASE \E g \in Groups : LockGroup(t, g)
      BY <3>4 DEF LockGroup, lockVars
    <3> QED
      BY <1>3, <3>3, <3>4
  <2> QED
    BY <1>1, <2>1, <2>2
<1>4. ASSUME NEW c \in Clients, GroupSessionEnd(c) PROVE ItemsInOrder(u)'
  BY <1>1, <1>4 DEF GroupSessionEnd, SessionEnd, groupVars
<1>5. ASSUME UNCHANGED allVars PROVE ItemsInOrder(u)'
  BY <1>1, <1>5 DEF allVars, vars, lockVars, groupVars
\* lock() is entered: the inner locks are new.
<1>6. ASSUME NEW g \in Groups, LockGroup(u, g) PROVE ItemsInOrder(u)'
  <2>1. /\ gpc'[u] = "init" /\ gcur'[u] = g /\ outcome' = outcome /\ gstep[g] = 1
    BY <1>6, GroupTypes DEF LockGroup, GoTo, UseUp, lockVars
  <2>2. \A l \in ItemSet(g) : outcome[l] = "new"
    BY <2>1 DEF GroupInv, GroupsApart, ItemsTell
  <2>3. \A i \in DOMAIN Items[g] : outcome'[Items[g][i]] = "new"
    BY <2>1, <2>2, InnerLocks
  <2> QED
    BY <2>1, <2>3 DEF ItemsInOrder
<1>7. ASSUME gpc[u] # "idle"
      PROVE  /\ gcur[u] \in Groups
             /\ gpc[u] \in {"acquire", "inner", "undo", "release"} =>
                   /\ gat[u] \in DOMAIN Items[gcur[u]] /\ gat[u] \in Nat
                   /\ Item(u) = Items[gcur[u]][gat[u]] /\ Item(u) \in Locks
             /\ DOMAIN Items[gcur[u]] = 1 .. Len(Items[gcur[u]]) /\ Len(Items[gcur[u]]) \in Nat
             /\ \A i \in DOMAIN Items[gcur[u]] : Items[gcur[u]][i] \in Locks
             /\ \A i, j \in DOMAIN Items[gcur[u]] :
                   Items[gcur[u]][i] = Items[gcur[u]][j] => i = j
  BY <1>7, AtHand, InnerLocks, GroupTypes
<1>8. ASSUME NextBasePath(u) \/ GroupInitDone(u) PROVE ItemsInOrder(u)'
  <2>1. /\ gpc[u] = "init" /\ InGroupLock(u) /\ outcome' = outcome
        /\ \/ gpc'[u] = "idle"
           \/ gpc'[u] = "init" /\ gcur'[u] = gcur[u]
           \/ gpc'[u] = "acquire" /\ gcur'[u] = gcur[u] /\ gat'[u] = 1
    BY <1>8, GroupTypes
       DEF NextBasePath, GroupInitDone, Return, GoTo, lockVars, InGroupLock
  <2>2. \A i \in DOMAIN Items[gcur[u]] : outcome[Items[gcur[u]][i]] = "new" /\ i >= 1
    BY <1>0, <1>7, <2>1 DEF ItemsInOrder
  <2> QED
    BY <1>2, <1>7, <2>1, <2>2 DEF ItemsInOrder
<1>9. ASSUME GroupInitThrows(u) \/ UndoDone(u) \/ ReleaseItem(u) \/ GroupRelease(u)
      PROVE  ItemsInOrder(u)'
  BY <1>2, <1>9, GroupTypes
     DEF GroupInitThrows, UndoDone, ReleaseItem, GroupRelease, Return, GoTo
<1>10. ASSUME AcquireItem(u) PROVE ItemsInOrder(u)'
  <2>1. /\ gpc[u] = "acquire" /\ InGroupLock(u) /\ gpc[u] # "idle"
        /\ gpc'[u] = "inner" /\ gat' = gat /\ gcur' = gcur
        /\ outcome' = [outcome EXCEPT ![Item(u)] = "locking"]
        /\ caller' = [caller EXCEPT ![Item(u)] = u]
    BY <1>10, AcquireAdvance, GroupTypes DEF InGroupLock
  <2> SUFFICES ASSUME NEW i \in DOMAIN Items[gcur[u]]
               PROVE  /\ i > gat[u] => outcome'[Items[gcur[u]][i]] = "new"
                      /\ i <= gat[u] => caller'[Items[gcur[u]][i]] = u
                      /\ i < gat[u] => outcome'[Items[gcur[u]][i]] = "held"
                      /\ i = gat[u] => outcome'[Items[gcur[u]][i]] = "locking"
    BY <1>7, <2>1 DEF ItemsInOrder
  <2>2. /\ i >= gat[u] => outcome[Items[gcur[u]][i]] = "new"
        /\ i < gat[u] => outcome[Items[gcur[u]][i]] = "held" /\ caller[Items[gcur[u]][i]] = u
    BY <1>0, <1>7, <2>1 DEF ItemsInOrder
  <2>3. CASE i = gat[u]
    BY <1>7, <2>1, <2>3, GroupTypes
  <2>4. CASE i # gat[u]
    <3>1. Items[gcur[u]][i] # Item(u)
      BY <1>7, <2>1, <2>4
    <3>2. /\ outcome'[Items[gcur[u]][i]] = outcome[Items[gcur[u]][i]]
          /\ caller'[Items[gcur[u]][i]] = caller[Items[gcur[u]][i]]
      BY <1>7, <2>1, <3>1, GroupTypes
    <3> QED
      BY <1>7, <2>1, <2>2, <2>4, <3>2
  <2> QED
    BY <2>3, <2>4
<1>11. ASSUME InItem(u) PROVE ItemsInOrder(u)'
  <2>1. CASE ItemRuns(u) \/ UNCHANGED <<expired, lockVars, groupVars>>
    BY <1>1, <2>1 DEF ItemRuns, lockVars, groupVars
  <2>2. CASE ItemEnds(u)
    <3>1. /\ gpc[u] = "inner" /\ InGroupLock(u) /\ gpc[u] # "idle" /\ cur[u] = Item(u)
          /\ caller[Item(u)] = u /\ UNCHANGED <<gpc, gat, gcur, caller>>
          /\ outcome' = [outcome EXCEPT ![cur[u]] = outcome'[cur[u]]]
          /\ outcome'[cur[u]] \in {"held", "refused"}
      BY <2>2, AtItem DEF ItemEnds, groupVars
    <3> SUFFICES ASSUME NEW i \in DOMAIN Items[gcur[u]]
                 PROVE  /\ i > gat[u] => outcome'[Items[gcur[u]][i]] = "new"
                        /\ i <= gat[u] => caller'[Items[gcur[u]][i]] = u
                        /\ i < gat[u] => outcome'[Items[gcur[u]][i]] = "held"
                        /\ i = gat[u] => outcome'[Items[gcur[u]][i]] \in {"held", "refused"}
      BY <1>7, <3>1 DEF ItemsInOrder
    <3>2. /\ i > gat[u] => outcome[Items[gcur[u]][i]] = "new"
          /\ i <= gat[u] => caller[Items[gcur[u]][i]] = u
          /\ i < gat[u] => outcome[Items[gcur[u]][i]] = "held"
      BY <1>0, <1>7, <3>1 DEF ItemsInOrder
    <3>3. i # gat[u] => outcome'[Items[gcur[u]][i]] = outcome[Items[gcur[u]][i]]
      <4>1. i # gat[u] => Items[gcur[u]][i] # Item(u)
        BY <1>7, <3>1
      <4> QED
        BY <1>7, <3>1, <4>1, GroupTypes
    <3> QED
      BY <1>7, <3>1, <3>2, <3>3
  <2> QED
    BY <1>11, <2>1, <2>2, ItemMoves
<1>12. ASSUME ItemHeld(u) PROVE ItemsInOrder(u)'
  <2>1. /\ gpc[u] = "inner" /\ InGroupLock(u) /\ gpc[u] # "idle" /\ outcome[Item(u)] = "held"
        /\ UNCHANGED <<outcome, caller>>
        /\ \/ gpc'[u] = "idle"
           \/ gpc'[u] = "acquire" /\ gcur'[u] = gcur[u] /\ gat'[u] = gat[u] + 1
    BY <1>12, GroupTypes DEF ItemHeld, Held, Return, GoTo, vars, lockVars, InGroupLock
  <2>2. ASSUME NEW i \in DOMAIN Items[gcur[u]]
        PROVE  /\ i >= gat[u] + 1 => outcome[Items[gcur[u]][i]] = "new"
               /\ i < gat[u] + 1 => /\ caller[Items[gcur[u]][i]] = u
                                    /\ outcome[Items[gcur[u]][i]] = "held"
    BY <1>0, <1>7, <2>1 DEF ItemsInOrder
  <2>3. CASE gpc'[u] = "acquire" /\ gcur'[u] = gcur[u] /\ gat'[u] = gat[u] + 1
    <3>1. gat[u] \in Nat /\ DOMAIN Items[gcur[u]] \subseteq Nat
      BY <1>7, <2>1
    <3> QED
      BY <2>1, <2>2, <2>3, <3>1 DEF ItemsInOrder
  <2> QED
    BY <1>2, <2>1, <2>3
<1>13. ASSUME ItemRefused(u) PROVE ItemsInOrder(u)'
  <2>1. /\ gpc[u] = "inner" /\ InGroupLock(u) /\ gpc[u] # "idle" /\ outcome[Item(u)] = "refused"
        /\ UNCHANGED <<outcome, caller>>
        /\ gpc'[u] = "undo" /\ gcur'[u] = gcur[u] /\ gat'[u] = gat[u]
    BY <1>13, GroupTypes DEF ItemRefused, GoTo, vars, lockVars, InGroupLock
  <2>2. ASSUME NEW i \in DOMAIN Items[gcur[u]]
        PROVE  /\ i > gat[u] => outcome[Items[gcur[u]][i]] = "new"
               /\ i <= gat[u] => caller[Items[gcur[u]][i]] = u
               /\ i < gat[u] => outcome[Items[gcur[u]][i]] = "held"
               /\ i = gat[u] => outcome[Items[gcur[u]][i]] = "refused"
    BY <1>0, <1>7, <2>1 DEF ItemsInOrder
  <2> QED
    BY <1>7, <2>1, <2>2 DEF ItemsInOrder
<1>14. ASSUME UndoItem(u) PROVE ItemsInOrder(u)'
  <2>1. PICK l \in Gotten(u) : Release(u, l)
    BY <1>14 DEF UndoItem
  <2>2. /\ gpc[u] = "undo" /\ InGroupLock(u) /\ gpc[u] # "idle"
        /\ outcome' = [outcome EXCEPT ![l] = "released"] /\ caller' = caller
        /\ UNCHANGED <<gpc, gat, gcur>>
    BY <1>14, <2>1 DEF UndoItem, Release, InGroupLock, groupVars
  <2>3. PICK k \in 1 .. gat[u] - 1 : l = Items[gcur[u]][k]
    BY DEF Gotten
  <2>4. k \in DOMAIN Items[gcur[u]] /\ k < gat[u] /\ l \in Locks
    BY <1>7, <2>2, <2>3
  <2> SUFFICES ASSUME NEW i \in DOMAIN Items[gcur[u]]
               PROVE  /\ i > gat[u] => outcome'[Items[gcur[u]][i]] = "new"
                      /\ i <= gat[u] => caller'[Items[gcur[u]][i]] = u
                      /\ i < gat[u] => outcome'[Items[gcur[u]][i]] \in {"held", "released"}
                      /\ i = gat[u] => outcome'[Items[gcur[u]][i]] = "refused"
    BY <1>7, <2>2 DEF ItemsInOrder
  <2>5. /\ i > gat[u] => outcome[Items[gcur[u]][i]] = "new"
        /\ i <= gat[u] => caller[Items[gcur[u]][i]] = u
        /\ i < gat[u] => outcome[Items[gcur[u]][i]] \in {"held", "released"}
        /\ i = gat[u] => outcome[Items[gcur[u]][i]] = "refused"
    BY <1>0, <1>7, <2>2 DEF ItemsInOrder
  <2>6. CASE i = k
    BY <2>2, <2>3, <2>4, <2>5, <2>6, GroupTypes
  <2>7. CASE i # k
    <3>1. Items[gcur[u]][i] # l /\ Items[gcur[u]][i] \in Locks
      BY <1>7, <2>2, <2>3, <2>4, <2>7
    <3> QED
      BY <2>2, <2>5, <3>1, GroupTypes
  <2> QED
    BY <2>6, <2>7
<1>15. ASSUME InGroup(u) PROVE ItemsInOrder(u)'
  BY <1>8, <1>9, <1>10, <1>11, <1>12, <1>13, <1>14, <1>15 DEF InGroup
<1> QED
  BY <1>3, <1>4, <1>5, <1>6, <1>9, <1>15 DEF GroupNext
-----------------------------------------------------------------------------
LEMMA GroupInvInit == GroupInit => GroupTypeOK /\ GroupInv
<1> SUFFICES ASSUME GroupInit PROVE GroupTypeOK /\ GroupInv
  OBVIOUS
<1>0. Init /\ MutexTypeOK
  BY TypeInit DEF GroupInit
<1>1. GroupTypeOK
  BY <1>0 DEF GroupInit, GroupTypeOK
<1>2. ASSUME NEW t \in Threads PROVE GroupsNest(t) /\ ItemsInOrder(t)
  <2>1. gframes[t] = << >> /\ gpc[t] = "idle" /\ gcur[t] = NoGroup
    BY DEF GroupInit
  <2>2. DOMAIN gframes[t] = {}
    BY <2>1
  <2> QED
    BY <2>1, <2>2 DEF GroupsNest, ItemsInOrder, InGroupLock
<1>3. GroupsApart
  <2>1. \A t \in Threads : gframes[t] = << >> /\ gcur[t] = NoGroup
    BY DEF GroupInit
  <2> QED
    BY <2>1 DEF GroupInit, GroupsApart
<1>4. ItemCalls
  BY <1>0 DEF Init, ItemCalls
<1>5. ItemsTell
  <2>1. \A t \in Threads : gframes[t] = << >>
    BY DEF GroupInit
  <2>2. \A g \in Groups : \A l \in ItemSet(g) : outcome[l] = "new"
    BY <1>0, InnerLocks DEF Init
  <2> QED
    BY <2>1, <2>2 DEF ItemsTell
<1>6. /\ \A g \in Groups : gresult[g] = "refused" => NoneHeld(g)
      /\ NodesMatchObjects /\ EntriesOwned /\ HeldOwned
  BY <1>0 DEF GroupInit, Init, NodesMatchObjects, EntriesOwned, HeldOwned, Held
<1> QED
  BY <1>1, <1>2, <1>3, <1>4, <1>5, <1>6 DEF GroupInv

LEMMA GroupInvNext ==
  ASSUME GroupTypeOK, GroupInv, [GroupNext]_allVars
  PROVE  GroupTypeOK' /\ GroupInv'
  BY GroupTypeNext, GroupsNestNext, ItemsInOrderNext, GroupsApartNext, ItemCallsNext,
     ItemsTellNext, RefusedGroupNext, GroupNodesNext, EntriesOwnedNext, HeldOwnedNext
     DEF GroupInv

(***************************************************************************)
(* The blocks of a thread, the inner locks of its groups, the entries of   *)
(* its session and the znodes agree at every step of lock(), of its        *)
(* undoing and of release().                                               *)
(***************************************************************************)
THEOREM GroupInvariant == GroupSpec => [](GroupTypeOK /\ GroupInv)
  BY GroupInvInit, GroupInvNext, PTL DEF GroupSpec

-----------------------------------------------------------------------------
(***************************************************************************)
(* The entries of a thread's session and the blocks it is in.              *)
(***************************************************************************)
LEMMA EntryInit == GroupInit => EntryInv
  BY DEF GroupInit, Init, EntryInv, UntriedItems, FreedSoFar, EntriesBacked

LEMMA UntriedNext ==
  ASSUME GroupTypeOK, GroupInv, UntriedItems, [GroupNext]_allVars
  PROVE  UntriedItems'
<1>0. tryCount \in [Locks -> Nat]
  BY DEF GroupTypeOK, MutexTypeOK
<1>1. ASSUME NEW t \in Threads, ItemRuns(t) \/ ItemEnds(t) PROVE UntriedItems'
  <2>1. /\ pc[t] # "idle" /\ cur[t] \in Locks /\ outcome[cur[t]] = "locking"
        /\ \A u \in Threads \ {t} : cur[u] # cur[t]
    BY <1>1, AtItem DEF ItemRuns, ItemEnds
  <2>2. /\ \A u \in Threads \ {t} : pc'[u] = pc[u] /\ cur'[u] = cur[u]
        /\ pc'[t] # "init"
        /\ \A m \in Locks : outcome'[m] = "new" => m # cur[t] /\ outcome[m] = "new"
    <3>1. CASE ItemRuns(t)
      BY <2>1, <3>1, GroupTypes DEF ItemRuns
    <3>2. CASE ItemEnds(t)
      <4>1. outcome'[cur[t]] \in {"held", "refused"}
        BY <3>2 DEF ItemEnds
      <4> QED
        BY <2>1, <3>2, <4>1, GroupTypes DEF ItemEnds
    <3> QED
      BY <1>1, <3>1, <3>2
  <2>3. \A m \in Locks \ {cur[t]} : tryCount'[m] = tryCount[m]
    BY <1>0, <1>1 DEF ItemRuns, ItemEnds, MayCount
  <2>4. ASSUME NEW u \in Threads, pc'[u] = "init" PROVE tryCount'[cur'[u]] = 0
    <3>1. u # t /\ pc[u] = "init" /\ cur'[u] = cur[u] /\ cur[u] # cur[t]
      BY <2>1, <2>2, <2>4
    <3>2. cur[u] \in Locks
      BY <3>1, AtItem
    <3> QED
      BY <2>3, <3>1, <3>2 DEF UntriedItems
  <2> QED
    BY <2>2, <2>3, <2>4 DEF UntriedItems
<1>2. ASSUME NEW t \in Threads, AcquireItem(t) PROVE UntriedItems'
  <2>1. /\ Item(t) \in Locks /\ outcome[Item(t)] = "new" /\ tryCount' = tryCount
        /\ pc'[t] = "init" /\ cur'[t] = Item(t)
        /\ \A u \in Threads \ {t} : pc'[u] = pc[u] /\ cur'[u] = cur[u]
        /\ \A m \in Locks : outcome'[m] = "new" => outcome[m] = "new"
    BY <1>2, AcquireAdvance, GroupTypes DEF GroupInv, ItemCalls
  <2> QED
    BY <2>1 DEF UntriedItems
<1>3. ASSUME NEW t \in Threads, NEW l \in Locks, ItemFreed(t, l) PROVE UntriedItems'
  <2>1. /\ UNCHANGED <<tryCount, pc, cur>>
        /\ \A m \in Locks : outcome'[m] = "new" => outcome[m] = "new"
    BY <1>3, FreedAdvance, GroupTypes
  <2> QED
    BY <2>1 DEF UntriedItems
<1>4. ASSUME UNCHANGED <<outcome, tryCount, pc, cur>> PROVE UntriedItems'
  BY <1>4 DEF UntriedItems
<1> QED
  BY <1>1, <1>2, <1>3, <1>4, LockMoves
     DEF GroupOnly, lockVars, GroupSessionEnd, SessionEnd

LEMMA FreedNext ==
  ASSUME GroupTypeOK, GroupInv, [GroupNext]_allVars, NEW u \in Threads, FreedSoFar(u)
  PROVE  FreedSoFar(u)'
<1> SUFFICES ASSUME gpc'[u] = "release", NEW i \in 1 .. gat'[u] - 1
             PROVE  outcome'[Items[gcur'[u]][i]] \in {"new", "released"}
  BY DEF FreedSoFar
<1>1. \/ gat'[u] = 1
      \/ /\ gpc[u] = "release" /\ gcur'[u] = gcur[u]
         /\ gat'[u] = gat[u] \/ (ReleaseItem(u) /\ gat'[u] = gat[u] + 1)
  <2>1. ASSUME NEW t \in Threads, t # u,
               Stays(t) \/ ComesBack(t) \/ Releases(t) \/ GroupRelease(t)
        PROVE  gpc'[u] = gpc[u] /\ gcur'[u] = gcur[u] /\ gat'[u] = gat[u]
    BY <2>1, GroupTypes DEF Stays, ComesBack, Releases, GroupRelease, Return, GoTo
  <2>2. ASSUME NEW t \in Threads, NEW g \in Groups, LockGroup(t, g)
        PROVE  t # u /\ gpc'[u] = gpc[u] /\ gcur'[u] = gcur[u] /\ gat'[u] = gat[u]
    BY <2>2, GroupTypes DEF LockGroup, GoTo
  <2>3. ASSUME UNCHANGED groupVars
        PROVE  gpc'[u] = gpc[u] /\ gcur'[u] = gcur[u] /\ gat'[u] = gat[u]
    BY <2>3 DEF groupVars
  <2>4. ASSUME GroupRelease(u) PROVE gat'[u] = 1
    BY <2>4, GroupTypes DEF GroupRelease, GoTo
  <2>5. ASSUME InGroup(u), ~UNCHANGED groupVars
        PROVE  ReleaseItem(u) /\ gpc[u] = "release" /\ gcur'[u] = gcur[u] /\ gat'[u] = gat[u] + 1
    <3>1. ReleaseItem(u)
      BY <2>5, GroupTypes
         DEF InGroup, InItem, UndoItem, NextBasePath, GroupInitDone, GroupInitThrows, AcquireItem,
             ItemHeld, ItemRefused, UndoDone, Return, GoTo
    <3> QED
      BY <3>1, GroupTypes DEF ReleaseItem, Return, GoTo
  <2> QED
    BY <2>1, <2>2, <2>3, <2>4, <2>5, InGroupMoves
       DEF GroupNext, InGroup, GroupSessionEnd, allVars
<1>2. CASE gat'[u] = 1
  BY <1>2
<1>3. ASSUME gpc[u] = "release", gcur'[u] = gcur[u],
             gat'[u] = gat[u] \/ (ReleaseItem(u) /\ gat'[u] = gat[u] + 1)
      PROVE  outcome'[Items[gcur'[u]][i]] \in {"new", "released"}
  <2> DEFINE l == Items[gcur[u]][i]
  <2>1. /\ gcur[u] \in Groups /\ gat[u] \in DOMAIN Items[gcur[u]] /\ gpc[u] # "idle"
        /\ DOMAIN Items[gcur[u]] = 1 .. Len(Items[gcur[u]]) /\ Len(Items[gcur[u]]) \in Nat
        /\ Item(u) = Items[gcur[u]][gat[u]] /\ Item(u) \in Locks
    BY <1>3, AtHand, InnerLocks
  <2>2. i \in DOMAIN Items[gcur[u]] /\ l \in Locks
    <3>1. i \in DOMAIN Items[gcur[u]]
      BY <1>3, <2>1
    <3> QED
      BY <2>1, <3>1, InnerLocks
  <2>3. CASE i < gat[u]
    <3>1. outcome[l] \in {"new", "released"}
      BY <1>3, <2>1, <2>2, <2>3 DEF FreedSoFar
    <3>2. ASSUME NEW t \in Threads, NEW j \in DOMAIN Items[gcur[t]], gpc[t] # "idle",
                 l = Items[gcur[t]][j]
          PROVE  ~InGroupLock(t)
      <4>1. gcur[t] = gcur[u]
        BY <2>1, <2>2, <3>2, AtHand, InnerLocks
      <4>2. t = u
        BY <2>1, <4>1, GroupTypes DEF GroupInv, GroupsApart
      <4> QED
        BY <1>3, <4>2 DEF InGroupLock
    <3> QED
      BY <1>3, <2>2, <3>1, <3>2, ItemTouched
  <2>4. CASE i >= gat[u]
    <3>1. ReleaseItem(u) /\ i = gat[u]
      BY <1>3, <2>1, <2>4
    <3>2. CASE Release(u, Item(u))
      BY <1>3, <2>1, <3>1, <3>2, GroupTypes DEF Release
    <3>3. CASE step[Item(u)] # 2 /\ UNCHANGED vars
      <4>1. step[l] \in {1, 3} /\ outcome' = outcome
        BY <2>1, <2>2, <3>1, <3>3, GroupTypes DEF vars, lockVars
      <4> QED
        BY <1>3, <2>2, <4>1 DEF GroupInv, ItemCalls
    <3> QED
      BY <3>1, <3>2, <3>3 DEF ReleaseItem
  <2> QED
    BY <2>1, <2>3, <2>4
<1> QED
  BY <1>1, <1>2, <1>3

\* A thread leaves the blocks it is in only by releasing their inner locks.
LEMMA BlocksKept ==
  ASSUME GroupTypeOK, GroupInv, [GroupNext]_allVars, NEW u \in Threads, NEW g \in Blocks(u)
  PROVE  g \in Groups /\ (g \in Blocks(u)' \/ (g = gcur[u] /\ ReleaseItem(u) /\ ~MoreItems(u)))
<1>0. gframes[u] \in Seq(Groups) /\ g \in Groups /\ (g \in ToSet(gframes[u]) \/ g = gcur[u])
  BY GroupTypes DEF Blocks, ToSet
<1>1. ASSUME gframes'[u] = gframes[u], gcur'[u] = gcur[u] PROVE g \in Blocks(u)'
  BY <1>1 DEF Blocks
<1>2. ASSUME NEW t \in Threads, t # u,
             Stays(t) \/ ComesBack(t) \/ Releases(t) \/ GroupRelease(t)
      PROVE  gframes'[u] = gframes[u] /\ gcur'[u] = gcur[u]
  BY <1>2, GroupTypes DEF Stays, ComesBack, Releases, GroupRelease, Return, GoTo
<1>3. CASE UNCHANGED groupVars
  BY <1>0, <1>1, <1>3 DEF groupVars
<1>5. ASSUME GroupRelease(u) PROVE g \in Blocks(u)'
  <2>1. gcur[u] = NoGroup /\ gframes[u] # << >> /\ g \in ToSet(gframes[u])
        /\ gcur'[u] = Last(gframes[u]) /\ gframes'[u] = Front(gframes[u])
    BY <1>0, <1>5, GroupTypes DEF GroupInv, GroupsNest, GroupRelease
  <2>2. PICK i \in DOMAIN gframes[u] : g = gframes[u][i]
    BY <2>1 DEF ToSet
  <2>3. CASE i = Len(gframes[u])
    BY <1>0, <2>1, <2>2, <2>3, LastGroup, GroupTypes DEF Blocks
  <2>4. CASE i # Len(gframes[u])
    <3>1. /\ Len(gframes[u]) \in Nat /\ DOMAIN gframes[u] = 1 .. Len(gframes[u])
          /\ DOMAIN gframes'[u] = 1 .. Len(gframes[u]) - 1
          /\ \A j \in 1 .. Len(gframes[u]) - 1 : gframes'[u][j] = gframes[u][j]
      BY <1>0, <2>1, LastGroup
    <3>2. i \in DOMAIN gframes'[u] /\ gframes'[u][i] = g
      BY <2>2, <2>4, <3>1
    <3> QED
      BY <3>2 DEF Blocks, ToSet
  <2> QED
    BY <2>3, <2>4
<1>6. ASSUME Stays(u) PROVE g \in Blocks(u)'
  BY <1>1, <1>6 DEF Stays
<1>7. ASSUME ComesBack(u) PROVE g \in Blocks(u)'
  <2>1. gframes'[u] = gframes[u] /\ gframes[u] # << >> /\ Last(gframes[u]) = gcur[u]
    BY <1>7 DEF ComesBack, GroupInv, GroupsNest
  <2>2. g \in ToSet(gframes[u])
    BY <1>0, <2>1, LastGroup DEF ToSet
  <2> QED
    BY <2>1, <2>2 DEF Blocks
<1>8. ASSUME Releases(u), InGroup(u) PROVE g \in Blocks(u)' \/ (g = gcur[u] /\ ReleaseItem(u) /\ ~MoreItems(u))
  <2>1. gpc[u] = "release"
    BY <1>8 DEF Releases
  <2>2. ReleaseItem(u)
    <3>1. ~InItem(u)
      BY <1>8, <2>1, GroupTypes DEF Releases, InItem, groupVars, Return, GoTo
    <3> QED
      BY <1>8, <2>1, <3>1
         DEF InGroup, NextBasePath, GroupInitDone, GroupInitThrows, AcquireItem, ItemHeld,
             ItemRefused, UndoItem, UndoDone
  <2>3. CASE MoreItems(u)
    BY <1>1, <2>2, <2>3 DEF ReleaseItem
  <2>4. CASE ~MoreItems(u)
    <3>1. gframes'[u] = gframes[u]
      BY <2>2 DEF ReleaseItem
    <3> QED
      BY <1>0, <2>2, <2>4, <3>1 DEF Blocks
  <2> QED
    BY <2>3, <2>4
<1>9. ASSUME NEW h \in Groups, LockGroup(u, h) PROVE g \in Blocks(u)'
  <2>1. /\ gcur[u] = NoGroup /\ g \in ToSet(gframes[u])
        /\ gframes'[u] = Append(gframes[u], h)
    BY <1>0, <1>9, GroupTypes DEF GroupInv, GroupsNest, LockGroup, GroupBody
  <2>2. PICK i \in DOMAIN gframes[u] : g = gframes[u][i]
    BY <2>1 DEF ToSet
  <2>3. i \in DOMAIN gframes'[u] /\ gframes'[u][i] = g
    BY <1>0, <2>1, <2>2
  <2> QED
    BY <2>3 DEF Blocks, ToSet
<1>10. ASSUME NEW t \in Threads, t # u, NEW h \in Groups, LockGroup(t, h)
       PROVE  gframes'[u] = gframes[u] /\ gcur'[u] = gcur[u]
  BY <1>10, GroupTypes DEF LockGroup
<1> QED
  BY <1>0, <1>1, <1>2, <1>3, <1>5, <1>6, <1>7, <1>8, <1>9, <1>10, InGroupMoves
     DEF GroupNext, GroupSessionEnd, allVars

\* What is held in a block of u and stays held goes on standing for its entry.
LEMMA HeldMoves ==
  ASSUME GroupTypeOK, GroupInv, [GroupNext]_allVars, NEW u \in Threads, FreedSoFar(u),
         NEW g \in Blocks(u), NEW m \in ItemSet(g), Held(m), ~isReentry[m],
         ResOf[m] \in session'[u]
  PROVE  HeldInBlock(ResOf[m], Blocks(u))'
<1>1. g \in Groups /\ m \in Locks /\ step[m] = 2
  <2>1. g \in Groups
    BY BlocksKept
  <2>2. m \in Locks
    BY <2>1, InnerLocks
  <2>3. step[m] # 1 /\ step[m] # 3
    BY <2>2 DEF GroupInv, ItemCalls, Held
  <2>4. step[m] \in 1 .. 3
    BY <2>2, GroupTypes
  <2> QED
    BY <2>1, <2>2, <2>3, <2>4
<1>2. PICK i \in DOMAIN Items[g] : m = Items[g][i]
  BY <1>1, InnerLocks
<1>3. ASSUME NEW t \in Threads, ItemFreed(t, m) PROVE FALSE
  <2>1. /\ session' = [session EXCEPT ![t] = @ \ {ResOf[m]}] /\ gpc[t] # "idle"
    BY <1>3, FreedAdvance DEF CloseLocalThread, ItemFreed
  <2>2. t # u
    BY <2>1, GroupTypes
  <2>3. gcur[t] = g
    <3>1. /\ gcur[t] \in Groups /\ DOMAIN Items[gcur[t]] = 1 .. Len(Items[gcur[t]])
          /\ Len(Items[gcur[t]]) \in Nat
      BY <2>1, AtHand, InnerLocks
    <3>2. gat[t] \in DOMAIN Items[gcur[t]] /\ Item(t) = Items[gcur[t]][gat[t]]
      BY <1>3, <2>1, AtHand DEF ItemFreed
    <3>3. \E k \in DOMAIN Items[gcur[t]] : m = Items[gcur[t]][k]
      <4>1. CASE m \in Gotten(t)
        <5>1. PICK k \in 1 .. gat[t] - 1 : m = Items[gcur[t]][k]
          BY <4>1 DEF Gotten
        <5> QED
          BY <3>1, <3>2, <5>1
      <4> QED
        BY <1>3, <3>2, <4>1 DEF ItemFreed
    <3> QED
      BY <1>1, <1>2, <3>1, <3>3, InnerLocks
  <2>4. g \in ToSet(gframes[u]) \/ gcur[u] = g
    BY DEF Blocks
  <2>5. ASSUME NEW j \in DOMAIN gframes[u], gframes[u][j] = g PROVE FALSE
    BY <2>2, <2>3, <2>5 DEF GroupInv, GroupsApart
  <2>6. gcur[u] = g => FALSE
    BY <1>1, <2>2, <2>3, GroupTypes DEF GroupInv, GroupsApart
  <2> QED
    BY <2>4, <2>5, <2>6 DEF ToSet
<1>4. outcome'[m] = "held" /\ ~isReentry'[m]
  <2>1. ASSUME NEW t \in Threads, NEW l \in Locks, ItemFreed(t, l)
        PROVE  outcome'[m] = "held" /\ ~isReentry'[m]
    <3>1. l # m
      BY <1>3, <2>1
    <3> QED
      BY <1>1, <2>1, <3>1, FreedAdvance, GroupTypes DEF Held
  <2>2. ASSUME NEW t \in Threads, AcquireItem(t) PROVE outcome'[m] = "held" /\ ~isReentry'[m]
    <3>1. Item(t) # m
      BY <1>1, <2>2, AcquireAdvance
    <3> QED
      BY <1>1, <2>2, <3>1, AcquireAdvance, GroupTypes DEF Held
  <2>3. ASSUME NEW t \in Threads, ItemEnds(t) PROVE outcome'[m] = "held" /\ ~isReentry'[m]
    <3>1. pc[t] # "idle"
      BY <2>3 DEF ItemEnds
    <3>2. cur[t] # m
      BY <3>1, AtItem DEF Held
    <3> QED
      BY <1>1, <2>3, <3>2, GroupTypes DEF ItemEnds, Held
  <2>4. ASSUME UNCHANGED <<outcome, isReentry>> PROVE outcome'[m] = "held" /\ ~isReentry'[m]
    BY <2>4 DEF Held
  <2> QED
    BY <2>1, <2>2, <2>3, <2>4, LockMoves
       DEF GroupOnly, ItemRuns, lockVars, GroupSessionEnd, SessionEnd
<1>5. g \in Blocks(u)'
  <2> SUFFICES ASSUME g = gcur[u], ReleaseItem(u), ~MoreItems(u) PROVE FALSE
    BY BlocksKept
  <2>1. /\ gpc[u] = "release" /\ gat[u] \in DOMAIN Items[g] /\ Item(u) = Items[g][gat[u]]
        /\ DOMAIN Items[g] = 1 .. Len(Items[g]) /\ Len(Items[g]) \in Nat
    BY <1>1, AtHand, InnerLocks DEF ReleaseItem
  <2>2. i >= gat[u]
    BY <1>2, <2>1 DEF FreedSoFar, Held
  <2>3. m = Item(u)
    BY <1>2, <2>1, <2>2 DEF MoreItems
  <2>4. outcome'[m] = "released"
    BY <1>1, <2>3, GroupTypes DEF ReleaseItem, Release
  <2> QED
    BY <1>4, <2>4
<1> QED
  BY <1>4, <1>5 DEF HeldInBlock, Held, ItemSet

LEMMA BackedNext ==
  ASSUME GroupTypeOK, GroupInv, EntryInv, [GroupNext]_allVars, NEW u \in Threads
  PROVE  EntriesBacked(u)'
<1> SUFFICES ASSUME NEW r \in session'[u]
             PROVE  \/ HeldInBlock(r, Blocks(u))'
                    \/ \E m \in InDoubt(u)' :
                          /\ ResOf[m] = r /\ ~isReentry'[m]
                          /\ outcome'[m] = "refused" => tryCount'[m] = 0
  BY DEF EntriesBacked
<1>1. CASE r \notin session[u]
  BY <1>1, NewEntry
<1>2. ASSUME HeldInBlock(r, Blocks(u)) PROVE HeldInBlock(r, Blocks(u))'
  <2>1. PICK g \in Blocks(u) : \E m \in ItemSet(g) : ResOf[m] = r /\ ~isReentry[m] /\ Held(m)
    BY <1>2 DEF HeldInBlock
  <2> QED
    BY <2>1, HeldMoves DEF EntryInv
<1>3. ASSUME NEW m \in InDoubt(u), ResOf[m] = r, ~isReentry[m],
             outcome[m] = "refused" => tryCount[m] = 0
      PROVE  \/ HeldInBlock(r, Blocks(u))'
             \/ /\ m \in InDoubt(u)' /\ ~isReentry'[m]
                /\ outcome'[m] = "refused" => tryCount'[m] = 0
  <2>1. CASE m \in InDoubt(u)' /\ outcome'[m] = outcome[m]
             /\ (outcome[m] = "refused" => tryCount'[m] = tryCount[m])
    BY <1>3, <2>1, DoubtMoves
  <2>2. CASE /\ ItemEnds(u) /\ m = cur[u]
             /\ outcome'[m] = "refused" => /\ m \in InDoubt(u)' /\ pc[u] = "init"
                                           /\ tryCount'[m] = tryCount[m]
    <3>1. ~isReentry'[m]
      BY <1>3, DoubtMoves
    <3>2. CASE outcome'[m] = "refused"
      BY <2>2, <3>1, <3>2 DEF EntryInv, UntriedItems
    <3>3. CASE outcome'[m] = "held"
      <4>1. pc[u] # "idle" /\ UNCHANGED groupVars
        BY <2>2 DEF ItemEnds
      <4>2. cur[u] = Items[gcur[u]][gat[u]] /\ gcur[u] \in Groups /\ gat[u] \in DOMAIN Items[gcur[u]]
        BY <4>1, AtItem, AtHand
      <4>3. m \in ItemSet(gcur[u])
        BY <2>2, <4>2, InnerLocks
      <4>4. gcur[u] \in Blocks(u)'
        BY <4>1, <4>2, GroupTypes DEF Blocks, groupVars
      <4> QED
        BY <1>3, <3>1, <3>3, <4>3, <4>4 DEF HeldInBlock, Held, ItemSet
    <3> QED
      BY <2>2, <3>2, <3>3 DEF ItemEnds
  <2> QED
    BY <1>3, <2>1, <2>2, DoubtMoves
<1> QED
  BY <1>1, <1>2, <1>3 DEF EntryInv, EntriesBacked

LEMMA EntryInvNext ==
  ASSUME GroupTypeOK, GroupInv, EntryInv, [GroupNext]_allVars
  PROVE  EntryInv'
<1>1. UntriedItems'
  BY UntriedNext DEF EntryInv
<1>2. \A t \in Threads : FreedSoFar(t)' /\ EntriesBacked(t)'
  BY FreedNext, BackedNext DEF EntryInv
<1> QED
  BY <1>1, <1>2 DEF EntryInv

(***************************************************************************)
(* Every entry in the session of a thread belongs to an inner lock of a    *)
(* group it is in: one that is held, one it is locking, or one whose       *)
(* init() threw.  A release() of a group, whichever of its inner locks     *)
(* were got and whatever their own release() throws, leaves none behind.   *)
(***************************************************************************)
THEOREM EntriesBelong == GroupSpec => []EntryInv
<1>1. GroupInit => GroupTypeOK /\ GroupInv /\ EntryInv
  BY GroupInvInit, EntryInit
<1>2. GroupTypeOK /\ GroupInv /\ EntryInv /\ [GroupNext]_allVars
      => GroupTypeOK' /\ GroupInv' /\ EntryInv'
  BY GroupInvNext, EntryInvNext
<1> QED
  BY <1>1, <1>2, PTL DEF GroupSpec

(***************************************************************************)
(* All or none, the none: a lock() of a group that was refused leaves no   *)
(* inner lock held, whichever of them gave up and in whatever order the    *)
(* others were released, and no entry in the thread's session but those of *)
(* blocks further out and of an inner lock whose init() threw.             *)
(***************************************************************************)
THEOREM RefusedHoldsNone == GroupSpec => []RefusedGroupHoldsNone
<1>1. ASSUME GroupTypeOK, GroupInv, EntryInv PROVE RefusedGroupHoldsNone
  <2> SUFFICES ASSUME NEW g \in Groups, gresult[g] = "refused", NEW t \in HoldersOf(g),
                      NEW l \in ItemSet(g), ResOf[l] \in session[t]
               PROVE  \/ HeldInBlock(ResOf[l], ToSet(gframes[t]) \ {g})
                      \/ \E m \in ItemSet(g) : ResOf[m] = ResOf[l] /\ ThrewInInit(m)
    BY <1>1 DEF GroupInv, RefusedGroupHoldsNone
  <2>1. PICK i \in DOMAIN gframes[t] : g = gframes[t][i]
    BY DEF HoldersOf, ToSet
  <2>2. t \in Threads /\ GroupsNest(t)
    BY <1>1 DEF HoldersOf, GroupInv
  <2>3. gpc[t] = "idle" /\ gcur[t] = NoGroup /\ g = Last(gframes[t])
    <3>1. i = Len(gframes[t]) /\ gpc[t] # "release"
      BY <1>1, <2>1, <2>2, GroupTypes DEF GroupsNest
    <3>2. g = Last(gframes[t])
      BY <2>1, <3>1 DEF Last
    <3>3. ~InGroupLock(t)
      BY <2>2, <3>2 DEF GroupsNest
    <3> QED
      BY <1>1, <2>2, <3>1, <3>2, <3>3, GroupTypes DEF GroupsNest, InGroupLock
  <2>4. CASE HeldInBlock(ResOf[l], Blocks(t))
    <3>1. PICK h \in Blocks(t) : \E m \in ItemSet(h) : ResOf[m] = ResOf[l] /\ ~isReentry[m] /\ Held(m)
      BY <2>4 DEF HeldInBlock
    <3>2. h # g
      BY <1>1, <3>1 DEF GroupInv, NoneHeld, Held
    <3>3. h \in ToSet(gframes[t])
      BY <2>3, <3>1 DEF Blocks
    <3> QED
      BY <3>1, <3>2, <3>3 DEF HeldInBlock
  <2>5. ASSUME NEW m \in InDoubt(t), ResOf[m] = ResOf[l], ~isReentry[m],
               outcome[m] = "refused" => tryCount[m] = 0
        PROVE  m \in ItemSet(g) /\ ThrewInInit(m)
    <3>1. m \in ItemSet(g) /\ outcome[m] \in {"locking", "refused"}
      BY <2>3 DEF InDoubt
    <3>2. outcome[m] = "refused"
      BY <1>1, <3>1 DEF GroupInv, NoneHeld
    <3> QED
      BY <2>5, <3>1, <3>2 DEF ThrewInInit
  <2> QED
    BY <1>1, <2>2, <2>4, <2>5 DEF EntryInv, EntriesBacked
<1>2. GroupTypeOK /\ GroupInv /\ EntryInv => RefusedGroupHoldsNone
  BY <1>1
<1> QED
  BY <1>2, GroupInvariant, EntriesBelong, PTL

(***************************************************************************)
(* All or none, the all: who came out of lock() of a group that was not    *)
(* taken for a reentrant one owns the znode of every resource of it, while *)
(* its session lives.                                                      *)
(***************************************************************************)
THEOREM FirstGroupOwns == GroupSpec => []FirstGroupOwnsAll
<1>1. ASSUME GroupTypeOK, GroupInv PROVE FirstGroupOwnsAll
  <2> SUFFICES ASSUME NEW g \in Groups, NEW t \in Threads, GroupHeld(g), ~gReentry[g],
                      t \in HoldersOf(g), LivesFor(t), NEW l \in ItemSet(g)
               PROVE  OwnedBy(ResOf[l], t)
    BY DEF FirstGroupOwnsAll
  <2>1. PICK i \in DOMAIN gframes[t] : gframes[t][i] = g
    BY DEF HoldersOf, ToSet
  <2>2. Held(l) /\ caller[l] = t
    <3>1. ItemsTell /\ gresult[g] = "held"
      BY <1>1 DEF GroupHeld, GroupInv
    <3> QED
      BY <2>1, <3>1 DEF ItemsTell
  <2>3. l \in Locks
    BY InnerLocks
  <2> QED
    BY <1>1, <2>2, <2>3 DEF GroupInv, HeldOwned
<1>2. GroupTypeOK /\ GroupInv => FirstGroupOwnsAll
  BY <1>1
<1> QED
  BY <1>2, GroupInvariant, PTL

(***************************************************************************)
(* README of the module, for groups: two threads that both came out of     *)
(* lock(), neither group taken for a reentrant one and both sessions       *)
(* alive, are in groups that have no resource in common.                   *)
(***************************************************************************)
GroupsExclude ==
    \A g, h \in Groups, t, u \in Threads :
        /\ GroupHeld(g) /\ ~gReentry[g] /\ t \in HoldersOf(g) /\ LivesFor(t)
        /\ GroupHeld(h) /\ ~gReentry[h] /\ u \in HoldersOf(h) /\ LivesFor(u)
        /\ \E l \in ItemSet(g), m \in ItemSet(h) : ResOf[l] = ResOf[m]
        => t = u

\* GroupsExclude holds whatever the order and the overlap of the groups.
THEOREM GroupExclusion == GroupSpec => []GroupsExclude
<1>1. FirstGroupOwnsAll => GroupsExclude
  BY DEF FirstGroupOwnsAll, GroupsExclude, OwnedBy
<1> QED
  BY <1>1, FirstGroupOwns, PTL
=============================================================================
