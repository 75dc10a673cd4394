------------------------------ MODULE GroupLock ------------------------------
(***************************************************************************)
(* ZookeeperGroupMutexLock and ZookeeperCombinationMutexLock: several      *)
(* ZookeeperMutexLocks taken one after the other, all or none.             *)
(*                                                                         *)
(* The two classes differ in what they are built from (one root and sorted *)
(* resources, or a list of configurations in the caller's order); lock()   *)
(* and release() are the same.  Both remember the group, by the text of    *)
(* its resource ids put together, in a thread-local set of their own, from *)
(* which nothing is ever removed.                                          *)
(*                                                                         *)
(* Groups are used as in the README: made, locked and released by one      *)
(* thread, in try blocks that may nest.  The inner locks are private to    *)
(* their group and run the code of MutexLock.                              *)
(***************************************************************************)
EXTENDS MutexLock, SequencesExt

CONSTANTS
    Groups,     \* group lock objects
    Items,      \* per group, its inner locks in the order they are taken
    BasePaths,  \* per group, the base paths lock() makes first
    SessionIds,
    SessionIdOf,    \* the concatenated resource ids of a group
    NoGroup

ASSUME GroupAssumption ==
    /\ Items \in [Groups -> Seq(Locks)]
    /\ \A g \in Groups : Items[g] # << >>
    /\ BasePaths \in [Groups -> Seq(Roots)]
    /\ \A g \in Groups : BasePaths[g] # << >>
    /\ \A g, h \in Groups : \A i \in DOMAIN Items[g], j \in DOMAIN Items[h] :
          Items[g][i] = Items[h][j] => g = h /\ i = j  \* each makes its own inner locks
    /\ SessionIdOf \in [Groups -> SessionIds]
    /\ \A g, h \in Groups :     \* groups on the same resources share their id
          {ResOf[l] : l \in ToSet(Items[g])} = {ResOf[l] : l \in ToSet(Items[h])}
          /\ Len(Items[g]) = Len(Items[h])
          => SessionIdOf[g] = SessionIdOf[h]
    /\ NoGroup \notin Groups

VARIABLES
    gstep,      \* step of a group
    gReentry,   \* isReentry of a group
    gsession,   \* the thread-local set of session ids
    gpc,        \* where a thread is in lock() or release() of a group
    gcur,       \* the group
    gat,        \* the base path or the inner lock it is at
    gresult,    \* how lock() came back: "new", "locking", "held", "refused", "released"
    gframes     \* per thread, the groups of the blocks it is in

groupVars == <<gstep, gReentry, gsession, gpc, gcur, gat, gresult, gframes>>

allVars == <<vars, groupVars>>

GroupInit ==
    /\ Init
    /\ gstep = [g \in Groups |-> 1]
    /\ gReentry = [g \in Groups |-> FALSE]
    /\ gsession = [t \in Threads |-> {}]
    /\ gpc = [t \in Threads |-> "idle"]
    /\ gcur = [t \in Threads |-> NoGroup]
    /\ gat = [t \in Threads |-> 0]
    /\ gresult = [g \in Groups |-> "new"]
    /\ gframes = [t \in Threads |-> << >>]
-----------------------------------------------------------------------------
Item(t) == Items[gcur[t]][gat[t]]

GoTo(t, place, i) ==
    /\ gpc' = [gpc EXCEPT ![t] = place]
    /\ gat' = [gat EXCEPT ![t] = i]

Return(t, result) ==
    /\ GoTo(t, "idle", 0)
    /\ gcur' = [gcur EXCEPT ![t] = NoGroup]
    /\ gresult' = [gresult EXCEPT ![gcur[t]] = result]

\* Mutant: stops before the last inner lock.
MoreItemsButOne(t) == gat[t] + 1 < Len(Items[gcur[t]])

MoreItems(t) == gat[t] < Len(Items[gcur[t]])

\* if (step != 1) throw ...; else step = 2
UseUp(g) ==
    /\ gstep[g] = 1
    /\ gstep' = [gstep EXCEPT ![g] = 2]

GroupBody(t) ==
    /\ gpc[t] = "idle"
    /\ gframes[t] # << >> => gresult[Last(gframes[t])] = "held"

\* lock() up to the first base path
LockGroup(t, g) ==
    /\ GroupBody(t)
    /\ \A i \in DOMAIN Items[g] : Reaches(t, Items[g][i])
    /\ UseUp(g)
    /\ gReentry' = [gReentry EXCEPT ![g] = SessionIdOf[g] \in gsession[t]]
    /\ gsession' = [gsession EXCEPT ![t] = @ \cup {SessionIdOf[g]}]
    /\ CreatePersistentPath(t, BasePaths[g][1])
    /\ GoTo(t, "init", 1)
    /\ gcur' = [gcur EXCEPT ![t] = g]
    /\ gresult' = [gresult EXCEPT ![g] = "locking"]
    /\ gframes' = [gframes EXCEPT ![t] = Append(@, g)]
    /\ UNCHANGED <<expired, paths, lockVars>>

NextBasePath(t) ==
    /\ gpc[t] = "init"
    /\ mkpath[t].st = "ok"
    /\ gat[t] < Len(BasePaths[gcur[t]])
    /\ CreatePersistentPath(t, BasePaths[gcur[t]][gat[t] + 1])
    /\ GoTo(t, "init", gat[t] + 1)
    /\ UNCHANGED <<expired, paths, lockVars, gstep, gReentry, gsession, gcur, gresult, gframes>>

\* initCurrentSession() is done: a reentrant group asks for no inner lock.
GroupInitDone(t) ==
    /\ gpc[t] = "init"
    /\ mkpath[t].st = "ok"
    /\ gat[t] = Len(BasePaths[gcur[t]])
    /\ PathReturn(t)
    /\ IF gReentry[gcur[t]]
       THEN Return(t, "held")
       ELSE GoTo(t, "acquire", 1) /\ UNCHANGED <<gcur, gresult>>
    /\ UNCHANGED <<expired, paths, lockVars, gstep, gReentry, gsession, gframes>>

GroupInitThrows(t) ==
    /\ gpc[t] = "init"
    /\ mkpath[t].st = "error"
    /\ PathReturn(t)
    /\ Return(t, "refused")
    /\ UNCHANGED <<expired, paths, lockVars, gstep, gReentry, gsession, gframes>>

\* lock.lock() on the next inner lock
AcquireItem(t) ==
    /\ gpc[t] = "acquire"
    /\ Lock(t, Item(t))
    /\ GoTo(t, "inner", gat[t])
    /\ UNCHANGED <<gstep, gReentry, gsession, gcur, gresult, gframes>>

\* The inner lock() came back: on to the next one, or the group is locked.
ItemHeld(t) ==
    /\ gpc[t] = "inner"
    /\ Held(Item(t))
    /\ IF MoreItems(t)
       THEN GoTo(t, "acquire", gat[t] + 1) /\ UNCHANGED <<gcur, gresult>>
       ELSE Return(t, "held")
    /\ UNCHANGED <<vars, gstep, gReentry, gsession, gframes>>

\* Mutant: waits for the resource instead of giving up.
ItemAwaited(t) ==
    /\ gpc[t] = "inner"
    /\ outcome[Item(t)] = "refused"
    /\ UNCHANGED allVars

ItemRefused(t) ==
    /\ gpc[t] = "inner"
    /\ outcome[Item(t)] = "refused"
    /\ GoTo(t, "undo", gat[t])
    /\ UNCHANGED <<vars, gstep, gReentry, gsession, gcur, gresult, gframes>>

\* Mutant: the inner lock got last is forgotten.
GottenButOne(t) == {Items[gcur[t]][i] : i \in 1 .. gat[t] - 2}

\* The inner locks got so far, gettedLocks, released in the order of a HashSet.
Gotten(t) == {Items[gcur[t]][i] : i \in 1 .. gat[t] - 1}

UndoItem(t) ==
    /\ gpc[t] = "undo"
    /\ \E l \in Gotten(t) : Held(l) /\ Release(t, l)
    /\ UNCHANGED groupVars

UndoDone(t) ==
    /\ gpc[t] = "undo"
    /\ \A l \in Gotten(t) : ~Held(l)
    /\ Return(t, "refused")
    /\ UNCHANGED <<vars, gstep, gReentry, gsession, gframes>>

\* release(), called in the finally block whether or not lock() threw
GroupRelease(t) ==
    /\ gpc[t] = "idle"
    /\ gframes[t] # << >>
    /\ GoTo(t, "release", 1)
    /\ gcur' = [gcur EXCEPT ![t] = Last(gframes[t])]
    /\ gframes' = [gframes EXCEPT ![t] = Front(@)]
    /\ UNCHANGED <<vars, gstep, gReentry, gsession, gresult>>

\* Each inner lock is released; what its release() throws is ignored.
ReleaseItem(t) ==
    /\ gpc[t] = "release"
    /\ \/ Release(t, Item(t))
       \/ step[Item(t)] # 2 /\ UNCHANGED vars
    /\ IF MoreItems(t)
       THEN GoTo(t, "release", gat[t] + 1) /\ UNCHANGED <<gcur, gresult>>
       ELSE Return(t, "released")
    /\ UNCHANGED <<gstep, gReentry, gsession, gframes>>

InItem(t) ==
    /\ InLock(t)
    /\ UNCHANGED groupVars

GroupSessionEnd(c) ==
    /\ SessionEnd(c)
    /\ UNCHANGED groupVars

InGroup(t) ==
    \/ InItem(t)
    \/ NextBasePath(t)
    \/ GroupInitDone(t)
    \/ GroupInitThrows(t)
    \/ AcquireItem(t)
    \/ ItemHeld(t)
    \/ ItemRefused(t)
    \/ UndoItem(t)
    \/ UndoDone(t)
    \/ ReleaseItem(t)

GroupNext ==
    \/ \E t \in Threads : InGroup(t) \/ GroupRelease(t)
    \/ \E t \in Threads, g \in Groups : LockGroup(t, g)
    \/ \E c \in Clients : GroupSessionEnd(c)

GroupSpec == GroupInit /\ [][GroupNext]_allVars

\* A thread inside lock() or release() of a group keeps running.
GroupFairness == \A t \in Threads : WF_allVars(InGroup(t))

GroupFairSpec == GroupSpec /\ GroupFairness
-----------------------------------------------------------------------------
ItemSet(g) == ToSet(Items[g])

\* The znode of r is there and a lock of thread t created it.
OwnedBy(r, t) == znode[r] # NoLock /\ caller[znode[r]] = t

LivesFor(t) == ClientOf[t] \notin expired

HoldersOf(g) == {t \in Threads : g \in ToSet(gframes[t])}

GroupHeld(g) == gresult[g] = "held" /\ HoldersOf(g) # {}

(***************************************************************************)
(* Class comment of both locks: "only when all the locks inside are got    *)
(* can one go on".  A thread that came out of lock() and did not begin     *)
(* release() owns the znode of every resource of the group.                *)
(***************************************************************************)
HeldGroupOwnsAll ==
    \A g \in Groups, t \in Threads :
        GroupHeld(g) /\ t \in HoldersOf(g) /\ LivesFor(t) =>
            \A l \in ItemSet(g) : OwnedBy(ResOf[l], t)

(***************************************************************************)
(* The same for a group that the thread did not take for a reentrant one.  *)
(***************************************************************************)
FirstGroupOwnsAll ==
    \A g \in Groups, t \in Threads :
        GroupHeld(g) /\ ~gReentry[g] /\ t \in HoldersOf(g) /\ LivesFor(t) =>
            \A l \in ItemSet(g) : OwnedBy(ResOf[l], t)

\* No inner lock of g counts as held.
NoneHeld(g) == \A l \in ItemSet(g) : outcome[l] \in {"new", "refused", "released"}

\* An inner lock on r of one of these groups is held and put r into the session.
HeldInBlock(r, blocks) ==
    \E g \in blocks : \E m \in ItemSet(g) : ResOf[m] = r /\ ~isReentry[m] /\ Held(m)

\* init() of m threw, which leaves the entry of its resource in the session.
ThrewInInit(m) == outcome[m] = "refused" /\ ~isReentry[m] /\ tryCount[m] = 0

(***************************************************************************)
(* All or none: after lock() was refused no inner lock counts as held, and *)
(* the thread takes none of the group's resources for its own but those of *)
(* blocks further out and the one whose init() threw.                      *)
(***************************************************************************)
RefusedGroupHoldsNone ==
    \A g \in Groups : gresult[g] = "refused" =>
        /\ NoneHeld(g)
        /\ \A t \in HoldersOf(g) : \A l \in ItemSet(g) : ResOf[l] \in session[t] =>
              \/ HeldInBlock(ResOf[l], ToSet(gframes[t]) \ {g})
              \/ \E m \in ItemSet(g) : ResOf[m] = ResOf[l] /\ ThrewInInit(m)

-----------------------------------------------------------------------------
GroupTypeOK ==
    /\ MutexTypeOK
    /\ gstep \in [Groups -> 1 .. 2]
    /\ gReentry \in [Groups -> BOOLEAN]
    /\ gsession \in [Threads -> SUBSET SessionIds]
    /\ gpc \in [Threads -> {"idle", "init", "acquire", "inner", "undo", "release"}]
    /\ gcur \in [Threads -> Groups \cup {NoGroup}]
    /\ gat \in [Threads -> Nat]
    /\ gresult \in [Groups -> {"new", "locking", "held", "refused", "released"}]
    /\ gframes \in [Threads -> Seq(Groups)]

InGroupLock(t) == gpc[t] \in {"init", "acquire", "inner", "undo"}

\* A thread's blocks are groups entered once, all locked but the innermost one.
GroupsNest(t) ==
    LET f == gframes[t]
    IN  /\ \A i \in DOMAIN f :
              /\ gstep[f[i]] = 2
              /\ f[i] # gcur[t] \/ (InGroupLock(t) /\ i = Len(f))
              /\ \A j \in 1 .. i - 1 : f[j] # f[i]
              /\ i < Len(f) \/ gpc[t] = "release" => gresult[f[i]] = "held"
        /\ gpc[t] = "idle" => /\ gcur[t] = NoGroup
                              /\ f # << >> => gresult[Last(f)] \in {"held", "refused"}
        /\ gpc[t] # "idle" => gcur[t] \in Groups /\ gstep[gcur[t]] = 2
        /\ InGroupLock(t) => /\ f # << >> /\ Last(f) = gcur[t]
                             /\ gresult[gcur[t]] = "locking"
        /\ gpc[t] = "release" => gresult[gcur[t]] \in {"held", "refused"}
        /\ gpc[t] \in {"acquire", "inner", "undo", "release"} =>
              gat[t] \in DOMAIN Items[gcur[t]]

GroupsApart ==
    /\ \A g \in Groups : gstep[g] = 1 <=> gresult[g] = "new"
    /\ \A t, u \in Threads : t # u =>
          /\ \A i \in DOMAIN gframes[t] :
                /\ gframes[t][i] # gcur[u]
                /\ \A j \in DOMAIN gframes[u] : gframes[t][i] # gframes[u][j]
          /\ gcur[t] = gcur[u] => gcur[t] = NoGroup

\* A thread is inside the inner lock its group is at, and the fields agree.
ItemCalls ==
    /\ \A t \in Threads :
          /\ pc[t] = "idle" <=> cur[t] = NoLock
          /\ pc[t] # "idle" =>
                /\ gpc[t] = "inner" /\ cur[t] = Item(t)
                /\ Reaches(t, cur[t])
                /\ outcome[cur[t]] = "locking"
          /\ pc[t] \in {"execute", "sleep"} => ~isReentry[cur[t]]
    /\ \A l \in Locks :
          /\ step[l] = 1 <=> outcome[l] = "new"
          /\ step[l] = 3 <=> outcome[l] = "released"
          /\ outcome[l] # "new" => caller[l] \in Threads /\ Reaches(caller[l], l)

\* How far lock() of a group has come through its inner locks.
ItemsInOrder(t) ==
    InGroupLock(t) =>
        \A i \in DOMAIN Items[gcur[t]] :
            LET l == Items[gcur[t]][i]
            IN  IF gpc[t] = "init" \/ i > gat[t] \/ (i = gat[t] /\ gpc[t] = "acquire")
                THEN outcome[l] = "new"
                ELSE /\ caller[l] = t
                     /\ outcome[l] \in
                          CASE i < gat[t] /\ gpc[t] # "undo" -> {"held"}
                            [] i < gat[t] /\ gpc[t] = "undo" -> {"held", "released"}
                            [] i = gat[t] /\ gpc[t] = "undo" -> {"refused"}
                            [] OTHER -> {"locking", "held", "refused"}

\* The inner locks of a group that nobody called, and of one that is locked.
ItemsTell ==
    /\ \A g \in Groups : gresult[g] = "new" => \A l \in ItemSet(g) : outcome[l] = "new"
    /\ \A t \in Threads : \A i \in DOMAIN gframes[t] :
          LET g == gframes[t][i]
          IN  gresult[g] = "held" /\ ~gReentry[g] =>
                  \A l \in ItemSet(g) : Held(l) /\ caller[l] = t

\* The inner locks that t calls, or that threw and are not released yet.
InDoubt(t) ==
    {l \in Locks :
        /\ outcome[l] \in {"locking", "refused"}
        /\ \/ gpc[t] \in {"inner", "undo"} /\ l = Item(t)
           \/ gpc[t] = "release" /\ \E i \in DOMAIN Items[gcur[t]] :
                                         gat[t] <= i /\ l = Items[gcur[t]][i]
           \/ /\ gpc[t] = "idle" /\ gframes[t] # << >>
              /\ gresult[Last(gframes[t])] = "refused"
              /\ l \in ItemSet(Last(gframes[t]))}

\* What a thread takes for its own by reentry, it owns.
EntriesOwned ==
    \A t \in Threads : LivesFor(t) =>
        \A r \in session[t] :
            OwnedBy(r, t) \/ \E l \in InDoubt(t) : ResOf[l] = r /\ ~isReentry[l]

HeldOwned ==
    \A l \in Locks :
        /\ Held(l) \/ (outcome[l] = "locking" /\ isReentry[l])
        /\ LivesFor(caller[l])
        => OwnedBy(ResOf[l], caller[l])

(***************************************************************************)
(* The blocks of a thread, the inner locks of its groups, the session it   *)
(* shares with all its mutexes and the znodes agree at every step of       *)
(* lock(), of its undoing and of release().                                *)
(***************************************************************************)
GroupInv ==
    /\ \A t \in Threads : GroupsNest(t) /\ ItemsInOrder(t)
    /\ GroupsApart
    /\ ItemCalls
    /\ ItemsTell
    /\ \A g \in Groups : gresult[g] = "refused" => NoneHeld(g)
    /\ NodesMatchObjects
    /\ EntriesOwned
    /\ HeldOwned

\* The groups t is in lock() or release() of or in a block of.
Blocks(t) == ToSet(gframes[t]) \cup ({gcur[t]} \ {NoGroup})

\* What release() of a group has left behind.
FreedSoFar(t) ==
    gpc[t] = "release" =>
        \A i \in 1 .. gat[t] - 1 : outcome[Items[gcur[t]][i]] \in {"new", "released"}

UntriedItems ==
    /\ \A l \in Locks : outcome[l] = "new" => tryCount[l] = 0
    /\ \A t \in Threads : pc[t] = "init" => tryCount[cur[t]] = 0

EntriesBacked(t) ==
    \A r \in session[t] :
        \/ HeldInBlock(r, Blocks(t))
        \/ \E m \in InDoubt(t) :
              ResOf[m] = r /\ ~isReentry[m] /\ (outcome[m] = "refused" => tryCount[m] = 0)

(***************************************************************************)
(* Every entry of a thread's session belongs to a lock of a group it is    *)
(* in, and release() leaves none behind.                                   *)
(***************************************************************************)
EntryInv == UntriedItems /\ \A t \in Threads : FreedSoFar(t) /\ EntriesBacked(t)

(***************************************************************************)
(* lock() and release() of a group come back: groups whose resources       *)
(* overlap, in whatever order they take them, never wait for each other.   *)
(***************************************************************************)
GroupReturns == \A t \in Threads : gpc[t] # "idle" ~> gpc[t] = "idle"
=============================================================================
