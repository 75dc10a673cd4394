----------------------------- MODULE ZKPathUtil -----------------------------
(***************************************************************************)
(* ZKPathUtil.createPersistentPath, the subroutine with which every lock   *)
(* makes sure that its base path exists, and the part of ZooKeeper it      *)
(* runs against: client sessions and persistent znodes.                    *)
(*                                                                         *)
(* A path is made one prefix at a time.  For each prefix the code asks     *)
(* exists() and, when the answer is no, calls create(): two requests, so   *)
(* another client may create the prefix in between and create() throws     *)
(* NodeExists.  A request may also fail because its session has ended or,  *)
(* when Lossy, because the connection broke before or after the server     *)
(* applied it.                                                             *)
(***************************************************************************)
EXTENDS Naturals, Sequences

CONSTANTS
    Threads,    \* the threads of all JVMs
    Clients,    \* ZooKeeper handles: one session each, one handle per JVM
    ClientOf,   \* the handle that the locks used by a thread are built on
    Roots,      \* base paths (ProviderConfig.root)
    Paths,      \* persistent znodes
    PathOf,     \* the prefixes of a base path, outermost first
    Lossy       \* may a request fail although the session is alive?

ASSUME ClientAssumption == ClientOf \in [Threads -> Clients]

ASSUME PathAssumption ==
    /\ Roots # {}
    /\ PathOf \in [Roots -> Seq(Paths)]
    /\ \A r \in Roots : PathOf[r] # << >>

ASSUME LossyAssumption == Lossy \in BOOLEAN

VARIABLES
    expired,    \* the handles whose ZooKeeper session has ended
    paths,      \* the persistent znodes that exist
    mkpath      \* per thread, the call of createPersistentPath it is in

pathVars == <<paths, mkpath>>

(***************************************************************************)
(* A call of createPersistentPath: the path, the prefix it is at, and what *)
(* it does next ("exists", "create") or how it came back ("ok", "error").  *)
(* "none" is a thread outside any call.                                    *)
(***************************************************************************)
PathCall == [root : Roots, at : Nat,
             st : {"none", "exists", "create", "ok", "error"}]

NoCall == [root |-> CHOOSE r \in Roots : TRUE, at |-> 1, st |-> "none"]

Connected(t) == ClientOf[t] \notin expired

(***************************************************************************)
(* A request of t can come back with a KeeperException other than the ones *)
(* the data calls for: the session is over, or the connection was lost.    *)
(***************************************************************************)
MayFail(t) == Lossy \/ ~Connected(t)

Target(t) == PathOf[mkpath[t].root][mkpath[t].at]

PathReady(root) == \A i \in DOMAIN PathOf[root] : PathOf[root][i] \in paths

CreatePersistentPath(t, root) ==
    mkpath' = [mkpath EXCEPT ![t] = [root |-> root, at |-> 1, st |-> "exists"]]

PathReturn(t) == mkpath' = [mkpath EXCEPT ![t] = NoCall]

PathThrow(t) == mkpath' = [mkpath EXCEPT ![t].st = "error"]

\* Mutant: returns when the last prefix is still to come.
NextPrefixStopsEarly(t) ==
    IF mkpath[t].at + 1 < Len(PathOf[mkpath[t].root])
    THEN mkpath' = [mkpath EXCEPT ![t] = [root |-> @.root, at |-> @.at + 1, st |-> "exists"]]
    ELSE mkpath' = [mkpath EXCEPT ![t].st = "ok"]

\* The prefix at hand exists: go on to the next one, or return.
NextPrefix(t) ==
    IF mkpath[t].at < Len(PathOf[mkpath[t].root])
    THEN mkpath' = [mkpath EXCEPT ![t] = [root |-> @.root, at |-> @.at + 1, st |-> "exists"]]
    ELSE mkpath' = [mkpath EXCEPT ![t].st = "ok"]

\* if (zk.exists(path, false) == null)
PathExists(t) ==
    /\ mkpath[t].st = "exists"
    /\ \/ /\ Connected(t)
          /\ Target(t) \in paths
          /\ NextPrefix(t)
       \/ /\ Connected(t)
          /\ Target(t) \notin paths
          /\ mkpath' = [mkpath EXCEPT ![t].st = "create"]
       \/ /\ MayFail(t)
          /\ PathThrow(t)
    /\ UNCHANGED paths

\* zk.create(path, new byte[0], OPEN_ACL_UNSAFE, PERSISTENT)
PathCreate(t) ==
    /\ mkpath[t].st = "create"
    /\ \/ /\ Connected(t)
          /\ Target(t) \notin paths
          /\ paths' = paths \cup {Target(t)}
          /\ NextPrefix(t)
       \/ /\ Connected(t)
          /\ Target(t) \in paths               \* NodeExists
          /\ PathThrow(t)
          /\ UNCHANGED paths
       \/ /\ MayFail(t)
          /\ PathThrow(t)
          /\ paths' \in {paths} \cup (IF Connected(t)
                                      THEN {paths \cup {Target(t)}} ELSE {})

PathStep(t) == PathExists(t) \/ PathCreate(t)

PathTypeOK ==
    /\ expired \subseteq Clients
    /\ paths \subseteq Paths
    /\ mkpath \in [Threads -> PathCall]
    /\ \A t \in Threads :
          mkpath[t].st # "none" => mkpath[t].at \in DOMAIN PathOf[mkpath[t].root]

(***************************************************************************)
(* Inside a call every prefix before the current one exists, and a call    *)
(* that came back normally left the whole path in place.                   *)
(***************************************************************************)
PrefixesMade ==
    \A t \in Threads :
        /\ mkpath[t].st \in {"exists", "create"} =>
              \A i \in 1 .. mkpath[t].at - 1 : PathOf[mkpath[t].root][i] \in paths
        /\ mkpath[t].st = "ok" => PathReady(mkpath[t].root)
=============================================================================
