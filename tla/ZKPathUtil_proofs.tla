-------------------------- MODULE ZKPathUtil_proofs --------------------------
(***************************************************************************)
(* Lemmas about createPersistentPath, which the proofs of every lock cite. *)
(***************************************************************************)
EXTENDS ZKPathUtil, TLAPS

(***************************************************************************)
(* createPersistentPath: what a call of it may do to the caller's record.  *)
(***************************************************************************)
LEMMA NoCallType == NoCall \in PathCall /\ NoCall.st = "none"
  BY PathAssumption DEF NoCall, PathCall

LEMMA NextPrefixCall ==
  ASSUME PathTypeOK, NEW t \in Threads, mkpath[t].st # "none", NextPrefix(t)
  PROVE  /\ mkpath' = [mkpath EXCEPT ![t] = mkpath'[t]]
         /\ mkpath'[t] \in PathCall
         /\ mkpath'[t].root = mkpath[t].root
         /\ mkpath'[t].at \in DOMAIN PathOf[mkpath[t].root]
         /\ \/ /\ mkpath'[t].st = "exists"
               /\ mkpath'[t].at = mkpath[t].at + 1
            \/ /\ mkpath'[t].st = "ok"
               /\ mkpath[t].at = Len(PathOf[mkpath[t].root])
<1> DEFINE m == mkpath[t]
<1>1. /\ m \in PathCall /\ mkpath \in [Threads -> PathCall]
      /\ PathOf[m.root] \in Seq(Paths)
      /\ m.at \in 1 .. Len(PathOf[m.root])
  BY PathAssumption DEF PathTypeOK, PathCall
<1>2. CASE m.at < Len(PathOf[m.root])
  <2>1. mkpath' = [mkpath EXCEPT ![t] = [root |-> m.root, at |-> m.at + 1, st |-> "exists"]]
    BY <1>1, <1>2 DEF NextPrefix
  <2>2. mkpath'[t] = [root |-> m.root, at |-> m.at + 1, st |-> "exists"]
    BY <1>1, <2>1
  <2> QED
    BY <1>1, <1>2, <2>1, <2>2 DEF PathCall
<1>3. CASE ~(m.at < Len(PathOf[m.root]))
  <2>1. mkpath' = [mkpath EXCEPT ![t].st = "ok"]
    BY <1>1, <1>3 DEF NextPrefix
  <2>2. mkpath'[t] = [root |-> m.root, at |-> m.at, st |-> "ok"]
    BY <1>1, <2>1 DEF PathCall
  <2>3. mkpath' = [mkpath EXCEPT ![t] = mkpath'[t]]
    BY <1>1, <2>1
  <2> QED
    BY <1>1, <1>3, <2>2, <2>3 DEF PathCall
<1> QED
  BY <1>2, <1>3

LEMMA SetStCall ==
  ASSUME PathTypeOK, NEW t \in Threads, mkpath[t].st # "none",
         NEW s \in {"create", "error"}, mkpath' = [mkpath EXCEPT ![t].st = s]
  PROVE  /\ mkpath' = [mkpath EXCEPT ![t] = mkpath'[t]]
         /\ mkpath'[t] \in PathCall
         /\ mkpath'[t].root = mkpath[t].root
         /\ mkpath'[t].at = mkpath[t].at
         /\ mkpath'[t].at \in DOMAIN PathOf[mkpath[t].root]
         /\ mkpath'[t].st = s
<1>1. /\ mkpath[t] \in PathCall /\ mkpath \in [Threads -> PathCall]
      /\ mkpath[t].at \in DOMAIN PathOf[mkpath[t].root]
  BY PathAssumption DEF PathTypeOK, PathCall
<1>2. mkpath'[t] = [root |-> mkpath[t].root, at |-> mkpath[t].at, st |-> s]
  BY <1>1 DEF PathCall
<1>3. mkpath' = [mkpath EXCEPT ![t] = mkpath'[t]]
  BY <1>1
<1> QED
  BY <1>1, <1>2, <1>3 DEF PathCall

(***************************************************************************)
(* One request of createPersistentPath: the record of the caller stays     *)
(* well formed, no other record changes and no znode disappears.           *)
(***************************************************************************)
LEMMA PathStepCall ==
  ASSUME PathTypeOK, NEW t \in Threads, PathStep(t)
  PROVE  /\ mkpath' = [mkpath EXCEPT ![t] = mkpath'[t]]
         /\ mkpath'[t] \in PathCall
         /\ mkpath'[t].root = mkpath[t].root
         /\ mkpath'[t].at \in DOMAIN PathOf[mkpath[t].root]
         /\ mkpath[t].st \in {"exists", "create"}
         /\ mkpath'[t].st # "none"
         /\ paths \subseteq paths'
         /\ paths' \subseteq Paths
<1>1. mkpath[t].st \in {"exists", "create"} /\ mkpath[t].st # "none"
  BY DEF PathStep, PathExists, PathCreate
<1>2. Target(t) \in Paths
  BY <1>1, PathAssumption DEF PathTypeOK, PathCall, Target
<1>3. paths \subseteq paths' /\ paths' \subseteq Paths
  BY <1>2 DEF PathStep, PathExists, PathCreate, PathTypeOK
<1>4. \/ NextPrefix(t)
      \/ \E s \in {"create", "error"} : mkpath' = [mkpath EXCEPT ![t].st = s]
  BY DEF PathStep, PathExists, PathCreate, PathThrow
<1>5. CASE NextPrefix(t)
  BY <1>1, <1>3, <1>5, NextPrefixCall
<1>6. CASE \E s \in {"create", "error"} : mkpath' = [mkpath EXCEPT ![t].st = s]
  <2>1. PICK s \in {"create", "error"} : mkpath' = [mkpath EXCEPT ![t].st = s]
    BY <1>6
  <2> QED
    BY <1>1, <1>3, <2>1, SetStCall
<1> QED
  BY <1>4, <1>5, <1>6

(***************************************************************************)
(* The loop over the prefixes: a request moves its caller past a prefix    *)
(* only when that prefix is there.                                         *)
(***************************************************************************)
LEMMA PathStepPrefixes ==
  ASSUME PathTypeOK, PrefixesMade, NEW t \in Threads, PathStep(t)
  PROVE  PrefixesMade'
<1> DEFINE m == mkpath[t]
           n == mkpath'[t]
           Made(root, k) == \A i \in 1 .. k : PathOf[root][i] \in paths'
<1>1. /\ mkpath' = [mkpath EXCEPT ![t] = n] /\ mkpath \in [Threads -> PathCall]
      /\ n \in PathCall
      /\ n.root = m.root
      /\ m.st \in {"exists", "create"}
      /\ paths \subseteq paths'
  BY PathStepCall DEF PathTypeOK
<1>2. /\ m.root \in Roots
      /\ DOMAIN PathOf[m.root] = 1 .. Len(PathOf[m.root])
      /\ m.at \in 1 .. Len(PathOf[m.root])
      /\ Len(PathOf[m.root]) \in Nat
  BY <1>1, PathAssumption DEF PathTypeOK, PathCall
<1>3. Made(m.root, m.at - 1)
  BY <1>1 DEF PrefixesMade
<1>4. /\ n.st \in {"exists", "create"} => Made(n.root, n.at - 1)
      /\ n.st = "ok" => Made(n.root, Len(PathOf[n.root]))
  <2>1. CASE NextPrefix(t)
    <3>1. PathOf[m.root][m.at] \in paths'
      <4>1. n.st \in {"exists", "ok"}
        BY <1>1, <2>1, NextPrefixCall
      <4>2. ASSUME NEW s \in {"create", "error"} PROVE mkpath' # [mkpath EXCEPT ![t].st = s]
        BY <1>1, <4>1, SetStCall
      <4>3. Target(t) \in paths'
        BY <4>2 DEF PathStep, PathExists, PathCreate, PathThrow
      <4> QED
        BY <4>3 DEF Target
    <3>2. Made(m.root, m.at)
      BY <1>2, <1>3, <3>1
    <3>3. \/ n.st = "exists" /\ n.at = m.at + 1
          \/ n.st = "ok" /\ m.at = Len(PathOf[m.root])
      BY <1>1, <2>1, NextPrefixCall
    <3> QED
      BY <1>1, <1>2, <3>2, <3>3
  <2>2. ASSUME NEW s \in {"create", "error"}, mkpath' = [mkpath EXCEPT ![t].st = s]
        PROVE  /\ n.st \in {"exists", "create"} => Made(n.root, n.at - 1)
               /\ n.st = "ok" => Made(n.root, Len(PathOf[n.root]))
    <3>1. n.at = m.at /\ n.st = s
      BY <1>1, <2>2, SetStCall
    <3> QED
      BY <1>1, <1>3, <3>1
  <2> QED
    BY <2>1, <2>2 DEF PathStep, PathExists, PathCreate, PathThrow
<1>5. ASSUME NEW u \in Threads
      PROVE  /\ mkpath'[u].st \in {"exists", "create"} =>
                   \A i \in 1 .. mkpath'[u].at - 1 : PathOf[mkpath'[u].root][i] \in paths'
             /\ mkpath'[u].st = "ok" =>
                   \A i \in DOMAIN PathOf[mkpath'[u].root] : PathOf[mkpath'[u].root][i] \in paths'
  <2>1. CASE u = t
    BY <1>1, <1>2, <1>4, <2>1
  <2>2. CASE u # t
    <3>1. mkpath'[u] = mkpath[u]
      BY <1>1, <2>2
    <3> QED
      BY <1>1, <3>1 DEF PrefixesMade, PathReady
  <2> QED
    BY <2>1, <2>2
<1> QED
  BY <1>5 DEF PrefixesMade, PathReady

(***************************************************************************)
(* Beginning a call, a request of it and its end keep the types.           *)
(***************************************************************************)
LEMMA PathBeginType ==
  ASSUME PathTypeOK, NEW t \in Threads, NEW root \in Roots, CreatePersistentPath(t, root),
         UNCHANGED <<expired, paths>>
  PROVE  PathTypeOK'
<1>1. 1 \in DOMAIN PathOf[root]
  BY PathAssumption
<1> QED
  BY <1>1 DEF CreatePersistentPath, PathTypeOK, PathCall

LEMMA PathStepType ==
  ASSUME PathTypeOK, NEW t \in Threads, PathStep(t), UNCHANGED expired
  PROVE  PathTypeOK'
  BY PathStepCall DEF PathTypeOK, PathCall

LEMMA PathReturnType ==
  ASSUME PathTypeOK, NEW t \in Threads, PathReturn(t), UNCHANGED <<expired, paths>>
  PROVE  PathTypeOK'
  BY NoCallType DEF PathTypeOK, PathReturn
==============================================================================
