-------------------------- MODULE CacheSystem_proofs --------------------------
(***************************************************************************)
(* Why an entry of the cache is stale only after a race or a missed        *)
(* eviction, and why a visit is counted once, for any number of threads,   *)
(* jobs, fields, places and failures.                                      *)
(***************************************************************************)
EXTENDS CacheSystem, FiniteSetTheorems, WellFoundedInduction, TLAPS

\* Steps that neither fill nor evict, and the others.
Aside == {"idle", "target", "readCache", "readCounts", "writeCounts", "countInSql",
          "readTable", "updateTable", "removeTable"}

Steps == Aside \cup {"proceed", "writerCache", "removeCache", "update"}

(***************************************************************************)
(* What the steps of Cache and CacheEvict find in the variables they use.  *)
(***************************************************************************)
StaleTypeOK ==
    /\ entries \in [Fields -> Values \cup {NoValue}]
    /\ counts \in [Places -> Counts]
    /\ record \in Values \cup {NoValue}
    /\ raced \subseteq Threads
    /\ excused \subseteq Fields
    /\ pc \in [Procs -> Steps]
    /\ at \in [Procs -> Fields \cup {NoValue} \cup (Places \X Ids)]
    /\ pos \in [Procs -> Nat]
    /\ copy \in [Procs -> Values \cup {NoValue} \cup Counts]

\* The arguments of a call at each of its steps.
ArgumentsOK ==
    /\ \A p \in Procs : pc[p] = "idle" => pos[p] = 1
    /\ \A t \in Threads :
          /\ pc[t] \in {"readCache", "proceed", "writerCache"} => at[t] \in Fields
          /\ pc[t] = "writerCache" => copy[t] \in Values
          /\ pc[t] = "removeCache" => pos[t] \in 1 .. Len(EvictFields)
          /\ pc[t] \in {"readCounts", "writeCounts", "countInSql"} => at[t] \in Places \X Ids
          /\ pc[t] = "writeCounts" => copy[t] \in Counts
    /\ \A j \in Jobs :
          pc[j] \in {"readTable", "updateTable", "removeTable"} => pos[j] \in 1 .. Len(JobList)

Clean(f) == entries[f] = NoValue \/ f \in excused

\* No update is under way while a reader whose miss did not overlap one is
\* about to fill, and what it has read is the record.
FillsSafe ==
    \A t \in Threads :
        pc[t] \in {"proceed", "writerCache"} /\ t \notin raced =>
            /\ Updating = {}
            /\ pc[t] = "writerCache" => copy[t] = record

\* What an update has evicted is away, or filled by a reader that raced it.
EvictionHolds ==
    \A t \in Threads :
        /\ pc[t] = "removeCache" => \A i \in 1 .. pos[t] - 1 : Clean(EvictFields[i])
        /\ pc[t] = "update" => \A f \in Fields : Clean(f)

StaleInv == StaleTypeOK /\ ArgumentsOK /\ FillsSafe /\ EvictionHolds /\ StaleOnlyByRace

(***************************************************************************)
(* The steps of EvictFields are fields, and every field is among them.     *)
(***************************************************************************)
LEMMA EvictsAll ==
    /\ Len(EvictFields) \in Nat \ {0}
    /\ \A i \in 1 .. Len(EvictFields) : EvictFields[i] \in Fields
    /\ \A f \in Fields : \E i \in 1 .. Len(EvictFields) : EvictFields[i] = f
  BY CacheAnnotationAssumption

LEMMA NoneCounts == None \in Counts
  BY DEF None, Counts

LEMMA StaleInit == Init => StaleInv
<1> SUFFICES ASSUME Init PROVE StaleInv
  OBVIOUS
<1> USE DEF Init, ProviderInit, AspectInit, Procs
<1>1. StaleTypeOK
  BY NoneCounts DEF StaleTypeOK, Steps, Aside
<1>2. ArgumentsOK
  BY DEF ArgumentsOK
<1>3. FillsSafe /\ EvictionHolds /\ StaleOnlyByRace
  BY DEF FillsSafe, EvictionHolds, StaleOnlyByRace
<1> QED
  BY <1>1, <1>2, <1>3 DEF StaleInv

(***************************************************************************)
(* A step that moves one process to or from a step that neither fills nor  *)
(* evicts, and leaves entries and record alone, cannot disturb the rest.   *)
(***************************************************************************)
LEMMA AsideSafe ==
  ASSUME StaleInv, NEW p \in Procs, NEW s \in Aside,
         pc' = [pc EXCEPT ![p] = s],
         \A q \in Procs \ {p} : pos'[q] = pos[q] /\ copy'[q] = copy[q],
         UNCHANGED <<entries, record, raced, excused>>
  PROVE  FillsSafe' /\ EvictionHolds' /\ StaleOnlyByRace'
<1>1. FillsSafe'
  <2>1. Updating' \subseteq Updating
    BY DEF StaleInv, StaleTypeOK, Updating, Aside, Steps, Procs
  <2> QED
    BY <2>1 DEF StaleInv, StaleTypeOK, FillsSafe, Aside, Procs
<1>2. EvictionHolds' /\ StaleOnlyByRace'
  BY DEF StaleInv, StaleTypeOK, EvictionHolds, StaleOnlyByRace, Clean, Aside, Procs
<1> QED
  BY <1>1, <1>2
LEMMA ReturnSafe ==
  ASSUME StaleInv, NEW p \in Procs, Return(p), UNCHANGED <<entries, record, raced, excused>>
  PROVE  FillsSafe' /\ EvictionHolds' /\ StaleOnlyByRace'
<1>1. \A q \in Procs \ {p} : pos'[q] = pos[q] /\ copy'[q] = copy[q]
  BY DEF StaleInv, StaleTypeOK, Return
<1> QED
  BY <1>1, AsideSafe DEF Return, Aside

LEMMA StepSafe ==
  ASSUME StaleInv, NEW p \in Procs, NEW s \in Aside, Step(p, s),
         UNCHANGED <<entries, record, raced, excused>>
  PROVE  FillsSafe' /\ EvictionHolds' /\ StaleOnlyByRace'
<1>1. \A q \in Procs \ {p} : pos'[q] = pos[q] /\ copy'[q] = copy[q]
  BY DEF Step
<1> QED
  BY <1>1, AsideSafe DEF Step

LEMMA KeepSafe ==
  ASSUME StaleInv, NEW p \in Procs, NEW s \in Aside, NEW read, Keep(p, s, read),
         UNCHANGED <<entries, record, raced, excused>>
  PROVE  FillsSafe' /\ EvictionHolds' /\ StaleOnlyByRace'
<1>1. \A q \in Procs \ {p} : pos'[q] = pos[q] /\ copy'[q] = copy[q]
  BY DEF StaleInv, StaleTypeOK, Keep
<1> QED
  BY <1>1, AsideSafe DEF Keep

(***************************************************************************)
(* Calls.                                                                  *)
(***************************************************************************)
LEMMA StartSafe ==
  ASSUME StaleInv, NEW t \in Threads, Start(t)
  PROVE  StaleInv'
<1> USE DEF StaleInv, Call, Procs, providerVars, countVars, staleVars
<1>1. ASSUME NEW f \in Fields, DoCacheProfiling(t, f) PROVE StaleInv'
  <2>0. PICK s \in {"readCache", "target"} : Call(t, s, f)
    BY <1>1 DEF DoCacheProfiling
  <2>1. StaleTypeOK'
    BY <1>1, <2>0 DEF StaleTypeOK, Steps, Aside, DoCacheProfiling
  <2>2. ArgumentsOK'
    BY <1>1, <2>0, CachePoolAssumption DEF StaleTypeOK, ArgumentsOK, DoCacheProfiling
  <2>3. FillsSafe' /\ EvictionHolds' /\ StaleOnlyByRace'
    BY <1>1, <2>0, AsideSafe DEF DoCacheProfiling, Aside
  <2> QED
    BY <2>1, <2>2, <2>3
<1>2. ASSUME DoEvictCacheProfiling(t) PROVE StaleInv'
  <2>0. PICK s \in {"removeCache", "update"} :
           /\ Call(t, s, NoValue)
           /\ s = "update" => excused' = Fields
           /\ s = "removeCache" => excused' = excused
    BY <1>2 DEF DoEvictCacheProfiling
  <2>1. StaleTypeOK'
    BY <1>2, <2>0 DEF StaleTypeOK, Steps, Aside, DoEvictCacheProfiling, Missed
  <2>2. ArgumentsOK'
    BY <1>2, <2>0, CachePoolAssumption, EvictsAll
    DEF StaleTypeOK, ArgumentsOK, DoEvictCacheProfiling
  <2>3. FillsSafe'
    BY <1>2, <2>0 DEF StaleTypeOK, FillsSafe, DoEvictCacheProfiling, Missed
  <2>4. EvictionHolds'
    BY <1>2, <2>0, EvictsAll DEF StaleTypeOK, ArgumentsOK, EvictionHolds, DoEvictCacheProfiling, Clean
  <2>5. StaleOnlyByRace'
    BY <1>2, <2>0 DEF StaleTypeOK, StaleOnlyByRace, DoEvictCacheProfiling
  <2> QED
    BY <2>1, <2>2, <2>3, <2>4, <2>5
<1>3. ASSUME NEW pl \in Places, NEW id \in Ids, VisitorCacheProfiling(t, pl, id)
      PROVE  StaleInv'
  <2>0. PICK s \in {"countInSql", "readCounts"} : Call(t, s, <<pl, id>>)
    BY <1>3 DEF VisitorCacheProfiling
  <2>1. StaleTypeOK'
    BY <1>3, <2>0 DEF StaleTypeOK, Steps, Aside, VisitorCacheProfiling
  <2>2. ArgumentsOK'
    BY <1>3, <2>0, CachePoolAssumption DEF StaleTypeOK, ArgumentsOK, VisitorCacheProfiling
  <2>3. FillsSafe' /\ EvictionHolds' /\ StaleOnlyByRace'
    BY <1>3, <2>0, AsideSafe DEF VisitorCacheProfiling, Aside
  <2> QED
    BY <2>1, <2>2, <2>3
<1> QED
  BY <1>1, <1>2, <1>3 DEF Start

(***************************************************************************)
(* Steps of Cache.                                                         *)
(***************************************************************************)
LEMMA CacheStepsSafe ==
  ASSUME StaleInv, NEW t \in Threads,
         ReadCache(t) \/ Proceed(t) \/ WriteEntry(t) \/ Target(t)
  PROVE  StaleInv'
<1> USE DEF StaleInv, Procs, countVars, staleVars, providerVars, NoRedis
<1>1. ASSUME ReadCache(t) PROVE StaleInv'
  <2>0. PICK s \in {"idle", "proceed", "target"} :
           /\ pc' = [pc EXCEPT ![t] = s]
           /\ s = "idle" => Return(t)
           /\ s # "idle" => Step(t, s)
           /\ IF s = "proceed" THEN raced' = IF Updating = {} THEN raced \ {t} ELSE raced \cup {t}
                              ELSE raced' = raced
    BY <1>1 DEF ReadCache, Return, Step
  <2>1. StaleTypeOK'
    BY <1>1, <2>0 DEF StaleTypeOK, ReadCache, Return, Step, Steps, Aside
  <2>2. ArgumentsOK'
    BY <1>1, <2>0, CachePoolAssumption
    DEF StaleTypeOK, ArgumentsOK, ReadCache, Return, Step, Steps, Aside
  <2>3. CASE s # "proceed"
    <3>1. Return(t) \/ Step(t, "target")
      BY <2>0, <2>3
    <3> QED
      BY <1>1, <2>0, <2>1, <2>2, <2>3, <3>1, ReturnSafe, StepSafe DEF ReadCache, Aside
  <2>4. CASE s = "proceed"
    <3>1. Updating' = Updating
      BY <1>1, <2>0, <2>4 DEF StaleTypeOK, ReadCache, Updating
    <3>2. FillsSafe'
      BY <1>1, <2>0, <2>4, <3>1 DEF StaleTypeOK, FillsSafe, ReadCache, Step
    <3>3. EvictionHolds' /\ StaleOnlyByRace'
      BY <1>1, <2>0, <2>4 DEF StaleTypeOK, EvictionHolds, StaleOnlyByRace, Clean, ReadCache, Step
    <3> QED
      BY <2>1, <2>2, <3>2, <3>3
  <2> QED
    BY <2>3, <2>4
<1>2. ASSUME Proceed(t) PROVE StaleInv'
  <2>1. StaleTypeOK'
    BY <1>2 DEF StaleTypeOK, Proceed, Return, Keep, Step, Steps, Aside
  <2>2. ArgumentsOK'
    BY <1>2, CachePoolAssumption
    DEF StaleTypeOK, ArgumentsOK, Proceed, Return, Keep, Step, Steps, Aside
  <2>3. CASE Keep(t, "writerCache", record)
    <3>1. Updating' = Updating
      BY <1>2, <2>3 DEF StaleTypeOK, Proceed, Keep, Updating
    <3>2. FillsSafe'
      BY <1>2, <2>3, <3>1 DEF StaleTypeOK, FillsSafe, Proceed, Keep
    <3>3. EvictionHolds' /\ StaleOnlyByRace'
      BY <1>2, <2>3 DEF StaleTypeOK, EvictionHolds, StaleOnlyByRace, Clean, Proceed, Keep
    <3> QED
      BY <2>1, <2>2, <3>2, <3>3
  <2>4. CASE Return(t) \/ Step(t, "target")
    BY <1>2, <2>1, <2>2, <2>4, ReturnSafe, StepSafe DEF Proceed, Aside
  <2> QED
    BY <1>2, <2>3, <2>4 DEF Proceed
<1>3. ASSUME WriteEntry(t) PROVE StaleInv'
  <2>0. PICK s \in {"idle", "target"} :
           /\ pc' = [pc EXCEPT ![t] = s]
           /\ s = "idle" => Return(t)
           /\ s # "idle" => Step(t, s)
    BY <1>3 DEF WriteEntry, Return, Step
  <2>1. Fill(t) \/ UNCHANGED <<entries, excused>>
    BY <1>3 DEF WriteEntry
  <2>2. /\ pc[t] = "writerCache" /\ at[t] \in Fields /\ copy[t] \in Values
        /\ UNCHANGED <<record, raced>> /\ counts' = counts
    BY <1>3 DEF WriteEntry, Fill, WriterCache, ArgumentsOK
  <2>3. StaleTypeOK'
    BY <2>0, <2>1, <2>2
    DEF StaleTypeOK, Fill, WriterCache, Return, Step, Steps, Aside
  <2>4. ArgumentsOK'
    BY <2>0, <2>2, CachePoolAssumption DEF StaleTypeOK, ArgumentsOK, Return, Step
  <2>5. FillsSafe'
    <3>1. Updating' = Updating
      BY <2>0, <2>2 DEF StaleTypeOK, Updating
    <3> QED
      BY <2>0, <2>2, <3>1 DEF StaleTypeOK, FillsSafe, Return, Step
  <2>6. EvictionHolds'
    <3>1. ASSUME t \notin raced, Fill(t) PROVE EvictionHolds'
      <4>1. \A u \in Threads : pc[u] \notin {"removeCache", "update"}
        BY <3>1, <2>2 DEF FillsSafe, Updating
      <4> QED
        BY <2>0, <2>2, <4>1 DEF StaleTypeOK, EvictionHolds
    <3>2. ASSUME t \in raced, Fill(t) PROVE EvictionHolds'
      <4>1. \A f \in Fields : Clean(f) => Clean(f)'
        BY <3>2, <2>2 DEF StaleTypeOK, Fill, WriterCache, Clean
      <4> QED
        BY <2>0, <2>2, <4>1, EvictsAll
        DEF StaleTypeOK, ArgumentsOK, EvictionHolds, Return, Step
    <3> QED
      BY <2>0, <2>1, <2>2, <3>1, <3>2
      DEF StaleTypeOK, EvictionHolds, Return, Step, Clean
  <2>7. StaleOnlyByRace'
    BY <2>1, <2>2 DEF StaleTypeOK, StaleOnlyByRace, FillsSafe, Fill, WriterCache
  <2> QED
    BY <2>3, <2>4, <2>5, <2>6, <2>7
<1>4. ASSUME Target(t) PROVE StaleInv'
  <2>1. StaleTypeOK'
    BY <1>4 DEF StaleTypeOK, Target, Return, Steps, Aside
  <2>2. ArgumentsOK'
    BY <1>4, CachePoolAssumption DEF StaleTypeOK, ArgumentsOK, Target, Return
  <2> QED
    BY <1>4, <2>1, <2>2, ReturnSafe DEF Target
<1> QED
  BY <1>1, <1>2, <1>3, <1>4

(***************************************************************************)
(* Steps of CacheEvict.                                                    *)
(***************************************************************************)
LEMMA EvictStepsSafe ==
  ASSUME StaleInv, NEW t \in Threads, RemoveEntry(t) \/ Update(t)
  PROVE  StaleInv'
<1> USE DEF StaleInv, Procs, countVars, staleVars, NoRedis
<1>1. ASSUME RemoveEntry(t) PROVE StaleInv'
  <2>n. PICK n \in 1 .. Len(EvictFields) : n = pos[t]
    BY <1>1 DEF RemoveEntry, ArgumentsOK
  <2>e. PICK e \in Fields : e = EvictFields[n]
    BY EvictsAll
  <2> USE <2>n, <2>e
  <2>0. /\ pc[t] = "removeCache"
        /\ UNCHANGED <<record, raced, counts, at, copy>>
        /\ RemoveCache(e) \/ entries' = entries
    BY <1>1, EvictsAll
    DEF RemoveEntry, ArgumentsOK, RemoveCache, WriterCache, NextField, Step
  <2>1. \/ RemoveCache(e) /\ NextField(t) /\ excused' = excused
        \/ /\ Step(t, "update")
           /\ excused' = excused \cup {EvictFields[i] : i \in n .. Len(EvictFields)}
    BY <1>1 DEF RemoveEntry
  <2>2. PICK s \in {"removeCache", "update"} :
           /\ pc' = [pc EXCEPT ![t] = s]
           /\ s = "removeCache" => n # Len(EvictFields) /\ pos' = [pos EXCEPT ![t] = n + 1]
           /\ s = "update" => pos' = pos
           /\ s = "update" => n = Len(EvictFields) \/ Step(t, "update")
    BY <2>0, <2>1 DEF StaleTypeOK, NextField, Step
  <2>3. \A f \in Fields : Clean(f) => Clean(f)'
    BY <2>0, <2>1 DEF StaleTypeOK, Clean, RemoveCache, WriterCache
  <2>4. StaleTypeOK'
    <3>1. excused' \subseteq Fields
      BY <2>1, EvictsAll DEF StaleTypeOK
    <3>2. entries' \in [Fields -> Values \cup {NoValue}]
      BY <2>0 DEF StaleTypeOK, RemoveCache, WriterCache
    <3>3. pc' \in [Procs -> Steps] /\ pos' \in [Procs -> Nat]
      <4>1. pc' \in [Procs -> Steps]
        BY <2>2 DEF StaleTypeOK, Steps
      <4>2. n + 1 \in Nat
        BY EvictsAll
      <4>3. CASE s = "removeCache"
        BY <2>2, <4>1, <4>2, <4>3 DEF StaleTypeOK
      <4>4. CASE s = "update"
        BY <2>2, <4>1, <4>4 DEF StaleTypeOK
      <4> QED
        BY <4>3, <4>4
    <3> QED
      BY <2>0, <3>1, <3>2, <3>3 DEF StaleTypeOK
  <2>5. ArgumentsOK'
    BY <2>0, <2>2, EvictsAll, CachePoolAssumption DEF StaleTypeOK, ArgumentsOK
  <2>6. FillsSafe'
    <3>1. \A u \in Threads : pc[u] \in {"proceed", "writerCache"} => u \in raced
      BY <2>0 DEF FillsSafe, Updating
    <3> QED
      BY <2>0, <2>2, <3>1 DEF StaleTypeOK, FillsSafe
  <2>7. EvictionHolds'
    <3>1. \A i \in 1 .. n - 1 : Clean(EvictFields[i])'
      BY <2>0, <2>3, EvictsAll DEF EvictionHolds
    <3>2. CASE RemoveCache(e) /\ NextField(t) /\ excused' = excused
      <4>1. Clean(e)'
        BY <2>0, <3>2 DEF StaleTypeOK, Clean, RemoveCache, WriterCache
      <4>2. \A i \in 1 .. n : Clean(EvictFields[i])'
        BY <2>0, <3>1, <4>1, EvictsAll
      <4>3. s = "update" => n = Len(EvictFields)
        BY <2>0, <2>2, <3>2 DEF StaleTypeOK, NextField
      <4>4. s = "update" => \A f \in Fields : Clean(f)'
        BY <4>2, <4>3, EvictsAll
      <4> QED
        BY <2>0, <2>2, <2>3, <4>2, <4>4, EvictsAll
        DEF StaleTypeOK, ArgumentsOK, EvictionHolds
    <3>3. CASE /\ Step(t, "update")
               /\ excused' = excused \cup {EvictFields[i] : i \in n .. Len(EvictFields)}
      <4>1. \A i \in n .. Len(EvictFields) : Clean(EvictFields[i])'
        BY <3>3 DEF Clean
      <4>2. \A f \in Fields : Clean(f)'
        BY <2>0, <3>1, <4>1, EvictsAll
      <4> QED
        BY <2>0, <2>3, <3>3, <4>2, EvictsAll
        DEF StaleTypeOK, ArgumentsOK, EvictionHolds, Step
    <3> QED
      BY <2>1, <3>2, <3>3
  <2>8. StaleOnlyByRace'
    BY <2>0, <2>1 DEF StaleTypeOK, StaleOnlyByRace, RemoveCache, WriterCache
  <2> QED
    BY <2>4, <2>5, <2>6, <2>7, <2>8
<1>2. ASSUME Update(t) PROVE StaleInv'
  <2>0. /\ pc[t] = "update" /\ Return(t)
        /\ UNCHANGED <<entries, counts, raced, excused>>
        /\ record' \in Values \cup {NoValue}
    BY <1>2 DEF Update, StaleTypeOK
  <2>1. StaleTypeOK'
    BY <2>0 DEF StaleTypeOK, Return, Steps, Aside
  <2>2. ArgumentsOK'
    BY <2>0, CachePoolAssumption DEF StaleTypeOK, ArgumentsOK, Return
  <2>3. FillsSafe'
    <3>1. \A u \in Threads : pc[u] \in {"proceed", "writerCache"} => u \in raced
      BY <2>0 DEF FillsSafe, Updating
    <3> QED
      BY <2>0, <3>1 DEF StaleTypeOK, FillsSafe, Return
  <2>4. EvictionHolds'
    BY <2>0 DEF StaleTypeOK, EvictionHolds, Return, Clean
  <2>5. StaleOnlyByRace'
    BY <2>0 DEF StaleTypeOK, EvictionHolds, StaleOnlyByRace, Clean
  <2> QED
    BY <2>1, <2>2, <2>3, <2>4, <2>5
<1> QED
  BY <1>1, <1>2

(***************************************************************************)
(* Steps of VisitorCache and of the job.                                   *)
(***************************************************************************)
LEMMA VisitStepsSafe ==
  ASSUME StaleInv, NEW t \in Threads,
         ReadCounts(t) \/ WriteCounts(t) \/ UpdateVisitorCountWhenNotCache(t)
  PROVE  StaleInv'
<1> USE DEF StaleInv, Procs, countVars, staleVars, NoRedis
<1>1. ASSUME ReadCounts(t) PROVE StaleInv'
  <2>0. PICK read \in Counts : Keep(t, "writeCounts", read) \/ Step(t, "countInSql")
    BY <1>1 DEF ReadCounts, StaleTypeOK, ArgumentsOK
  <2>1. StaleTypeOK'
    BY <1>1, <2>0 DEF StaleTypeOK, ReadCounts, Keep, Step, Steps, Aside
  <2>2. ArgumentsOK'
    BY <1>1, <2>0, CachePoolAssumption
    DEF StaleTypeOK, ArgumentsOK, ReadCounts, Keep, Step
  <2> QED
    BY <1>1, <2>0, <2>1, <2>2, KeepSafe, StepSafe DEF ReadCounts, Aside
<1>2. ASSUME WriteCounts(t) PROVE StaleInv'
  <2>0. /\ Return(t) \/ Step(t, "countInSql")
        /\ pc[t] = "writeCounts"
        /\ UNCHANGED <<entries, record, raced, excused>>
    BY <1>2 DEF WriteCounts, WriterCounts
  <2>1. counts' \in [Places -> Counts]
    <3> DEFINE pl == at[t][1]
               id == at[t][2]
               m == [copy[t] EXCEPT ![id] = @ + 1]
    <3>1. pl \in Places /\ id \in Ids /\ copy[t] \in Counts
      BY <2>0 DEF ArgumentsOK
    <3>2. m \in Counts
      BY <3>1 DEF Counts
    <3>3. counts' = counts \/ counts' = [counts EXCEPT ![pl] = m]
      BY <1>2 DEF WriteCounts, WriterCounts
    <3> QED
      BY <3>1, <3>2, <3>3 DEF StaleTypeOK
  <2>2. StaleTypeOK'
    BY <2>0, <2>1 DEF StaleTypeOK, Return, Step, Steps, Aside
  <2>3. ArgumentsOK'
    BY <2>0, CachePoolAssumption DEF StaleTypeOK, ArgumentsOK, Return, Step
  <2> QED
    BY <2>0, <2>2, <2>3, ReturnSafe, StepSafe DEF Aside
<1>3. ASSUME UpdateVisitorCountWhenNotCache(t) PROVE StaleInv'
  <2>0. Return(t) /\ UNCHANGED <<entries, counts, record, raced, excused>>
    BY <1>3 DEF UpdateVisitorCountWhenNotCache
  <2>1. StaleTypeOK'
    BY <2>0 DEF StaleTypeOK, Return, Steps, Aside
  <2>2. ArgumentsOK'
    BY <2>0, CachePoolAssumption DEF StaleTypeOK, ArgumentsOK, Return
  <2> QED
    BY <2>0, <2>1, <2>2, ReturnSafe
<1> QED
  BY <1>1, <1>2, <1>3

LEMMA NextTableSafe ==
  ASSUME StaleInv, NEW j \in Jobs, pc[j] \in {"readTable", "removeTable"}, NextTable(j),
         UNCHANGED <<entries, record, raced, excused>>, counts' \in [Places -> Counts]
  PROVE  StaleInv'
<1> USE DEF StaleInv, Procs
<1>0. pos[j] \in 1 .. Len(JobList) /\ Len(JobList) \in Nat
  BY CacheJobAssumption DEF ArgumentsOK
<1>1. CASE Return(j)
  <2>1. StaleTypeOK'
    BY <1>1 DEF StaleTypeOK, Return, Steps, Aside
  <2>2. ArgumentsOK'
    BY <1>1, CachePoolAssumption DEF StaleTypeOK, ArgumentsOK, Return
  <2> QED
    BY <1>1, <2>1, <2>2, ReturnSafe
<1>2. CASE pos[j] # Len(JobList)
  <2>0. /\ pc' = [pc EXCEPT ![j] = "readTable"]
        /\ pos' = [pos EXCEPT ![j] = @ + 1]
        /\ copy' = [copy EXCEPT ![j] = NoValue]
        /\ at' = at
    BY <1>2 DEF NextTable
  <2>1. StaleTypeOK'
    BY <1>0, <2>0 DEF StaleTypeOK, Steps, Aside
  <2>2. ArgumentsOK'
    BY <1>0, <1>2, <2>0, CachePoolAssumption DEF StaleTypeOK, ArgumentsOK
  <2>3. \A q \in Procs \ {j} : pos'[q] = pos[q] /\ copy'[q] = copy[q]
    BY <2>0 DEF StaleTypeOK
  <2>4. "readTable" \in Aside
    BY DEF Aside
  <2>5. FillsSafe' /\ EvictionHolds' /\ StaleOnlyByRace'
    BY <2>0, <2>3, <2>4, AsideSafe
  <2> QED
    BY <2>1, <2>2, <2>5
<1> QED
  BY <1>1, <1>2 DEF NextTable

LEMMA JobStepsSafe ==
  ASSUME StaleInv, NEW j \in Jobs, Run(j) \/ InRun(j)
  PROVE  StaleInv'
<1> USE DEF StaleInv, Procs, countVars, staleVars, providerVars, NoRedis
<1>a. ASSUME Return(j), UNCHANGED <<entries, record, raced, excused>>,
             counts' \in [Places -> Counts]
      PROVE  StaleInv'
  <2>1. StaleTypeOK'
    BY <1>a DEF StaleTypeOK, Return, Steps, Aside
  <2>2. ArgumentsOK'
    BY <1>a, CachePoolAssumption DEF StaleTypeOK, ArgumentsOK, Return
  <2> QED
    BY <1>a, <2>1, <2>2, ReturnSafe
<1>1. ASSUME Run(j) PROVE StaleInv'
  <2>0. Call(j, "readTable", NoValue) /\ UNCHANGED <<record, raced, excused>>
    BY <1>1 DEF Run
  <2>1. StaleTypeOK'
    BY <2>0 DEF StaleTypeOK, Call, Steps, Aside
  <2>2. ArgumentsOK'
    BY <2>0, CachePoolAssumption, CacheJobAssumption DEF StaleTypeOK, ArgumentsOK, Call
  <2>3. FillsSafe' /\ EvictionHolds' /\ StaleOnlyByRace'
    BY <2>0, AsideSafe DEF Call, Aside
  <2> QED
    BY <2>1, <2>2, <2>3
<1>2. ASSUME ReadTable(j) PROVE StaleInv'
  <2>0. /\ pc[j] = "readTable"
        /\ UNCHANGED <<entries, counts, record, raced, excused>>
        /\ counts' \in [Places -> Counts]
    BY <1>2 DEF ReadTable, StaleTypeOK
  <2>1. CASE NextTable(j)
    BY <2>0, <2>1, NextTableSafe
  <2>2. CASE Return(j)
    BY <2>0, <2>2, <1>a
  <2>3. ASSUME NEW read \in Counts, Keep(j, "updateTable", read) PROVE StaleInv'
    <3>1. StaleTypeOK'
      BY <2>0, <2>3 DEF StaleTypeOK, Keep, Steps, Aside
    <3>2. ArgumentsOK'
      BY <2>0, <2>3, CachePoolAssumption DEF StaleTypeOK, ArgumentsOK, Keep
    <3> QED
      BY <2>0, <2>3, <3>1, <3>2, KeepSafe DEF Aside
  <2>4. counts[JobList[pos[j]]] \in Counts
    BY <2>0, CacheJobAssumption DEF StaleTypeOK, ArgumentsOK
  <2> QED
    BY <1>2, <2>1, <2>2, <2>3, <2>4 DEF ReadTable
<1>3. ASSUME UpdateTable(j) PROVE StaleInv'
  <2>0. /\ pc[j] = "updateTable"
        /\ UNCHANGED <<entries, counts, record, raced, excused>>
        /\ counts' \in [Places -> Counts]
        /\ Return(j) \/ Step(j, "removeTable")
    BY <1>3 DEF UpdateTable, StaleTypeOK
  <2>1. CASE Step(j, "removeTable")
    <3>1. StaleTypeOK'
      BY <2>0, <2>1 DEF StaleTypeOK, Step, Steps, Aside
    <3>2. ArgumentsOK'
      BY <2>0, <2>1, CachePoolAssumption DEF StaleTypeOK, ArgumentsOK, Step
    <3> QED
      BY <2>0, <2>1, <3>1, <3>2, StepSafe DEF Aside
  <2> QED
    BY <2>0, <2>1, <1>a
<1>4. ASSUME RemoveTable(j) PROVE StaleInv'
  <2>0. /\ pc[j] = "removeTable"
        /\ UNCHANGED <<entries, record, raced, excused>>
        /\ NextTable(j) \/ Return(j)
        /\ counts' = counts \/ counts' = [counts EXCEPT ![JobList[pos[j]]] = None]
    BY <1>4 DEF RemoveTable, RemoveCounts, WriterCounts
  <2>1. JobList[pos[j]] \in Places
    BY <2>0, CacheJobAssumption DEF ArgumentsOK
  <2>2. counts' \in [Places -> Counts]
    BY <2>0, <2>1, NoneCounts DEF StaleTypeOK
  <2> QED
    BY <2>0, <2>2, <1>a, NextTableSafe
<1> QED
  BY <1>1, <1>2, <1>3, <1>4 DEF InRun

LEMMA ConnectSafe ==
  ASSUME StaleInv, NEW p \in Procs, Connect(p)
  PROVE  StaleInv'
<1>0. UNCHANGED <<entries, counts, record, raced, excused>>
  BY DEF Connect, NoRedis, staleVars
<1>1. CASE Return(p)
  <2>1. StaleTypeOK'
    BY <1>0, <1>1 DEF StaleInv, StaleTypeOK, Return, Steps, Aside
  <2>2. ArgumentsOK'
    BY <1>1, CachePoolAssumption DEF StaleInv, StaleTypeOK, ArgumentsOK, Return, Procs
  <2> QED
    BY <1>0, <1>1, <2>1, <2>2, ReturnSafe DEF StaleInv
<1>2. CASE UNCHANGED callVars
  BY <1>0, <1>2 DEF callVars, StaleInv, StaleTypeOK, ArgumentsOK, FillsSafe, EvictionHolds,
              StaleOnlyByRace, Clean, Updating
<1> QED
  BY <1>1, <1>2 DEF Connect

(***************************************************************************)
(* An entry is stale only if the read that filled it overlapped an update, *)
(* or an update did not evict it.                                          *)
(***************************************************************************)
LEMMA StaleNext == StaleInv /\ [Next]_vars => StaleInv'
<1> SUFFICES ASSUME StaleInv, [Next]_vars PROVE StaleInv'
  OBVIOUS
<1> USE DEF StaleInv, Procs, callVars, countVars, staleVars, providerVars
<1>1. ASSUME NEW p \in Procs, Borrow(p) \/ Connect(p) PROVE StaleInv'
  BY <1>1, ConnectSafe
  DEF Borrow, GetRedis, StaleTypeOK, ArgumentsOK, FillsSafe, EvictionHolds,
      StaleOnlyByRace, Clean, Updating
<1>2. ASSUME NEW t \in Threads, Start(t) \/ InCall(t) PROVE StaleInv'
  BY <1>2, StartSafe, CacheStepsSafe, EvictStepsSafe, VisitStepsSafe DEF InCall
<1>3. ASSUME NEW j \in Jobs, Run(j) \/ InRun(j) PROVE StaleInv'
  BY <1>3, JobStepsSafe
<1>4. ASSUME Expired PROVE StaleInv'
  <2>1. StaleTypeOK' /\ ArgumentsOK'
    BY <1>4 DEF Expired, Expire, StaleTypeOK, ArgumentsOK
  <2>2. FillsSafe'
    BY <1>4 DEF Expired, Expire, FillsSafe, Updating
  <2>3. \A f \in Fields : entries'[f] = NoValue
    BY <1>4 DEF Expired, Expire
  <2>4. EvictionHolds'
    BY <1>4, <2>3, EvictsAll
    DEF Expired, Expire, StaleTypeOK, ArgumentsOK, EvictionHolds, Clean
  <2> QED
    BY <2>1, <2>2, <2>3, <2>4 DEF StaleOnlyByRace
<1>5. ASSUME UNCHANGED vars PROVE StaleInv'
  BY <1>5 DEF vars, StaleTypeOK, ArgumentsOK, FillsSafe, EvictionHolds,
              StaleOnlyByRace, Clean, Updating
<1> QED
  BY <1>1, <1>2, <1>3, <1>4, <1>5 DEF Next

THEOREM EntryStaleOnlyByRace == Spec => []StaleOnlyByRace
<1>1. StaleInv => StaleOnlyByRace
  BY DEF StaleInv
<1> QED
  BY <1>1, StaleInit, StaleNext, PTL DEF Spec
-----------------------------------------------------------------------------
\* The sum of CountsExact, for any map of what each job has read.
Sum(c, id, S) == MapThenSumSet(LAMBDA j : c[j][id], S)

\* The function by which MapThenSumSet adds up, one element after the other.
First(s) == CHOOSE x \in s : TRUE
Term(c, id, g, s) == IF s = {} THEN 0 ELSE c[First(s)][id] + g[s \ {First(s)}]
IsSum(g, c, id, S) == g = [s \in SUBSET S |-> Term(c, id, g, s)]

LEMMA SumChosen ==
  ASSUME NEW c, NEW id, NEW S
  PROVE  Sum(c, id, S) = (CHOOSE g : IsSum(g, c, id, S))[S]
  BY DEF Sum, MapThenSumSet, MapThenFoldSet, IsSum, Term, First

(***************************************************************************)
(* Induction over the subsets of a finite set: of those for which a fact   *)
(* fails there is one with no smaller one in it.                           *)
(***************************************************************************)
LEMMA Minimal ==
  ASSUME NEW S, IsFiniteSet(S), NEW B \in SUBSET SUBSET S, B # {}
  PROVE  \E T \in B : \A U \in B : ~(U \subseteq T /\ U # T)
<1>1. IsWellFoundedOn(StrictSubsetOrdering(S), SUBSET S)
  BY FS_StrictSubsetOrderingWellFounded, FS_FiniteSubsetsOfFinite
<1>2. PICK T \in B : \A U \in B : ~(<<U, T>> \in StrictSubsetOrdering(S))
  BY <1>1, WFMin
<1> QED
  BY <1>2 DEF StrictSubsetOrdering

\* Two such functions agree where both are defined.
LEMMA SumUnique ==
  ASSUME NEW c, NEW id, NEW S, NEW T, NEW g, NEW h, IsFiniteSet(S),
         IsSum(g, c, id, S), IsSum(h, c, id, T)
  PROVE  \A s \in (SUBSET S) \cap (SUBSET T) : g[s] = h[s]
<1> DEFINE B == {s \in (SUBSET S) \cap (SUBSET T) : g[s] # h[s]}
<1> SUFFICES ASSUME B # {} PROVE FALSE
  OBVIOUS
<1>1. PICK s \in B : \A u \in B : ~(u \subseteq s /\ u # s)
  <2>1. B \in SUBSET SUBSET S
    OBVIOUS
  <2> HIDE DEF B
  <2> QED
    BY <2>1, Minimal
<1>2. g[s] = Term(c, id, g, s) /\ h[s] = Term(c, id, h, s)
  BY DEF IsSum
<1>3. s # {}
  BY <1>2 DEF Term
<1>4. First(s) \in s
  BY <1>3 DEF First
<1>5. s \ {First(s)} \notin B
  BY <1>1, <1>4
<1> QED
  BY <1>2, <1>4, <1>5 DEF Term

\* There is one.
LEMMA SumExists ==
  ASSUME NEW c, NEW id, NEW S, IsFiniteSet(S)
  PROVE  \E g : IsSum(g, c, id, S)
<1> DEFINE B == {s \in SUBSET S : ~\E g : IsSum(g, c, id, s)}
<1> SUFFICES ASSUME B # {} PROVE FALSE
  OBVIOUS
<1>1. PICK s \in B : \A u \in B : ~(u \subseteq s /\ u # s)
  <2>1. B \in SUBSET SUBSET S
    OBVIOUS
  <2> HIDE DEF B
  <2> QED
    BY <2>1, Minimal
<1> DEFINE part(u) == CHOOSE g : IsSum(g, c, id, u)
           val(u) == Term(c, id, part(u \ {First(u)}), u)
           G == [u \in SUBSET s |-> val(u)]
<1>2. \A u \in SUBSET s : u # s => IsSum(part(u), c, id, u)
  BY <1>1
<1>3. \A u \in SUBSET s : u # {} => First(u) \in u
  BY DEF First
<1>4. \A u \in SUBSET s : val(u) = Term(c, id, G, u)
  <2> SUFFICES ASSUME NEW u \in SUBSET s PROVE val(u) = Term(c, id, G, u)
    OBVIOUS
  <2>e. CASE u = {}
    BY <2>e DEF Term
  <2> SUFFICES ASSUME u # {}
               PROVE  part(u \ {First(u)})[u \ {First(u)}] = G[u \ {First(u)}]
    BY <2>e DEF Term
  <2> DEFINE v == u \ {First(u)}
  <2>1. v \in SUBSET s /\ v # s /\ IsFiniteSet(v)
    BY <1>3, FS_Subset
  <2>2. IsSum(part(v), c, id, v)
    BY <2>1, <1>2
  <2>3. part(v)[v] = Term(c, id, part(v), v)
    BY <2>2 DEF IsSum
  <2>4. G[v] = Term(c, id, part(v \ {First(v)}), v)
    BY <2>1
  <2>5. CASE v = {}
    BY <2>3, <2>4, <2>5 DEF Term
  <2>6. CASE v # {}
    <3> DEFINE w == v \ {First(v)}
    <3>1. w \in SUBSET s /\ w # s /\ w \subseteq v
      BY <2>1, <2>6, <1>3
    <3>2. IsSum(part(w), c, id, w)
      BY <3>1, <1>2
    <3>3. part(v)[w] = part(w)[w]
      <4>1. w \in (SUBSET v) \cap (SUBSET w)
        BY <3>1
      <4> HIDE DEF part, v, w, G, val
      <4> QED
        BY <2>1, <2>2, <3>2, <4>1, SumUnique
    <3> QED
      BY <2>3, <2>4, <2>6, <3>3 DEF Term
  <2> QED
    BY <2>5, <2>6
<1>5. IsSum(G, c, id, s)
  BY <1>4 DEF IsSum
<1> QED
  BY <1>5

LEMMA SumRecursion ==
  ASSUME NEW c, NEW id, NEW S, IsFiniteSet(S)
  PROVE  Sum(c, id, S) = IF S = {} THEN 0 ELSE c[First(S)][id] + Sum(c, id, S \ {First(S)})
<1> DEFINE T == S \ {First(S)}
           g == CHOOSE g : IsSum(g, c, id, S)
           h == CHOOSE h : IsSum(h, c, id, T)
<1>1. IsFiniteSet(T) /\ T \in (SUBSET S) \cap (SUBSET T)
  BY FS_Subset
<1>2. IsSum(g, c, id, S) /\ IsSum(h, c, id, T)
  BY <1>1, SumExists
<1>3. g[T] = h[T]
  <2> HIDE DEF g, h, T
  <2> QED
    BY <1>1, <1>2, SumUnique
<1>4. g[S] = Term(c, id, g, S)
  BY <1>2 DEF IsSum
<1>5. Sum(c, id, S) = g[S] /\ Sum(c, id, T) = h[T]
  BY SumChosen
<1> QED
  BY <1>3, <1>4, <1>5 DEF Term

(***************************************************************************)
(* The sum over a finite set is a number, of which each element has its    *)
(* part, whichever is added first.                                         *)
(***************************************************************************)
LEMMA SumNat ==
  ASSUME NEW c, NEW id, NEW S, IsFiniteSet(S), \A j \in S : c[j][id] \in Nat
  PROVE  Sum(c, id, S) \in Nat
<1> DEFINE B == {s \in SUBSET S : Sum(c, id, s) \notin Nat}
<1> SUFFICES ASSUME B # {} PROVE FALSE
  OBVIOUS
<1>1. PICK s \in B : \A u \in B : ~(u \subseteq s /\ u # s)
  <2>1. B \in SUBSET SUBSET S
    OBVIOUS
  <2> HIDE DEF B
  <2> QED
    BY <2>1, Minimal
<1>2. s # {} => First(s) \in s /\ s \ {First(s)} \notin B
  BY <1>1 DEF First
<1>3. IsFiniteSet(s)
  BY FS_Subset
<1> QED
  BY <1>2, <1>3, SumRecursion

LEMMA SumTake ==
  ASSUME NEW c, NEW id, NEW S, IsFiniteSet(S), \A j \in S : c[j][id] \in Nat, NEW j \in S
  PROVE  Sum(c, id, S) = c[j][id] + Sum(c, id, S \ {j})
<1> DEFINE B == {s \in SUBSET S : \E i \in s : Sum(c, id, s) # c[i][id] + Sum(c, id, s \ {i})}
<1> SUFFICES ASSUME B # {} PROVE FALSE
  OBVIOUS
<1>1. PICK s \in B : \A u \in B : ~(u \subseteq s /\ u # s)
  <2>1. B \in SUBSET SUBSET S
    OBVIOUS
  <2> HIDE DEF B
  <2> QED
    BY <2>1, Minimal
<1>2. PICK i \in s : Sum(c, id, s) # c[i][id] + Sum(c, id, s \ {i})
  BY <1>1
<1> DEFINE x == First(s)
           si == s \ {i}
           sx == s \ {x}
           both == s \ {i, x}
<1>3. x \in s
  BY <1>2 DEF First
<1>4. \A u \in SUBSET S : IsFiniteSet(u) /\ Sum(c, id, u) \in Nat
  BY FS_Subset, SumNat
<1>5. Sum(c, id, s) = c[x][id] + Sum(c, id, sx)
  BY <1>3, <1>4, SumRecursion
<1>6. x # i
  BY <1>2, <1>5
<1>7. sx \notin B /\ si \notin B /\ sx \in SUBSET S /\ si \in SUBSET S
  BY <1>1, <1>3
<1>8. Sum(c, id, sx) = c[i][id] + Sum(c, id, both)
  <2>1. i \in sx /\ sx \ {i} = both
    BY <1>6
  <2> QED
    BY <1>7, <2>1
<1>9. Sum(c, id, si) = c[x][id] + Sum(c, id, both)
  <2>1. x \in si /\ si \ {x} = both
    BY <1>3, <1>6
  <2> QED
    BY <1>7, <2>1
<1>10. both \in SUBSET S /\ i \in S /\ x \in S
  BY <1>3
<1>11. c[i][id] \in Nat /\ c[x][id] \in Nat /\ Sum(c, id, both) \in Nat
  BY <1>4, <1>10
<1> HIDE DEF both, x, sx, B
<1> QED
  BY <1>2, <1>5, <1>8, <1>9, <1>11

LEMMA SumSame ==
  ASSUME NEW c, NEW d, NEW id, NEW S, IsFiniteSet(S), \A j \in S : c[j][id] = d[j][id]
  PROVE  Sum(c, id, S) = Sum(d, id, S)
<1> DEFINE B == {s \in SUBSET S : Sum(c, id, s) # Sum(d, id, s)}
<1> SUFFICES ASSUME B # {} PROVE FALSE
  OBVIOUS
<1>1. PICK s \in B : \A u \in B : ~(u \subseteq s /\ u # s)
  <2>1. B \in SUBSET SUBSET S
    OBVIOUS
  <2> HIDE DEF B
  <2> QED
    BY <2>1, Minimal
<1>2. s # {} => First(s) \in s /\ s \ {First(s)} \notin B
  BY <1>1 DEF First
<1>3. IsFiniteSet(s)
  BY FS_Subset
<1> QED
  BY <1>2, <1>3, SumRecursion
-----------------------------------------------------------------------------
(***************************************************************************)
(* CountsExact is inductive, given what StaleInv says of the arguments and *)
(* the types of what it adds up.                                           *)
(***************************************************************************)
CountTypeOK ==
    /\ table \in [Places -> Counts]
    /\ visits \in [Places -> Counts]
    /\ \A j \in Jobs : pc[j] \in {"updateTable", "removeTable"} => copy[j] \in Counts

CountInv == CountTypeOK /\ CountsExact

\* What jobs have added to the table and not yet removed from the cache.
Owed(pl, id) == Sum(copy, id, Flushing(pl))
Balanced(pl, id) == table[pl][id] + counts[pl][id] = visits[pl][id] + Owed(pl, id)

LEMMA CountsBalanced == CountsExact <=> \A pl \in Places \ disturbed, id \in Ids : Balanced(pl, id)
  BY DEF CountsExact, Balanced, Owed, Sum

LEMMA CountsBalancedNext ==
  (CountsExact)' <=> \A pl \in Places \ disturbed', id \in Ids : Balanced(pl, id)'
  BY DEF CountsExact, Balanced, Owed, Sum

LEMMA FlushingFinite ==
  ASSUME CountTypeOK, NEW pl
  PROVE  IsFiniteSet(Flushing(pl)) /\ \A j \in Flushing(pl), id \in Ids : copy[j][id] \in Nat
<1>1. Flushing(pl) \in SUBSET Jobs
  BY DEF Flushing
<1>2. \A j \in Flushing(pl) : copy[j] \in Counts
  BY DEF Flushing, CountTypeOK
<1> QED
  BY <1>1, <1>2, FS_Subset, CachePoolAssumption DEF Counts

LEMMA CountInit == Init => CountInv
<1> SUFFICES ASSUME Init PROVE CountInv
  OBVIOUS
<1> USE DEF Init, ProviderInit, AspectInit, Procs
<1>1. CountTypeOK
  BY NoneCounts DEF CountTypeOK
<1>2. \A pl \in Places, id \in Ids : Balanced(pl, id)
  <2> SUFFICES ASSUME NEW pl \in Places, NEW id \in Ids PROVE Balanced(pl, id)
    OBVIOUS
  <2>1. Flushing(pl) = {}
    BY DEF Flushing
  <2>2. Owed(pl, id) = 0
    BY <2>1, SumRecursion, FS_EmptySet DEF Owed
  <2> QED
    BY <2>2 DEF Balanced, None
<1> QED
  BY <1>1, <1>2, CountsBalanced DEF CountInv

\* A step that leaves the job at a place as it is leaves what is owed there.
LEMMA OwedSame ==
  ASSUME CountTypeOK, NEW pl, NEW id, Flushing(pl)' = Flushing(pl),
         \A j \in Flushing(pl) : copy'[j] = copy[j]
  PROVE  Owed(pl, id)' = Owed(pl, id)
<1> DEFINE F == Flushing(pl)
<1>1. IsFiniteSet(F)
  BY FlushingFinite
<1>2. Owed(pl, id)' = Sum(copy', id, F)
  BY DEF Owed
<1>a. \A j \in F : copy[j][id] = copy'[j][id]
  OBVIOUS
<1>3. Sum(copy, id, F) = Sum(copy', id, F)
  <2> HIDE DEF F
  <2> QED
    BY <1>1, <1>a, SumSame
<1> QED
  BY <1>2, <1>3 DEF Owed

\* What a thread does never disturbs a job.
JobsStill == \A j \in Jobs : pc'[j] = pc[j] /\ pos'[j] = pos[j] /\ copy'[j] = copy[j]

LEMMA StillFlushing ==
  ASSUME JobsStill
  PROVE  \A pl : Flushing(pl)' = Flushing(pl) /\ \A j \in Flushing(pl) : copy'[j] = copy[j]
  BY DEF JobsStill, Flushing

LEMMA OwedStill ==
  ASSUME CountInv, JobsStill, NEW pl, NEW id
  PROVE  Owed(pl, id)' = Owed(pl, id)
  BY StillFlushing, OwedSame DEF CountInv

\* A step that leaves the counts, the table and the visits alone.
LEMMA QuietSafe ==
  ASSUME CountInv, JobsStill, UNCHANGED <<counts, table, visits, disturbed>>
  PROVE  CountInv'
<1>1. CountTypeOK'
  BY DEF CountInv, CountTypeOK, JobsStill
<1>2. \A pl \in Places \ disturbed, id \in Ids : Balanced(pl, id)'
  BY CountsBalanced, OwedStill DEF CountInv, Balanced
<1> QED
  BY <1>1, <1>2, CountsBalancedNext DEF CountInv

LEMMA ThreadsLeaveJobs ==
  ASSUME StaleInv, NEW t \in Threads, Start(t) \/ InCall(t)
  PROVE  JobsStill
<1>1. \A j \in Jobs : j # t
  BY CachePoolAssumption
<1> USE <1>1 DEF JobsStill, StaleInv, StaleTypeOK, Procs, Call, Step, Keep, Return
<1>2. ASSUME Start(t) PROVE JobsStill
  BY <1>2 DEF Start, DoCacheProfiling, DoEvictCacheProfiling, VisitorCacheProfiling
<1>3. ASSUME ReadCache(t) \/ Proceed(t) \/ WriteEntry(t) \/ Target(t) PROVE JobsStill
  BY <1>3 DEF ReadCache, Proceed, WriteEntry, Target
<1>4. ASSUME RemoveEntry(t) \/ Update(t) PROVE JobsStill
  BY <1>4 DEF RemoveEntry, NextField, Update
<1>5. ASSUME ReadCounts(t) \/ WriteCounts(t) \/ UpdateVisitorCountWhenNotCache(t) PROVE JobsStill
  BY <1>5 DEF ReadCounts, WriteCounts, UpdateVisitorCountWhenNotCache
<1> QED
  BY <1>2, <1>3, <1>4, <1>5 DEF InCall

LEMMA QuietThreadSteps ==
  ASSUME StaleInv, CountInv, NEW t \in Threads,
         \/ Start(t)
         \/ ReadCache(t) \/ Proceed(t) \/ WriteEntry(t) \/ Target(t)
         \/ RemoveEntry(t) \/ Update(t) \/ ReadCounts(t)
  PROVE  CountInv'
<1>1. JobsStill
  BY ThreadsLeaveJobs DEF InCall
<1>2. UNCHANGED <<counts, table, visits, disturbed>>
  <2> USE DEF countVars, providerVars, NoRedis, WriterCache, RemoveCache, Fill
  <2>1. CASE Start(t)
    BY <2>1 DEF Start, DoCacheProfiling, DoEvictCacheProfiling, VisitorCacheProfiling, Call
  <2>2. CASE ReadCache(t) \/ Proceed(t) \/ WriteEntry(t) \/ Target(t)
    BY <2>2 DEF ReadCache, Proceed, WriteEntry, Target
  <2>3. CASE RemoveEntry(t) \/ Update(t) \/ ReadCounts(t)
    BY <2>3 DEF RemoveEntry, Update, ReadCounts
  <2> QED
    BY <2>1, <2>2, <2>3
<1> QED
  BY <1>1, <1>2, QuietSafe

\* One more visit of a row of a place.
LEMMA PlusCounts ==
  ASSUME NEW n \in [Places -> Counts], NEW pl \in Places, NEW id \in Ids
  PROVE  /\ Plus(n, pl, id) \in [Places -> Counts]
         /\ \A q \in Places, i \in Ids :
               Plus(n, pl, id)[q][i] = IF q = pl /\ i = id THEN n[q][i] + 1 ELSE n[q][i]
  BY DEF Plus, Counts

LEMMA WriteCountsSafe ==
  ASSUME StaleInv, CountInv, NEW t \in Threads, WriteCounts(t)
  PROVE  CountInv'
<1> DEFINE pl == at[t][1]
           id == at[t][2]
<1>1. pl \in Places /\ id \in Ids /\ copy[t] \in Counts /\ counts \in [Places -> Counts]
  BY DEF WriteCounts, StaleInv, ArgumentsOK, StaleTypeOK
<1>2. JobsStill
  BY ThreadsLeaveJobs DEF InCall
<1>3. table' = table
  BY DEF WriteCounts
<1>4. CASE UNCHANGED <<counts, visits, disturbed>>
  BY <1>2, <1>3, <1>4, QuietSafe
<1>5. CASE /\ counts' = [counts EXCEPT ![pl] = [copy[t] EXCEPT ![id] = @ + 1]]
           /\ disturbed' = disturbed \cup {pl}
           /\ visits' = visits
  <2>1. CountTypeOK'
    BY <1>2, <1>3, <1>5 DEF CountInv, CountTypeOK, JobsStill
  <2>2. ASSUME NEW q \in Places \ disturbed', NEW i \in Ids PROVE Balanced(q, i)'
    <3>1. Balanced(q, i) /\ Owed(q, i)' = Owed(q, i)
      BY <1>2, <1>5, CountsBalanced, OwedStill DEF CountInv
    <3>2. counts'[q] = counts[q]
      BY <1>1, <1>5
    <3> QED
      BY <1>3, <1>5, <3>1, <3>2 DEF Balanced
  <2> QED
    BY <2>1, <2>2, CountsBalancedNext DEF CountInv
<1>6. CASE /\ counts' = [counts EXCEPT ![pl] = [copy[t] EXCEPT ![id] = @ + 1]]
           /\ Checked(t, pl)
           /\ visits' = Plus(visits, pl, id)
  <2>1. CountTypeOK'
    BY <1>1, <1>2, <1>3, <1>6, PlusCounts DEF CountInv, CountTypeOK, JobsStill
  <2>2. ASSUME NEW q \in Places \ disturbed', NEW i \in Ids PROVE Balanced(q, i)'
    <3>1. q \notin disturbed /\ (q = pl => counts[pl] = copy[t])
      BY <1>6 DEF Checked
    <3>2. Balanced(q, i) /\ Owed(q, i)' = Owed(q, i)
      BY <1>2, <3>1, CountsBalanced, OwedStill DEF CountInv
    <3>3. counts'[q][i] = IF q = pl /\ i = id THEN counts[q][i] + 1 ELSE counts[q][i]
      BY <1>1, <1>6, <3>1 DEF Counts
    <3>4. visits'[q][i] = IF q = pl /\ i = id THEN visits[q][i] + 1 ELSE visits[q][i]
      BY <1>1, <1>6, PlusCounts DEF CountInv, CountTypeOK
    <3>5. /\ counts[q][i] \in Nat /\ visits[q][i] \in Nat /\ table[q][i] \in Nat
          /\ Owed(q, i) \in Nat
      BY <1>1, FlushingFinite, SumNat DEF CountInv, CountTypeOK, Counts, Owed
    <3> QED
      BY <1>3, <3>2, <3>3, <3>4, <3>5 DEF Balanced
  <2> QED
    BY <2>1, <2>2, CountsBalancedNext DEF CountInv
<1> QED
  BY <1>4, <1>5, <1>6 DEF WriteCounts, WriterCounts

LEMMA CountInSqlSafe ==
  ASSUME StaleInv, CountInv, NEW t \in Threads, UpdateVisitorCountWhenNotCache(t)
  PROVE  CountInv'
<1> DEFINE pl == at[t][1]
           id == at[t][2]
<1>1. pl \in Places /\ id \in Ids /\ counts \in [Places -> Counts] /\ counts' = counts
  BY DEF UpdateVisitorCountWhenNotCache, StaleInv, ArgumentsOK, StaleTypeOK, NoRedis
<1>2. JobsStill
  BY ThreadsLeaveJobs DEF InCall
<1>3. CASE UNCHANGED countVars
  BY <1>1, <1>2, <1>3, QuietSafe DEF countVars
<1>4. CASE /\ table' = Plus(table, pl, id)
           /\ \/ visits' = Plus(visits, pl, id) /\ disturbed' = disturbed
              \/ visits' = visits /\ disturbed' = disturbed \cup {pl}
  <2>1. CountTypeOK'
    BY <1>1, <1>2, <1>4, PlusCounts DEF CountInv, CountTypeOK, JobsStill
  <2>2. ASSUME NEW q \in Places \ disturbed', NEW i \in Ids PROVE Balanced(q, i)'
    <3>1. Balanced(q, i) /\ Owed(q, i)' = Owed(q, i)
      BY <1>2, <1>4, CountsBalanced, OwedStill DEF CountInv
    <3>2. table'[q][i] = IF q = pl /\ i = id THEN table[q][i] + 1 ELSE table[q][i]
      BY <1>1, <1>4, PlusCounts DEF CountInv, CountTypeOK
    <3>3. visits'[q][i] = IF q = pl /\ i = id THEN visits[q][i] + 1 ELSE visits[q][i]
      <4>1. visits \in [Places -> Counts] /\ q \in Places
        BY DEF CountInv, CountTypeOK
      <4>2. CASE visits' = Plus(visits, pl, id)
        BY <1>1, <4>1, <4>2, PlusCounts
      <4>3. CASE visits' = visits /\ disturbed' = disturbed \cup {pl}
        BY <4>3
      <4> QED
        BY <1>4, <4>2, <4>3
    <3>4. /\ counts[q][i] \in Nat /\ visits[q][i] \in Nat /\ table[q][i] \in Nat
          /\ Owed(q, i) \in Nat
      BY <1>1, FlushingFinite, SumNat DEF CountInv, CountTypeOK, Counts, Owed
    <3> QED
      BY <1>1, <3>1, <3>2, <3>3, <3>4 DEF Balanced
  <2> QED
    BY <2>1, <2>2, CountsBalancedNext DEF CountInv
<1> QED
  BY <1>3, <1>4 DEF UpdateVisitorCountWhenNotCache

(***************************************************************************)
(* A job that has added to the table owes what it has read, until it has   *)
(* removed it from the cache.                                              *)
(***************************************************************************)
OthersStill(j) == \A i \in Jobs \ {j} : pc'[i] = pc[i] /\ pos'[i] = pos[i] /\ copy'[i] = copy[i]

LEMMA OwedMore ==
  ASSUME CountTypeOK, NEW pl, NEW id \in Ids, NEW j \in Jobs \ Flushing(pl),
         Flushing(pl)' = Flushing(pl) \cup {j}, copy' = copy, copy[j] \in Counts
  PROVE  Owed(pl, id)' = copy[j][id] + Owed(pl, id)
<1> DEFINE F == Flushing(pl)
           G == F \cup {j}
<1>1. IsFiniteSet(F) /\ \A i \in F : copy[i][id] \in Nat
  BY FlushingFinite
<1>2. IsFiniteSet(G)
  BY <1>1, FS_AddElement
<1>3. \A i \in G : copy[i][id] \in Nat
  BY <1>1 DEF Counts
<1>4. j \in G /\ G \ {j} = F
  OBVIOUS
<1>5. Owed(pl, id)' = Sum(copy, id, G)
  BY DEF Owed
<1>6. Sum(copy, id, G) = copy[j][id] + Sum(copy, id, F)
  <2> HIDE DEF F, G
  <2> QED
    BY <1>2, <1>3, <1>4, SumTake
<1> QED
  BY <1>5, <1>6 DEF Owed

LEMMA OwedLess ==
  ASSUME CountTypeOK, NEW pl, NEW id \in Ids, NEW j \in Flushing(pl),
         Flushing(pl)' = Flushing(pl) \ {j}, \A i \in Flushing(pl) \ {j} : copy'[i] = copy[i]
  PROVE  Owed(pl, id) = copy[j][id] + Owed(pl, id)' /\ Owed(pl, id)' \in Nat
<1> DEFINE F == Flushing(pl)
           G == F \ {j}
<1>1. IsFiniteSet(F) /\ IsFiniteSet(G) /\ \A i \in F : copy[i][id] \in Nat
  BY FlushingFinite, FS_Subset
<1>2. \A i \in G : copy[i][id] = copy'[i][id]
  OBVIOUS
<1>3. Owed(pl, id)' = Sum(copy', id, G)
  BY DEF Owed
<1>4. Sum(copy, id, F) = copy[j][id] + Sum(copy, id, G)
  <2>1. j \in F
    OBVIOUS
  <2> HIDE DEF F
  <2> QED
    BY <1>1, <2>1, SumTake
<1>5. Sum(copy, id, G) = Sum(copy', id, G)
  <2> HIDE DEF G
  <2> QED
    BY <1>1, <1>2, SumSame
<1>6. Sum(copy, id, G) \in Nat
  <2>1. \A i \in G : copy[i][id] \in Nat
    BY <1>1
  <2> HIDE DEF G
  <2> QED
    BY <1>1, <2>1, SumNat
<1> QED
  BY <1>3, <1>4, <1>5, <1>6 DEF Owed

\* Numbers, where the counts are balanced.
LEMMA CountNumbers ==
  ASSUME StaleInv, CountInv, NEW pl \in Places, NEW id \in Ids
  PROVE  /\ counts[pl][id] \in Nat /\ visits[pl][id] \in Nat
         /\ table[pl][id] \in Nat /\ Owed(pl, id) \in Nat
  BY FlushingFinite, SumNat DEF StaleInv, StaleTypeOK, CountInv, CountTypeOK, Counts, Owed

\* A job that was not about to remove, and is not now, owes nothing.
LEMMA AsideJob ==
  ASSUME StaleInv, CountInv, NEW j \in Jobs, OthersStill(j),
         pc[j] # "removeTable", pc'[j] # "removeTable",
         pc'[j] = "updateTable" => copy'[j] \in Counts,
         table' \in [Places -> Counts], UNCHANGED <<counts, visits>>,
         disturbed \subseteq disturbed', \A pl \in Places \ disturbed' : table'[pl] = table[pl]
  PROVE  CountInv'
<1>1. CountTypeOK'
  BY DEF CountInv, CountTypeOK, OthersStill
<1>2. ASSUME NEW pl, NEW id PROVE Owed(pl, id)' = Owed(pl, id)
  <2>1. Flushing(pl)' = Flushing(pl) /\ \A i \in Flushing(pl) : copy'[i] = copy[i]
    BY DEF Flushing, OthersStill
  <2> QED
    BY <2>1, OwedSame DEF CountInv
<1>3. \A pl \in Places \ disturbed', id \in Ids : Balanced(pl, id)'
  BY <1>2, CountsBalanced DEF CountInv, Balanced
<1> QED
  BY <1>1, <1>3, CountsBalancedNext DEF CountInv

LEMMA AddedCounts ==
  ASSUME NEW n \in [Places -> Counts], NEW pl \in Places, NEW m \in Counts
  PROVE  /\ Added(n, pl, m) \in [Places -> Counts]
         /\ \A q \in Places, i \in Ids :
               Added(n, pl, m)[q][i] = IF q = pl THEN n[q][i] + m[i] ELSE n[q][i]
         /\ \A q \in Places \ {pl} : Added(n, pl, m)[q] = n[q]
<1> DEFINE a == [i \in Ids |-> n[pl][i] + m[i]]
<1>1. a \in [Ids -> Nat]
  BY DEF Counts
<1>2. Added(n, pl, m) = [n EXCEPT ![pl] = a]
  BY DEF Added
<1> QED
  BY <1>1, <1>2 DEF Counts

LEMMA UpdateTableSafe ==
  ASSUME StaleInv, CountInv, NEW j \in Jobs, UpdateTable(j)
  PROVE  CountInv'
<1> DEFINE pl == JobList[pos[j]]
<1>1. pl \in Places
  BY CacheJobAssumption DEF UpdateTable, StaleInv, ArgumentsOK
<1>2. /\ pc[j] = "updateTable" /\ copy[j] \in Counts
      /\ counts' = counts /\ visits' = visits
  BY DEF UpdateTable, NoRedis, CountInv, CountTypeOK
<1>3. /\ Added(table, pl, copy[j]) \in [Places -> Counts]
      /\ \A q \in Places, i \in Ids :
            Added(table, pl, copy[j])[q][i] = IF q = pl THEN table[q][i] + copy[j][i] ELSE table[q][i]
      /\ \A q \in Places \ {pl} : Added(table, pl, copy[j])[q] = table[q]
  <2> HIDE DEF pl
  <2> QED
    BY <1>1, <1>2, AddedCounts DEF CountInv, CountTypeOK
<1>4. CASE Return(j) /\ \/ UNCHANGED <<table, disturbed>>
                        \/ table' = Added(table, pl, copy[j]) /\ disturbed' = disturbed \cup {pl}
  <2>1. OthersStill(j) /\ pc'[j] = "idle"
    BY <1>4 DEF StaleInv, StaleTypeOK, Return, OthersStill, Procs
  <2>2. table' \in [Places -> Counts] /\ disturbed \subseteq disturbed'
    BY <1>3, <1>4 DEF CountInv, CountTypeOK
  <2>3. \A q \in Places \ disturbed' : table'[q] = table[q]
    BY <1>3, <1>4
  <2> QED
    BY <1>2, <2>1, <2>2, <2>3, AsideJob
<1>5. CASE table' = Added(table, pl, copy[j]) /\ Step(j, "removeTable") /\ disturbed' = disturbed
  <2>1. OthersStill(j) /\ pc'[j] = "removeTable" /\ copy' = copy /\ pos' = pos
    BY <1>5 DEF StaleInv, StaleTypeOK, Step, OthersStill, Procs
  <2>2. CountTypeOK'
    BY <1>2, <1>3, <1>5, <2>1 DEF CountInv, CountTypeOK, OthersStill
  <2>3. ASSUME NEW q \in Places \ disturbed', NEW i \in Ids PROVE Balanced(q, i)'
    <3>1. Balanced(q, i)
      BY <1>5, CountsBalanced DEF CountInv
    <3>2. CASE q # pl
      <4>1. Flushing(q)' = Flushing(q)
        BY <1>2, <2>1, <3>2 DEF Flushing, OthersStill
      <4>2. Owed(q, i)' = Owed(q, i)
        BY <2>1, <4>1, OwedSame DEF CountInv
      <4>3. table'[q][i] = table[q][i]
        BY <1>3, <1>5, <3>2
      <4> QED
        BY <1>2, <3>1, <4>2, <4>3 DEF Balanced
    <3>3. CASE q = pl
      <4>1. j \notin Flushing(q) /\ Flushing(q)' = Flushing(q) \cup {j}
        BY <1>2, <2>1, <3>3 DEF Flushing, OthersStill
      <4>2. Owed(q, i)' = copy[j][i] + Owed(q, i)
        BY <1>2, <2>1, <4>1, OwedMore DEF CountInv
      <4>3. table'[q][i] = table[q][i] + copy[j][i]
        BY <1>3, <1>5, <3>3
      <4>4. copy[j][i] \in Nat
        BY <1>2 DEF Counts
      <4> QED
        BY <1>2, <3>1, <4>2, <4>3, <4>4, CountNumbers DEF Balanced
    <3> QED
      BY <3>2, <3>3
  <2> QED
    BY <2>2, <2>3, CountsBalancedNext DEF CountInv
<1> QED
  BY <1>4, <1>5 DEF UpdateTable

LEMMA RemoveTableSafe ==
  ASSUME StaleInv, CountInv, NEW j \in Jobs, RemoveTable(j)
  PROVE  CountInv'
<1> DEFINE pl == JobList[pos[j]]
<1>1. pl \in Places
  BY CacheJobAssumption DEF RemoveTable, StaleInv, ArgumentsOK
<1>2. /\ pc[j] = "removeTable" /\ copy[j] \in Counts
      /\ table' = table /\ visits' = visits
  BY DEF RemoveTable, CountInv, CountTypeOK
<1>3. OthersStill(j) /\ pc'[j] \in {"idle", "readTable"}
  BY DEF RemoveTable, NextTable, Return, StaleInv, StaleTypeOK, OthersStill, Procs
<1>4. CountTypeOK'
  BY <1>2, <1>3 DEF CountInv, CountTypeOK, OthersStill
<1>5. \/ counts' = [counts EXCEPT ![pl] = None] /\ Checked(j, pl)
      \/ counts' = counts /\ disturbed' = disturbed \cup {pl}
  BY DEF RemoveTable, RemoveCounts, WriterCounts
<1>6. counts \in [Places -> Counts]
  BY DEF StaleInv, StaleTypeOK
<1>7. ASSUME NEW q \in Places \ disturbed', NEW i \in Ids PROVE Balanced(q, i)'
  <2>1. q \notin disturbed /\ (q = pl => counts' = [counts EXCEPT ![pl] = None] /\ counts[pl] = copy[j])
    BY <1>5 DEF Checked
  <2>2. Balanced(q, i)
    BY <2>1, CountsBalanced DEF CountInv
  <2>3. CASE q # pl
    <3>1. Flushing(q)' = Flushing(q) /\ \A k \in Flushing(q) : copy'[k] = copy[k]
      BY <1>2, <1>3, <2>3 DEF Flushing, OthersStill
    <3>2. Owed(q, i)' = Owed(q, i)
      BY <3>1, OwedSame DEF CountInv
    <3>3. counts'[q] = counts[q]
      BY <1>1, <1>5, <1>6, <2>3
    <3> QED
      BY <1>2, <2>2, <3>2, <3>3 DEF Balanced
  <2>4. CASE q = pl
    <3>1. /\ j \in Flushing(q) /\ Flushing(q)' = Flushing(q) \ {j}
          /\ \A k \in Flushing(q) \ {j} : copy'[k] = copy[k]
      BY <1>2, <1>3, <2>4 DEF Flushing, OthersStill
    <3>2. Owed(q, i) = copy[j][i] + Owed(q, i)' /\ Owed(q, i)' \in Nat
      BY <3>1, OwedLess DEF CountInv
    <3>3. counts'[q][i] = 0 /\ counts[q][i] = copy[j][i]
      BY <1>1, <1>6, <2>1, <2>4 DEF None
    <3> QED
      BY <1>2, <2>2, <3>2, <3>3, CountNumbers DEF Balanced
  <2> QED
    BY <2>3, <2>4
<1> QED
  BY <1>4, <1>7, CountsBalancedNext DEF CountInv

LEMMA JobCountsSafe ==
  ASSUME StaleInv, CountInv, NEW j \in Jobs, Run(j) \/ InRun(j)
  PROVE  CountInv'
<1>1. CASE Run(j)
  <2>1. /\ OthersStill(j) /\ pc[j] = "idle" /\ pc'[j] = "readTable"
        /\ UNCHANGED <<counts, table, visits, disturbed>>
    BY <1>1 DEF Run, Call, providerVars, countVars, StaleInv, StaleTypeOK, OthersStill, Procs
  <2> QED
    BY <2>1, AsideJob DEF CountInv, CountTypeOK
<1>2. CASE ReadTable(j)
  <2>1. counts[JobList[pos[j]]] \in Counts
    BY <1>2, CacheJobAssumption DEF ReadTable, StaleInv, StaleTypeOK, ArgumentsOK
  <2>2. /\ OthersStill(j) /\ pc[j] = "readTable" /\ pc'[j] \in {"idle", "readTable", "updateTable"}
        /\ pc'[j] = "updateTable" => copy'[j] \in Counts
        /\ UNCHANGED <<counts, table, visits, disturbed>>
    BY <1>2, <2>1
    DEF ReadTable, NextTable, Return, Keep, countVars, StaleInv, StaleTypeOK, OthersStill, Procs
  <2> QED
    BY <2>2, AsideJob DEF CountInv, CountTypeOK
<1> QED
  BY <1>1, <1>2, UpdateTableSafe, RemoveTableSafe DEF InRun

LEMMA ConnectCountsSafe ==
  ASSUME StaleInv, CountInv, NEW p \in Procs, Connect(p)
  PROVE  CountInv'
<1>1. UNCHANGED <<counts, table, visits, disturbed>>
  BY DEF Connect, NoRedis, countVars
<1>2. CASE p \in Jobs /\ Return(p)
  <2>1. OthersStill(p) /\ pc[p] # "removeTable" /\ pc'[p] = "idle"
    BY <1>2 DEF Connect, Return, StaleInv, StaleTypeOK, OthersStill, Procs
  <2> QED
    BY <1>1, <1>2, <2>1, AsideJob DEF CountInv, CountTypeOK
<1>3. CASE p \notin Jobs \/ UNCHANGED callVars
  <2>1. JobsStill
    BY <1>3 DEF Connect, Return, callVars, JobsStill, StaleInv, StaleTypeOK, Procs
  <2> QED
    BY <1>1, <2>1, QuietSafe
<1> QED
  BY <1>2, <1>3 DEF Connect

LEMMA CountNext == StaleInv /\ CountInv /\ [Next]_vars => CountInv'
<1> SUFFICES ASSUME StaleInv, CountInv, [Next]_vars PROVE CountInv'
  OBVIOUS
<1>0. ASSUME NEW p \in Procs, Connect(p) PROVE CountInv'
  BY <1>0, ConnectCountsSafe
<1>1. ASSUME NEW p \in Procs, Borrow(p) PROVE CountInv'
  <2>1. JobsStill /\ UNCHANGED <<counts, table, visits, disturbed>>
    BY <1>1 DEF Borrow, GetRedis, callVars, countVars, JobsStill
  <2> QED
    BY <2>1, QuietSafe
<1>2. ASSUME NEW t \in Threads, Start(t) \/ InCall(t) PROVE CountInv'
  BY <1>2, QuietThreadSteps, WriteCountsSafe, CountInSqlSafe DEF InCall
<1>3. ASSUME NEW j \in Jobs, Run(j) \/ InRun(j) PROVE CountInv'
  BY <1>3, JobCountsSafe
<1>4. ASSUME Expired \/ UNCHANGED vars PROVE CountInv'
  <2>1. JobsStill /\ UNCHANGED <<counts, table, visits, disturbed>>
    BY <1>4 DEF Expired, Expire, vars, providerVars, callVars, countVars, JobsStill
  <2> QED
    BY <2>1, QuietSafe
<1> QED
  BY <1>0, <1>1, <1>2, <1>3, <1>4 DEF Next

(***************************************************************************)
(* A visit is counted once, in the table or in the cache, except while a   *)
(* job removes what it has added to the table, and where a count was       *)
(* written over or a command that took effect failed.                      *)
(* (visitorCacheProfiling, CacheJobProcess.run)                            *)
(***************************************************************************)
THEOREM VisitsCountedOnce == Spec => []CountsExact
<1>1. CountInv => CountsExact
  BY DEF CountInv
<1> QED
  BY <1>1, StaleInit, StaleNext, CountInit, CountNext, PTL DEF Spec
=============================================================================
