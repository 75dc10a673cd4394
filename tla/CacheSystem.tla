------------------------------ MODULE CacheSystem ------------------------------
(***************************************************************************)
(* CacheAspect and the CacheJobProcess of every JVM, over one Redis and    *)
(* one database.  The cron trigger of a JVM starts its job again only when *)
(* the last run has ended.                                                 *)
(***************************************************************************)
EXTENDS CacheAspect, FiniteSetsExt

CONSTANT JobList    \* tableNames and tableColumns: the place of every method
                    \*   annotated with VisitorCache, repeated ones included

ASSUME CacheJobAssumption == JobList \in Seq(Places) \ {<< >>}

vars == <<providerVars, callVars, countVars, staleVars, sqlVars>>

Run(j) ==
    /\ Call(j, "readTable", NoValue)
    /\ prepared' = prepared \ {j}
    /\ UNCHANGED <<countVars, staleVars, connected, lost>>

NextTable(j) ==
    IF pos[j] = Len(JobList)
    THEN Return(j)
    ELSE /\ pc' = [pc EXCEPT ![j] = "readTable"]
         /\ pos' = [pos EXCEPT ![j] = @ + 1]
         /\ copy' = [copy EXCEPT ![j] = NoValue]
         /\ UNCHANGED <<at, calls>>

ReadTable(j) ==
    LET map == counts[JobList[pos[j]]]
    IN /\ pc[j] = "readTable"
       /\ \/ ReturnResource(j) /\ map = None /\ NextTable(j)
          \/ ReturnResource(j) /\ map # None /\ Keep(j, "updateTable", map)
          \/ Broken(j) /\ Return(j)
       /\ UNCHANGED <<entries, counts, countVars, staleVars, sqlVars>>

Added(n, pl, m) == [n EXCEPT ![pl] = [id \in Ids |-> @[id] + m[id]]]

\* createStatement, execute and close.  The finally block closes the connection
\* if st is not null, which it is until the run has created a Statement.
UpdateTable(j) ==
    LET pl == JobList[pos[j]]
    IN /\ pc[j] = "updateTable"
       /\ NoRedis
       /\ \/ /\ Close(j)
             /\ prepared' = prepared \cup {j}
             /\ table' = Added(table, pl, copy[j])
             /\ Step(j, "removeTable")
             /\ UNCHANGED <<disturbed, faults>>
          \/ /\ Fault
             /\ Close(j)
             /\ table' = Added(table, pl, copy[j])
             /\ disturbed' = disturbed \cup {pl}
             /\ Return(j)
             /\ UNCHANGED prepared
          \/ /\ Fault
             /\ Close(j) \/ (j \notin prepared /\ Lose(j))
             /\ Return(j)
             /\ UNCHANGED <<table, disturbed, prepared>>
       /\ UNCHANGED <<visits, staleVars>>

RemoveTable(j) ==
    LET pl == JobList[pos[j]]
    IN /\ pc[j] = "removeTable"
       /\ \/ ReturnResource(j) /\ RemoveCounts(pl) /\ Checked(j, pl) /\ NextTable(j)
          \/ Broken(j) /\ RemoveCounts(pl) /\ Checked(j, pl) /\ Return(j)
          \/ /\ Broken(j)
             /\ UNCHANGED <<entries, counts>>
             /\ disturbed' = disturbed \cup {pl}
             /\ Return(j)
       /\ UNCHANGED <<table, visits, staleVars, sqlVars>>
-----------------------------------------------------------------------------
RedisSteps == {"readCache", "writerCache", "removeCache", "readCounts", "writeCounts",
               "readTable", "removeTable"}

Borrow(p) ==
    /\ pc[p] \in RedisSteps
    /\ GetRedis(p)
    /\ UNCHANGED <<callVars, countVars, staleVars, sqlVars>>

\* getConnection gives a connection or throws.
Connect(p) ==
    /\ pc[p] \in {"countInSql", "updateTable"}
    /\ \/ GetConnection(p) /\ UNCHANGED <<callVars, faults>>
       \/ p \notin connected /\ Fault /\ Return(p) /\ UNCHANGED sqlVars
    /\ NoRedis
    /\ UNCHANGED <<countVars, staleVars>>

Start(t) ==
    \/ \E f \in Fields : DoCacheProfiling(t, f)
    \/ DoEvictCacheProfiling(t)
    \/ \E pl \in Places, id \in Ids : VisitorCacheProfiling(t, pl, id)

InCall(t) ==
    \/ ReadCache(t) \/ Proceed(t) \/ WriteEntry(t) \/ Target(t)
    \/ RemoveEntry(t) \/ Update(t)
    \/ ReadCounts(t) \/ WriteCounts(t) \/ UpdateVisitorCountWhenNotCache(t)

InRun(j) == ReadTable(j) \/ UpdateTable(j) \/ RemoveTable(j)

Expired == Expire /\ UNCHANGED <<callVars, countVars, staleVars, sqlVars>>

Init == ProviderInit /\ AspectInit

Next ==
    \/ \E p \in Procs : Borrow(p) \/ Connect(p)
    \/ \E t \in Threads : Start(t) \/ InCall(t)
    \/ \E j \in Jobs : Run(j) \/ InRun(j)
    \/ Expired

\* A thread that can go on does; nothing has to call, to fail or to expire.
Spec ==
    /\ Init
    /\ [][Next]_vars
    /\ \A t \in Threads : WF_vars(Borrow(t) \/ Connect(t) \/ InCall(t))
    /\ \A j \in Jobs : WF_vars(Borrow(j) \/ Connect(j) \/ InRun(j))
-----------------------------------------------------------------------------
Flushing(pl) == {j \in Jobs : pc[j] = "removeTable" /\ JobList[pos[j]] = pl}

(***************************************************************************)
(* The visits of a row are in the table or in the cache, each once, with   *)
(* those a job has added to the table and not yet removed from the cache   *)
(* counted double, as long as every map written or removed is the one that *)
(* was read and no command fails after it took effect.                     *)
(* (visitorCacheProfiling, CacheJobProcess.run)                            *)
(***************************************************************************)
CountsExact ==
    \A pl \in Places \ disturbed, id \in Ids :
        table[pl][id] + counts[pl][id] =
            visits[pl][id] + MapThenSumSet(LAMBDA j : copy[j][id], Flushing(pl))

(***************************************************************************)
(* An entry differs from the record only if the read that filled it        *)
(* overlapped an update, or an update did not evict it.  The entries are   *)
(* removed before the update, not after it.  (doCacheProfiling,            *)
(* doEvictCacheProfiling)                                                  *)
(***************************************************************************)
StaleOnlyByRace ==
    \A f \in Fields : entries[f] \in {NoValue, record} \/ f \in excused

(***************************************************************************)
(* Every call of an annotated method and every run of the job returns,     *)
(* unless failures have taken all Jedis or all connections of the          *)
(* DataSource out of their pool: no failure takes more than the one of its *)
(* own call, and no call waits for one pool while it holds the other.      *)
(* (getRedis, returnResource, updateVisitorCountWhenNotCache, run)         *)
(***************************************************************************)
CacheCallsReturn ==
    \A p \in Procs :
        pc[p] # "idle" ~> (pc[p] = "idle" \/ leaked = PoolSize \/ lost = Connections)
=============================================================================
