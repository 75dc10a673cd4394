------------------------------ MODULE CacheAspect ------------------------------
(***************************************************************************)
(* CacheAspect: the advice around methods annotated with Cache, CacheEvict *)
(* and VisitorCache, called by any number of threads of any number of      *)
(* JVMs.  One record of the database is cached in all Fields.              *)
(***************************************************************************)
EXTENDS RedisCacheProvider, Sequences

CONSTANTS
    Closed,         \* threads of JVMs configured with isOpenCache = false
    Values,         \* what the record may hold
    EvictFields,    \* field() of the CacheEvict annotation of the update
    Connections,    \* size of the pool of the DataSource, whose getConnection waits
    MaxCalls        \* bound: calls of annotated methods and runs of the job

ASSUME CacheAnnotationAssumption ==
    /\ EvictFields \in Seq(Fields) \ {<< >>}
    /\ \A f \in Fields : \E i \in DOMAIN EvictFields : EvictFields[i] = f
    /\ NoValue \notin Values
    /\ Closed \subseteq Threads
    /\ Connections \in Nat \ {0}

VARIABLES
    record,     \* the record in the database, NoValue if there is none
    table,      \* the visits the database counts, per place and row
    pc, at,     \* per process, the step its call is at, and the field or the
                \*   place and row it is about
    pos,        \* per process, its position in EvictFields or the job's list
    copy,       \* per process, what the call has read
    calls,
    connected,  \* processes that have a connection of the DataSource
    lost,       \* connections taken and never closed
    prepared,   \* jobs whose run has created a Statement: st is not null
    visits,     \* history: visits that were counted
    disturbed,  \* history: places where a count was written over or a command
                \*   that took effect failed
    raced,      \* history: threads whose miss overlaps an update
    excused     \* history: fields filled by such a thread, or not evicted

callVars == <<pc, at, pos, copy, calls>>
sqlVars == <<connected, lost, prepared>>
countVars == <<table, visits, disturbed>>
staleVars == <<record, raced, excused>>

AspectInit ==
    /\ record \in Values \cup {NoValue}
    /\ table = [pl \in Places |-> None]
    /\ pc = [p \in Procs |-> "idle"]
    /\ at = [p \in Procs |-> NoValue]
    /\ pos = [p \in Procs |-> 1]
    /\ copy = [p \in Procs |-> NoValue]
    /\ calls = 0
    /\ connected = {}
    /\ lost = 0
    /\ prepared = {}
    /\ visits = [pl \in Places |-> None]
    /\ disturbed = {}
    /\ raced = {}
    /\ excused = {}

Updating == {t \in Threads : pc[t] \in {"removeCache", "update"}}
Missed == {t \in Threads : pc[t] \in {"proceed", "writerCache"}}

Call(p, step, arg) ==
    /\ pc[p] = "idle"
    /\ calls < MaxCalls
    /\ calls' = calls + 1
    /\ pc' = [pc EXCEPT ![p] = step]
    /\ at' = [at EXCEPT ![p] = arg]
    /\ UNCHANGED <<pos, copy, providerVars>>

Step(p, step) ==
    /\ pc' = [pc EXCEPT ![p] = step]
    /\ UNCHANGED <<at, pos, copy, calls>>

Keep(p, step, read) ==
    /\ pc' = [pc EXCEPT ![p] = step]
    /\ copy' = [copy EXCEPT ![p] = read]
    /\ UNCHANGED <<at, pos, calls>>

Return(p) ==
    /\ pc' = [pc EXCEPT ![p] = "idle"]
    /\ at' = [at EXCEPT ![p] = NoValue]
    /\ pos' = [pos EXCEPT ![p] = 1]
    /\ copy' = [copy EXCEPT ![p] = NoValue]
    /\ UNCHANGED calls

NoRedis == UNCHANGED <<entries, counts, using, leaked>>

\* The DataSource.
GetConnection(p) ==
    /\ p \notin connected
    /\ Cardinality(connected) + lost < Connections
    /\ connected' = connected \cup {p}
    /\ UNCHANGED <<lost, prepared>>

Close(p) ==
    /\ p \in connected
    /\ connected' = connected \ {p}
    /\ UNCHANGED lost

\* The exception passes the lines that close the connection.
Lose(p) ==
    /\ p \in connected
    /\ connected' = connected \ {p}
    /\ lost' = lost + 1
-----------------------------------------------------------------------------
\* Cache

\* A closed cache or a false condition leaves nothing but the method.
DoCacheProfiling(t, f) ==
    /\ \/ t \notin Closed /\ Call(t, "readCache", f)
       \/ Call(t, "target", f)
    /\ UNCHANGED <<countVars, staleVars, sqlVars>>

ReadCache(t) ==
    /\ pc[t] = "readCache"
    /\ \/ /\ ReturnResource(t)
          /\ entries[at[t]] # NoValue
          /\ Return(t)
          /\ UNCHANGED raced
       \/ /\ ReturnResource(t)
          /\ entries[at[t]] = NoValue
          /\ Step(t, "proceed")
          /\ raced' = IF Updating = {} THEN raced \ {t} ELSE raced \cup {t}
       \/ /\ Broken(t)
          /\ Step(t, "target")
          /\ UNCHANGED raced
    /\ UNCHANGED <<entries, counts, countVars, record, excused, sqlVars>>

Proceed(t) ==
    /\ pc[t] = "proceed"
    /\ NoRedis
    /\ \/ record = NoValue /\ Return(t) /\ UNCHANGED faults
       \/ record # NoValue /\ Keep(t, "writerCache", record) /\ UNCHANGED faults
       \/ Fault /\ Step(t, "target")
    /\ UNCHANGED <<countVars, staleVars, sqlVars>>

Fill(t) ==
    /\ WriterCache(at[t], copy[t])
    /\ excused' = IF t \in raced THEN excused \cup {at[t]} ELSE excused \ {at[t]}

\* The command may have been carried out although its answer was lost.
WriteEntry(t) ==
    /\ pc[t] = "writerCache"
    /\ \/ ReturnResource(t) /\ Fill(t) /\ Return(t)
       \/ Broken(t) /\ Fill(t) /\ Step(t, "target")
       \/ Broken(t) /\ UNCHANGED <<entries, counts, excused>> /\ Step(t, "target")
    /\ UNCHANGED <<countVars, record, raced, sqlVars>>

\* The method, called without the cache, or again after a failure.
Target(t) ==
    /\ pc[t] = "target"
    /\ Return(t)
    /\ UNCHANGED <<providerVars, countVars, staleVars, sqlVars>>
-----------------------------------------------------------------------------
\* CacheEvict

DoEvictCacheProfiling(t) ==
    /\ IF t \in Closed THEN Call(t, "update", NoValue) ELSE Call(t, "removeCache", NoValue)
    /\ raced' = raced \cup Missed
    /\ excused' = IF t \in Closed THEN Fields ELSE excused
    /\ UNCHANGED <<countVars, record, sqlVars>>

\* Mutant: the loop stops before the last field.
SkipLastField(t) ==
    IF pos[t] >= Len(EvictFields) - 1
    THEN Step(t, "update")
    ELSE /\ pos' = [pos EXCEPT ![t] = @ + 1]
         /\ UNCHANGED <<pc, at, copy, calls>>

NextField(t) ==
    IF pos[t] = Len(EvictFields)
    THEN Step(t, "update")
    ELSE /\ pos' = [pos EXCEPT ![t] = @ + 1]
         /\ UNCHANGED <<pc, at, copy, calls>>

\* An exception leaves the rest of the fields as they are.
RemoveEntry(t) ==
    /\ pc[t] = "removeCache"
    /\ \/ /\ ReturnResource(t)
          /\ RemoveCache(EvictFields[pos[t]])
          /\ NextField(t)
          /\ UNCHANGED excused
       \/ /\ Broken(t)
          /\ RemoveCache(EvictFields[pos[t]]) \/ UNCHANGED <<entries, counts>>
          /\ Step(t, "update")
          /\ excused' = excused \cup {EvictFields[i] : i \in pos[t] .. Len(EvictFields)}
    /\ UNCHANGED <<countVars, record, raced, sqlVars>>

Update(t) ==
    /\ pc[t] = "update"
    /\ Return(t)
    /\ NoRedis
    /\ \/ record' \in Values \cup {NoValue} /\ UNCHANGED faults
       \/ Fault /\ UNCHANGED record
    /\ UNCHANGED <<countVars, raced, excused, sqlVars>>
-----------------------------------------------------------------------------
\* VisitorCache

VisitorCacheProfiling(t, pl, id) ==
    /\ Call(t, IF t \in Closed THEN "countInSql" ELSE "readCounts", <<pl, id>>)
    /\ UNCHANGED <<countVars, staleVars, sqlVars>>

ReadCounts(t) ==
    /\ pc[t] = "readCounts"
    /\ \/ ReturnResource(t) /\ Keep(t, "writeCounts", counts[at[t][1]])
       \/ Broken(t) /\ Step(t, "countInSql")
    /\ UNCHANGED <<entries, counts, countVars, staleVars, sqlVars>>

Plus(n, pl, id) == [n EXCEPT ![pl][id] = @ + 1]

\* A write or a removal is based on what the process has read.
Checked(p, pl) ==
    disturbed' = IF counts[pl] = copy[p] THEN disturbed ELSE disturbed \cup {pl}

WriteCounts(t) ==
    LET pl == at[t][1]
        id == at[t][2]
        Counted == WriterCounts(pl, [copy[t] EXCEPT ![id] = @ + 1])
    IN /\ pc[t] = "writeCounts"
       /\ \/ /\ ReturnResource(t)
             /\ Counted
             /\ Checked(t, pl)
             /\ visits' = Plus(visits, pl, id)
             /\ Return(t)
          \/ /\ Broken(t)
             /\ Counted
             /\ disturbed' = disturbed \cup {pl}
             /\ Step(t, "countInSql")
             /\ UNCHANGED visits
          \/ /\ Broken(t)
             /\ Step(t, "countInSql")
             /\ UNCHANGED <<entries, counts, disturbed, visits>>
       /\ UNCHANGED <<table, staleVars, sqlVars>>

\* A failure is thrown to the caller and the method does not run: no visit.
\* The connection is closed in the finally block of pst.close, which a failing
\* prepareStatement or execute does not reach.
UpdateVisitorCountWhenNotCache(t) ==
    LET pl == at[t][1]
        id == at[t][2]
    IN /\ pc[t] = "countInSql"
       /\ Return(t)
       /\ NoRedis
       /\ \/ /\ Close(t)
             /\ table' = Plus(table, pl, id)
             /\ visits' = Plus(visits, pl, id)
             /\ UNCHANGED <<disturbed, faults>>
          \/ /\ Fault
             /\ Close(t) \/ Lose(t)
             /\ table' = Plus(table, pl, id)
             /\ disturbed' = disturbed \cup {pl}
             /\ UNCHANGED visits
          \/ Fault /\ Lose(t) /\ UNCHANGED countVars
       /\ UNCHANGED <<staleVars, prepared>>
=============================================================================
