-------------------------- MODULE RedisCacheProvider --------------------------
(***************************************************************************)
(* RedisCacheProvider: what it keeps in Redis and the pool of Jedis        *)
(* connections it takes one of for each call.  A call gives its Jedis back *)
(* in its last line and not in a finally block.                            *)
(***************************************************************************)
EXTENDS Integers, FiniteSets

CONSTANTS
    Threads,    \* threads that call annotated methods
    Jobs,       \* CacheJobProcess, one for each JVM
    PoolSize,   \* maxTotal of the JedisPool, whose getResource waits
    Fields,     \* fields of the cached hash key
    Places,     \* a table and a column, where visits of its rows are counted
    Ids,        \* rows of these tables
    NoValue,    \* null
    MaxFaults   \* bound: calls of Redis, the database or the method that fail

ASSUME CachePoolAssumption ==
    /\ PoolSize \in Nat \ {0}
    /\ MaxFaults \in Nat
    /\ Threads \cap Jobs = {} /\ IsFiniteSet(Jobs)

Procs == Threads \cup Jobs
Counts == [Ids -> Nat]
None == [id \in Ids |-> 0]       \* no map, or an empty one

VARIABLES
    entries,    \* the value cached in each field, or NoValue
    counts,     \* per place, the visits cached for each row
    using,      \* processes that have a Jedis of the pool
    leaked,     \* Jedis taken and never given back
    faults

providerVars == <<entries, counts, using, leaked, faults>>

ProviderInit ==
    /\ entries = [f \in Fields |-> NoValue]
    /\ counts = [pl \in Places |-> None]
    /\ using = {}
    /\ leaked = 0
    /\ faults = 0

GetRedis(p) ==
    /\ p \notin using
    /\ Cardinality(using) + leaked < PoolSize
    /\ using' = using \cup {p}
    /\ UNCHANGED <<entries, counts, leaked, faults>>

\* Mutant: the Jedis is not given back.
ForgetJedis(p) == p \in using /\ UNCHANGED <<using, leaked, faults>>

ReturnResource(p) ==
    /\ p \in using
    /\ using' = using \ {p}
    /\ UNCHANGED <<leaked, faults>>

Fault == faults < MaxFaults /\ faults' = faults + 1

\* select or the command threw: returnResource is not reached.
Broken(p) ==
    /\ p \in using
    /\ Fault
    /\ using' = using \ {p}
    /\ leaked' = leaked + 1

WriterCache(f, v) == entries' = [entries EXCEPT ![f] = v] /\ UNCHANGED counts
RemoveCache(f) == WriterCache(f, NoValue)
WriterCounts(pl, m) == counts' = [counts EXCEPT ![pl] = m] /\ UNCHANGED entries

\* Mutant: the map stays in the cache.
ForgetRemoval(pl) == UNCHANGED <<entries, counts>>

RemoveCounts(pl) == WriterCounts(pl, None)

\* The key expires with all its fields.
Expire ==
    /\ entries' = [f \in Fields |-> NoValue]
    /\ UNCHANGED <<counts, using, leaked, faults>>
=============================================================================
