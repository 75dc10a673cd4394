---------------------------- MODULE MCCacheSystem ----------------------------
\* Threads of three JVMs, one with the cache closed, and the jobs of two, on a
\* pool of two Jedis; the update evicts the two fields of the record, and two
\* methods count visits in one table column.
EXTENDS CacheSystem

CONSTANTS t1, t2, t3, j1, j2, f1, f2, pl1, a, v

MCEvictFields == <<f1, f2>>
MCJobList == <<pl1, pl1>>
=============================================================================
