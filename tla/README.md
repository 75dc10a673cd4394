# JavaStudyParent: models and proofs

The repository is a collection of Java projects. This directory holds TLA+ models of the parts of it
that carry a protocol or concurrent state of their own, the TLC runs that check them on small
instances, and TLAPS proofs of what matters most for every instance. `PROJECT.json` maps every
definition to the lines it stands for and lists runs, mutants, findings, hazards and theorems.

Run from this directory:

    tlc -workers 2 -config MutexLock.cfg MCMutexLock
    tlapm MutexLock_proofs.tla

The modules with proofs are `MutexLock_proofs`, `MutexClients_proofs`, `ZKPathUtil_proofs`,
`SharedClients_proofs`, `GroupLock_proofs`, `CacheSystem_proofs`, `SwaggerOAuth_proofs` and
`SwaggerClient_proofs`. Each takes between a few seconds and three minutes, but for the last, which takes
about ten.

## Inventory

`DL` is `src/WebCommonProjects/common-distributed-lock`, the package `com.bxtpw.common.distributed.lock`;
`UI` is `src/WebCommonProjects/common-swagger-supports/src/main/webapp/docs`, with `swagger-ui.js`,
`index.html`, `o2c.html` and `lib/swagger-oauth.js`.

| part | state | operations | interacts with | what is hard | correct when |
|---|---|---|---|---|---|
| `ZKPathUtil.createPersistentPath` (DL) | persistent znodes | make a path, prefix by prefix | ZooKeeper; called by every lock | two requests per prefix, raced by other clients; failure in the middle | the path exists when it returns |
| `ZookeeperMutexLock` (DL) | `step`, `isReentry`, `currentTryCount` per object; a set per thread; one ephemeral znode per resource | `lock`, `release` | the path utility, ZooKeeper, its callers | retries, lost answers, a session that ends under a holder, reentry, failure between two assignments | one thread at a time; reentry is honoured; the session agrees with what is locked |
| `ZookeeperSharedLock` (DL) | the same fields and set, with an entry per kind; a queue of sequential znodes per base path | `read`, `write`, `release` | the same | deciding on a snapshot of the queue, clean-up that fails, `read` outside the monitor, upgrade | a writer excludes everybody else, readers share |
| `ZookeeperGroupMutexLock`, `ZookeeperCombinationMutexLock` (DL) | `step`, `isReentry`, a list of inner mutexes; a set of session ids per thread | `lock`, `release` | the mutexes inside | failure of the n-th inner lock, opposite orders, session ids | all inner locks or none |
| `ProviderConfig` (DL) | an immutable configuration | builder | all locks | normalising paths, defaults | every path is a valid znode path |
| `common-cache`: `CacheAspect`, `CacheJobProcess`, `RedisCacheProvider` | a Redis hash per cache key; a map of visit counts per table column; a pool of Jedis; the connections of the `DataSource` | caching, evicting and counting advice; flush job; provider | database, Redis, other JVMs | refill racing evict, read-modify-write of the counts, a flush racing visits, an answer that is lost, a Jedis or a connection that is not given back | an entry is older than the record only by a read that overlaps an update; a visit is counted once; calls return |
| swagger client, load of a description (UI) | a description, the counters of what is outstanding, a promise or callbacks | `build`, conversion of a 1.x listing, rounds of the resolver, `buildFromSpec` | servers, whoever waits for the client | answers in any order, the last one finishes a round; clashing names; exceptions between a count and its test | no operation is lost, references mean what they meant, whoever waits hears once |
| swagger client, requests of operations (UI) | the credentials of a client | `execute`, `asCurl`, `apply` | the form views, servers | media types and credentials computed twice, for the request and for the curl command | both agree; credentials reach the operations that ask for them |
| documentation page (UI) | router, newest client, container, message bar, one view per operation | `load`, `render`, `onLoadFailure`, `submitOperation`, `showStatus` | clients of earlier loads, requests of forms | clients and answers that come late | what is shown is the newest description's, throbbers tell the truth |
| sections and signatures of the page (UI) | which lists and contents are open, the address, the nicknames of operations | folding, `shebang`, `schemaToHTML` | the client's description, the browser's history | links made before a rendering that changes names; models that mention each other | a link leads back to its operation, a signature spells out what it mentions |
| OAuth login (UI) | three globals, the icons of the page | login dialog, three flows, logout | the page, windows, token endpoints | logins that overlap share the globals | a token lands where it was asked for, icons tell what was granted |
| libraries in `swagger-ui.js`, `marked.js` | - | promises (`q`), requests (`superagent`), parsers, collections | the client | - | the promise is modelled with the client |
| `RPCStudy` | registry, worker pool, sockets | register, start, call | server and client | a client that fails in the middle, pool exhaustion | every call is answered by the service it named |
| `ConcurrentProgram` | warehouse with semaphores, bounded set, memoizers, crawler and indexer | produce, consume, add, remove, compute | threads | blocking in one order and releasing in another, a permit lost on failure, computing twice | bounds hold, nobody waits for ever |
| `JavaSECore` thread tests | warehouse with `wait`/`notifyAll` | produce, consume | threads | everybody waiting | stock stays in its bounds |
| `rabbitmq-hello-world` | queues, correlation ids | RPC client and server | broker | redelivery, mixed replies | a caller gets the reply to its own request |
| `RTree` | third-party page-based R-tree; an IP range tree of the repository's own | insert, delete, search | page file | rebalancing, page reuse | search finds what was inserted |
| everything else | - | demonstrations of Lucene, Hibernate, Redis, Dubbo, RMI, Hessian, sockets and Curator; web, validation and code-generation helpers; design patterns, sorts and utilities | libraries | - | - |

The locks come first: they are the only part of the repository that is a distributed protocol written
here, and other projects depend on what they promise. Next come the cache, which is shared by threads,
JVMs and jobs, and the documentation page, which is the largest part of the source and one in which
everything happens in the callbacks of requests that may end in any order.

## Plan

1. Done: the locks (`ZKPathUtil`, `MutexLock`, `MutexClients`, `EphemeralMutex`, `SharedLock`,
   `SharedClients`, `GroupLock`) and the proofs about all of them.
2. Done: the cache (`RedisCacheProvider`, `CacheAspect`, `CacheSystem`) and the proofs that an entry is
   stale only by a race and that a visit is counted once (`CacheSystem_proofs`).
3. Done: the documentation page: the client's load (`SwaggerClient` on `SwaggerHttp`,
   `SwaggerResolver`, `SpecConverter` and `QPromise`) against what it promises (`ClientLoad`), and the
   proofs about it (`SwaggerClient_proofs`); the sections and signatures of the page a built client is
   shown on (`SwaggerDocs` on `SwaggerSignatures`); the forms of the page (`SwaggerUi` on
   `SwaggerOperation` and `SwaggerAuth`) with the OAuth login (`SwaggerOAuth`), and the proofs about the
   forms and the login (`SwaggerOAuth_proofs`).
4. Left to prove: the sections and signatures (`SwaggerDocs`).
5. Left to model: the demonstrations of `ConcurrentProgram` (warehouse, memoizers) and of `RPCStudy`;
   path normalisation as a pure module.

## Modules

| module | models | notes |
|---|---|---|
| `ZKPathUtil` | `createPersistentPath`, client sessions, persistent znodes | `mkpath[t]` is the call a thread is in; `PathExists` and `PathCreate` are one request each. Extended by all lock modules. |
| `MutexLock` | `ZookeeperMutexLock` with `AbstractLock`, callers free | One action per stretch of code between two requests or sleeps. |
| `MutexClients` | the same, called as in the README and the test: make, lock, body, release in `finally`; blocks nest | Composes `MutexLock` with a stack of blocks per thread. |
| `EphemeralMutex` | what the mutex promises | Abstract; `MutexClients` implements it (`ImplementsPromise`). |
| `SharedLock` | `ZookeeperSharedLock`, callers free | Because `read()` is not synchronized, the test of `step`, `init()` and the test of `isReentry` are three actions (`ReadEnter`, `Read`, `LoopTest`); the increment of `currentTryCount` is in one step with the test before it. |
| `SharedClients` | the same, called as in the README | |
| `GroupLock` | both group locks, called as in the README, with their inner `MutexLock`s | The two classes have the same `lock()` and `release()`; they differ in `Items`, `BasePaths` and `SessionIdOf`. |
| `RedisCacheProvider` | `RedisCacheProvider` and its Jedis pool, over Redis as what it holds | One command per `getRedis` and `returnResource`, as in the code. |
| `CacheAspect` | the three advices of `CacheAspect` | One action per command, database call or test between them. |
| `CacheSystem` | aspects and the `CacheJobProcess` of every JVM | Composes the other two. |
| `SwaggerHttp` | one exchange of `SwaggerHttp` and `superagent` | Which of the two callbacks runs, and with what. |
| `QPromise` | `defer`, `then` and the task queue of `q` | Handlers on handlers; turns of the queue. |
| `JsObject` | objects as functions from their members | `With` and `Over` set and merge members. |
| `SwaggerModels` | the schemas of a description and what `Resolver` does to inline objects | A schema is a record. |
| `SwaggerSignatures` | `schemaToHTML` | A signature is the sequence of its headings. The only module with `RECURSIVE` operators. |
| `SwaggerResolver` | `Resolver` | One operator per part of `resolve` and `finish`. The rounds of a resolver that has nothing to fetch are a recursive function. |
| `SpecConverter` | `SwaggerSpecConverter` | Folds the API declarations of a 1.x listing, with their types, media types, credentials and address, in the order of their answers. |
| `SwaggerClient` | `SwaggerClient.build`, `buildFromSpec` and their callbacks | Composes the four above and `SwaggerModels`; one action per answer. |
| `ClientLoad` | what a client promises to those who wait | Abstract; `SwaggerClient` implements it (`ImplementsLoad`). |
| `SwaggerDocs` | `MainView`, `ResourceView`, folding, `Docs.shebang`, the signatures | Extends `SwaggerClient` and `SwaggerSignatures`: the success callback renders in the turn that built the client. |
| `SwaggerAuth`, `SwaggerOperation` | credentials; an operation as a request and as a curl command | Operators only. |
| `SwaggerUi` | the router, `HeaderView`, `MainView`, `OperationView` and `index.html` | Sees clients as `ClientLoad` promises. |
| `SwaggerOAuth` | `swagger-oauth.js`, `o2c.html` | Extends `SwaggerUi`. |
| `ZKPathUtil_proofs` | lemmas about the types of `createPersistentPath` and of sessions | Used by the shared and the group lock. |
| `MutexLock_proofs`, `MutexClients_proofs`, `SharedClients_proofs`, `GroupLock_proofs`, `CacheSystem_proofs`, `SwaggerClient_proofs`, `SwaggerOAuth_proofs` | theorems about the module they are named after | `SharedClients_proofs` holds those about `SharedLock` too. See Proofs. |
| `MC...` | instances for TLC | |

### State and code

* `step`, `isReentry`, `tryCount` are the fields of `AbstractLock` (`tryCount` is `currentTryCount`).
* `session[t]` is what the static `ThreadLocal` holds for thread `t`; in `SharedLock` an entry is a pair
  of the resource and the kind, for the suffixes `_r` and `_w`.
* `pc[t]` and `cur[t]` (`job[t]` in `SharedLock`) say where a thread is inside a call and on which
  object. A thread inside a synchronized method of an object holds its monitor: `MonitorFree`.
* `znode[r]` is the lock object that created the ephemeral znode of `r`. `children[root]` is the set of sequential
  znodes below a base path, each a record of its lock object, its kind and its sequence number, and
  `nextSeq[root]` the parent's counter: ZooKeeper lists children in no order, and the code compares
  their suffixes.
* `outcome[l]`, `caller[l]` and `held` are what the callers have been told. Actions do not read them,
  except for the blocks of the client modules and the rollback of a group, which test how a call ended.
* In `CacheSystem` `entries`, `counts` and `table` are what Redis and the database hold, `copy[p]` what
  process `p` has read, `using` and `leaked` the pool of Jedis, `connected` and `lost` the connections of
  the `DataSource`; `prepared` holds the jobs whose `st` is not null, which decides if a failing run closes
  its connection. `visits`, `disturbed`, `raced` and `excused` are
  histories: the visits made, the columns whose counts were written over or whose command took effect
  and failed, the threads whose miss overlaps an update, the fields they filled.
* In `SwaggerClient` `net` holds the requests that are not answered, `round` and `conv` the resolver and
  the converter; `told`, `ran` and `fetchFailed` are histories of what callbacks and handlers heard.
* In `SwaggerDocs` `page` holds the views in their order, `lists` and `contents` what is unfolded,
  `nicknames` the field that rendering writes, `hash` the address and `timeouts` the calls of `shebang`
  that are due. `opened` and `quiet` are histories: the operation whose link wrote the address, and
  whether the user has clicked since the page was rendered.
* In `SwaggerUi` `api` is the sequence of all clients made, of which the router knows the last; `view` is
  what is in the container. `ended`, `must` and `lastGrant` are histories: which client ended last, which
  credential was given for a scheme since the last logout, which scopes the last token was for.
* In `SwaggerOAuth` `tokenName` is the global `window.swaggerUi.tokenName`, which a login sets and the
  answer of another may read.
* `expired` is the set of handles (`ZooKeeper` objects) whose session has ended. A JVM has one handle,
  as in the test. That a JVM dies is `SessionEnd` with its threads taking no further step.

### What is abstracted

* A call on an object whose `step` is wrong throws and changes nothing: such calls are stuttering steps.
* Resource names, roots and paths are model values. What matters of the text is kept as relations:
  `NameContains` for the substring test in `executeRead` and `executeWrite`, `SessionIdOf` for the
  concatenated ids of a group.
* A request to ZooKeeper is answered in one step, and either applied and answered, applied and not
  answered, or not applied. A request that reaches the server after its client has given up is not
  modelled.
* The memory model is not modelled: steps of threads interleave and every read sees the last write.
* The sequence number of ZooKeeper does not overflow.
* Interrupting a thread in a request looks like a lost connection; interrupting its sleep ends the sleep.

* Requests of the page have no timeout and are never aborted: one life, ended by the browser.
* An operation has one body parameter at most. What a form of the page sends is what its fields and its
  selects can hold: a form with a body always has a parameter content type (`ContentTypes`). The login
  knows the schemes of Swagger 2.0; `grantTypes` of 1.x schemes (`swagger-oauth.js:144`) are left out.
* No tag or operationId is a reserved word of the client, which the code would prefix with `_`
  (`swagger-ui.js:1467`); two of them could then meet. References name a definition of the document or of a
  document with an absolute address: those to a file beside it (`b.json#/y`), which `retainRoot` turns into
  an address with two `#` when their object is copied (`swagger-ui.js:2473`), are left out.
* Definitions, media types, schemes and forms are small records; what templates print, YAML, collection
  formats, encodings and `options.spec` are left out. Names are sequences of words, because ids of
  elements join them with `_`; a tag is odd when the address encodes it.
* `SwaggerModels` leaves out samples (`schemaToJSON`), the option texts of properties, and inline objects
  of body parameters. The references of a description are given beside its schemas. A 1.x type that is
  named in `responseClass` or `dataType` only is not in the catalogue, nor an array without items.
* Folding takes no time, `docExpansion` is `"none"` as in `index.html`, and the buttons of the page's
  head that fold everything are not there, as in its templates.
* The `DataSource` is a pool of `Connections` whose `getConnection` throws, gives a connection or waits for
  one, as that of c3p0 does by default, which `common-mybatis/pom.xml:100` brings. A `close()` that throws
  gives the connection back all the same. All processes share one pool of Jedis and one of connections,
  where the code has one of each per JVM: sharing makes the JVMs wait for each other, too.
* The cache's serialisation, the parsing of key expressions and the choice of a Redis database are left
  out; an entry may expire at any time.

## Runs

All configurations switch deadlock checking off, because every system here may stop: lock objects are
used once (`step` only goes up), a client's load ends, and the calls of the cache and the acts of the
page's user are bounded.

| run | instance | what it shows |
|---|---|---|
| `mutex` | 3 threads, 2 JVMs, 3 objects on 1 resource, a base path of 2 prefixes, 2 tries, requests fail | `HolderOwnsNode`, `BasePathReady`, `RefusedAfterAllTries`, `NodeLivesWithSession`, the inductive invariant `LockInv`, and that `lock()` returns (`LockReturns`) |
| `mutex_clients` | 3 threads, 2 JVMs, 4 objects on 2 resources, 1 try, requests fail, blocks nest | `MutualExclusion`, `SessionMatchesFrames`, `ReentryHonoured`, `ReentrantUnderHolder`, refinement of `EphemeralMutex`, and the inductive invariant `ClientInv` |
| `mutex_not_freed` | the same, requests do not fail | violation: see finding 1 |
| `shared_clients` | 3 threads, 2 JVMs, 4 objects on 2 resources, one name containing the other, 1 try, sessions end | `SharedExclusion`, `HolderAhead`, `ReentrySound` |
| `shared_retry` | 1 object in each of 2 JVMs, 3 tries, requests fail | the inductive invariant `SharedInv`, with znodes of earlier tries around; every call returns (`CallReturns`) |
| `shared_race` | 2 threads sharing 1 object | violation: finding 2 |
| `shared_reentry` | as `shared_clients`, one resource | violation: finding 3 |
| `group` | 4 groups of three, two and one locks over 3 resources below two base paths, opposite orders, 2 JVMs, sessions end | `FirstGroupOwnsAll`, `RefusedGroupHoldsNone`, `GroupReturns` |
| `group_stale` | the same, requests do not fail | violation: finding 4 |
| `swagger_client` | 25 descriptions, each with callbacks or a promise with two handlers, every answer in every order and in each of five ways; on five of them 4 acts on the page | `ConversionOrderFree`, `CountersAgree`, `ResolvedAsMeant`, `EveryOperationOffered`, `HandlersInOrder`, `SignatureComplete`, `HashLeadsBack`, refinement of `ClientLoad` |
| `swagger_page` | two descriptions, five forms, one key, 3 acts of the user | `PageTellsNewest`, `ThrobberTells`, `GrantsKept`, `IconsTellLastGrant`, `CurlRepeatsRequest`, `ThrobberStops` |
| `cache` | 3 threads of 3 JVMs (one with the cache closed), jobs of 2, two fields, one column annotated twice, 2 Jedis, 2 connections of the database, 3 calls, 2 faults | `CountsExact`, `StaleOnlyByRace`, `CacheCallsReturn` |

Why the bounds are enough for the cases that matter: two JVMs give the race for a znode and for a base
path; two threads in one JVM give the difference between a thread's session and a JVM's; two objects of
one thread on one resource give reentry; two prefixes give a path that is half made; two tries give a
first, a repeated and a last try. `MaxCalls` = 3 calls give the cache a reader, a refill and an update, or
two visits and a flush, at once; `MaxFaults` = 2 empties
the pool of `PoolSize` = 2 Jedis or of `Connections` = 2, or loses one of each. `MaxActs` = 3 acts
give the page a reload over a reload, a login over a login or a submit over a submit, with one more act
to tell them apart. The seven rounds of the resolver are the code's own bound (`MaxIteration`), and
chains of seven and eight documents are on both sides of it. `MaxClicks` = 4 acts on a page open a
section, follow a link, reload or let an older client succeed, and leave one to undo; the pages have
twins below one and below several tags, ids that join to the same text, and a tag the address encodes. No state constraint and no symmetry is used; every run explores its
whole state space. Each property of a passing run has a mutant: an operator next to the definition it
replaces, marked `Mutant:`, that breaks the property.

### Fairness

`LockReturns`, `CallReturns` and `GroupReturns` assume weak fairness of the steps of each thread inside
a call: the JVM schedules its threads, the ZooKeeper client answers or fails every request, and every
sleep ends. Nothing is assumed of callers (they may never release) nor of sessions (they need not end).
No call waits for another thread except for the monitor of an object.

`CacheCallsReturn` assumes weak fairness of every thread and job inside a call (`Borrow` of a Jedis,
`Connect` to the database, and the steps after them): no annotated method has to be called and no command
has to fail. The pools need not be fair: who waits gets its turn because the calls are bounded. `ImplementsLoad`
and `ThrobberStops` assume that the browser ends every request and that the event loop runs the task
queue to its end (`AnswerFair`, `WF_vars(Turn)`). `AnswerFair` is weak fairness of the answers with its
enabling condition, that some request is out, written in place of `ENABLED`. Users, windows in which
somebody should sign in and token endpoints owe nothing.

## Findings

1. `mutex_not_freed`. `release()` never deletes the znode (`ZookeeperMutexLock.java:101`): a resource
   stays locked for everyone until the holder's ZooKeeper session ends. The abstract specification says
   what is really promised: the owner keeps the resource after leaving it. The rollback of a refused
   group leaves its znodes in the same way (`ZookeeperGroupMutexLock.java:125`), and so does the shared
   lock.
2. `shared_race`. `read()` is not synchronized (`ZookeeperSharedLock.java:184`).
3. `shared_reentry`. The `release()` that follows a refused upgrade removes the session entry of the
   read lock around it.
4. `group_stale`. The session of the group locks is never cleared (`ZookeeperGroupMutexLock.java:143`).
   The session id of a combination leaves out the base paths too
   (`ZookeeperCombinationMutexLock.java:73`), with the same consequence.

Also seen, without a run. Session entries of shared locks leave out the base path
(`ZookeeperSharedLock.java:68`): with two roots that both hold a resource of one name `SharedExclusion`
fails. A thread that does not call `release()` after `lock()` threw in `init()` (the
race for the base path) keeps a session entry, and its next `lock()` is taken for reentrant while another
thread holds the resource; with the calling pattern of the README this does not happen, which is what
`MutualExclusion` and `SessionMatchesFrames` show in `mutex_clients`. A reader is refused while only
readers hold when a writer's znode is ahead of its own, even if that writer is about to be refused. The
roots `"mutex"` and `"/comb/type1/"` of README and test are not normalised when they are given to
`ProviderConfig.builder`.

On the documentation page: an older client that succeeds after the newest renders the newest again, or,
while that is still loading, leaves the message that says loading has finished. A reference that starts
with `http` is kept without its document (`swagger-ui.js:2369`), so two documents that define one name
overwrite each other. A model of another document that refers to itself is fetched in all seven rounds. A
third operation of one id and tag takes the name of the second. A declaration without `basePath` that is
answered last loses the load: nobody is told. Two logins, or a login and a logout, share the globals of
`swagger-oauth.js`. In a 1.x listing the address of the declaration answered last is the address of all
operations, and an operation without media types has those of whatever declaration was folded in before
its own. Each rendering can change the nickname of a twin whose tags are shared, so links to it stop
leading anywhere; `shebang` never finds a tag the address encodes (one in Chinese, say), and ids that
join to the same text open the wrong operation. In a signature, an inline object with a title is looked
up by its title after the resolver has moved it and shows nothing, and so do the items of a tuple
(`swagger-ui.js:2985`, `3020`). The properties state under which conditions none of this happens.

## Proofs

### The mutex

What the runs `mutex` and `mutex_clients` show of safety on one instance is proved for every number of
threads, JVMs, lock objects, resources, base paths, prefixes and tries. The only assumptions are the
named ones on the constants: every thread and every lock object has a handle (`ClientAssumption`,
`LockAssumption`), every resource a base path that has at least one prefix (`PathAssumption`), requests
may or may not fail (`LossyAssumption`), and `NoLock` and `NoThread` are no locks and no threads.

| theorem | of | says |
|---|---|---|
| `TypeCorrect` | `Spec` | `[]MutexTypeOK` |
| `FieldsAgree` | `Spec` | `[]LockInv`, the inductive invariant |
| `BasePathThere` | `Spec` | `[]BasePathReady` |
| `NodeLives` | `Spec` | `NodeLivesWithSession`, an action property |
| `HolderKeepsNode` | `Spec` | `[]HolderOwnsNode` |
| `RefusedInTime` | `Spec` | `[]RefusedAfterAllTries` |
| `ClientTypeCorrect` | `ClientSpec` | `[]ClientTypeOK` |
| `BlocksAgree` | `ClientSpec` | `[]ClientInv`, the inductive invariant |
| `Exclusion` | `ClientSpec` | `[]MutualExclusion` |
| `SessionExact` | `ClientSpec` | `[]SessionMatchesFrames` |
| `ReentryStands` | `ClientSpec` | `[]ReentrantUnderHolder` |
| `ReentryFound` | `ClientSpec` | `[]ReentryHonoured` |
| `Implements` | `ClientSpec` | `ImplementsPromise`: the mutex implements `EphemeralMutex` |

The argument. `HolderOwnsNode` does not follow from itself: to know that a step of another thread does
not touch the fields of the holder one needs that a thread inside `lock()` is alone with its object and
is the one recorded as its caller (`CallsMatchObjects`, from the monitor and `step`), and to know that
`execute()` is reached with a base path, that the prefixes already passed exist (`PrefixesMade`). These,
with the count of tries and the ownership of znodes, are `LockInv`. A znode that is there is only removed
by the end of a session (`ZnodeStep`), so a holder keeps it.

`MutualExclusion` is not true of free callers: a thread may release an object that another thread locked
and leave that thread's session behind. With the calling pattern of the README the blocks of a thread
are a stack, and `ClientInv` says what `lock()` and `release()` make of it: all blocks but the innermost
are held, on each resource exactly the outermost block is not reentrant (so its `release()` is the last),
and the session holds the resources of those outermost blocks. A reentrant holder thus stands on a
holder with the znode (`HolderUnder`); a resource has one znode; so two holders are one thread. The
clients' steps are steps of free callers (`ClientsCallLocks`), so `LockInv` and `HolderOwnsNode` are
taken over and not proved again.

The refinement maps a resource to the caller of the lock object that made its znode (`Owner`) and to the
objects held on it in live sessions (`HeldOn`). One lemma per kind of step: a `create()` that made the
znode is `Acquire`, or `AcquireUnnoticed` when its answer was lost; a reentrant `lock()` is `Reenter`,
which needs `HolderIsOwner`; `release()` is `Exit` when the session lives and nothing when it has ended;
the end of a session is `EndSession`; all other steps change nothing.

### The shared lock

| theorem | of | says |
|---|---|---|
| `SharedTypeCorrect` | `SharedLock!Spec` | `[]SharedTypeOK` |
| `SharedClientTypeCorrect` | `ClientSpec` | `[]ClientTypeOK` |
| `SharedInvariant` | `ClientSpec` | `[]SharedInv`, the inductive invariant |
| `HolderAheadAlways` | `ClientSpec` | `[]HolderAhead` |
| `ReentryAlwaysSound` | `ClientSpec` | `[]ReentrySound` |
| `SharedExclusionHolds` | `ClientSpec` | `[]SharedExclusion`, if `OnePathPerResource` |

For any numbers of threads, JVMs, lock objects, resources, base paths and tries, whatever names contain
whatever others. The types hold of free callers; the rest is of the calling pattern of the README, as
`shared_race` shows it has to be. `SharedExclusion` does not follow from itself, because a thread decides
on a list of children that other threads go on changing. What does: a held lock that asked ZooKeeper has a
znode in front of all that have to wait for it (`HolderAhead`: of a writer all znodes, of a reader those
of writers), and znodes are only added with a larger number (`NodesNumbered`), so nobody overtakes it; a
thread that is about to decide finds its own znode (`NodeListed`). Two holders would each have a znode in
front of all the other's, which the smallest number among them refutes (`NoMutualLead`). A znode left by
a failed try does no harm: it only makes others wait. The other parts of `SharedInv` make reentry sound:
the blocks of a thread are a stack (`BlocksNest`), a reentrant hold has a stronger hold of the same
thread in a block around it (`ReentryInside`), a session entry is there for a hold or for the call
that asks ZooKeeper (`EntriesEarned`), and a call that stands before its loop with `isReentry` set still
has the entry it found (`EntryFound`).

`OnePathPerResource` is a hypothesis of the last theorem only, and it is needed: session entries leave the
base path out (`ZookeeperSharedLock.java:68`), so a thread that holds a resource below one base path is
let into the resource of the same name below another.

### The group locks

| theorem | of | says |
|---|---|---|
| `GroupInvariant` | `GroupSpec` | `[](GroupTypeOK /\ GroupInv)`, the inductive invariant |
| `EntriesBelong` | `GroupSpec` | `[]EntryInv`: every session entry belongs to an inner lock of a group the thread is in |
| `RefusedHoldsNone` | `GroupSpec` | `[]RefusedGroupHoldsNone`: no inner lock held, and no session entry but of blocks further out or of a lock whose `init()` threw |
| `FirstGroupOwns` | `GroupSpec` | `[]FirstGroupOwnsAll` |
| `GroupExclusion` | `GroupSpec` | `[]GroupsExclude`: two threads never hold two first groups with a common resource |

For any groups with any number of inner locks, in any order and overlap. Assumed of the constants is that
no inner lock belongs to two groups or twice to one (`GroupAssumption`): both constructors make their own.
The theorems need to know of every inner lock how far its group has come (`ItemsInOrder`: those before the
place are held, the one at the place may be in doubt, those behind are untouched; in the undoing those
before are held or released, in any order).
All mutexes of a thread share one session, in which an entry outlives the lock it was made for as long as
a refused inner lock is not released; `EntriesOwned` says that an entry stands for a znode the thread owns,
or for such a lock in doubt, so that what is taken for reentry is owned. `EntryInv` looks at the same
entries from the other side: each belongs to an inner lock that is held in a block of the thread, to one in
doubt, or to one whose `init()` threw before its first try (`tryCount` = 0). `release()` goes through the
inner locks in turn, so those behind it are free (`FreedSoFar`), which is why it leaves no entry behind when
the last one is done, also when a `release()` inside threw. `GroupInv` and `EntryInv` were checked by TLC on
the instance of `group`, with failing requests (888,403 states) and without (263,056); they are no invariants
of the run, because they are proved. The group's own session is never cleared (finding 4), which is
why the theorems are about groups that were not taken for reentrant.

### The cache

| theorem | of | says |
|---|---|---|
| `EntryStaleOnlyByRace` | `CacheSystem!Spec` | `[]StaleOnlyByRace` |
| `VisitsCountedOnce` | `CacheSystem!Spec` | `[]CountsExact` |

For any numbers of threads, fields, places, Jedis and connections and any finite number of jobs. Assumed is what the
constants are (`CachePoolAssumption`), that an update evicts every field its record is cached in, in some
order (`CacheAnnotationAssumption`), and that the job has places to visit (`CacheJobAssumption`). The
inductive invariant `StaleInv` says of a thread that is about to fill a field that it holds the record
of now or is in `raced` (`FillsSafe`), and of a thread in the middle of an update that the fields it has
removed so far are empty, filled with the record of now, or excused, and that every thread that missed
since is in `raced` (`EvictionHolds`); then the update itself makes no entry stale that is not excused.
`StaleOnlyByRace` does not follow from itself because the removal and the update are several steps.

`CountsExact` is inductive with the types of the maps (`CountInv`): what a job has read stays what it owes
to the cache until it removes it. Its sum over the jobs in the middle of a flush is a fold over a finite
set; that adding or removing one job adds or removes one term is shown by the well-foundedness of the
subsets of a finite set, since the induction theorems of the library cannot be instantiated.

### The forms of the page and the login

| theorem | of | says |
|---|---|---|
| `PageInvariant` | `SwaggerOAuth!Spec` | `[]PageInv`, the inductive invariant |
| `PageShowsNewest` | the same | `[]PageTellsNewest` |
| `ThrobberTellsOfRequest` | the same | `[]ThrobberTells` |
| `IconsTellGrant` | the same | `[]IconsTellLastGrant` |
| `GrantsAreKept` | the same | `[]GrantsKept`, if `NoTokenParameter` |
| `CurlCommandRepeats` | the same | `CurlRepeatsRequest`, an action property |

For any descriptions, schemes, scopes, forms, keys and any number of acts of the user, reloads, logins and
requests under way. Assumed of the constants is that parameters and schemes are lists
(`OperationAssumption`, `OAuthAssumption`) and that `NullScopes` is no set of scopes.

`PageInv` is the types of the page and of the logins, with what makes the three properties inductive: no
two requests have one id and a view knows the last it sent (`RequestsKnown`), and a login that nobody
disturbed finds the scopes it chose, and the name of its token, in the page's globals
(`LoginsUndisturbed`). `GrantsKept` needs more:
the newest client has exactly the credentials that were given, each a token of the header but for the
page's own key (`CredentialsAgree`), and every request under way carries them (`RequestsCarry`). That a
request carries a credential is a fact about the fold in `SwaggerAuthorizations.apply`, that a credential
is kept by a reload one about the fold that copies them (`ApplyBears`, `ApplyKeeps`), and they are found by
looking at the first partial result that is not as it should be (`FirstWrong`). `CurlRepeatsRequest` rests
on the view having kept the form of the request it sent last (`RequestsServe`), with the media type that
was chosen among its arguments (`Recorded`), and on a second
application of the credentials changing nothing (`ApplyTwice`), with other media types making no
difference (`ApplyTwins`). For every operation it speaks of the path, the query and all headers but
`Accept` and `Content-Type`; of the body and its `Content-Type` where the operation is `Plain`. An upload is
sent as `FormData`, which a curl command does not repeat, and an operation that mixes a body with form
fields sends the chosen type, where the command has the one of the fields: neither is a property of the code. TLC checked `PageInv`, `CredentialsAgree` and `RequestsCarry` on the instance of
`swagger_page` before they were proved.

`NoTokenParameter` is a hypothesis of one theorem: no operation declares a header parameter named
`Authorization`. Where one does, what the user types there goes before the token (`swagger-ui.js:1070`),
and the request does not carry the token, as it should be.

### The load of a description

| theorem | of | says |
|---|---|---|
| `QInvariant` | `SwaggerClient!Spec` | `[]QInv`, the inductive invariant of the promises |
| `HandlersAreCalledInOrder` | the same | `[]HandlersInOrder` |
| `Phases` | the same | `[]PhaseInv`, the inductive invariant of the load |
| `CountersAlwaysAgree` | the same | `[]CountersAgree` |
| `LoadImplemented` | the same | `Load!Init /\ [][Load!Next]_(Load!lvars)`: the safety part of `ImplementsLoad` |
| `EveryOperationIsOffered` | the same | `[]EveryOperationOffered` |
| `EveryReferenceIsResolved` | the same | `[]ResolvedAsMeant` |
| `ConversionKeepsOrderOut` | the same | `[]ConversionOrderFree` |

For any number of documents, definitions, references, declarations, operations, tags and handlers, answers
of any kind in any order, and any number of rounds. Assumed is that what servers send is finite, that a
listing lists declarations there are, and, of `doc`, a field of references and definitions that no action
reads, that it is the document that the text means: `WorldsAssumption`, whose `FiniteDeclaration` also says that a
type of a declaration is named by `$ref` or by `type`, a list by what it holds; that `Nil` is not the
word "array" (`NilAssumption`); that handlers are numbered and
made in that order (`HandlersAssumption`); and that the words a reference can start with are different
(`RootsAssumption`).

`QInv` says where a handler is that was registered and has a parent: with its promise while that is
pending, then in the task queue, then among those that ran, in one place each; that handlers of one
promise pass these places in the order of their numbers; and which rejections `q` tracks.
`HandlersInOrder` speaks of those that ran and does not follow from itself.

`PhaseInv` is a disjunction: a load waits for its description (`SpecPhase`), for declarations
(`DeclPhase`), or for the fetches of a round (`RefPhase`), or is over (`EndPhase`), in one of three ways.
In each phase the counters are what is still to come, and nobody has been told before the last. The refinement of `ClientLoad` has one lemma per kind of step: an
answer that leads into the last phase ends the load (`EndOutcome`), and a turn of the queue makes a handler
hear of an end that is there (`TurnLoad`).

`EveryOperationOffered` is what `buildFromSpec` leaves: its loops over operations and tags are folds, and
what holds of each partial result (`Grouped`: a group holds the operations so far that have its tag, in
order; `Named`: its table holds the same, each under its id or its id and a number) holds of the last,
because otherwise there would be a first partial result of which it does not.

`ResolvedAsMeant` needs `ResolveInv`: of a description that can be followed in a number of levels of fetches
(`Followed`), the round of each level asks for the documents of that level (`OnItsWay`), every item of it
is outstanding or its answer is kept under its key (`WellKept`), and no fetch of it is made a second time. Keys leave the
document out, and tell targets apart only because no two documents define one name, which is a hypothesis
of the property and needed (see Findings). What has been copied from another document keeps the root of
that document until the round that installs it, and means the same there (`RetainedMeant`,
`InstalledMeant`). That no fetch failed is the other hypothesis, inside the property.

`ConversionOrderFree` compares the description built from a listing with the one of a declaration alone,
and each is a fold whose steps read what earlier ones left: the media types and the `modelMap` of other
declarations. Its invariant (`OrderInv`) says of the object the answers have filled so far that every
operation in it comes from a declaration of the listing, and that a declaration which says everything
itself and shares no name and no place with another is in it as it is alone, or not at all (`Gathered`).
One more answer keeps that, whichever it is (`FoldGathers`): what the declaration converts to does not
depend on the object it is folded into (`ConversionsAlone`), and what is folded in later neither replaces
nor renames it. The resolver then works on that description in rounds, which change references and add
definitions and leave operations and models alone (`Carried`); of a description converted from 1.x there
is nothing to hoist, since its schemas hold no inline objects (`HoistedPlain`). The hypothesis on the
declaration is the property's (`SelfContained`) and needed: the order of the answers decides about a
shared name and about media types left out (see Findings).

Recursive functions, over numbers and over subsets of finite sets, are shown to have the values their
equations give by the well-foundedness of the subsets of a finite set and of the numbers
(`ChainExists`, `LeastNat`), since the library's induction theorems cannot be instantiated.

### What is not proved

Only model-checked: liveness (`LockReturns`, `CallReturns`, `GroupReturns`, `CacheCallsReturn`,
`ThrobberStops`, and that a load ends, which is the fairness of `ClientLoad` in `ImplementsLoad`), which
with fairness and `ENABLED` is out of reach of the prover; and `SignatureComplete` and `HashLeadsBack`, because
`SwaggerDocs` reaches the recursive operators of `SwaggerSignatures`, with which the prover has no SMT
backend.

## Not modelled

The parts listed in `PROJECT.json` with status `not_modelled`: demonstrations of libraries and of
language features whose state does not outlive one method (`ConcurrentProgram`, `JavaSECore`, RabbitMQ,
Lucene, Hibernate, Dubbo, RMI, sockets, Curator), the third-party R-tree, and the stateless helpers, sorts
and patterns. Of the documentation page: what the templates print, samples and the widgets of
parameters, and the bundled parsers and collections (`js-yaml`, `esprima`, `lodash`, the `Buffer` shim,
`marked.js`), which it calls as functions.
These, with `marked.js` and the compiled templates, are most of the JavaScript here: of the 26,000
lines of `swagger-ui.js` about 6,000 are the client and the page, and the rest is bundled third-party
code, of which only what the client waits on (`q`, `superagent`) is modelled.
